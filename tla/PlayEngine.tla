------------------------------- MODULE PlayEngine -------------------------------
(***************************************************************************)
(* The theatre (internal/galgame/play/engine.go, internal/host/play.go): an *)
(* engine writes the beats of a branching play ahead of its player, stops at *)
(* every choice and goes on once the player has chosen.                    *)
(*                                                                         *)
(* The engine is a goroutine; turning a page, choosing, replanning, pausing *)
(* and starting are requests of the player, handled in goroutines of their *)
(* own.  They share the files of the play.  The mutex and the wake channel *)
(* belong to an engine value, of which every start makes a new one, and a  *)
(* request that finds no engine running makes one for itself.              *)
(*                                                                         *)
(* Of the story only the shape is modelled: which beats are choices, which *)
(* station a beat belongs to, how far the stations are.                    *)
(***************************************************************************)
EXTENDS Naturals, Sequences, FiniteSets

CONSTANTS
  Ahead,       \* textAhead: how many beats the engine may be ahead
  CardPlans,   \* what the planner may return: sequences of beat kinds
  Pure,        \* pacing "pure": no choices
  NStations,   \* stations of the first spine
  MaxStations, \* maxSpineStations
  MaxIds,      \* bound on station ids
  MaxBeats,    \* bound on ordinals
  Gens,        \* engine values, 1..n
  Turners, Choosers, Replanners, Pausers,  \* the requests that may be made
  Picks,       \* the options of a choice that are taken: "go", "end"
  Patient,     \* a request is only made when no other one is in flight
  Failing,     \* whether model calls may fail
  MaxCrashes,  \* bound on process deaths
  MaxEdits     \* bound on edits of the play's settings

Callers == Turners \cup Choosers \cup Replanners \cup Pausers

ASSUME AheadAssumption   == Ahead \in Nat \ {0}
ASSUME PlansAssumption   ==
  \A p \in CardPlans : /\ p \in Seq({"beat", "choice"}) /\ p # <<>>
                       /\ \A i \in 1..Len(p) - 1 : p[i] = "beat"
ASSUME FlagsAssumption   == {Pure, Patient, Failing} \subseteq BOOLEAN
ASSUME BoundsAssumption  ==
  /\ {NStations, MaxStations, MaxIds, MaxBeats} \subseteq Nat \ {0}
  /\ NStations <= MaxStations /\ MaxStations <= MaxIds
  /\ {MaxCrashes, MaxEdits} \subseteq Nat
ASSUME EnginesAssumption == Gens \subseteq Nat \ {0}
ASSUME PicksAssumption == Picks \subseteq {"go", "end"}

Ordinals  == 1..MaxBeats
Kinds     == {"none", "beat", "choice"}
Statuses  == {"idle", "running", "awaiting_choice", "paused", "completed",
              "awaiting_replan"}
Answer    == [ord : Ordinals, pick : {"go", "end"}]
Progress  == [play : 0..MaxBeats, write : 0..MaxBeats, gate : 0..MaxBeats,
              history : SUBSET Answer]
Station   == [id : 1..MaxIds, st : {"pending", "active", "done", "skipped"}]

NoProgress == [play |-> 0, write |-> 0, gate |-> 0, history |-> {}]
NoOutline  == [station |-> 0, cards |-> <<>>, next |-> 0]
NoBeat     == [kind |-> "none", station |-> 0]

VARIABLES
  progress,   \* progress.json
  status,     \* meta.json: status
  settings,   \* meta.json: the edits of the user it contains
  spine,      \* spine.json: stations in order
  outline,    \* outline.json: the cards of the current station
  beats,      \* beats/NNN.json
  ledger,     \* facts.json: the answers whose facts are in it
  run,        \* the engine goroutines
  live,       \* Host.playEngine, 0 for none
  exclusive,  \* Host.exclusive
  wake,       \* Engine.wake
  mu,         \* Engine.mu: whether it is held
  call,       \* the requests in flight
  edits, crashes,
  raced       \* whether two have held copies of the progress without a mutex in common

files   == <<progress, status, settings, spine, outline, beats, ledger>>
engines == <<run, live, exclusive, wake, mu>>
codeVars == <<files, engines, call, edits, crashes>>
vars     == <<codeVars, raced>>

NoRun  == [pc |-> "unused", cancelled |-> FALSE, seen |-> NoProgress, ord |-> 0,
           station |-> 0, last |-> FALSE, tries |-> 0, settings |-> 0,
           outline |-> NoOutline]
NoCall == [pc |-> "idle", h |-> 0, seen |-> NoProgress, pick |-> "go",
           station |-> 0, spine |-> <<>>, status |-> "idle", settings |-> 0]

PlayInit ==
  /\ progress = NoProgress /\ status = "idle" /\ settings = 0
  /\ spine = <<>> /\ outline = NoOutline
  /\ beats = [o \in Ordinals |-> NoBeat] /\ ledger = {}
  /\ run = [g \in Gens |-> NoRun] /\ live = 0 /\ exclusive = "none"
  /\ wake = [g \in Gens |-> FALSE] /\ mu = [g \in Gens |-> FALSE]
  /\ call = [c \in Callers |-> NoCall]
  /\ edits = 0 /\ crashes = 0 /\ raced = FALSE

--------------------------------------------------------------------------------
(***************************************************************************)
(* The spine (state.go).                                                   *)
(***************************************************************************)

Indices(s) == 1..Len(s)
First(s, S) == {i \in Indices(s) : s[i].st \in S /\
                  \A j \in 1..i - 1 : s[j].st \notin S}

\* currentStation: the first active one, else the first pending one
CurrentOf(s) == IF First(s, {"active"}) # {} THEN First(s, {"active"})
                                             ELSE First(s, {"pending"})
Open(s)      == CurrentOf(s) # {}
Current(s)   == CHOOSE i \in CurrentOf(s) : TRUE

Mark(s, id, st) == [i \in Indices(s) |->
                      IF s[i].id = id THEN [s[i] EXCEPT !.st = st] ELSE s[i]]

\* activateStation: another active station becomes pending again
Activate(s, id) ==
  [i \in Indices(s) |->
     IF s[i].st \in {"done", "skipped"} THEN s[i]
     ELSE [s[i] EXCEPT !.st = IF s[i].id = id THEN "active"
                              ELSE IF @ = "active" THEN "pending" ELSE @]]

SkipPending(s) == [i \in Indices(s) |->
                     IF s[i].st \in {"pending", "active"}
                       THEN [s[i] EXCEPT !.st = "skipped"] ELSE s[i]]

\* lastOpenStation
LastOpen(s, id) == \A i \in Indices(s) : s[i].st = "pending" => s[i].id = id

FirstSpine == [i \in 1..NStations |-> [id |-> i, st |-> "pending"]]

Written(o) == o.next >= Len(o.cards)

--------------------------------------------------------------------------------
(***************************************************************************)
(* Starting an engine (Host.StartPlay).                                    *)
(***************************************************************************)

Active(st) == st \in {"running", "awaiting_choice"}

\* pauseInactivePlays: nobody runs the play
Rested(st) == IF live = 0 /\ exclusive # "play" /\ Active(st) THEN "paused" ELSE st

Fresh(g) == g \in Gens /\ run[g].pc = "unused" /\
            \A f \in Gens : f < g => run[f].pc # "unused"

\* StartPlay of a play whose status is st
Starting(st) ==
  IF st \in {"completed", "awaiting_replan"} \/ live # 0 \/ exclusive # "none"
    THEN /\ status' = IF st \in {"completed", "awaiting_replan"} THEN st ELSE Rested(st)
         /\ UNCHANGED <<run, live, exclusive>>
    ELSE \E g \in Gens :
         /\ Fresh(g)
         /\ run' = [run EXCEPT ![g] = [NoRun EXCEPT !.pc = "start"]]
         /\ live' = g
         /\ exclusive' = "play"
         /\ status' = Rested(st)

--------------------------------------------------------------------------------
(***************************************************************************)
(* The engine (Engine.Run), goroutine g.                                   *)
(***************************************************************************)

At(g, pc) == run[g].pc = pc
Jump(g, pc) == run' = [run EXCEPT ![g].pc = pc]

\* markStarted
Started(g) ==
  /\ At(g, "start")
  /\ status' = IF progress.gate # 0 THEN "awaiting_choice" ELSE "running"
  /\ Jump(g, "top")
  /\ UNCHANGED <<progress, settings, spine, outline, beats, ledger, live,
                 exclusive, wake, mu, call, edits, crashes>>

\* Mutant: the gate is forgotten
WaitIgnoresGate == progress.write - progress.play >= Ahead

MustWait == progress.gate # 0 \/ progress.write - progress.play >= Ahead

\* One turn of the loop: stop, wait, plan or write
Top(g) ==
  /\ At(g, "top")
  /\ IF run[g].cancelled \/ status = "completed" THEN Jump(g, "exit")
     ELSE IF MustWait THEN Jump(g, "wait")
     ELSE IF Written(outline)
       THEN run' = [run EXCEPT ![g].pc = "spine", ![g].seen = progress]
       ELSE /\ progress.write < MaxBeats
            /\ run' = [run EXCEPT ![g].pc = "writing",
                                  ![g].ord = progress.write + 1,
                                  ![g].station = outline.station,
                                  ![g].settings = settings]
  /\ UNCHANGED <<files, live, exclusive, wake, mu, call, edits, crashes>>

\* Mutant: the context is not selected on
WokenOnly(g) ==
  /\ At(g, "wait") /\ wake[g]
  /\ wake' = [wake EXCEPT ![g] = FALSE] /\ Jump(g, "top")
  /\ UNCHANGED <<files, live, exclusive, mu, call, edits, crashes>>

\* Engine.wait
Woken(g) ==
  /\ At(g, "wait")
  /\ \/ run[g].cancelled /\ Jump(g, "exit") /\ UNCHANGED wake
     \/ wake[g] /\ wake' = [wake EXCEPT ![g] = FALSE] /\ Jump(g, "top")
  /\ UNCHANGED <<files, live, exclusive, mu, call, edits, crashes>>

\* Engine.fail, and the return of Run
Fails(g) == status' = "paused" /\ Jump(g, "exit")

\* A model call may fail, and does once its context is cancelled
MayFail(g) == Failing \/ run[g].cancelled

\* ensureSpine
SpineReturns(g) ==
  /\ At(g, "spine")
  /\ \/ Jump(g, "plan") /\ spine' = (IF spine = <<>> THEN FirstSpine ELSE spine)
        /\ UNCHANGED status
     \/ spine = <<>> /\ MayFail(g) /\ Fails(g) /\ UNCHANGED spine
  /\ UNCHANGED <<progress, settings, outline, beats, ledger, live, exclusive,
                 wake, mu, call, edits, crashes>>

\* spineExhausted, and the first half of planNextSegmentOnce
Plan(g) ==
  /\ At(g, "plan")
  /\ \/ /\ ~Open(spine) /\ run[g].tries = 0 /\ progress.write > 0
        /\ status' = "awaiting_replan"
        /\ Jump(g, "exit")
        /\ UNCHANGED spine
     \/ /\ ~Open(spine) /\ ~(run[g].tries = 0 /\ progress.write > 0)
        /\ Fails(g)
        /\ UNCHANGED spine
     \/ /\ Open(spine)
        /\ LET id == spine[Current(spine)].id IN
           /\ spine' = Activate(spine, id)
           /\ run' = [run EXCEPT ![g].pc = "planning", ![g].station = id,
                                 ![g].last = LastOpen(spine', id)]
        /\ UNCHANGED status
  /\ UNCHANGED <<progress, settings, outline, beats, ledger, live, exclusive,
                 wake, mu, call, edits, crashes>>

\* validatePlannerAgainstArchitect
LegalPlan(cards, last) ==
  LET choice == cards[Len(cards)] = "choice" IN
  IF Pure THEN ~choice ELSE last \/ choice

\* Architect and planner return; a first failure is tried again
PlannerReturns(g) ==
  /\ At(g, "planning")
  /\ \/ \E cards \in CardPlans :
          /\ LegalPlan(cards, run[g].last)
          /\ outline' = [station |-> run[g].station, cards |-> cards, next |-> 0]
          /\ Jump(g, "planned")
          /\ UNCHANGED status
     \/ /\ MayFail(g) /\ run[g].tries = 0
        /\ run' = [run EXCEPT ![g].pc = "plan", ![g].tries = 1]
        /\ UNCHANGED <<status, outline>>
     \/ /\ MayFail(g) /\ run[g].tries = 1
        /\ Fails(g)
        /\ UNCHANGED outline
  /\ UNCHANGED <<progress, settings, spine, beats, ledger, live, exclusive, wake,
                 mu, call, edits, crashes>>

Rest(r) == [NoRun EXCEPT !.pc = "top", !.cancelled = r.cancelled]

\* The second half of planNextSegmentOnce: the progress the loop has read is saved
PlanSaved(g) ==
  /\ At(g, "planned")
  /\ progress' = run[g].seen
  /\ run' = [run EXCEPT ![g] = Rest(@)]
  /\ UNCHANGED <<status, settings, spine, outline, beats, ledger, live, exclusive,
                 wake, mu, call, edits, crashes>>

WriterReturns(g) ==
  /\ At(g, "writing")
  /\ \/ Jump(g, "commit") /\ UNCHANGED status
     \/ MayFail(g) /\ Fails(g)
  /\ UNCHANGED <<progress, settings, spine, outline, beats, ledger, live,
                 exclusive, wake, mu, call, edits, crashes>>

Unlock(g) == mu' = [mu EXCEPT ![g] = FALSE]

\* Under the mutex the files are read again, the beat keeps its ordinal
SaveBeat(g) ==
  /\ At(g, "commit") /\ ~mu[g]
  /\ IF Written(outline)
       THEN /\ run' = [run EXCEPT ![g] = Rest(@)]
            /\ UNCHANGED <<beats, mu>>
       ELSE /\ mu' = [mu EXCEPT ![g] = TRUE]
            /\ beats' = [beats EXCEPT ![run[g].ord] =
                           [kind    |-> outline.cards[outline.next + 1],
                            station |-> run[g].station]]
            /\ run' = [run EXCEPT ![g].pc = "card", ![g].seen = progress,
                                  ![g].outline = [outline EXCEPT !.next = @ + 1]]
  /\ UNCHANGED <<progress, status, settings, spine, outline, ledger, live,
                 exclusive, wake, call, edits, crashes>>

SaveCard(g) ==
  /\ At(g, "card")
  /\ outline' = run[g].outline
  /\ Jump(g, "head")
  /\ UNCHANGED <<progress, status, settings, spine, beats, ledger, live,
                 exclusive, wake, mu, call, edits, crashes>>

SaveHead(g) ==
  LET seen   == run[g].seen
      ord    == run[g].ord
      choice == beats[ord].kind = "choice"
  IN
  /\ At(g, "head")
  /\ progress' = [seen EXCEPT !.write = ord,
                              !.play  = IF @ = 0 THEN ord ELSE @,
                              !.gate  = IF choice THEN ord ELSE @]
  /\ IF choice THEN Jump(g, "gated") /\ UNCHANGED mu
     ELSE IF Written(run[g].outline) THEN Jump(g, "finish") /\ UNCHANGED mu
     ELSE run' = [run EXCEPT ![g] = Rest(@)] /\ Unlock(g)
  /\ UNCHANGED <<status, settings, spine, outline, beats, ledger, live, exclusive,
                 wake, call, edits, crashes>>

\* The meta read before the writer's turn is saved with its new status
SaveGate(g) ==
  /\ At(g, "gated")
  /\ status' = "awaiting_choice"
  /\ settings' = run[g].settings
  /\ run' = [run EXCEPT ![g] = Rest(@)]
  /\ Unlock(g)
  /\ UNCHANGED <<progress, spine, outline, beats, ledger, live, exclusive, wake,
                 call, edits, crashes>>

\* finishStation
FinishStation(g) ==
  /\ At(g, "finish")
  /\ spine' = Mark(spine, run[g].outline.station, "done")
  /\ IF Open(spine') THEN run' = [run EXCEPT ![g] = Rest(@)] /\ Unlock(g)
                     ELSE Jump(g, "drained") /\ UNCHANGED mu
  /\ UNCHANGED <<progress, status, settings, outline, beats, ledger, live,
                 exclusive, wake, call, edits, crashes>>

\* awaitReplan from writeNextBeat: the loop is not left
AwaitReplan(g) ==
  /\ At(g, "drained")
  /\ status' = "awaiting_replan"
  /\ run' = [run EXCEPT ![g] = Rest(@)]
  /\ Unlock(g)
  /\ UNCHANGED <<progress, settings, spine, outline, beats, ledger, live,
                 exclusive, wake, call, edits, crashes>>

\* persistPaused
PersistPaused(g) ==
  /\ At(g, "exit")
  /\ status' = IF status \in {"completed", "awaiting_replan"} THEN status
                                                              ELSE "paused"
  /\ Jump(g, "leave")
  /\ UNCHANGED <<progress, settings, spine, outline, beats, ledger, live,
                 exclusive, wake, mu, call, edits, crashes>>

\* finishPlay
Leave(g) ==
  /\ At(g, "leave")
  /\ run' = [run EXCEPT ![g] = [NoRun EXCEPT !.pc = "gone"]]
  /\ live' = IF live = g THEN 0 ELSE live
  /\ exclusive' = "none"
  /\ UNCHANGED <<files, wake, mu, call, edits, crashes>>

EngineStep(g) ==
  \/ Started(g) \/ Top(g) \/ Woken(g) \/ SpineReturns(g) \/ Plan(g)
  \/ PlannerReturns(g) \/ PlanSaved(g) \/ WriterReturns(g) \/ SaveBeat(g)
  \/ SaveCard(g) \/ SaveHead(g) \/ SaveGate(g) \/ FinishStation(g)
  \/ AwaitReplan(g) \/ PersistPaused(g) \/ Leave(g)

--------------------------------------------------------------------------------
(***************************************************************************)
(* Requests.                                                               *)
(***************************************************************************)

Is(c, pc) == call[c].pc = pc
Goto(c, pc) == call' = [call EXCEPT ![c].pc = pc]
Return(c) == call' = [call EXCEPT ![c] = NoCall]

MayCall(c) == Is(c, "idle") /\ (Patient => \A d \in Callers : Is(d, "idle"))

\* The mutex of the engine value h; nobody shares that of a request's own (0)
Locks(h) ==
  IF h = 0 THEN UNCHANGED mu ELSE ~mu[h] /\ mu' = [mu EXCEPT ![h] = TRUE]
Unlocks(h) == IF h = 0 THEN UNCHANGED mu ELSE mu' = [mu EXCEPT ![h] = FALSE]

Wakes(h) == IF h = 0 THEN UNCHANGED wake ELSE wake' = [wake EXCEPT ![h] = TRUE]

\* playHandle: the running engine, or one of the request's own
Turns(c) ==
  /\ c \in Turners /\ MayCall(c)
  /\ call' = [call EXCEPT ![c].pc = "turn", ![c].h = live]
  /\ UNCHANGED <<files, engines, edits, crashes>>

Answered(p, ord) == \E a \in p.history : a.ord = ord

\* Engine.Advance
Advance(c) ==
  /\ Is(c, "turn")
  /\ Locks(call[c].h)
  /\ IF /\ progress.play < progress.write
        /\ progress.play > 0
        /\ beats[progress.play].kind # "none"
        /\ beats[progress.play].kind = "choice" => Answered(progress, progress.play)
       THEN call' = [call EXCEPT ![c].pc = "turned", ![c].seen = progress]
       ELSE call' = [call EXCEPT ![c].pc = "refused"]
  /\ UNCHANGED <<files, run, live, exclusive, wake, edits, crashes>>

\* Mutant: the engine is not woken
AdvanceSilently(c) ==
  /\ Is(c, "turned")
  /\ progress' = [call[c].seen EXCEPT !.play = @ + 1]
  /\ Unlocks(call[c].h)
  /\ Return(c)
  /\ UNCHANGED <<status, settings, spine, outline, beats, ledger, run, live,
                 exclusive, wake, edits, crashes>>

AdvanceSaved(c) ==
  /\ Is(c, "turned")
  /\ progress' = [call[c].seen EXCEPT !.play = @ + 1]
  /\ Wakes(call[c].h) /\ Unlocks(call[c].h)
  /\ Return(c)
  /\ UNCHANGED <<status, settings, spine, outline, beats, ledger, run, live,
                 exclusive, edits, crashes>>

Refused(c) ==
  /\ Is(c, "refused")
  /\ Unlocks(call[c].h)
  /\ Return(c)
  /\ UNCHANGED <<files, run, live, exclusive, wake, edits, crashes>>

\* Host.ChoosePlay
Chooses(c) ==
  /\ c \in Choosers /\ MayCall(c)
  /\ progress.gate # 0
  /\ \E p \in Picks :
       call' = [call EXCEPT ![c].pc = "choose", ![c].h = live, ![c].pick = p]
  /\ UNCHANGED <<files, engines, edits, crashes>>

\* commitChoice, file by file
CommitChoice(c) ==
  /\ Is(c, "choose")
  /\ Locks(call[c].h)
  /\ IF progress.gate = 0 \/ beats[progress.gate].kind = "none"
       THEN call' = [call EXCEPT ![c].pc = "refused"]
       ELSE call' = [call EXCEPT ![c].pc = "chosen", ![c].seen = progress,
                                 ![c].station = beats[progress.gate].station]
  /\ UNCHANGED <<files, run, live, exclusive, wake, edits, crashes>>

AnswerOf(c) == [ord |-> call[c].seen.gate, pick |-> call[c].pick]

ChoiceRecorded(c) ==
  LET seen == call[c].seen IN
  /\ Is(c, "chosen")
  /\ progress' = [seen EXCEPT
       !.history = @ \cup {AnswerOf(c)},
       !.gate    = 0,
       !.play    = IF @ < seen.gate THEN seen.gate ELSE @]
  /\ Goto(c, "facts")
  /\ UNCHANGED <<status, settings, spine, outline, beats, ledger, engines, edits,
                 crashes>>

FactsSaved(c) ==
  /\ Is(c, "facts")
  /\ ledger' = ledger \cup {AnswerOf(c)}
  /\ Goto(c, "close")
  /\ UNCHANGED <<progress, status, settings, spine, outline, beats, engines,
                 edits, crashes>>

StationClosed(c) ==
  LET done == Mark(spine, call[c].station, "done") IN
  /\ Is(c, "close")
  /\ spine' = IF call[c].pick = "end" THEN SkipPending(done) ELSE done
  /\ Goto(c, "clear")
  /\ UNCHANGED <<progress, status, settings, outline, beats, ledger, engines,
                 edits, crashes>>

OutlineCleared(c) ==
  /\ Is(c, "clear")
  /\ outline' = NoOutline
  /\ Goto(c, "resume")
  /\ UNCHANGED <<progress, status, settings, spine, beats, ledger, engines, edits,
                 crashes>>

ChoiceCommitted(c) ==
  /\ Is(c, "resume")
  /\ status' = IF status # "awaiting_choice" THEN status
               ELSE IF call[c].pick = "end" THEN "completed" ELSE "running"
  /\ Unlocks(call[c].h)
  /\ Goto(c, IF call[c].pick = "end" THEN "wake" ELSE "revise")
  /\ UNCHANGED <<progress, settings, spine, outline, beats, ledger, run, live,
                 exclusive, wake, edits, crashes>>

\* reviseNextBestEffort: the spine is read, and saved when the model has returned
Revise(c) ==
  /\ Is(c, "revise")
  /\ IF First(spine, {"pending"}) = {}
       THEN Goto(c, "wake")
       ELSE call' = [call EXCEPT ![c].pc = "revising", ![c].spine = spine]
  /\ UNCHANGED <<files, engines, edits, crashes>>

Revised(c) ==
  /\ Is(c, "revising")
  /\ \/ spine' = call[c].spine
     \/ Failing /\ UNCHANGED spine
  /\ Goto(c, "wake")
  /\ UNCHANGED <<progress, status, settings, outline, beats, ledger, engines,
                 edits, crashes>>

\* Choose wakes its engine; ChoosePlay starts one if none was running
ChooseReturns(c) ==
  /\ Is(c, "wake")
  /\ Wakes(call[c].h)
  /\ IF call[c].h = 0 THEN Starting(status)
                      ELSE UNCHANGED <<status, run, live, exclusive>>
  /\ Return(c)
  /\ UNCHANGED <<progress, settings, spine, outline, beats, ledger, mu, edits,
                 crashes>>

\* Host.StartPlay by the player
Starts ==
  /\ Patient => \A d \in Callers : Is(d, "idle")
  /\ live = 0
  /\ Starting(status)
  /\ UNCHANGED <<progress, settings, spine, outline, beats, ledger, wake, mu,
                 call, edits, crashes>>

Cancelling ==
  run' = [g \in Gens |-> IF g = live /\ exclusive = "play"
                           THEN [run[g] EXCEPT !.cancelled = TRUE] ELSE run[g]]

\* Mutant: the goroutine is cancelled and not waited for
PausesAndForgets(c) ==
  /\ c \in Pausers /\ MayCall(c)
  /\ live # 0
  /\ Cancelling
  /\ live' = 0 /\ exclusive' = "none"
  /\ UNCHANGED <<files, wake, mu, call, edits, crashes>>

\* Host.PausePlay waits for the goroutine it has cancelled
Pauses(c) ==
  /\ c \in Pausers /\ MayCall(c)
  /\ live # 0
  /\ Cancelling
  /\ call' = [call EXCEPT ![c].pc = "pausing", ![c].h = live]
  /\ UNCHANGED <<files, live, exclusive, wake, mu, edits, crashes>>

Paused(c) ==
  /\ Is(c, "pausing") /\ At(call[c].h, "gone")
  /\ status' = Rested(status)
  /\ Return(c)
  /\ UNCHANGED <<progress, settings, spine, outline, beats, ledger, engines,
                 edits, crashes>>

\* Host.ReplanPlay: a running engine is paused first
Replans(c) ==
  /\ c \in Replanners /\ MayCall(c)
  /\ spine # <<>>
  /\ IF live = 0 THEN /\ call' = [call EXCEPT ![c].pc = "replan"]
                      /\ UNCHANGED run
                 ELSE /\ call' = [call EXCEPT ![c].pc = "stopping", ![c].h = live]
                      /\ Cancelling
  /\ UNCHANGED <<files, live, exclusive, wake, mu, edits, crashes>>

Stopped(c) ==
  /\ Is(c, "stopping") /\ At(call[c].h, "gone")
  /\ status' = Rested(status)
  /\ Goto(c, "replan")
  /\ UNCHANGED <<progress, settings, spine, outline, beats, ledger, engines,
                 edits, crashes>>

\* Mutant: the slot is not asked for
ReplansUnasked(c) ==
  /\ Is(c, "replan")
  /\ \/ /\ status # "running"
        /\ exclusive' = "replan"
        /\ call' = [call EXCEPT ![c].pc = "replanning", ![c].seen = progress,
                                ![c].spine = spine, ![c].status = status,
                                ![c].settings = settings]
     \/ /\ status = "running"
        /\ Goto(c, IF call[c].h = 0 THEN "failed" ELSE "restart")
        /\ UNCHANGED exclusive
  /\ UNCHANGED <<files, run, live, wake, mu, edits, crashes>>

\* acquireExclusive, Engine.Replan up to the model call
Replan(c) ==
  /\ Is(c, "replan")
  /\ \/ /\ exclusive = "none" /\ status # "running"
        /\ exclusive' = "replan"
        /\ call' = [call EXCEPT ![c].pc = "replanning", ![c].seen = progress,
                                ![c].spine = spine, ![c].status = status,
                                ![c].settings = settings]
     \/ /\ exclusive # "none" \/ status = "running"
        /\ Goto(c, IF call[c].h = 0 THEN "failed" ELSE "restart")
        /\ UNCHANGED exclusive
  /\ UNCHANGED <<files, run, live, wake, mu, edits, crashes>>

Gated(c) == call[c].seen.gate # 0

\* replanFromIndex; 0 is the append mode
From(s, gated) ==
  LET skipped == First(s, {"skipped"})
      later   == IF skipped = {} THEN 0 ELSE CHOOSE i \in skipped : TRUE
  IN IF ~Open(s) THEN later
     ELSE IF ~gated THEN Current(s)
     ELSE IF Current(s) < Len(s) THEN Current(s) + 1 ELSE later

NewId(s) == 1 + (CHOOSE n \in 0..MaxIds :
                   /\ \A i \in Indices(s) : s[i].id <= n
                   /\ n = 0 \/ \E i \in Indices(s) : s[i].id = n)

\* The stations the model returns: those it was given, or a new one
NewTails(s, from) ==
  (IF from = 0 THEN {} ELSE {[i \in 1..Len(s) - from + 1 |-> s[from + i - 1].id]})
    \cup (IF NewId(s) > MaxIds THEN {} ELSE {<<NewId(s)>>})

NewSpine(c, ids) ==
  LET s    == call[c].spine
      from == From(s, Gated(c))
      all  == IF from = 0 THEN s ELSE SubSeq(s, 1, from - 1)
      drop == IF from = 0 /\ Len(s) + Len(ids) > MaxStations
                THEN Len(s) + Len(ids) - MaxStations ELSE 0
      kept == SubSeq(all, drop + 1, Len(all))
      keepsStatus == ~Gated(c) /\ Open(s) /\ from = Current(s)
  IN kept \o [i \in 1..Len(ids) |->
                [id |-> ids[i],
                 st |-> IF i = 1 /\ keepsStatus THEN s[Current(s)].st
                                                ELSE "pending"]]

LastKept(p) ==
  LET heads == IF p.gate = 0 THEN {p.play} ELSE {p.play, p.write, p.gate}
  IN CHOOSE h \in heads : \A k \in heads : k <= h

Keep(c) == LastKept(call[c].seen)

\* The model returns; the unread beats are deleted
ReplanTruncates(c) ==
  /\ Is(c, "replanning")
  /\ \/ /\ \E ids \in NewTails(call[c].spine, From(call[c].spine, Gated(c))) :
             call' = [call EXCEPT ![c].pc = "heads",
                                  ![c].spine = NewSpine(c, ids)]
        /\ beats' = [o \in Ordinals |-> IF o > Keep(c) THEN NoBeat ELSE beats[o]]
        /\ UNCHANGED exclusive
     \/ /\ Failing
        /\ Goto(c, IF call[c].h = 0 THEN "failed" ELSE "restart")
        /\ exclusive' = "none"
        /\ UNCHANGED beats
  /\ UNCHANGED <<progress, status, settings, spine, outline, ledger, run, live,
                 wake, mu, edits, crashes>>

\* Mutant: the write head stays
ReplanKeepsHeads(c) ==
  /\ Is(c, "heads")
  /\ Goto(c, "outline")
  /\ UNCHANGED <<files, engines, edits, crashes>>

ReplanHeads(c) ==
  /\ Is(c, "heads")
  /\ progress' = [call[c].seen EXCEPT !.write = Keep(c)]
  /\ Goto(c, "outline")
  /\ UNCHANGED <<status, settings, spine, outline, beats, ledger, engines, edits,
                 crashes>>

ReplanOutline(c) ==
  /\ Is(c, "outline")
  /\ outline' = NoOutline
  /\ Goto(c, "spine")
  /\ UNCHANGED <<progress, status, settings, spine, beats, ledger, engines, edits,
                 crashes>>

ReplanSpine(c) ==
  /\ Is(c, "spine")
  /\ spine' = call[c].spine
  /\ Goto(c, "meta")
  /\ UNCHANGED <<progress, status, settings, outline, beats, ledger, engines,
                 edits, crashes>>

\* The meta read before the model call is saved with its new status
ReplanStatus(c) ==
  /\ Is(c, "meta")
  /\ status' = IF call[c].status \in {"completed", "awaiting_replan"}
                 THEN "paused" ELSE call[c].status
  /\ settings' = call[c].settings
  /\ exclusive' = "none"
  /\ Goto(c, "restart")
  /\ UNCHANGED <<progress, spine, outline, beats, ledger, run, live,
                 wake, mu, edits, crashes>>

ReplanReturns(c) ==
  /\ \/ Is(c, "restart") /\ Starting(status)
     \/ Is(c, "failed") /\ UNCHANGED <<status, run, live, exclusive>>
  /\ Return(c)
  /\ UNCHANGED <<progress, settings, spine, outline, beats, ledger, wake, mu,
                 edits, crashes>>

\* Host.UpdatePlay: the settings, with the status as it is
UserEdits ==
  /\ edits < MaxEdits
  /\ edits' = edits + 1
  /\ settings' = settings + 1
  /\ UNCHANGED <<progress, status, spine, outline, beats, ledger, engines, call,
                 crashes>>

\* The files survive; New pauses the plays that were running
Crash ==
  /\ crashes < MaxCrashes
  /\ crashes' = crashes + 1
  /\ status' = IF Active(status) THEN "paused" ELSE status
  /\ run' = [g \in Gens |->
               IF At(g, "unused") THEN run[g] ELSE [NoRun EXCEPT !.pc = "gone"]]
  /\ live' = 0 /\ exclusive' = "none"
  /\ wake' = [g \in Gens |-> FALSE] /\ mu' = [g \in Gens |-> FALSE]
  /\ call' = [c \in Callers |-> NoCall]
  /\ UNCHANGED <<progress, settings, spine, outline, beats, ledger, edits>>

CallStep(c) ==
  \/ Advance(c) \/ AdvanceSaved(c) \/ Refused(c)
  \/ CommitChoice(c) \/ ChoiceRecorded(c) \/ FactsSaved(c) \/ StationClosed(c)
  \/ OutlineCleared(c) \/ ChoiceCommitted(c) \/ Revise(c) \/ Revised(c)
  \/ ChooseReturns(c)
  \/ Paused(c) \/ Stopped(c) \/ Replan(c) \/ ReplanTruncates(c)
  \/ ReplanHeads(c) \/ ReplanOutline(c) \/ ReplanSpine(c) \/ ReplanStatus(c)
  \/ ReplanReturns(c)

PlayerStep ==
  \/ \E c \in Callers : Turns(c) \/ Chooses(c) \/ Pauses(c) \/ Replans(c)
  \/ Starts \/ UserEdits

CodeStep ==
  \/ \E g \in Gens : EngineStep(g)
  \/ \E c \in Callers : CallStep(c)
  \/ PlayerStep
  \/ Crash

\* Who has read the progress and is about to save what it has read.  An engine that
\* plans is about to as well (PlanSaved), without a mutex and over everything that came
\* in between; it is left out here, so that the properties have to hold beside it.
EngineSaves(g)  == run[g].pc \in {"card", "head"}
RequestSaves(c) == call[c].pc \in {"turned", "chosen", "replanning", "heads"}

\* The mutex under which a request saves: Replan takes none
MutexOf(c) == IF call[c].pc \in {"turned", "chosen"} THEN call[c].h ELSE 0

Overlap ==
  \E c \in Callers : RequestSaves(c) /\
    (\/ \E g \in Gens : EngineSaves(g) /\ MutexOf(c) # g
     \/ \E d \in Callers \ {c} :
          RequestSaves(d) /\ (MutexOf(c) = 0 \/ MutexOf(c) # MutexOf(d)))

PlayNext == CodeStep /\ raced' = (raced \/ Overlap')

\* Goroutines run, model calls return, sync.Mutex serves its waiters
PlayFairness ==
  /\ \A g \in Gens : WF_codeVars(EngineStep(g)) /\ SF_codeVars(SaveBeat(g))
  /\ \A c \in Callers : WF_codeVars(CallStep(c)) /\ SF_codeVars(Advance(c))
                        /\ SF_codeVars(CommitChoice(c))

PlaySpec == PlayInit /\ [][PlayNext]_vars /\ PlayFairness

--------------------------------------------------------------------------------
(***************************************************************************)
(* Properties.                                                             *)
(***************************************************************************)

PCs == {"unused", "start", "top", "wait", "spine", "plan", "planning", "planned",
        "writing", "commit", "card", "head", "gated", "finish", "drained", "exit",
        "leave", "gone"}
CallPCs == {"idle", "turn", "turned", "refused", "choose", "chosen", "facts",
            "close", "clear", "resume", "revise", "revising", "wake", "pausing",
            "stopping", "replan", "replanning", "heads", "outline", "spine",
            "meta", "restart", "failed"}

\* The shape of the files and of the goroutines. Only its bound on the spine says
\* more than types: a play never has more stations than maxSpineStations, however
\* often it is replanned (Engine.Replan drops the oldest ones).
PlayTypeOK ==
  /\ progress \in Progress /\ status \in Statuses /\ settings \in 0..MaxEdits
  /\ spine \in Seq(Station) /\ Len(spine) <= MaxStations
  /\ outline.cards \in CardPlans \cup {<<>>} /\ outline.next \in 0..Len(outline.cards)
  /\ outline.station \in 0..MaxIds
  /\ \A o \in Ordinals : beats[o].kind \in Kinds /\ beats[o].station \in 0..MaxIds
  /\ ledger \subseteq Answer
  /\ \A g \in Gens : run[g].pc \in PCs /\ run[g].seen \in Progress
  /\ live \in Gens \cup {0} /\ exclusive \in {"none", "play", "replan"}
  /\ {wake, mu} \subseteq [Gens -> BOOLEAN]
  /\ \A c \in Callers : call[c].pc \in CallPCs /\ call[c].h \in Gens \cup {0}
  /\ edits \in 0..MaxEdits /\ crashes \in 0..MaxCrashes /\ raced \in BOOLEAN

\* Every choice among the beats the player may reach is the one the play waits at
\* or has its answer; any other could neither be passed (Advance) nor answered
\* (commitChoice): the play would be stuck at it for good.  Requests may overlap with
\* each other, with the engine, its starts and its deaths, up to the first moment at
\* which two of them hold copies of the progress without a mutex in common (raced): a
\* replan takes none, a request that found no engine has one of its own.
NoOrphanChoice ==
  ~raced =>
  \A o \in 1..progress.write :
    beats[o].kind = "choice" => o = progress.gate \/ Answered(progress, o)

\* The files of all beats up to the write head exist, so that every page can be
\* turned to. Replan deletes beats before it lowers the head: while it does so, and
\* after a process death, which may catch it there, nothing is claimed; nor once two
\* have held copies of the progress without a mutex in common.
HeadsHaveBeats ==
  ~raced /\ crashes = 0 /\ (\A c \in Callers : ~Is(c, "heads")) =>
    \A o \in 1..progress.write : beats[o].kind # "none"

\* The engine is at most textAhead beats ahead of the player.
BufferBounded == progress.write <= progress.play + Ahead

\* At most one goroutine works on the play, it is the one Host knows, and the
\* exclusive slot is taken as long as it runs.
OneEngine ==
  \A g \in Gens : ~At(g, "unused") /\ ~At(g, "gone") => exclusive = "play" /\ live = g

\* The requests that have the exclusive slot
HoldPCs  == {"replanning", "heads", "outline", "spine", "meta"}
Holds(c) == call[c].pc \in HoldPCs

\* Between the moment a replan has read the files and the moment it has written the
\* last of them, which takes a model call and five writes without a mutex, no engine
\* is between its start and its end and no other replan is at work, whoever starts,
\* pauses or chooses meanwhile (acquireExclusive in Host.ReplanPlay, StartPlay).
ReplanWorksAlone ==
  \A c \in Callers : Holds(c) =>
    /\ \A g \in Gens : At(g, "unused") \/ At(g, "gone")
    /\ \A d \in Callers : Holds(d) => d = c

\* What has been answered stays in the history, although every step that saves the
\* progress saves an earlier read of it: the engine's after planning (engine.go:382),
\* with no mutex, and after writing, a page turned, a choice, and Replan's after its
\* model call (engine.go:860).  An answer cannot come in while the engine plans, for
\* then no choice is open.  The exception is two that have held copies without a mutex
\* in common: a choice during the model call of a replan is lost (NoAnswerIsLost).
AnswersStay == [][raced' \/ progress.history \subseteq progress'.history]_vars

\* The same without the exception (engine_test.go:544-545, replanning leaves the
\* history of choices alone).
NoAnswerIsLost == [][progress.history \subseteq progress'.history]_vars

\* A page that is turned stays turned, so that a replan keeps the beats that were
\* played (engine_test.go:533-534): but the engine saves the progress it has read
\* before planning over the pages turned meanwhile (engine.go:381-382).
PagesStayTurned == [][progress'.play >= progress.play]_vars

\* The planner is called with the facts of every answer in the history
\* (planNextSegmentOnce reads facts.json).
PlanSeesFacts ==
  [][\A g \in Gens : At(g, "plan") /\ run'[g].pc = "planning" =>
       progress.history \subseteq ledger]_vars

\* Revising the next station changes the state of no station (reviseNextBestEffort).
ReviseTouchesNextOnly ==
  [][\A c \in Callers : Is(c, "revising") /\ call'[c].pc = "wake" =>
       \A i \in Indices(spine) : spine'[i].st = spine[i].st]_vars

\* What the player has set stays set (UpdatePlay, writeNextBeat).
SettingsStay == [][settings' >= settings]_vars

\* A play the player has ended does not wait for a new direction (commitChoice,
\* awaitReplan), as long as nobody replans.
EndingCompletes ==
  (\E a \in progress.history : a.pick = "end") => status # "awaiting_replan"

\* Pausing waits for the engine, and the engine, wherever it is, ends.
PauseReturns == \A c \in Callers : Is(c, "pausing") ~> Is(c, "idle")

\* A play that waits for a new direction has no engine (awaitReplan).
AwaitReplanExits == (status = "awaiting_replan") ~> (live = 0)

\* No wake-up is lost: an engine does not wait for ever without a reason to
\* (Engine.wait, Wake in Advance and Choose).
WaitsForAReason ==
  \A g \in Gens : (At(g, "wait") /\ ~MustWait) ~> (~At(g, "wait") \/ MustWait)
================================================================================
