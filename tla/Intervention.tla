----------------------------- MODULE Intervention -----------------------------
(***************************************************************************)
(* User interventions and the engine loop (internal/host/host.go and       *)
(* internal/host/engine.go).                                               *)
(*                                                                         *)
(* A message of the user is decided by the arbiter in its caller's         *)
(* goroutine, under interMu; the decision's actions (hold, reopen,         *)
(* dispatch) are queued for the engine's next boundary, or applied at once *)
(* when no engine runs.  Until then the text is kept in PendingSteer, one  *)
(* slot of meta/run.json, for Resume to replay.  The engine is a goroutine *)
(* that may be started again while the previous one is still in its        *)
(* deferred clean-up.                                                      *)
(*                                                                         *)
(* Of the book only what decisions are checked against is modelled: the    *)
(* phase and whether the rewrite queue (and with it the flow) is active.   *)
(* The review mode is left out: Host.New turns it into the automatic one.  *)
(***************************************************************************)
EXTENDS Naturals, Sequences, FiniteSets

CONSTANTS
  Messages,    \* what the user types, each one once
  Continues,   \* those sent with Host.Continue, the others with Host.Steer
  Slots,       \* engine goroutines that may exist at the same time
  Resumer,     \* the caller of Host.Resume
  Plans,       \* the arbiter's decisions that are enumerated
  BookMoves,   \* what a turn may do to the book
  MaxCrashes,  \* bound on process deaths
  None,        \* no message, no holder of the mutex, no engine
  Router       \* an instruction that is not a user dispatch

Callers == Messages \cup Slots \cup {Resumer}

ASSUME CallersAssumption ==
  /\ Messages \cap Slots = {}
  /\ Resumer \notin Messages \cup Slots
  /\ {None, Router} \cap Callers = {}
  /\ None # Router
  /\ Continues \subseteq Messages

\* InterventionDecision: answers and rules have no control action
PlanShape == [hold     : {"no", "cancel", "boundary", "drained"},
              reopen   : BOOLEAN,
              dispatch : BOOLEAN]

ASSUME PlansAssumption      == Plans \subseteq PlanShape
ASSUME BookMovesAssumption  == BookMoves \subseteq {"rewrites", "finish"}
ASSUME MaxCrashesAssumption == MaxCrashes \in Nat

Book   == [phase : {"writing", "complete"}, queue : BOOLEAN]
Op     == [msg : Messages, seen : Book, plan : PlanShape]
OpQueue == Seq(Op)
NoHold == [after |-> "no", msg |-> None]
Hold   == {NoHold} \cup [after : {"boundary", "drained"}, msg : Messages]

VARIABLES
  book,        \* phase and rewrite queue of progress.json
  steer,       \* RunMeta.PendingSteer
  hold,        \* RunMeta.AdvanceHold
  interMu,     \* holder of Host.interMu
  call,        \* the doIntervention call of every caller
  current,     \* engine.running and engine.cancel: the goroutine they belong to
  ops,         \* engine.pending
  next,        \* engine.next
  deferNext,   \* engine.deferGateForNext
  run,         \* the engine goroutines
  lifecycle,   \* Host.lifecycle
  strays,      \* turns begun under a hold that should have stopped the loop
  crashes

meta   == <<steer, hold>>
queued == <<ops, next, deferNext>>
vars   == <<book, meta, interMu, call, current, queued, run, lifecycle,
            strays, crashes>>

NoPlan   == [hold |-> "no", reopen |-> FALSE, dispatch |-> FALSE]
FreshBook == [phase |-> "writing", queue |-> FALSE]

IdleCall == [pc |-> "idle", msg |-> None, seen |-> FreshBook, plan |-> NoPlan,
             restart |-> FALSE]
NoRun    == [pc |-> "gone", cancelled |-> FALSE, batch |-> <<>>,
             defer |-> FALSE]

CallPCs == {"idle", "lock", "asked", "direct", "nested", "clear", "done"}
LoopPCs == {"top", "drain", "apply", "reconsult", "gate", "take", "turn",
            "commit", "settle"}
ExitPCs == {"exit", "restore"}

CallType == [pc : CallPCs, msg : Messages \cup {None}, seen : Book,
             plan : PlanShape, restart : BOOLEAN]
RunType  == [pc : LoopPCs \cup ExitPCs \cup {"gone"}, cancelled : BOOLEAN,
             batch : OpQueue, defer : BOOLEAN]

InterventionTypeOK ==
  /\ book \in Book
  /\ steer \in Messages \cup {None}
  /\ hold \in Hold
  /\ interMu \in Callers \cup {None}
  /\ call \in [Callers -> CallType]
  /\ current \in Slots \cup {None}
  /\ ops \in OpQueue
  /\ next \in Messages \cup {None, Router}
  /\ deferNext \in BOOLEAN
  /\ run \in [Slots -> RunType]
  /\ lifecycle \in {"idle", "running", "paused", "completed"}
  /\ strays \in 0..2
  /\ crashes \in 0..MaxCrashes

InterventionInit ==
  /\ book = FreshBook
  /\ steer = None /\ hold = NoHold
  /\ interMu = None
  /\ call = [c \in Callers |-> IdleCall]
  /\ current = None
  /\ ops = <<>> /\ next = None /\ deferNext = FALSE
  /\ run = [r \in Slots |-> NoRun]
  /\ lifecycle = "idle"
  /\ strays = 0
  /\ crashes = 0

--------------------------------------------------------------------------------
(***************************************************************************)
(* Starting and stopping the engine.                                       *)
(***************************************************************************)

Running == current # None

\* startEngine and engine.start: the flags are set before the goroutine runs,
\* a queued instruction is kept.  The caller checks ~Running.
StartEngine(r) ==
  /\ run[r].pc = "gone"
  /\ run' = [run EXCEPT ![r] = [NoRun EXCEPT !.pc = "top"]]
  /\ current' = r
  /\ lifecycle' = "running"
  /\ strays' = 0

\* Host.abortWithEvent, from the user or from the engine's own goroutine
PausedRun(r) ==
  IF lifecycle = "running" THEN [run[r] EXCEPT !.cancelled = TRUE] ELSE run[r]
PausedLifecycle == IF lifecycle = "running" THEN "paused" ELSE lifecycle

Abort ==
  /\ lifecycle = "running"
  /\ lifecycle' = "paused"
  /\ run' = [r \in Slots |-> IF r = current THEN PausedRun(r) ELSE run[r]]
  /\ UNCHANGED <<book, meta, interMu, call, current, queued, strays, crashes>>

--------------------------------------------------------------------------------
(***************************************************************************)
(* What one control operation does (applyControlOp).                       *)
(***************************************************************************)

SetsHold(p) == p.hold \in {"boundary", "drained"}

HasControl(p) == p.hold # "no" \/ p.reopen \/ p.dispatch

\* The dispatch was decided on facts that have moved since
Stale(op) == op.plan.dispatch /\ op.seen # book

HoldOf(op) == [after |-> op.plan.hold, msg |-> op.msg]

\* A hold of another message is never overwritten
HoldRefused(op) == SetsHold(op.plan) /\ hold \notin {NoHold, HoldOf(op)}

SetsItsHold(op) == SetsHold(op.plan) /\ ~HoldRefused(op)

ApplyHold(op) ==
  hold' = CASE op.plan.hold = "cancel" -> NoHold
            [] SetsItsHold(op)         -> HoldOf(op)
            [] OTHER                   -> hold

\* reopen_book: only a complete book, whose chapters are queued for rewriting
ApplyReopen(op) ==
  book' = IF op.plan.reopen /\ ~HoldRefused(op) /\ book.phase = "complete"
            THEN [phase |-> "writing", queue |-> TRUE] ELSE book

OpFails(op) == HoldRefused(op) \/ (op.plan.reopen /\ book.phase # "complete")

\* The dispatch stays in memory; paired with a hold it runs before the gate
ApplyDispatch(op) ==
  IF op.plan.dispatch /\ ~HoldRefused(op)
    THEN next' = op.msg /\ deferNext' = SetsHold(op.plan)
    ELSE UNCHANGED <<next, deferNext>>

\* The count belongs to the hold, and begins anew when the hold is set again
Recount == strays' = IF hold' = hold THEN strays ELSE 0
RecountHold(op) == IF SetsItsHold(op) THEN strays' = 0 ELSE Recount

ApplyOp(op) ==
  ApplyHold(op) /\ ApplyReopen(op) /\ ApplyDispatch(op) /\ RecountHold(op)

--------------------------------------------------------------------------------
(***************************************************************************)
(* doIntervention, in the goroutine of its caller c.                       *)
(***************************************************************************)

Goto(c, pc) == call' = [call EXCEPT ![c].pc = pc]

Returned == [IdleCall EXCEPT !.pc = "done"]

Entering(m, restart) ==
  [IdleCall EXCEPT !.pc = "lock", !.msg = m, !.restart = restart]

\* All that is left is to clear the slot and perhaps to start the engine
Settle(c, restart) ==
  call' = [call EXCEPT ![c] = [Entering(@.msg, restart) EXCEPT !.pc = "clear"]]

\* Host.Steer and Host.Continue
UserSends(m) ==
  /\ call[m].pc = "idle"
  /\ call' = [call EXCEPT ![m] = Entering(m, m \in Continues)]
  /\ UNCHANGED <<book, meta, interMu, current, queued, run, lifecycle, strays,
                 crashes>>

\* Mutant: only the lifecycle is looked at, not the engine
UserResumesOverEngine ==
  /\ lifecycle # "running"
  /\ book.phase = "writing"
  /\ call[Resumer].pc = "idle"
  /\ IF steer # None
       THEN /\ call' = [call EXCEPT ![Resumer] = Entering(steer, TRUE)]
            /\ UNCHANGED <<current, run, lifecycle, strays>>
       ELSE /\ \E r \in Slots : StartEngine(r)
            /\ UNCHANGED call
  /\ UNCHANGED <<book, meta, interMu, queued, crashes>>

\* Host.Resume: what is in the slot is decided again before the engine starts
UserResumes ==
  /\ lifecycle # "running"
  /\ book.phase = "writing"
  /\ call[Resumer].pc = "idle"
  /\ IF steer # None
       THEN /\ call' = [call EXCEPT ![Resumer] = Entering(steer, TRUE)]
            /\ UNCHANGED <<current, run, lifecycle, strays>>
       ELSE /\ ~Running
            /\ \E r \in Slots : StartEngine(r)
            /\ UNCHANGED call
  /\ UNCHANGED <<book, meta, interMu, queued, crashes>>

\* Mutant: the arbiter is asked before the text is stored
AcquireWithoutSlot(c) ==
  /\ call[c].pc = "lock"
  /\ interMu = None
  /\ interMu' = c
  /\ call' = [call EXCEPT ![c].pc = "asked", ![c].seen = book]
  /\ UNCHANGED <<book, meta, current, queued, run, lifecycle, strays, crashes>>

\* Mutant: a reconsultation is decided on the facts of the first one
AcquireWithOldFacts(c) ==
  /\ call[c].pc = "lock"
  /\ interMu = None
  /\ interMu' = c
  /\ steer' = call[c].msg
  /\ call' = [call EXCEPT ![c].pc = "asked"]
  /\ UNCHANGED <<book, hold, current, queued, run, lifecycle, strays, crashes>>

\* The mutex, the slot, the facts
Acquire(c) ==
  /\ call[c].pc = "lock"
  /\ interMu = None
  /\ interMu' = c
  /\ steer' = call[c].msg
  /\ call' = [call EXCEPT ![c].pc = "asked", ![c].seen = book]
  /\ UNCHANGED <<book, hold, current, queued, run, lifecycle, strays, crashes>>

\* ValidateAgainst the facts the arbiter was given
Legal(p, seen) ==
  /\ p.dispatch \/ SetsHold(p) => seen.phase = "writing"
  /\ p.reopen => seen.phase = "complete"

OpOf(c, p) == [msg |-> call[c].msg, seen |-> call[c].seen, plan |-> p]

\* The arbiter decides; control actions are queued for the boundary, unless
\* engine.enqueue finds no engine running
Decide(c, p) ==
  /\ call[c].pc = "asked"
  /\ Legal(p, call[c].seen)
  /\ \/ /\ ~HasControl(p)
        /\ Settle(c, call[c].restart)
        /\ UNCHANGED ops
     \/ /\ HasControl(p) /\ Running
        /\ ops' = Append(ops, OpOf(c, p))
        /\ Settle(c, call[c].restart)
     \/ /\ HasControl(p) /\ ~Running
        /\ call' = [call EXCEPT ![c].pc = "direct", ![c].plan = p]
        /\ UNCHANGED ops
  /\ UNCHANGED <<book, meta, interMu, current, next, deferNext, run, lifecycle,
                 strays, crashes>>

\* Mutant: a failed decision is tried from the start, with the mutex held
DecideFailsLocked(c) ==
  /\ call[c].pc = "asked"
  /\ Goto(c, "lock")
  /\ UNCHANGED <<book, meta, interMu, current, queued, run, lifecycle, strays,
                 crashes>>

\* The user is told, nothing is written, the engine is not started
DecideFails(c) ==
  /\ call[c].pc = "asked"
  /\ Settle(c, FALSE)
  /\ UNCHANGED <<book, meta, interMu, current, queued, run, lifecycle, strays,
                 crashes>>

\* applyControlOp in the caller.  A stale dispatch is decided again: the nested
\* doIntervention asks for the mutex its caller holds and never gets it, so a
\* "nested" call has no further step.
ApplyDirectly(c) ==
  LET op == OpOf(c, call[c].plan) IN
  /\ call[c].pc = "direct"
  /\ \/ /\ Stale(op)
        /\ Goto(c, "nested")
        /\ UNCHANGED <<book, hold, interMu, next, deferNext, strays>>
     \/ /\ ~Stale(op) /\ OpFails(op)
        /\ ApplyOp(op)
        /\ call' = [call EXCEPT ![c] = Returned]
        /\ interMu' = None
     \/ /\ ~Stale(op) /\ ~OpFails(op)
        /\ ApplyOp(op)
        /\ Settle(c, call[c].restart \/ op.plan.reopen \/ op.plan.dispatch)
        /\ UNCHANGED interMu
  /\ UNCHANGED <<steer, current, ops, run, lifecycle, crashes>>

\* ClearHandledSteer, the restart, the end of the critical section
Conclude(c) ==
  /\ call[c].pc = "clear"
  /\ steer' = None
  /\ IF call[c].restart /\ ~Running
       THEN \E r \in Slots : StartEngine(r)
       ELSE UNCHANGED <<current, run, lifecycle, strays>>
  /\ interMu' = None
  /\ call' = [call EXCEPT ![c] = Returned]
  /\ UNCHANGED <<book, hold, queued, crashes>>

\* Resume may be called again
ResumeReturns ==
  /\ call[Resumer].pc = "done"
  /\ call' = [call EXCEPT ![Resumer] = IdleCall]
  /\ UNCHANGED <<book, meta, interMu, current, queued, run, lifecycle, strays,
                 crashes>>

--------------------------------------------------------------------------------
(***************************************************************************)
(* The engine loop (engine.run), in goroutine r.                           *)
(***************************************************************************)

At(r, pc) == run[r].pc = pc
Jump(r, pc) == run' = [run EXCEPT ![r].pc = pc]

\* applyPendingOps takes the whole queue, again and again until it is empty; only
\* the top of the loop looks at the context
DrainOps(r) ==
  /\ At(r, "top") \/ At(r, "drain")
  /\ ~(At(r, "top") /\ run[r].cancelled)
  /\ run' = [run EXCEPT ![r].pc    = IF ops = <<>> THEN "gate" ELSE "apply",
                        ![r].batch = ops,
                        ![r].defer = @ /\ At(r, "drain")]
  /\ ops' = <<>>
  /\ UNCHANGED <<book, meta, interMu, call, current, next, deferNext,
                 lifecycle, strays, crashes>>

CancelledAtTop(r) ==
  /\ At(r, "top") /\ run[r].cancelled
  /\ Jump(r, "exit")
  /\ UNCHANGED <<book, meta, interMu, call, current, queued, lifecycle, strays,
                 crashes>>

AfterOp(r) == IF Len(run[r].batch) = 1 THEN "drain" ELSE "apply"

\* An operation that fails puts its text back into the slot
EngineApplies(r) ==
  LET op == Head(run[r].batch) IN
  /\ At(r, "apply")
  /\ ~Stale(op)
  /\ ApplyOp(op)
  /\ steer' = IF OpFails(op) THEN op.msg ELSE steer
  /\ run' = [run EXCEPT
       ![r].pc    = AfterOp(r),
       ![r].batch = Tail(@),
       ![r].defer = @ \/ (~OpFails(op) /\ SetsHold(op.plan) /\ op.plan.dispatch)]
  /\ UNCHANGED <<interMu, call, current, ops, lifecycle, crashes>>

\* A stale dispatch is dropped with its hold and its text is decided again, in
\* the engine's goroutine
EngineReconsults(r) ==
  LET op == Head(run[r].batch) IN
  /\ At(r, "apply")
  /\ Stale(op)
  /\ call' = [call EXCEPT ![r] = Entering(op.msg, FALSE)]
  /\ run' = [run EXCEPT ![r].batch = Tail(@), ![r].pc = "reconsult"]
  /\ UNCHANGED <<book, meta, interMu, current, queued, lifecycle, strays,
                 crashes>>

ReconsultReturns(r) ==
  /\ At(r, "reconsult")
  /\ call[r].pc = "done"
  /\ call' = [call EXCEPT ![r] = IdleCall]
  /\ Jump(r, IF run[r].batch = <<>> THEN "drain" ELSE "apply")
  /\ UNCHANGED <<book, meta, interMu, current, queued, lifecycle, strays,
                 crashes>>

\* ResolveAdvanceHold: ConsumeAndStop
HoldStops ==
  /\ book.phase = "writing"
  /\ \/ hold.after = "boundary"
     \/ hold.after = "drained" /\ ~book.queue

GateDeferred(r) == run[r].defer \/ (next # None /\ deferNext)

\* Mutant: only the end of a rewriting round stops the loop
PassBoundaryUnlessDrained(r, pc) ==
  \/ /\ HoldStops /\ hold.after = "drained"
     /\ hold' = NoHold
     /\ run' = [run EXCEPT ![r] = [PausedRun(r) EXCEPT !.pc = "exit"]]
     /\ lifecycle' = PausedLifecycle
  \/ /\ hold.after # "drained" \/ ~HoldStops
     /\ hold' = IF book.phase = "complete" THEN NoHold ELSE hold
     /\ Jump(r, pc)
     /\ UNCHANGED lifecycle

\* ChapterAdvanceGate.HandleBoundary, before and after a turn
PassBoundary(r, pc) ==
  \/ /\ HoldStops
     /\ hold' = NoHold
     /\ run' = [run EXCEPT ![r] = [PausedRun(r) EXCEPT !.pc = "exit"]]
     /\ lifecycle' = PausedLifecycle
  \/ /\ ~HoldStops
     /\ hold' = IF book.phase = "complete" THEN NoHold ELSE hold
     /\ Jump(r, pc)
     /\ UNCHANGED lifecycle

GateBeforeTurn(r) ==
  /\ At(r, "gate")
  /\ IF GateDeferred(r)
       THEN Jump(r, "take") /\ UNCHANGED <<hold, lifecycle, strays>>
       ELSE PassBoundary(r, "take") /\ Recount
  /\ UNCHANGED <<book, steer, interMu, call, current, queued, crashes>>

GateAfterTurn(r) ==
  /\ At(r, "settle")
  /\ PassBoundary(r, "top") /\ Recount
  /\ UNCHANGED <<book, steer, interMu, call, current, queued, crashes>>

\* takeNext, else the automatic commit of a chapter whose units are all written,
\* else Route; precheck drops every dispatch of a complete book and Route has
\* nothing for one
TurnOf(book0) ==
  CASE book0.phase = "writing" /\ next = None /\ ~book0.queue -> {"turn", "commit"}
    [] book0.phase = "writing" /\ (next # None \/ book0.queue) -> {"turn"}
    [] book0.phase = "complete" -> {IF next # None THEN "top" ELSE "exit"}

TakeTurn(r) ==
  /\ At(r, "take")
  /\ next' = None /\ deferNext' = FALSE
  /\ \E pc \in TurnOf(book) : Jump(r, pc)
  /\ strays' = IF book.phase = "writing" /\ HoldStops /\ ~run[r].cancelled
                    /\ ~(next # None /\ next = hold.msg /\ deferNext)
                    /\ strays < 2
                 THEN strays + 1 ELSE strays
  /\ UNCHANGED <<book, meta, interMu, call, current, ops, lifecycle, crashes>>

\* What a turn leaves of a book being written: chapters are queued for rewriting or
\* the queue is worked off, the book is finished (with its last chapter or rewrite)
FinishesBook ==
  /\ "finish" \in BookMoves
  /\ book.phase = "writing"
  /\ book' = [phase |-> "complete", queue |-> FALSE]

TurnsQueue ==
  /\ "rewrites" \in BookMoves
  /\ book.phase = "writing"
  /\ book' = [book EXCEPT !.queue = ~@]

\* pauseWithNotify, then return
PausesItself(r) ==
  /\ run' = [run EXCEPT ![r] = [PausedRun(r) EXCEPT !.pc = "exit"]]
  /\ lifecycle' = PausedLifecycle

\* A worker runs, and the book may be changed by it.  The engine pauses itself on a
\* deadlock or the budget, and a second failure of one instruction may have another
\* one dispatched.
TurnEnds(r) ==
  /\ At(r, "turn")
  /\ UNCHANGED book \/ TurnsQueue \/ FinishesBook
  /\ \/ /\ run[r].cancelled
        /\ Jump(r, "exit")
        /\ UNCHANGED <<next, deferNext, lifecycle>>
     \/ /\ ~run[r].cancelled
        /\ Jump(r, "settle")
        /\ \/ UNCHANGED <<next, deferNext>>
           \/ next' = Router /\ deferNext' = FALSE
        /\ UNCHANGED lifecycle
     \/ /\ ~run[r].cancelled
        /\ PausesItself(r)
        /\ UNCHANGED <<next, deferNext>>
  /\ UNCHANGED <<meta, interMu, call, current, ops, strays, crashes>>

\* The wait for the chapter's images, which a cancelled engine gives up, and the
\* automatic commit.  The loop goes on at its top, past the gate after a turn; a
\* refused commit pauses the engine.
AutoCommitEnds(r) ==
  /\ At(r, "commit")
  /\ \/ UNCHANGED book /\ run[r].cancelled /\ Jump(r, "exit") /\ UNCHANGED lifecycle
     \/ (UNCHANGED book \/ FinishesBook) /\ Jump(r, "top") /\ UNCHANGED lifecycle
     \/ (UNCHANGED book \/ FinishesBook) /\ PausesItself(r)
  /\ UNCHANGED <<meta, interMu, call, current, queued, strays, crashes>>

\* The deferred function, first part: the engine is free for another start
LeaveLoop(r) ==
  /\ At(r, "exit")
  /\ current' = None
  /\ run' = [run EXCEPT ![r].pc = "restore", ![r].batch = ops]
  /\ ops' = <<>>
  /\ UNCHANGED <<book, meta, interMu, call, next, deferNext, lifecycle, strays,
                 crashes>>

\* Second part: holds and reopenings of the leftover are applied, the text of a
\* dispatch goes back into the slot
RestoreLeftover(r) ==
  /\ At(r, "restore") /\ run[r].batch # <<>>
  /\ LET op == Head(run[r].batch) IN
     /\ steer' = IF op.plan.dispatch THEN op.msg ELSE steer
     /\ ApplyHold(op)
     /\ ApplyReopen(op)
     /\ RecountHold(op)
  /\ run' = [run EXCEPT ![r].batch = Tail(@)]
  /\ UNCHANGED <<interMu, call, current, queued, lifecycle, crashes>>

\* Host.runEnded
RunEnded(r) ==
  /\ At(r, "restore") /\ run[r].batch = <<>>
  /\ run' = [run EXCEPT ![r] = NoRun]
  /\ lifecycle' = IF book.phase = "complete" THEN "completed"
                  ELSE IF lifecycle = "running" THEN "idle" ELSE lifecycle
  /\ UNCHANGED <<book, meta, interMu, call, current, queued, strays, crashes>>

--------------------------------------------------------------------------------
(***************************************************************************)
(* The user's reopening of a finished book, and process death.             *)
(***************************************************************************)

\* Host.Reopen without a direction: the book is written on
UserReopens ==
  /\ lifecycle # "running"
  /\ book.phase = "complete"
  /\ book' = FreshBook
  /\ UNCHANGED <<meta, interMu, call, current, queued, run, lifecycle, strays,
                 crashes>>

\* The files survive; a message whose call died has been sent
Crash ==
  /\ crashes < MaxCrashes
  /\ crashes' = crashes + 1
  /\ interMu' = None
  /\ call' = [c \in Callers |->
                IF c \in Messages /\ call[c].pc # "idle"
                  THEN Returned ELSE IdleCall]
  /\ current' = None
  /\ ops' = <<>> /\ next' = None /\ deferNext' = FALSE
  /\ run' = [r \in Slots |-> NoRun]
  /\ lifecycle' = "idle"
  /\ UNCHANGED <<book, meta, strays>>

CallStep(c) ==
  \/ Acquire(c) \/ (\E p \in Plans : Decide(c, p)) \/ DecideFails(c)
  \/ ApplyDirectly(c) \/ Conclude(c)

EngineStep(r) ==
  \/ DrainOps(r) \/ CancelledAtTop(r) \/ EngineApplies(r)
  \/ EngineReconsults(r) \/ ReconsultReturns(r)
  \/ GateBeforeTurn(r) \/ TakeTurn(r) \/ TurnEnds(r) \/ AutoCommitEnds(r)
  \/ GateAfterTurn(r)
  \/ LeaveLoop(r) \/ RestoreLeftover(r) \/ RunEnded(r)

UserStep ==
  \/ \E m \in Messages : UserSends(m)
  \/ UserResumes \/ UserReopens \/ Abort

InterventionNext ==
  \/ \E c \in Callers : CallStep(c)
  \/ \E r \in Slots : EngineStep(r)
  \/ ResumeReturns \/ UserStep \/ Crash

\* The goroutines run; the arbiter's call returns with a decision or an error and
\* a worker's turn ends.  sync.Mutex serves its waiters in turn once one has waited
\* for a millisecond.  The user does nothing of necessity.
InterventionFairness ==
  /\ \A c \in Callers : WF_vars(CallStep(c)) /\ SF_vars(Acquire(c))
  /\ \A r \in Slots : WF_vars(EngineStep(r))

InterventionSpec ==
  InterventionInit /\ [][InterventionNext]_vars /\ InterventionFairness

--------------------------------------------------------------------------------
(***************************************************************************)
(* Properties.                                                             *)
(***************************************************************************)

\* Host.interMu: "at most one consultation in flight", whoever asks for it: Steer,
\* Continue, Resume or the engine itself.
OneConsultation ==
  \A c \in Callers :
    call[c].pc \in {"asked", "direct", "nested", "clear"} => interMu = c

Deciding(c) == call[c].pc \in {"asked", "direct"}

\* doIntervention: from the moment it is accepted until its actions are applied
\* or queued an intervention is backed by the slot, so that a process death finds
\* something to replay.
SlotGuardsDecision ==
  \A c \in Callers : Deciding(c) => steer # None

\* engine.start: however often the engine is stopped and started, at most one
\* goroutine is in its loop, and it is the one that Abort reaches.
OneLoop ==
  \A r \in Slots : run[r].pc \in LoopPCs \cup {"exit"} => current = r

\* What the proofs need besides: a call in flight is about a message
CallsHaveMessages ==
  \A c \in Callers :
    call[c].pc \in {"lock", "asked", "direct", "nested", "clear"}
      => call[c].msg \in Messages

\* ... and a goroutine that applies operations has one to apply
AppliesSomething ==
  \A r \in Slots : run[r].pc = "apply" => run[r].batch # <<>>

InterventionIInv ==
  /\ InterventionTypeOK
  /\ CallsHaveMessages
  /\ AppliesSomething
  /\ OneConsultation
  /\ SlotGuardsDecision
  /\ OneLoop

\* engine.run: from the moment it is set, a hold that should stop the loop lets at
\* most one turn begin that is not its paired dispatch (the one the loop had already
\* decided on), be it a worker's or the automatic commit.
HoldLetsOneTurnPass == strays <= 1

\* What makes it inductive: the stray turn over, no instruction defers the gate until
\* the hold is set again, and the loop passes it only while the hold waits for the
\* rewrites to be worked off
StrayIsOver ==
  /\ book.queue => book.phase = "writing"
  /\ strays = 1 =>
       /\ hold # NoHold
       /\ ~deferNext
       /\ \A r \in Slots :
            /\ run[r].pc \in {"drain", "apply", "reconsult", "gate"} => ~run[r].defer
            /\ run[r].pc = "take" => hold.after = "drained" /\ book.queue

\* engine.abort: a cancelled engine leaves its loop and its clean-up, even when it
\* was waiting for a decision.
AbortStops ==
  \A r \in Slots : run[r].cancelled ~> run[r].pc = "gone"

\* Host.Steer "submits user intervention and waits for the actual decision": every
\* call returns, unless some goroutine has come to ask for the mutex it holds
\* (ReconsultIsAsynchronous below), which is the only way to wait for ever.
CallsReturn ==
  \A m \in Messages :
    call[m].pc = "lock" ~>
      \/ call[m].pc = "done"
      \/ \E c \in Callers : call[c].pc = "nested" /\ interMu = c

\* engine.go, field reconsult: a stale intervention is sent back to the host to be
\* decided "asynchronously": no goroutine waits for the mutex it holds.
ReconsultIsAsynchronous ==
  \A c \in Callers : call[c].pc = "nested" => interMu # c

\* engine.go, the deferred function of run: the text of a leftover dispatch is put
\* back "and the next Resume or Continue replays the whole intervention": only the
\* handling of that very text removes it from the slot.
SlotIsClearedByItsOwner ==
  [][steer # None /\ steer' # steer =>
       \E c \in Callers : c \in {interMu, interMu'} /\ call[c].msg = steer]_vars

\* engine.go, applyControlOp: a dispatch kept in memory is lost by a hard kill
\* only; "a normal exit or Abort puts it back into PendingSteer".
DispatchSurvivesExit ==
  next \in Messages /\ interMu = None /\ (\A r \in Slots : At(r, "gone"))
    => steer = next

\* host.go, startEngine: the old engine's runEnded must not turn the lifecycle of
\* the new one into idle, or Abort and the interface take it for stopped.
LifecycleFollowsEngine ==
  Running => lifecycle \in {"running", "paused"}
================================================================================
