-------------------------- MODULE InterventionProofs --------------------------
(***************************************************************************)
(* Proofs about Intervention for every set of messages, engine goroutines  *)
(* and decisions: the inductive invariant InterventionIInv and the safety  *)
(* properties it implies.                                                  *)
(*                                                                         *)
(* One lemma per action of the next-state relation; StepInv puts them      *)
(* together.  The last part, from StrayInv on, proves on top of it that a  *)
(* one-time hold lets at most one turn pass.                               *)
(***************************************************************************)
EXTENDS Intervention, TLAPS

USE CallersAssumption, PlansAssumption, BookMovesAssumption,
    MaxCrashesAssumption DEF Callers

(* The records the initial state and the returning calls are made of. *)
LEMMA Constants ==
  /\ NoPlan \in PlanShape /\ FreshBook \in Book /\ NoHold \in Hold
  /\ IdleCall \in CallType /\ IdleCall.pc = "idle"
  /\ Returned \in CallType /\ Returned.pc = "done"
<1>1. NoPlan \in PlanShape
  BY DEF NoPlan, PlanShape
<1>2. FreshBook \in Book
  BY DEF FreshBook, Book
<1>3. NoHold \in Hold
  BY DEF NoHold, Hold
<1>4. IdleCall \in CallType /\ IdleCall.pc = "idle"
  BY <1>1, <1>2 DEF IdleCall, CallType, CallPCs
<1>5. Returned \in CallType /\ Returned.pc = "done"
  BY <1>4 DEF Returned, CallType, CallPCs
<1> QED
  BY <1>1, <1>2, <1>3, <1>4, <1>5

(* Queues of operations, taken from the front and extended at the back. *)
LEMMA OpQueues ==
  /\ <<>> \in OpQueue
  /\ \A q \in OpQueue, op \in Op : Append(q, op) \in OpQueue
  /\ \A q \in OpQueue : q # <<>> =>
       /\ Head(q) \in Op /\ Tail(q) \in OpQueue
       /\ Len(q) # 1 => Tail(q) # <<>>
<1>1. ASSUME NEW q \in Seq(Op), q # <<>>, Len(q) # 1 PROVE Tail(q) # <<>>
  <2> DEFINE rest == Tail(q)
  <2>1. Len(q) \in Nat /\ Len(rest) = Len(q) - 1
    BY <1>1, SMTT(30)
  <2>2. Len(rest) # 0
    <3> HIDE DEF rest
    <3> QED  BY <1>1, <2>1, SMTT(30)
  <2>3. ASSUME rest = <<>> PROVE Len(rest) = 0
    <3> HIDE DEF rest
    <3> QED  BY <2>3, SMTT(30)
  <2> QED
    BY <2>2, <2>3
<1> QED
  BY <1>1 DEF OpQueue

(* A goroutine that does not exist, and one that has just been started. *)
LEMMA Goroutines ==
  /\ NoRun \in RunType /\ NoRun.pc = "gone"
  /\ [NoRun EXCEPT !.pc = "top"] \in RunType
  /\ [NoRun EXCEPT !.pc = "top"].pc = "top"
BY OpQueues DEF NoRun, RunType, LoopPCs, ExitPCs

(* The record of a goroutine, changed in one field. *)
LEMMA RunParts ==
  \A r \in RunType :
    /\ \A pc \in LoopPCs \cup ExitPCs \cup {"gone"} :
         [r EXCEPT !.pc = pc] \in RunType /\ [r EXCEPT !.pc = pc].pc = pc
    /\ \A q \in OpQueue :
         [r EXCEPT !.batch = q] \in RunType /\ [r EXCEPT !.batch = q].pc = r.pc
    /\ \A d \in BOOLEAN : [r EXCEPT !.defer = d] \in RunType
BY DEF RunType

(* A goroutine that pauses itself or is paused. *)
LEMMA PausedRunType ==
  ASSUME InterventionIInv, NEW r \in Slots
  PROVE  /\ PausedRun(r) \in RunType
         /\ PausedRun(r).pc = run[r].pc
         /\ PausedRun(r).batch = run[r].batch
         /\ [PausedRun(r) EXCEPT !.pc = "exit"] \in RunType
         /\ [PausedRun(r) EXCEPT !.pc = "exit"].pc = "exit"
<1>1. run[r] \in RunType
  BY DEF InterventionIInv, InterventionTypeOK
<1>2. /\ PausedRun(r) \in RunType
      /\ PausedRun(r).pc = run[r].pc
      /\ PausedRun(r).batch = run[r].batch
  BY <1>1 DEF PausedRun, RunType
<1> QED
  BY <1>2 DEF RunType, ExitPCs

(* A call that starts, and one that is left with clearing the slot. *)
LEMMA EnteringType ==
  ASSUME NEW m \in Messages, NEW restart \in BOOLEAN
  PROVE  /\ Entering(m, restart) \in CallType
         /\ Entering(m, restart).pc = "lock"
         /\ Entering(m, restart).msg = m
         /\ [Entering(m, restart) EXCEPT !.pc = "clear"] \in CallType
         /\ [Entering(m, restart) EXCEPT !.pc = "clear"].pc = "clear"
         /\ [Entering(m, restart) EXCEPT !.pc = "clear"].msg = m
<1>1. /\ Entering(m, restart) \in CallType
      /\ Entering(m, restart).pc = "lock"
      /\ Entering(m, restart).msg = m
  BY Constants DEF Entering, IdleCall, CallType, CallPCs
<1> QED
  BY <1>1 DEF CallType, CallPCs

(* The operation a caller builds from its decision. *)
LEMMA OpOfType ==
  ASSUME InterventionIInv, NEW c \in Callers, NEW p \in PlanShape,
         call[c].msg \in Messages
  PROVE  OpOf(c, p) \in Op
BY DEF InterventionIInv, InterventionTypeOK, OpOf, Op, CallType

(* Applying an operation keeps the types of what it writes. *)
LEMMA ApplyHoldType ==
  ASSUME InterventionIInv, NEW op \in Op, ApplyHold(op)
  PROVE  hold' \in Hold
BY Constants DEF InterventionIInv, InterventionTypeOK, ApplyHold, SetsHold,
                 SetsItsHold, HoldOf, Hold, Op, PlanShape

LEMMA ApplyReopenType ==
  ASSUME InterventionIInv, NEW op \in Op, ApplyReopen(op)
  PROVE  book' \in Book
BY DEF InterventionIInv, InterventionTypeOK, ApplyReopen, Book

LEMMA ApplyDispatchType ==
  ASSUME InterventionIInv, NEW op \in Op, ApplyDispatch(op)
  PROVE  next' \in Messages \cup {None, Router} /\ deferNext' \in BOOLEAN
<1>1. CASE next' = op.msg /\ deferNext' = SetsHold(op.plan)
  BY <1>1 DEF SetsHold, Op
<1>2. CASE UNCHANGED <<next, deferNext>>
  BY <1>2 DEF InterventionIInv, InterventionTypeOK
<1> QED
  BY <1>1, <1>2 DEF ApplyDispatch

LEMMA ApplyOpType ==
  ASSUME InterventionIInv, NEW op \in Op, ApplyOp(op)
  PROVE  /\ hold' \in Hold /\ book' \in Book /\ strays' \in 0..2
         /\ next' \in Messages \cup {None, Router} /\ deferNext' \in BOOLEAN
<1>1. strays' \in 0..2
  BY DEF InterventionIInv, InterventionTypeOK, ApplyOp, RecountHold, Recount
<1> QED
  BY <1>1, ApplyHoldType, ApplyReopenType, ApplyDispatchType DEF ApplyOp

(* A message is sent. *)
LEMMA UserSendsInv ==
  ASSUME InterventionIInv, NEW m \in Messages, UserSends(m)
  PROVE  InterventionIInv'
<1> USE DEF InterventionIInv, InterventionTypeOK, meta, queued
<1>1. \E b \in BOOLEAN : call' = [call EXCEPT ![m] = Entering(m, b)]
  <2> DEFINE b == m \in Continues
  <2>1. b \in BOOLEAN
    OBVIOUS
  <2>2. call' = [call EXCEPT ![m] = Entering(m, b)]
    BY DEF UserSends
  <2> HIDE DEF b
  <2> QED
    BY <2>1, <2>2
<1>2. /\ call' \in [Callers -> CallType]
      /\ \A d \in Callers \ {m} : call'[d] = call[d]
      /\ call'[m].pc = "lock" /\ call'[m].msg = m
  <2>1. PICK b \in BOOLEAN : call' = [call EXCEPT ![m] = Entering(m, b)]
    BY <1>1
  <2>2. /\ Entering(m, b) \in CallType
        /\ Entering(m, b).pc = "lock" /\ Entering(m, b).msg = m
    BY EnteringType
  <2> QED
    BY <2>1, <2>2
<1>3. InterventionTypeOK'
  BY <1>2 DEF UserSends
<1>4. CallsHaveMessages'
  BY <1>2 DEF CallsHaveMessages
<1>5. OneConsultation' /\ SlotGuardsDecision'
  BY <1>2 DEF UserSends, OneConsultation, SlotGuardsDecision, Deciding
<1>6. AppliesSomething' /\ OneLoop'
  BY DEF UserSends, AppliesSomething, OneLoop
<1> QED
  BY <1>3, <1>4, <1>5, <1>6

(* Resume: the message of the slot, or a fresh goroutine. *)
LEMMA UserResumesInv ==
  ASSUME InterventionIInv, UserResumes
  PROVE  InterventionIInv'
<1> USE DEF InterventionIInv, InterventionTypeOK
<1>1. UNCHANGED <<book, meta, interMu, queued, crashes>>
  BY DEF UserResumes
<1>2. /\ call' \in [Callers -> CallType]
      /\ \A d \in Callers \ {Resumer} : call'[d] = call[d]
      /\ \/ call' = call
         \/ call'[Resumer].pc = "lock" /\ call'[Resumer].msg \in Messages
  <2>1. CASE steer # None
    <3>1. steer \in Messages
      BY <2>1
    <3>2. /\ Entering(steer, TRUE) \in CallType
          /\ Entering(steer, TRUE).pc = "lock"
          /\ Entering(steer, TRUE).msg = steer
      BY <3>1, EnteringType
    <3>3. call' = [call EXCEPT ![Resumer] = Entering(steer, TRUE)]
      BY <2>1 DEF UserResumes
    <3> QED
      BY <3>1, <3>2, <3>3
  <2>2. CASE steer = None
    BY <2>2 DEF UserResumes
  <2> QED
    BY <2>1, <2>2
<1>3. \/ UNCHANGED <<current, run, lifecycle, strays>>
      \/ ~Running /\ \E r \in Slots : StartEngine(r)
  BY DEF UserResumes
<1>4. /\ run' \in [Slots -> RunType] /\ current' \in Slots \cup {None}
      /\ strays' \in 0..2
      /\ lifecycle' \in {"idle", "running", "paused", "completed"}
  BY <1>3, Goroutines DEF StartEngine
<1>5. InterventionTypeOK'
  BY <1>1, <1>2, <1>4 DEF meta, queued
<1>6. CallsHaveMessages'
  BY <1>2 DEF CallsHaveMessages
<1>7. AppliesSomething'
  BY <1>3, Goroutines DEF AppliesSomething, StartEngine
<1>8. OneConsultation' /\ SlotGuardsDecision'
  BY <1>1, <1>2 DEF OneConsultation, SlotGuardsDecision, Deciding, meta
<1>9. OneLoop'
  BY <1>3, Goroutines DEF OneLoop, StartEngine, Running
<1> QED
  BY <1>5, <1>6, <1>7, <1>8, <1>9

(* Only the book moves. *)
LEMMA UserReopensInv ==
  ASSUME InterventionIInv, UserReopens
  PROVE  InterventionIInv'
<1> USE DEF InterventionIInv, InterventionTypeOK, UserReopens, meta, queued
<1>1. call' \in [Callers -> CallType]
  BY DEF CallType, CallPCs
<1>2. run' \in [Slots -> RunType]
  BY DEF RunType, LoopPCs, ExitPCs
<1>3. InterventionTypeOK'
  BY <1>1, <1>2, Constants
<1>4. CallsHaveMessages'
  BY DEF CallsHaveMessages, CallType, CallPCs
<1>5. AppliesSomething'
  BY DEF AppliesSomething, RunType, LoopPCs, ExitPCs
<1>6. OneConsultation'
  BY DEF CallsHaveMessages, OneConsultation, CallType, CallPCs
<1>7. SlotGuardsDecision'
  BY DEF SlotGuardsDecision, Deciding, CallsHaveMessages, OneConsultation,
     CallType, CallPCs
<1>8. OneLoop'
  BY DEF OneLoop, RunType, LoopPCs, ExitPCs
<1> QED
  BY <1>3, <1>4, <1>5, <1>6, <1>7, <1>8

(* A goroutine is cancelled; no program counter moves. *)
LEMMA AbortInv ==
  ASSUME InterventionIInv, Abort
  PROVE  InterventionIInv'
<1> USE DEF InterventionIInv, InterventionTypeOK, Abort, meta, queued
<1>1. call' \in [Callers -> CallType]
  BY DEF CallType, CallPCs
<1>2. run' \in [Slots -> RunType]
  BY PausedRunType
<1>3. InterventionTypeOK'
  BY <1>1, <1>2
<1>4. CallsHaveMessages'
  BY DEF CallsHaveMessages, CallType, CallPCs
<1>5. AppliesSomething'
  BY PausedRunType DEF AppliesSomething, LoopPCs
<1>6. OneConsultation'
  BY DEF CallsHaveMessages, OneConsultation, CallType, CallPCs
<1>7. SlotGuardsDecision'
  BY DEF SlotGuardsDecision, Deciding, CallsHaveMessages, OneConsultation,
     CallType, CallPCs
<1>8. OneLoop'
  BY PausedRunType DEF OneLoop, LoopPCs
<1> QED
  BY <1>3, <1>4, <1>5, <1>6, <1>7, <1>8

(* Nothing volatile is left. *)
LEMMA CrashInv ==
  ASSUME InterventionIInv, Crash
  PROVE  InterventionIInv'
<1> USE DEF InterventionIInv, InterventionTypeOK, Crash, meta, queued
<1>1. call' \in [Callers -> CallType]
  BY Constants
<1>2. run' \in [Slots -> RunType]
  BY Goroutines
<1>3. InterventionTypeOK'
  <2>1. crashes' \in 0..MaxCrashes
    OBVIOUS
  <2>2. ops' \in OpQueue
    BY OpQueues
  <2> QED
    BY <1>1, <1>2, <2>1, <2>2
<1>4. CallsHaveMessages'
  BY Constants DEF CallsHaveMessages
<1>5. AppliesSomething'
  BY Goroutines DEF AppliesSomething, LoopPCs
<1>6. OneConsultation'
  BY Constants DEF CallsHaveMessages, OneConsultation
<1>7. SlotGuardsDecision'
  BY Constants DEF CallsHaveMessages, OneConsultation, SlotGuardsDecision,
     Deciding
<1>8. OneLoop'
  BY Goroutines DEF OneLoop, LoopPCs
<1> QED
  BY <1>3, <1>4, <1>5, <1>6, <1>7, <1>8

(* The call of Resume is over. *)
LEMMA ResumeReturnsInv ==
  ASSUME InterventionIInv, ResumeReturns
  PROVE  InterventionIInv'
<1> USE DEF InterventionIInv, InterventionTypeOK, ResumeReturns, meta, queued
<1>1. call' \in [Callers -> CallType]
  BY Constants
<1>2. run' \in [Slots -> RunType]
  BY DEF RunType, LoopPCs, ExitPCs
<1>3. InterventionTypeOK'
  BY <1>1, <1>2
<1>4. CallsHaveMessages'
  BY Constants DEF CallsHaveMessages
<1>5. AppliesSomething'
  BY DEF AppliesSomething, RunType, LoopPCs, ExitPCs
<1>6. OneConsultation'
  BY Constants DEF CallsHaveMessages, OneConsultation
<1>7. SlotGuardsDecision'
  BY Constants DEF CallsHaveMessages, OneConsultation, SlotGuardsDecision,
     Deciding
<1>8. OneLoop'
  BY DEF OneLoop, RunType, LoopPCs, ExitPCs
<1> QED
  BY <1>3, <1>4, <1>5, <1>6, <1>7, <1>8

(* The caller takes the mutex and fills the slot. *)
LEMMA AcquireInv ==
  ASSUME InterventionIInv, NEW c \in Callers, Acquire(c)
  PROVE  InterventionIInv'
<1> USE DEF InterventionIInv, InterventionTypeOK, Acquire, meta, queued
<1>1. call' \in [Callers -> CallType]
  <2> DEFINE new == [call[c] EXCEPT !.pc = "asked", !.seen = book]
  <2>0. call[c] \in CallType /\ book \in Book
    OBVIOUS
  <2>1. new \in CallType
    BY <2>0 DEF CallType, CallPCs
  <2>2. call' = [call EXCEPT ![c] = new]
    OBVIOUS
  <2> QED
    BY <2>1, <2>2
<1>2. run' \in [Slots -> RunType]
  BY DEF RunType, LoopPCs, ExitPCs
<1>3. InterventionTypeOK'
  BY <1>1, <1>2 DEF CallsHaveMessages
<1>4. CallsHaveMessages'
  BY DEF CallsHaveMessages, CallType, CallPCs
<1>5. AppliesSomething'
  BY DEF AppliesSomething, RunType, LoopPCs, ExitPCs
<1>6. OneConsultation'
  BY DEF CallsHaveMessages, OneConsultation, CallType, CallPCs
<1>7. SlotGuardsDecision'
  BY DEF SlotGuardsDecision, Deciding, CallsHaveMessages, OneConsultation,
     CallType, CallPCs
<1>8. OneLoop'
  BY DEF OneLoop, RunType, LoopPCs, ExitPCs
<1> QED
  BY <1>3, <1>4, <1>5, <1>6, <1>7, <1>8

(* The decision is queued or kept by its caller. *)
LEMMA DecideInv ==
  ASSUME InterventionIInv, NEW c \in Callers, NEW p \in Plans, Decide(c, p)
  PROVE  InterventionIInv'
<1> USE DEF InterventionIInv, InterventionTypeOK, Decide, meta, queued, Goto,
    Settle
<1>1. call' \in [Callers -> CallType]
  <2>1. call[c] \in CallType /\ call[c].msg \in Messages
    BY DEF CallsHaveMessages
  <2>2. call[c].restart \in BOOLEAN
    BY <2>1 DEF CallType
  <2>3. [Entering(call[c].msg, call[c].restart) EXCEPT !.pc = "clear"]
          \in CallType
    BY <2>1, <2>2, EnteringType
  <2>4. [call[c] EXCEPT !.pc = "direct", !.plan = p] \in CallType
    BY <2>1 DEF CallType, CallPCs
  <2>5. CASE Settle(c, call[c].restart)
    BY <2>3, <2>5 DEF Settle
  <2>6. CASE call' = [call EXCEPT ![c].pc = "direct", ![c].plan = p]
    <3>1. call' = [call EXCEPT
                     ![c] = [call[c] EXCEPT !.pc = "direct", !.plan = p]]
      BY <2>6
    <3> QED
      BY <3>1, <2>4
  <2> QED
    BY <2>5, <2>6
<1>2. run' \in [Slots -> RunType]
  BY DEF RunType, LoopPCs, ExitPCs
<1>3. InterventionTypeOK'
  <2>1. call[c].msg \in Messages
    BY DEF CallsHaveMessages
  <2>2. OpOf(c, p) \in Op
    BY <2>1, OpOfType
  <2>3. ops' \in OpQueue
    <3>1. ops' = ops \/ ops' = Append(ops, OpOf(c, p))
      OBVIOUS
    <3>2. ops \in OpQueue
      OBVIOUS
    <3>3. Append(ops, OpOf(c, p)) \in OpQueue
      <4> HIDE DEF InterventionIInv, InterventionTypeOK, Decide, Goto, Settle
      <4> QED
        BY <2>2, <3>2, OpQueues
    <3> QED
      BY <3>1, <3>2, <3>3
  <2> QED
    BY <1>1, <1>2, <2>3
<1>4. CallsHaveMessages'
  BY EnteringType DEF CallsHaveMessages, CallType, CallPCs
<1>5. AppliesSomething'
  BY DEF AppliesSomething, RunType, LoopPCs, ExitPCs
<1>6. OneConsultation'
  BY EnteringType DEF CallsHaveMessages, OneConsultation, CallType, CallPCs
<1>7. SlotGuardsDecision'
  BY EnteringType DEF CallsHaveMessages, OneConsultation, SlotGuardsDecision,
     Deciding, CallType, CallPCs
<1>8. OneLoop'
  BY DEF OneLoop, RunType, LoopPCs, ExitPCs
<1> QED
  BY <1>3, <1>4, <1>5, <1>6, <1>7, <1>8

(* The call goes on to clear the slot. *)
LEMMA DecideFailsInv ==
  ASSUME InterventionIInv, NEW c \in Callers, DecideFails(c)
  PROVE  InterventionIInv'
<1> USE DEF InterventionIInv, InterventionTypeOK, meta, queued
<1>1. call[c].pc = "asked" /\ call[c].msg \in Messages
  BY DEF DecideFails, CallsHaveMessages
<1>2. /\ call' \in [Callers -> CallType]
      /\ \A d \in Callers \ {c} : call'[d] = call[d]
      /\ call'[c].pc = "clear" /\ call'[c].msg \in Messages
  BY <1>1, EnteringType DEF DecideFails, Settle
<1>3. InterventionTypeOK'
  BY <1>2 DEF DecideFails
<1>4. CallsHaveMessages'
  BY <1>2 DEF CallsHaveMessages
<1>5. OneConsultation' /\ SlotGuardsDecision'
  BY <1>1, <1>2 DEF DecideFails, OneConsultation, SlotGuardsDecision, Deciding
<1>6. AppliesSomething' /\ OneLoop'
  BY DEF DecideFails, AppliesSomething, OneLoop
<1> QED
  BY <1>3, <1>4, <1>5, <1>6

(* The caller applies the decision itself. *)
LEMMA ApplyDirectlyInv ==
  ASSUME InterventionIInv, NEW c \in Callers, ApplyDirectly(c)
  PROVE  InterventionIInv'
<1> DEFINE op == OpOf(c, call[c].plan)
<1> USE DEF InterventionIInv, InterventionTypeOK
<1>1. op \in Op /\ call[c].msg \in Messages /\ call[c].pc = "direct"
  BY OpOfType DEF ApplyDirectly, CallsHaveMessages, CallType
<1>2. op.plan.reopen \in BOOLEAN /\ op.plan.dispatch \in BOOLEAN
  BY <1>1 DEF Op, PlanShape
<1>3. /\ hold' \in Hold /\ book' \in Book /\ strays' \in 0..2
      /\ next' \in Messages \cup {None, Router} /\ deferNext' \in BOOLEAN
  BY <1>1, ApplyOpType DEF ApplyDirectly
<1>4. /\ call' \in [Callers -> CallType]
      /\ \A d \in Callers \ {c} : call'[d] = call[d]
      /\ \/ call'[c].pc = "done" /\ interMu' = None
         \/ /\ call'[c].pc \in {"nested", "clear"} /\ interMu' = interMu
            /\ call'[c].msg \in Messages
  <2>1. CASE Goto(c, "nested") /\ interMu' = interMu
    BY <1>1, <2>1 DEF Goto, CallType, CallPCs
  <2>2. CASE call' = [call EXCEPT ![c] = Returned] /\ interMu' = None
    BY <2>2, Constants
  <2>3. CASE /\ Settle(c, call[c].restart \/ op.plan.reopen \/ op.plan.dispatch)
             /\ interMu' = interMu
    <3>1. \E b \in BOOLEAN : Settle(c, b) /\ interMu' = interMu
      <4>1. CASE call[c].restart \/ op.plan.reopen \/ op.plan.dispatch
        BY <2>3, <4>1
      <4>2. CASE ~(call[c].restart \/ op.plan.reopen \/ op.plan.dispatch)
        BY <2>3, <4>2
      <4> QED
        BY <4>1, <4>2
    <3> QED
      BY <1>1, <3>1, EnteringType DEF Settle
  <2> QED
    BY <2>1, <2>2, <2>3 DEF ApplyDirectly
<1>5. UNCHANGED <<steer, current, ops, run, lifecycle, crashes>>
  BY DEF ApplyDirectly
<1>6. InterventionTypeOK'
  BY <1>3, <1>4, <1>5
<1>7. CallsHaveMessages'
  BY <1>4 DEF CallsHaveMessages
<1>8. AppliesSomething' /\ OneLoop'
  BY <1>5 DEF AppliesSomething, OneLoop
<1>9. OneConsultation'
  BY <1>1, <1>4 DEF OneConsultation
<1>10. SlotGuardsDecision'
  BY <1>4, <1>5 DEF SlotGuardsDecision, Deciding
<1> QED
  BY <1>6, <1>7, <1>8, <1>9, <1>10

(* The caller clears the slot, may start the engine, and leaves the mutex. *)
LEMMA ConcludeInv ==
  ASSUME InterventionIInv, NEW c \in Callers, Conclude(c)
  PROVE  InterventionIInv'
<1> USE DEF InterventionIInv, InterventionTypeOK, Conclude, meta, queued,
    StartEngine, Running
<1>1. call' \in [Callers -> CallType]
  BY Constants
<1>2. run' \in [Slots -> RunType]
  BY Goroutines
<1>3. InterventionTypeOK'
  BY <1>1, <1>2
<1>4. CallsHaveMessages'
  BY Constants DEF CallsHaveMessages
<1>5. AppliesSomething'
  BY Goroutines DEF AppliesSomething, LoopPCs
<1>6. OneConsultation'
  BY Constants DEF CallsHaveMessages, OneConsultation
<1>7. SlotGuardsDecision'
  BY Constants DEF CallsHaveMessages, OneConsultation, SlotGuardsDecision,
     Deciding
<1>8. OneLoop'
  BY Goroutines DEF OneLoop, LoopPCs
<1> QED
  BY <1>3, <1>4, <1>5, <1>6, <1>7, <1>8

(* The goroutine takes the queued operations. *)
LEMMA DrainOpsInv ==
  ASSUME InterventionIInv, NEW r \in Slots, DrainOps(r)
  PROVE  InterventionIInv'
<1> USE DEF InterventionIInv, InterventionTypeOK, DrainOps, meta, queued, At
<1>1. call' \in [Callers -> CallType]
  BY DEF CallType, CallPCs
<1>2. run' \in [Slots -> RunType]
  <2>1. PICK b \in BOOLEAN :
          run' = [run EXCEPT ![r].pc = IF ops = <<>> THEN "gate" ELSE "apply",
                             ![r].batch = ops,
                             ![r].defer = b]
    <3> DEFINE d == run[r].defer /\ run[r].pc = "drain"
    <3>1. d \in BOOLEAN
      OBVIOUS
    <3>2. run' = [run EXCEPT ![r].pc = IF ops = <<>> THEN "gate" ELSE "apply",
                             ![r].batch = ops,
                             ![r].defer = d]
      OBVIOUS
    <3> HIDE DEF d
    <3> QED
      BY <3>1, <3>2
  <2> DEFINE new == [run[r] EXCEPT !.pc = IF ops = <<>> THEN "gate" ELSE "apply",
                                   !.batch = ops,
                                   !.defer = b]
  <2>2. run[r] \in RunType /\ ops \in OpQueue
    OBVIOUS
  <2>3. new \in RunType
    BY <2>2 DEF RunType, LoopPCs
  <2>4. run' = [run EXCEPT ![r] = new]
    BY <2>1
  <2> HIDE DEF new
  <2> QED
    BY <2>3, <2>4
<1>3. InterventionTypeOK'
  BY <1>1, <1>2, OpQueues
<1>4. CallsHaveMessages'
  BY DEF CallsHaveMessages, CallType, CallPCs
<1>5. AppliesSomething'
  BY DEF AppliesSomething, RunType, LoopPCs, ExitPCs
<1>6. OneConsultation'
  BY DEF CallsHaveMessages, OneConsultation, CallType, CallPCs
<1>7. SlotGuardsDecision'
  BY DEF SlotGuardsDecision, Deciding, CallsHaveMessages, OneConsultation,
     CallType, CallPCs
<1>8. OneLoop'
  BY DEF OneLoop, RunType, LoopPCs, ExitPCs
<1> QED
  BY <1>3, <1>4, <1>5, <1>6, <1>7, <1>8

(* A cancelled goroutine leaves the loop. *)
LEMMA CancelledAtTopInv ==
  ASSUME InterventionIInv, NEW r \in Slots, CancelledAtTop(r)
  PROVE  InterventionIInv'
<1> USE DEF InterventionIInv, InterventionTypeOK, CancelledAtTop, meta, queued,
    At, Jump
<1>1. call' \in [Callers -> CallType]
  BY DEF CallType, CallPCs
<1>2. run' \in [Slots -> RunType]
  BY DEF RunType, LoopPCs, ExitPCs
<1>3. InterventionTypeOK'
  BY <1>1, <1>2
<1>4. CallsHaveMessages'
  BY DEF CallsHaveMessages, CallType, CallPCs
<1>5. AppliesSomething'
  BY DEF AppliesSomething, RunType, LoopPCs, ExitPCs
<1>6. OneConsultation'
  BY DEF CallsHaveMessages, OneConsultation, CallType, CallPCs
<1>7. SlotGuardsDecision'
  BY DEF SlotGuardsDecision, Deciding, CallsHaveMessages, OneConsultation,
     CallType, CallPCs
<1>8. OneLoop'
  BY DEF OneLoop, RunType, LoopPCs, ExitPCs
<1> QED
  BY <1>3, <1>4, <1>5, <1>6, <1>7, <1>8

(* The goroutine applies one operation. *)
LEMMA EngineAppliesInv ==
  ASSUME InterventionIInv, NEW r \in Slots, EngineApplies(r)
  PROVE  InterventionIInv'
<1> DEFINE op == Head(run[r].batch)
<1> USE DEF InterventionIInv, InterventionTypeOK
<1>1. run[r].batch \in OpQueue /\ run[r].batch # <<>> /\ run[r].pc = "apply"
  BY DEF EngineApplies, At, AppliesSomething, RunType
<1>2. op \in Op /\ Tail(run[r].batch) \in OpQueue
  BY <1>1, OpQueues
<1>3. op.msg \in Messages
  BY <1>2 DEF Op
<1>4. /\ hold' \in Hold /\ book' \in Book /\ strays' \in 0..2
      /\ next' \in Messages \cup {None, Router} /\ deferNext' \in BOOLEAN
  BY <1>2, ApplyOpType DEF EngineApplies
<1>5. \/ AfterOp(r) = "drain"
      \/ AfterOp(r) = "apply" /\ Tail(run[r].batch) # <<>>
  BY <1>1, OpQueues DEF AfterOp
<1>6. /\ run' \in [Slots -> RunType]
      /\ \A s \in Slots \ {r} : run'[s] = run[s]
      /\ run'[r].pc = AfterOp(r) /\ run'[r].batch = Tail(run[r].batch)
  <2>0. PICK b \in BOOLEAN :
          run' = [run EXCEPT ![r].pc = AfterOp(r), ![r].batch = Tail(@),
                             ![r].defer = b]
    <3> DEFINE b == run[r].defer \/ (~OpFails(op) /\ SetsHold(op.plan)
                                      /\ op.plan.dispatch)
    <3>1. b \in BOOLEAN
      OBVIOUS
    <3>2. run' = [run EXCEPT ![r].pc = AfterOp(r), ![r].batch = Tail(@),
                             ![r].defer = b]
      BY DEF EngineApplies
    <3> HIDE DEF b
    <3> QED
      BY <3>1, <3>2
  <2> DEFINE new == [run[r] EXCEPT !.pc = AfterOp(r), !.batch = Tail(@),
                               !.defer = b]
  <2>1. new \in RunType /\ new.pc = AfterOp(r) /\ new.batch = Tail(run[r].batch)
    BY <1>1, <1>2, <2>0, <1>5 DEF RunType, LoopPCs
  <2>2. run' = [run EXCEPT ![r] = new]
    BY <2>0
  <2> HIDE DEF new
  <2> QED
    BY <1>1, <2>1, <2>2
<1>7. /\ steer' \in {steer, op.msg}
      /\ UNCHANGED <<interMu, call, current, ops, lifecycle, crashes>>
  BY DEF EngineApplies
<1> HIDE DEF op
<1>8. InterventionTypeOK'
  BY <1>3, <1>4, <1>6, <1>7
<1>9. CallsHaveMessages' /\ OneConsultation'
  BY <1>7 DEF CallsHaveMessages, OneConsultation
<1>10. SlotGuardsDecision'
  BY <1>3, <1>7 DEF SlotGuardsDecision, Deciding
<1>11. AppliesSomething'
  BY <1>5, <1>6 DEF AppliesSomething
<1>12. OneLoop'
  BY <1>1, <1>5, <1>6, <1>7 DEF OneLoop, LoopPCs
<1> QED
  BY <1>8, <1>9, <1>10, <1>11, <1>12

(* The goroutine becomes a caller. *)
LEMMA EngineReconsultsInv ==
  ASSUME InterventionIInv, NEW r \in Slots, EngineReconsults(r)
  PROVE  InterventionIInv'
<1> DEFINE op == Head(run[r].batch)
<1> USE DEF InterventionIInv, InterventionTypeOK
<1>1. run[r].batch \in OpQueue /\ run[r].batch # <<>> /\ run[r].pc = "apply"
  BY DEF EngineReconsults, At, AppliesSomething, RunType
<1>2. op \in Op /\ Tail(run[r].batch) \in OpQueue
  BY <1>1, OpQueues
<1>3. op.msg \in Messages
  BY <1>2 DEF Op
<1>4. /\ call' \in [Callers -> CallType]
      /\ \A d \in Callers \ {r} : call'[d] = call[d]
      /\ call'[r].pc = "lock" /\ call'[r].msg \in Messages
  BY <1>3, EnteringType DEF EngineReconsults
<1>5. /\ run' \in [Slots -> RunType]
      /\ \A s \in Slots \ {r} : run'[s] = run[s]
      /\ run'[r].pc = "reconsult"
  <2> DEFINE new == [run[r] EXCEPT !.batch = Tail(@), !.pc = "reconsult"]
  <2>1. new \in RunType /\ new.pc = "reconsult"
    <3> DEFINE old == [run[r] EXCEPT !.batch = Tail(@)]
    <3>1. old \in RunType
      BY <1>1, <1>2, RunParts
    <3>2. new = [old EXCEPT !.pc = "reconsult"]
      OBVIOUS
    <3> HIDE DEF old, new
    <3> QED
      BY <3>1, <3>2, RunParts DEF LoopPCs
  <2>2. run' = [run EXCEPT ![r] = new]
    BY DEF EngineReconsults
  <2> HIDE DEF new
  <2> QED
    BY <1>1, <2>1, <2>2
<1>6. UNCHANGED <<book, meta, interMu, current, queued, lifecycle, strays,
                  crashes>>
  BY DEF EngineReconsults
<1> HIDE DEF op
<1>7. InterventionTypeOK'
  BY <1>4, <1>5, <1>6 DEF meta, queued
<1>8. CallsHaveMessages'
  BY <1>4 DEF CallsHaveMessages
<1>9. AppliesSomething'
  BY <1>5 DEF AppliesSomething
<1>10. OneConsultation' /\ SlotGuardsDecision'
  BY <1>4, <1>6 DEF OneConsultation, SlotGuardsDecision, Deciding, meta
<1>11. OneLoop'
  BY <1>1, <1>5, <1>6 DEF OneLoop, LoopPCs
<1> QED
  BY <1>7, <1>8, <1>9, <1>10, <1>11

(* The goroutine goes on with its operations. *)
LEMMA ReconsultReturnsInv ==
  ASSUME InterventionIInv, NEW r \in Slots, ReconsultReturns(r)
  PROVE  InterventionIInv'
<1> USE DEF InterventionIInv, InterventionTypeOK, ReconsultReturns, meta,
    queued, At, Jump
<1>1. call' \in [Callers -> CallType]
  BY Constants
<1>2. run' \in [Slots -> RunType]
  BY DEF RunType, LoopPCs, ExitPCs
<1>3. InterventionTypeOK'
  BY <1>1, <1>2
<1>4. CallsHaveMessages'
  BY Constants DEF CallsHaveMessages
<1>5. AppliesSomething'
  BY DEF AppliesSomething, RunType, LoopPCs, ExitPCs
<1>6. OneConsultation'
  BY Constants DEF CallsHaveMessages, OneConsultation
<1>7. SlotGuardsDecision'
  BY Constants DEF CallsHaveMessages, OneConsultation, SlotGuardsDecision,
     Deciding
<1>8. OneLoop'
  BY DEF OneLoop, RunType, LoopPCs, ExitPCs
<1> QED
  BY <1>3, <1>4, <1>5, <1>6, <1>7, <1>8

(* The gate stops the loop or lets it pass. *)
LEMMA GateBeforeTurnInv ==
  ASSUME InterventionIInv, NEW r \in Slots, GateBeforeTurn(r)
  PROVE  InterventionIInv'
<1> USE DEF InterventionIInv, InterventionTypeOK, GateBeforeTurn, meta, queued,
    At, Jump, PassBoundary, Recount, PausedLifecycle
<1>1. call' \in [Callers -> CallType]
  BY DEF CallType, CallPCs
<1>2. run' \in [Slots -> RunType]
  BY PausedRunType DEF RunType, LoopPCs, ExitPCs
<1>3. InterventionTypeOK'
  BY <1>1, <1>2, Constants
<1>4. CallsHaveMessages'
  BY DEF CallsHaveMessages, CallType, CallPCs
<1>5. AppliesSomething'
  BY PausedRunType DEF AppliesSomething, RunType, LoopPCs, ExitPCs
<1>6. OneConsultation'
  BY DEF CallsHaveMessages, OneConsultation, CallType, CallPCs
<1>7. SlotGuardsDecision'
  BY DEF SlotGuardsDecision, Deciding, CallsHaveMessages, OneConsultation,
     CallType, CallPCs
<1>8. OneLoop'
  BY PausedRunType DEF OneLoop, RunType, LoopPCs, ExitPCs
<1> QED
  BY <1>3, <1>4, <1>5, <1>6, <1>7, <1>8

(* The next instruction is taken. *)
LEMMA TakeTurnInv ==
  ASSUME InterventionIInv, NEW r \in Slots, TakeTurn(r)
  PROVE  InterventionIInv'
<1> USE DEF InterventionIInv, InterventionTypeOK, meta, queued
<1>0. PICK pc \in {"turn", "commit", "top", "exit"} : Jump(r, pc)
  <2>1. TurnOf(book) \subseteq {"turn", "commit", "top", "exit"}
    BY DEF TurnOf, Book
  <2> QED
    BY <2>1 DEF TakeTurn
<1>1. /\ UNCHANGED <<book, meta, interMu, call, current, ops, lifecycle, crashes>>
      /\ next' = None /\ deferNext' = FALSE /\ run[r].pc = "take"
      /\ strays' \in 0..2
  BY DEF TakeTurn, At
<1>2. /\ run' \in [Slots -> RunType]
      /\ run'[r].pc = pc /\ \A s \in Slots \ {r} : run'[s] = run[s]
  <2> DEFINE new == [run[r] EXCEPT !.pc = pc]
  <2>1. new \in RunType /\ new.pc = pc
    BY RunParts DEF LoopPCs, ExitPCs
  <2>2. run' = [run EXCEPT ![r] = new]
    BY <1>0 DEF Jump
  <2> HIDE DEF new
  <2> QED
    BY <2>1, <2>2
<1>3. InterventionTypeOK'
  BY <1>1, <1>2
<1>4. CallsHaveMessages' /\ OneConsultation' /\ SlotGuardsDecision'
  BY <1>1 DEF CallsHaveMessages, OneConsultation, SlotGuardsDecision, Deciding
<1>5. AppliesSomething'
  BY <1>2 DEF AppliesSomething
<1>6. OneLoop'
  BY <1>1, <1>2 DEF OneLoop, LoopPCs
<1> QED
  BY <1>3, <1>4, <1>5, <1>6

LEMMA TurnedBookType ==
  ASSUME InterventionIInv, TurnsQueue \/ FinishesBook
  PROVE  book' \in Book
<1>1. [book EXCEPT !.queue = ~@] \in Book
  BY DEF InterventionIInv, InterventionTypeOK, Book
<1>2. [phase |-> "complete", queue |-> FALSE] \in Book
  BY DEF Book
<1> QED
  BY <1>1, <1>2 DEF TurnsQueue, FinishesBook

(* A turn ends. *)
LEMMA TurnEndsInv ==
  ASSUME InterventionIInv, NEW r \in Slots, TurnEnds(r)
  PROVE  InterventionIInv'
<1> USE DEF InterventionIInv, InterventionTypeOK, TurnEnds, PausesItself, meta,
    queued, At, Jump, PausedLifecycle
<1>1. call' \in [Callers -> CallType]
  BY DEF CallType, CallPCs
<1>2. run' \in [Slots -> RunType]
  BY PausedRunType DEF RunType, LoopPCs, ExitPCs
<1>3. InterventionTypeOK'
  <2>1. book' \in Book
    <3>1. CASE UNCHANGED book
      BY <3>1
    <3>2. CASE TurnsQueue \/ FinishesBook
      BY <3>2, TurnedBookType
    <3> QED
      BY <3>1, <3>2
  <2> QED
    BY <1>1, <1>2, <2>1
<1>4. CallsHaveMessages'
  BY DEF CallsHaveMessages, CallType, CallPCs
<1>5. AppliesSomething'
  BY PausedRunType DEF AppliesSomething, RunType, LoopPCs, ExitPCs
<1>6. OneConsultation'
  BY DEF CallsHaveMessages, OneConsultation, CallType, CallPCs
<1>7. SlotGuardsDecision'
  BY DEF SlotGuardsDecision, Deciding, CallsHaveMessages, OneConsultation,
     CallType, CallPCs
<1>8. OneLoop'
  BY PausedRunType DEF OneLoop, RunType, LoopPCs, ExitPCs
<1> QED
  BY <1>3, <1>4, <1>5, <1>6, <1>7, <1>8

(* The automatic commit ends. *)
LEMMA AutoCommitEndsInv ==
  ASSUME InterventionIInv, NEW r \in Slots, AutoCommitEnds(r)
  PROVE  InterventionIInv'
<1> USE DEF InterventionIInv, InterventionTypeOK, AutoCommitEnds, PausesItself, meta,
    queued, At, Jump, PausedLifecycle
<1>1. call' \in [Callers -> CallType]
  BY DEF CallType, CallPCs
<1>2. run' \in [Slots -> RunType]
  BY PausedRunType DEF RunType, LoopPCs, ExitPCs
<1>3. InterventionTypeOK'
  <2>1. book' \in Book
    <3>1. CASE UNCHANGED book
      BY <3>1
    <3>2. CASE FinishesBook
      BY <3>2, TurnedBookType
    <3> QED
      BY <3>1, <3>2
  <2> QED
    BY <1>1, <1>2, <2>1
<1>4. CallsHaveMessages'
  BY DEF CallsHaveMessages, CallType, CallPCs
<1>5. AppliesSomething'
  BY PausedRunType DEF AppliesSomething, RunType, LoopPCs, ExitPCs
<1>6. OneConsultation'
  BY DEF CallsHaveMessages, OneConsultation, CallType, CallPCs
<1>7. SlotGuardsDecision'
  BY DEF SlotGuardsDecision, Deciding, CallsHaveMessages, OneConsultation,
     CallType, CallPCs
<1>8. OneLoop'
  BY PausedRunType DEF OneLoop, RunType, LoopPCs, ExitPCs
<1> QED
  BY <1>3, <1>4, <1>5, <1>6, <1>7, <1>8

(* The gate after a turn. *)
LEMMA GateAfterTurnInv ==
  ASSUME InterventionIInv, NEW r \in Slots, GateAfterTurn(r)
  PROVE  InterventionIInv'
<1> USE DEF InterventionIInv, InterventionTypeOK, GateAfterTurn, meta, queued,
    At, Jump, PassBoundary, Recount, PausedLifecycle
<1>1. call' \in [Callers -> CallType]
  BY DEF CallType, CallPCs
<1>2. run' \in [Slots -> RunType]
  BY PausedRunType DEF RunType, LoopPCs, ExitPCs
<1>3. InterventionTypeOK'
  BY <1>1, <1>2, Constants
<1>4. CallsHaveMessages'
  BY DEF CallsHaveMessages, CallType, CallPCs
<1>5. AppliesSomething'
  BY PausedRunType DEF AppliesSomething, RunType, LoopPCs, ExitPCs
<1>6. OneConsultation'
  BY DEF CallsHaveMessages, OneConsultation, CallType, CallPCs
<1>7. SlotGuardsDecision'
  BY DEF SlotGuardsDecision, Deciding, CallsHaveMessages, OneConsultation,
     CallType, CallPCs
<1>8. OneLoop'
  BY PausedRunType DEF OneLoop, RunType, LoopPCs, ExitPCs
<1> QED
  BY <1>3, <1>4, <1>5, <1>6, <1>7, <1>8

(* The engine is free for another start. *)
LEMMA LeaveLoopInv ==
  ASSUME InterventionIInv, NEW r \in Slots, LeaveLoop(r)
  PROVE  InterventionIInv'
<1> USE DEF InterventionIInv, InterventionTypeOK, LeaveLoop, meta, queued, At
<1>1. call' \in [Callers -> CallType]
  BY DEF CallType, CallPCs
<1>2. run' \in [Slots -> RunType]
  <2> DEFINE new == [run[r] EXCEPT !.pc = "restore", !.batch = ops]
  <2>1. new \in RunType
    <3> DEFINE old == [run[r] EXCEPT !.pc = "restore"]
    <3>1. old \in RunType
      BY RunParts DEF ExitPCs
    <3>2. new = [old EXCEPT !.batch = ops]
      OBVIOUS
    <3> HIDE DEF old, new
    <3> QED
      BY <3>1, <3>2, RunParts
  <2>2. run' = [run EXCEPT ![r] = new]
    OBVIOUS
  <2> QED
    BY <2>1, <2>2
<1>3. InterventionTypeOK'
  BY <1>1, <1>2, OpQueues
<1>4. CallsHaveMessages'
  BY DEF CallsHaveMessages, CallType, CallPCs
<1>5. AppliesSomething'
  BY DEF AppliesSomething, RunType, LoopPCs, ExitPCs
<1>6. OneConsultation'
  BY DEF CallsHaveMessages, OneConsultation, CallType, CallPCs
<1>7. SlotGuardsDecision'
  BY DEF SlotGuardsDecision, Deciding, CallsHaveMessages, OneConsultation,
     CallType, CallPCs
<1>8. OneLoop'
  BY DEF OneLoop, RunType, LoopPCs, ExitPCs
<1> QED
  BY <1>3, <1>4, <1>5, <1>6, <1>7, <1>8

(* One leftover operation. *)
LEMMA RestoreLeftoverInv ==
  ASSUME InterventionIInv, NEW r \in Slots, RestoreLeftover(r)
  PROVE  InterventionIInv'
<1> DEFINE op == Head(run[r].batch)
<1> USE DEF InterventionIInv, InterventionTypeOK
<1>1. run[r].batch \in OpQueue /\ run[r].batch # <<>> /\ run[r].pc = "restore"
  BY DEF RestoreLeftover, At, RunType
<1>2. op \in Op /\ Tail(run[r].batch) \in OpQueue
  BY <1>1, OpQueues
<1>3. op.msg \in Messages
  BY <1>2 DEF Op
<1>4. hold' \in Hold /\ book' \in Book /\ strays' \in 0..2
  BY <1>2, ApplyHoldType, ApplyReopenType DEF RestoreLeftover, RecountHold, Recount
<1>5. /\ run' \in [Slots -> RunType]
      /\ \A s \in Slots : run'[s].pc = run[s].pc
      /\ \A s \in Slots \ {r} : run'[s] = run[s]
  <2> DEFINE new == [run[r] EXCEPT !.batch = Tail(@)]
  <2>1. new \in RunType /\ new.pc = run[r].pc
    BY <1>1, <1>2, RunParts
  <2>2. run' = [run EXCEPT ![r] = new]
    BY DEF RestoreLeftover
  <2> HIDE DEF new
  <2> QED
    BY <1>1, <2>1, <2>2
<1>6. /\ steer' \in {steer, op.msg}
      /\ UNCHANGED <<interMu, call, current, queued, lifecycle, crashes>>
  BY DEF RestoreLeftover
<1> HIDE DEF op
<1>7. InterventionTypeOK'
  BY <1>3, <1>4, <1>5, <1>6 DEF queued
<1>8. CallsHaveMessages' /\ OneConsultation'
  BY <1>6 DEF CallsHaveMessages, OneConsultation
<1>9. SlotGuardsDecision'
  BY <1>3, <1>6 DEF SlotGuardsDecision, Deciding
<1>10. AppliesSomething'
  BY <1>1, <1>5 DEF AppliesSomething
<1>11. OneLoop'
  BY <1>5, <1>6 DEF OneLoop
<1> QED
  BY <1>7, <1>8, <1>9, <1>10, <1>11

(* The goroutine ends. *)
LEMMA RunEndedInv ==
  ASSUME InterventionIInv, NEW r \in Slots, RunEnded(r)
  PROVE  InterventionIInv'
<1> USE DEF InterventionIInv, InterventionTypeOK, RunEnded, meta, queued, At
<1>1. call' \in [Callers -> CallType]
  BY DEF CallType, CallPCs
<1>2. run' \in [Slots -> RunType]
  BY Goroutines
<1>3. InterventionTypeOK'
  BY <1>1, <1>2
<1>4. CallsHaveMessages'
  BY DEF CallsHaveMessages, CallType, CallPCs
<1>5. AppliesSomething'
  BY Goroutines DEF AppliesSomething, LoopPCs
<1>6. OneConsultation'
  BY DEF CallsHaveMessages, OneConsultation, CallType, CallPCs
<1>7. SlotGuardsDecision'
  BY DEF SlotGuardsDecision, Deciding, CallsHaveMessages, OneConsultation,
     CallType, CallPCs
<1>8. OneLoop'
  BY Goroutines DEF OneLoop, LoopPCs
<1> QED
  BY <1>3, <1>4, <1>5, <1>6, <1>7, <1>8

(* The state the program starts in. *)
LEMMA InitInv ==
  ASSUME InterventionInit
  PROVE  InterventionIInv
<1> USE Constants, Goroutines DEF InterventionInit
<1>1. 0 \in 0..MaxCrashes /\ 0 \in 0..2
  OBVIOUS
<1>2. InterventionTypeOK
  BY <1>1, OpQueues DEF InterventionTypeOK
<1>3. CallsHaveMessages /\ OneConsultation /\ SlotGuardsDecision
  BY DEF CallsHaveMessages, OneConsultation, SlotGuardsDecision, Deciding
<1>4. AppliesSomething /\ OneLoop
  BY DEF AppliesSomething, OneLoop, LoopPCs
<1> QED
  BY <1>2, <1>3, <1>4 DEF InterventionIInv

(* Every step, or none, keeps the invariant. *)
LEMMA StepInv ==
  ASSUME InterventionIInv, [InterventionNext]_vars
  PROVE  InterventionIInv'
<1>1. ASSUME NEW c \in Callers, CallStep(c) PROVE InterventionIInv'
  BY <1>1, AcquireInv, DecideInv, DecideFailsInv, ApplyDirectlyInv, ConcludeInv
     DEF CallStep
<1>2. ASSUME NEW r \in Slots, EngineStep(r) PROVE InterventionIInv'
  BY <1>2, DrainOpsInv, CancelledAtTopInv, EngineAppliesInv,
     EngineReconsultsInv, ReconsultReturnsInv, GateBeforeTurnInv, TakeTurnInv,
     TurnEndsInv, AutoCommitEndsInv, GateAfterTurnInv, LeaveLoopInv,
     RestoreLeftoverInv, RunEndedInv DEF EngineStep
<1>3. CASE UserStep
  BY <1>3, UserSendsInv, UserResumesInv, UserReopensInv, AbortInv DEF UserStep
<1>4. CASE ResumeReturns
  BY <1>4, ResumeReturnsInv
<1>5. CASE Crash
  BY <1>5, CrashInv
<1>6. CASE UNCHANGED vars
  BY <1>6 DEF vars, meta, queued, InterventionIInv, InterventionTypeOK,
     CallsHaveMessages, AppliesSomething, OneConsultation, SlotGuardsDecision,
     Deciding, OneLoop
<1> QED
  BY <1>1, <1>2, <1>3, <1>4, <1>5, <1>6 DEF InterventionNext

--------------------------------------------------------------------------------
\* Whatever the user sends and however often the engine is started, stopped or
\* killed, the state stays within its types and within the three properties
\* below, which only hold together: the slot is safe because nobody but the holder
\* of Host.interMu clears it.
THEOREM InterventionInvariance == InterventionSpec => []InterventionIInv
<1>1. InterventionInit => InterventionIInv
  BY InitInv
<1>2. InterventionIInv /\ [InterventionNext]_vars => InterventionIInv'
  BY StepInv
<1> QED
  BY <1>1, <1>2, PTL DEF InterventionSpec

\* doIntervention holds Host.interMu from the slot's first write to its clearing:
\* at most one consultation is in flight.
THEOREM ConsultsOneAtATime == InterventionSpec => []OneConsultation
<1>1. InterventionIInv => OneConsultation
  BY DEF InterventionIInv
<1> QED
  BY <1>1, InterventionInvariance, PTL

\* An intervention whose decision is not yet applied or queued is backed by the
\* slot of meta/run.json, whatever other calls do to the slot.
THEOREM DecisionIsGuarded == InterventionSpec => []SlotGuardsDecision
<1>1. InterventionIInv => SlotGuardsDecision
  BY DEF InterventionIInv
<1> QED
  BY <1>1, InterventionInvariance, PTL

\* engine.start and the deferred clean-up of the loop never leave two goroutines
\* in it, and the one there is the one engine.cancel reaches.
THEOREM SingleLoop == InterventionSpec => []OneLoop
<1>1. InterventionIInv => OneLoop
  BY DEF InterventionIInv
<1> QED
  BY <1>1, InterventionInvariance, PTL

--------------------------------------------------------------------------------
(***************************************************************************)
(* A hold and the turns it lets pass.  strays begins anew with the hold,   *)
(* so that the question is whether the loop may begin a second stray turn  *)
(* under the same one.  It cannot: to begin another turn it has to come    *)
(* from the gate, which only an instruction that sets the hold again       *)
(* defers, and which the hold does not let it pass unless it waits for the *)
(* rewrites to be worked off; only the loop's own turn does that.          *)
(***************************************************************************)

AtTake(r)   == run[r].pc = "take"
Deferred(r) == /\ run[r].pc \in {"drain", "apply", "reconsult", "gate"}
               /\ run[r].defer
StrayInv == StrayIsOver /\ HoldLetsOneTurnPass

LEMMA StrayKept ==
  ASSUME InterventionIInv, StrayInv, Recount,
         book'.queue => book'.phase = "writing", deferNext' => deferNext,
         \A r \in Slots : Deferred(r)' => Deferred(r),
         \A r \in Slots : AtTake(r)' => AtTake(r) /\ (book.queue => book'.queue)
  PROVE  StrayInv'
BY DEF StrayInv, StrayIsOver, HoldLetsOneTurnPass, Recount, AtTake, Deferred

LEMMA StrayReset ==
  ASSUME strays' = 0, book'.queue => book'.phase = "writing"
  PROVE  StrayInv'
BY DEF StrayInv, StrayIsOver, HoldLetsOneTurnPass

\* Steps that leave the book alone and move no goroutine but out of its loop.
LEMMA StrayStill ==
  ASSUME InterventionIInv, StrayInv, UNCHANGED <<book, hold, strays>>,
         deferNext' => deferNext,
         \A r \in Slots : \/ run'[r].pc \in {"gone", "exit", "restore"}
                          \/ run'[r].pc = run[r].pc /\ run'[r].defer = run[r].defer
  PROVE  StrayInv'
<1>1. Recount
  BY DEF Recount
<1>2. \A r \in Slots : (AtTake(r)' => AtTake(r)) /\ (Deferred(r)' => Deferred(r))
  BY DEF AtTake, Deferred
<1> QED
  BY <1>1, <1>2, StrayKept DEF StrayInv, StrayIsOver

LEMMA ReopenKeepsQueue ==
  ASSUME InterventionIInv, StrayInv, NEW op, ApplyReopen(op)
  PROVE  /\ book'.queue => book'.phase = "writing"
         /\ book.queue => book'.queue
BY DEF ApplyReopen, InterventionIInv, InterventionTypeOK, Book, StrayInv, StrayIsOver

\* An operation either sets the hold, and the count begins anew, or defers nothing.
LEMMA StrayOperation ==
  ASSUME InterventionIInv, StrayInv, NEW op, RecountHold(op), ApplyReopen(op),
         UNCHANGED deferNext \/ ApplyDispatch(op),
         ~SetsItsHold(op) => \A r \in Slots : Deferred(r)' => Deferred(r),
         \A r \in Slots : AtTake(r)' => AtTake(r)
  PROVE  StrayInv'
<1>1. CASE SetsItsHold(op)
  BY <1>1, StrayReset, ReopenKeepsQueue DEF RecountHold
<1>2. CASE ~SetsItsHold(op)
  <2>1. deferNext' => deferNext
    BY <1>2 DEF ApplyDispatch, SetsItsHold
  <2>2. Recount
    BY <1>2 DEF RecountHold
  <2> QED
    BY <1>2, <2>1, <2>2, StrayKept, ReopenKeepsQueue
<1> QED
  BY <1>1, <1>2

LEMMA StrayCalls ==
  ASSUME InterventionIInv, StrayInv, NEW c \in Callers, CallStep(c)
  PROVE  StrayInv'
<1>1. CASE Acquire(c) \/ (\E p \in Plans : Decide(c, p)) \/ DecideFails(c)
  <2>1. UNCHANGED <<book, hold, strays, run, deferNext>>
    BY <1>1 DEF Acquire, Decide, DecideFails, meta, queued
  <2> QED
    BY <2>1, StrayStill
<1>2. CASE ApplyDirectly(c)
  <2>1. UNCHANGED run
    BY <1>2 DEF ApplyDirectly
  <2>2. CASE UNCHANGED <<book, hold, strays, deferNext>>
    BY <2>1, <2>2, StrayStill
  <2>3. ASSUME NEW op, ApplyOp(op) PROVE StrayInv'
    <3>1. RecountHold(op) /\ ApplyReopen(op) /\ ApplyDispatch(op)
      BY <2>3 DEF ApplyOp
    <3>2. \A r \in Slots : (AtTake(r)' => AtTake(r)) /\ (Deferred(r)' => Deferred(r))
      BY <2>1 DEF AtTake, Deferred
    <3> QED
      BY <3>1, <3>2, StrayOperation
  <2> QED
    BY <1>2, <2>2, <2>3 DEF ApplyDirectly
<1>3. CASE Conclude(c)
  <2>1. UNCHANGED <<book, hold, deferNext>>
    BY <1>3 DEF Conclude, queued
  <2>2. CASE UNCHANGED <<run, strays>>
    BY <2>1, <2>2, StrayStill
  <2>3. CASE \E r \in Slots : StartEngine(r)
    BY <2>1, <2>3, StrayReset DEF StartEngine, StrayInv, StrayIsOver
  <2> QED
    BY <1>3, <2>2, <2>3 DEF Conclude
<1> QED
  BY <1>1, <1>2, <1>3 DEF CallStep

LEMMA StrayUser ==
  ASSUME InterventionIInv, StrayInv, UserStep \/ ResumeReturns \/ Crash
  PROVE  StrayInv'
<1>1. CASE (\E m \in Messages : UserSends(m)) \/ ResumeReturns
  <2>1. UNCHANGED <<book, hold, strays, run, deferNext>>
    BY <1>1 DEF UserSends, ResumeReturns, meta, queued
  <2> QED
    BY <2>1, StrayStill
<1>2. CASE UserResumes
  <2>1. UNCHANGED <<book, hold, deferNext>>
    BY <1>2 DEF UserResumes, meta, queued
  <2>2. UNCHANGED <<run, strays>> \/ strays' = 0
    BY <1>2 DEF UserResumes, StartEngine
  <2> QED
    BY <2>1, <2>2, StrayStill, StrayReset DEF StrayInv, StrayIsOver
<1>3. CASE UserReopens
  <2>1. /\ UNCHANGED <<hold, strays, run, deferNext>> /\ book.phase # "writing"
        /\ book'.phase = "writing"
    BY <1>3 DEF UserReopens, meta, FreshBook, queued
  <2>2. Recount /\ \A r \in Slots : (AtTake(r)' => AtTake(r)) /\ (Deferred(r)' => Deferred(r))
    BY <2>1 DEF Recount, AtTake, Deferred
  <2> QED
    BY <2>1, <2>2, StrayKept DEF StrayInv, StrayIsOver
<1>4. CASE Abort
  <2>1. UNCHANGED <<book, hold, strays, deferNext>>
    BY <1>4 DEF Abort, meta, queued
  <2>2. \A r \in Slots : run'[r].pc = run[r].pc /\ run'[r].defer = run[r].defer
    BY <1>4 DEF Abort, PausedRun, InterventionIInv, InterventionTypeOK, RunType
  <2> QED
    BY <2>1, <2>2, StrayStill
<1>5. CASE Crash
  <2>1. /\ UNCHANGED <<book, hold, strays>> /\ run' = [r \in Slots |-> NoRun]
        /\ ~deferNext'
    BY <1>5 DEF Crash, meta
  <2> QED
    BY <2>1, Goroutines, StrayStill
<1> QED
  BY <1>1, <1>2, <1>3, <1>4, <1>5 DEF UserStep

\* The loop, but for the gate and the turns.
LEMMA StrayOperations ==
  ASSUME InterventionIInv, StrayInv, NEW r \in Slots,
         \/ DrainOps(r) \/ CancelledAtTop(r) \/ EngineApplies(r)
         \/ EngineReconsults(r) \/ ReconsultReturns(r)
         \/ LeaveLoop(r) \/ RestoreLeftover(r) \/ RunEnded(r)
  PROVE  StrayInv'
<1> USE DEF InterventionIInv, InterventionTypeOK, RunType
<1>1. CASE DrainOps(r) \/ EngineReconsults(r) \/ ReconsultReturns(r)
  <2>1. UNCHANGED <<book, hold, strays, deferNext>>
    BY <1>1 DEF DrainOps, EngineReconsults, ReconsultReturns, meta, queued
  <2>2. /\ ~AtTake(r)' /\ (Deferred(r)' => Deferred(r))
        /\ \A s \in Slots \ {r} : run'[s] = run[s]
    <3>1. CASE DrainOps(r)
      BY <3>1 DEF DrainOps, At, AtTake, Deferred
    <3>2. CASE EngineReconsults(r)
      BY <3>2 DEF EngineReconsults, At, AtTake, Deferred
    <3>3. CASE ReconsultReturns(r)
      BY <3>3 DEF ReconsultReturns, At, Jump, AtTake, Deferred
    <3> QED
      BY <1>1, <3>1, <3>2, <3>3
  <2>3. \A s \in Slots : (AtTake(s)' => AtTake(s)) /\ (Deferred(s)' => Deferred(s))
    BY <2>2 DEF AtTake, Deferred
  <2> QED
    BY <2>1, <2>3, StrayKept DEF Recount, StrayInv, StrayIsOver
<1>2. CASE CancelledAtTop(r) \/ LeaveLoop(r) \/ RunEnded(r)
  <2>1. UNCHANGED <<book, hold, strays, deferNext>>
    BY <1>2 DEF CancelledAtTop, LeaveLoop, RunEnded, meta, queued
  <2>2. \A s \in Slots : \/ run'[s].pc \in {"gone", "exit", "restore"}
                         \/ run'[s] = run[s]
    BY <1>2, Goroutines DEF CancelledAtTop, LeaveLoop, RunEnded, Jump
  <2> QED
    BY <2>1, <2>2, StrayStill
<1>3. CASE EngineApplies(r)
  <2> DEFINE op == Head(run[r].batch)
  <2>1. RecountHold(op) /\ ApplyReopen(op) /\ ApplyDispatch(op)
    BY <1>3 DEF EngineApplies, ApplyOp
  <2>2. /\ ~AtTake(r)' /\ (~SetsItsHold(op) => (Deferred(r)' => Deferred(r)))
        /\ \A s \in Slots \ {r} : run'[s] = run[s]
    BY <1>3 DEF EngineApplies, At, AtTake, Deferred, AfterOp, OpFails, SetsItsHold
  <2> HIDE DEF op
  <2>3. \A s \in Slots : /\ AtTake(s)' => AtTake(s)
                         /\ ~SetsItsHold(op) => (Deferred(s)' => Deferred(s))
    BY <2>2 DEF AtTake, Deferred
  <2> QED
    BY <2>1, <2>3, StrayOperation
<1>4. CASE RestoreLeftover(r)
  <2> DEFINE op == Head(run[r].batch)
  <2>1. RecountHold(op) /\ ApplyReopen(op) /\ UNCHANGED deferNext
    BY <1>4 DEF RestoreLeftover, queued
  <2>2. run' = [run EXCEPT ![r].batch = Tail(@)]
    BY <1>4 DEF RestoreLeftover
  <2> HIDE DEF op
  <2>3. \A s \in Slots : (AtTake(s)' => AtTake(s)) /\ (Deferred(s)' => Deferred(s))
    BY <2>2 DEF AtTake, Deferred
  <2> QED
    BY <2>1, <2>3, StrayOperation
<1> QED
  BY <1>1, <1>2, <1>3, <1>4

\* Only one goroutine is in the loop.
LEMMA OthersOutside ==
  ASSUME InterventionIInv, NEW r \in Slots, run[r].pc \in LoopPCs,
         NEW s \in Slots, s # r
  PROVE  ~AtTake(s) /\ ~Deferred(s)
BY DEF InterventionIInv, OneLoop, LoopPCs, AtTake, Deferred

\* A step of the goroutine in the loop: only its own place matters.
LEMMA AloneInLoop ==
  ASSUME InterventionIInv, NEW r \in Slots, run[r].pc \in LoopPCs,
         \A s \in Slots \ {r} : run'[s] = run[s]
  PROVE  \A s \in Slots \ {r} : ~AtTake(s)' /\ ~Deferred(s)'
BY OthersOutside DEF AtTake, Deferred

\* The gate, from place pc to place to: a hold that stays lets nobody pass but while
\* the queue lasts.
LEMMA StrayGate ==
  ASSUME InterventionIInv, StrayInv, NEW r \in Slots, NEW to \in {"take", "top"},
         run[r].pc \in {"gate", "settle"}, PassBoundary(r, to), Recount,
         UNCHANGED <<book, deferNext>>
  PROVE  StrayInv'
<1> USE DEF InterventionIInv, InterventionTypeOK
<1>1. hold \in Hold /\ book \in Book /\ run[r].pc \in LoopPCs
  BY DEF LoopPCs
<1>2. /\ hold # NoHold => hold.after \in {"boundary", "drained"}
      /\ NoHold.after = "no"
  BY <1>1 DEF Hold, NoHold
<1>3. book'.queue => book'.phase = "writing"
  BY DEF StrayInv, StrayIsOver
<1>4. CASE HoldStops
  <2>1. hold' = NoHold /\ hold # NoHold
    BY <1>2, <1>4 DEF PassBoundary, HoldStops
  <2> QED
    BY <1>3, <2>1, StrayReset DEF Recount
<1>5. CASE ~HoldStops
  <2>1. /\ (hold' = NoHold \/ hold' = hold) /\ (book.phase = "writing" => hold' = hold)
        /\ Jump(r, to)
    BY <1>5 DEF PassBoundary
  <2>2. /\ \A s \in Slots \ {r} : run'[s] = run[s]
        /\ run'[r].pc = to
    BY <2>1 DEF Jump, RunType
  <2>3. CASE hold' # hold
    BY <1>3, <2>3, StrayReset DEF Recount
  <2>4. CASE hold' = hold /\ strays = 1
    <3>1. hold # NoHold /\ ~deferNext'
      BY <2>4 DEF StrayInv, StrayIsOver
    <3>2. book.phase = "writing"
      BY <1>1, <1>5, <2>4, <3>1 DEF PassBoundary, Book
    <3>3. hold.after = "drained" /\ book.queue
      BY <1>2, <1>5, <3>1, <3>2 DEF HoldStops
    <3>4. \A s \in Slots : ~Deferred(s)'
      BY <1>1, <2>2, AloneInLoop DEF Deferred
    <3> QED
      BY <1>3, <2>4, <3>1, <3>3, <3>4
      DEF StrayInv, StrayIsOver, HoldLetsOneTurnPass, Recount, Deferred
  <2>5. CASE hold' = hold /\ strays # 1
    BY <1>3, <2>5 DEF StrayInv, StrayIsOver, HoldLetsOneTurnPass, Recount
  <2> QED
    BY <2>3, <2>4, <2>5
<1> QED
  BY <1>4, <1>5

LEMMA StrayGates ==
  ASSUME InterventionIInv, StrayInv, NEW r \in Slots, GateBeforeTurn(r) \/ GateAfterTurn(r)
  PROVE  StrayInv'
<1>1. CASE GateAfterTurn(r)
  BY <1>1, StrayGate DEF GateAfterTurn, At, queued
<1>2. CASE GateBeforeTurn(r)
  <2>1. run[r].pc = "gate" /\ UNCHANGED <<book, deferNext>>
    BY <1>2 DEF GateBeforeTurn, At, queued
  <2>2. CASE PassBoundary(r, "take") /\ Recount
    BY <2>1, <2>2, StrayGate
  <2>3. CASE GateDeferred(r) /\ UNCHANGED <<hold, lifecycle, strays>>
    <3>1. strays # 1
      BY <2>1, <2>3 DEF GateDeferred, StrayInv, StrayIsOver
    <3> QED
      BY <2>1, <2>3, <3>1 DEF StrayInv, StrayIsOver, HoldLetsOneTurnPass
  <2> QED
    BY <1>2, <2>2, <2>3 DEF GateBeforeTurn
<1> QED
  BY <1>1, <1>2

LEMMA StrayTurn ==
  ASSUME InterventionIInv, StrayInv, NEW r \in Slots, TakeTurn(r)
  PROVE  StrayInv'
<1>1. /\ run[r].pc = "take" /\ UNCHANGED <<book, hold>> /\ run[r].pc \in LoopPCs
      /\ strays \in 0..2 /\ ~deferNext'
  BY DEF TakeTurn, At, meta, LoopPCs, InterventionIInv, InterventionTypeOK
<1>2. /\ run'[r].pc \in {"turn", "commit", "top", "exit"}
      /\ \A s \in Slots \ {r} : run'[s] = run[s]
  BY DEF TakeTurn, TurnOf, Jump, InterventionIInv, InterventionTypeOK, RunType, Book
<1>3. book'.queue => book'.phase = "writing"
  BY <1>1 DEF StrayInv, StrayIsOver
<1>4. \A s \in Slots : ~AtTake(s)' /\ ~Deferred(s)'
  BY <1>1, <1>2, AloneInLoop DEF AtTake, Deferred
<1>5. CASE strays' = strays
  BY <1>1, <1>3, <1>4, <1>5, StrayKept DEF Recount
<1>6. CASE strays' # strays
  <2>1. book.phase = "writing" /\ HoldStops /\ strays' = strays + 1
    BY <1>6 DEF TakeTurn
  <2>2. strays = 0
    <3>1. strays # 1
      BY <1>1, <2>1 DEF StrayInv, StrayIsOver, HoldStops
    <3> QED
      BY <1>1, <3>1 DEF StrayInv, HoldLetsOneTurnPass
  <2>3. hold # NoHold
    BY <2>1 DEF HoldStops, NoHold
  <2> QED
    BY <1>1, <1>3, <1>4, <2>1, <2>2, <2>3
    DEF StrayInv, StrayIsOver, HoldLetsOneTurnPass, AtTake, Deferred
<1> QED
  BY <1>5, <1>6

LEMMA StrayTurnEnds ==
  ASSUME InterventionIInv, StrayInv, NEW r \in Slots, TurnEnds(r) \/ AutoCommitEnds(r)
  PROVE  StrayInv'
<1> USE DEF InterventionIInv, InterventionTypeOK
<1>1. /\ run[r].pc \in LoopPCs /\ UNCHANGED <<hold, strays>>
      /\ deferNext' => deferNext
  BY DEF TurnEnds, AutoCommitEnds, At, LoopPCs, meta, queued
<1>2. run'[r].pc \in {"exit", "settle", "top"} /\ \A s \in Slots \ {r} : run'[s] = run[s]
  <2>1. run[r] \in RunType /\ PausedRun(r) \in RunType
    BY PausedRunType
  <2>2. \/ Jump(r, "exit") \/ Jump(r, "settle") \/ Jump(r, "top")
        \/ run' = [run EXCEPT ![r] = [PausedRun(r) EXCEPT !.pc = "exit"]]
    BY DEF TurnEnds, AutoCommitEnds, PausesItself
  <2> QED
    BY <2>1, <2>2 DEF Jump, RunType
<1>3. \A s \in Slots : ~AtTake(s)' /\ ~Deferred(s)'
  BY <1>1, <1>2, AloneInLoop DEF AtTake, Deferred
<1>4. book'.queue => book'.phase = "writing"
  <2>1. CASE UNCHANGED book
    BY <2>1 DEF StrayInv, StrayIsOver
  <2>2. CASE TurnsQueue \/ FinishesBook
    BY <2>2 DEF TurnsQueue, FinishesBook, Book
  <2> QED
    BY <2>1, <2>2 DEF TurnEnds, AutoCommitEnds
<1>5. Recount
  BY <1>1 DEF Recount
<1> QED
  BY <1>1, <1>3, <1>4, <1>5, StrayKept

LEMMA StraySteps ==
  ASSUME InterventionIInv, StrayInv, [InterventionNext]_vars
  PROVE  StrayInv'
<1>1. ASSUME NEW r \in Slots, EngineStep(r) PROVE StrayInv'
  BY <1>1, StrayOperations, StrayGates, StrayTurn, StrayTurnEnds DEF EngineStep
<1>2. CASE UNCHANGED vars
  BY <1>2, StrayStill DEF vars, meta, queued
<1> QED
  BY <1>1, <1>2, StrayCalls, StrayUser DEF InterventionNext

\* From the moment the one-time hold is set the loop begins at most one turn that the
\* hold should have kept from beginning and that is not its paired dispatch, however
\* interventions, automatic commits, pauses, resumptions and deaths interleave
\* (engine.run's gates, ResolveAdvanceHold).
THEOREM OneTurnPasses == InterventionSpec => []HoldLetsOneTurnPass
<1>1. InterventionInit => StrayInv
  BY DEF InterventionInit, StrayInv, StrayIsOver, HoldLetsOneTurnPass, FreshBook
<1>2. InterventionIInv /\ StrayInv /\ [InterventionNext]_vars => StrayInv'
  BY StraySteps
<1>3. StrayInv => HoldLetsOneTurnPass
  BY DEF StrayInv
<1> QED
  BY <1>1, <1>2, <1>3, InterventionInvariance, PTL DEF InterventionSpec

================================================================================
