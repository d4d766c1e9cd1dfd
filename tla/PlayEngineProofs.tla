---------------------------- MODULE PlayEngineProofs ----------------------------
(***************************************************************************)
(* At most one goroutine works on a play, for any number of requests of    *)
(* each kind, overlapping or not, of engines, stations, beats, failures    *)
(* and deaths, and a replan works alone.  Nothing the player has answered  *)
(* is lost and nobody gets stuck at a choice, until two hold copies of the *)
(* progress without a mutex in common.                                     *)
(*                                                                         *)
(* OneEngine alone is not inductive: the last write of a replan gives the  *)
(* exclusive slot back, and would give back that of an engine.  Hence      *)
(* SlotIInv also says which requests hold the slot.                        *)
(***************************************************************************)
EXTENDS PlayEngine, TLAPS

USE EnginesAssumption

\* A goroutine between its start and its end
Works(g) == run[g].pc \notin {"unused", "gone"}

RunFields  == {"pc", "cancelled", "seen", "ord", "station", "last", "tries",
               "settings", "outline"}
CallFields == {"pc", "h", "seen", "pick", "station", "spine", "status", "settings"}
RunRecord(r)  == r = [x \in RunFields |-> r[x]]
CallRecord(r) == r = [x \in CallFields |-> r[x]]

Shapes ==
  /\ run = [g \in Gens |-> run[g]] /\ \A g \in Gens : RunRecord(run[g])
  /\ call = [c \in Callers |-> call[c]] /\ \A c \in Callers : CallRecord(call[c])

SlotIInv ==
  /\ Shapes
  /\ \A g \in Gens : Works(g) => exclusive = "play" /\ live = g
  /\ \A c \in Callers : Holds(c) =>
       exclusive = "replan" /\ \A d \in Callers : Holds(d) => d = c

--------------------------------------------------------------------------------
(* Records keep their fields. *)

LEMMA RunRecordField ==
  \A k \in RunFields : \A r, x : RunRecord(r) =>
    /\ RunRecord([r EXCEPT ![k] = x])
    /\ [r EXCEPT ![k] = x].pc = IF k = "pc" THEN x ELSE r.pc
BY DEF RunRecord, RunFields

LEMMA RunRecords ==
  /\ RunRecord(NoRun) /\ NoRun.pc = "unused"
  /\ \A r, x : RunRecord(r) =>
       /\ RunRecord([r EXCEPT !.pc = x])
       /\ [r EXCEPT !.pc = x].pc = x
  /\ \A r, x : RunRecord(r) =>
       /\ RunRecord([r EXCEPT !.cancelled = x])
       /\ [r EXCEPT !.cancelled = x].pc = r.pc
  /\ \A r, x, y : RunRecord(r) =>
       /\ RunRecord([r EXCEPT !.pc = x, !.seen = y])
       /\ [r EXCEPT !.pc = x, !.seen = y].pc = x
  /\ \A r, x, y, z : RunRecord(r) =>
       /\ RunRecord([r EXCEPT !.pc = x, !.seen = y, !.outline = z])
       /\ [r EXCEPT !.pc = x, !.seen = y, !.outline = z].pc = x
  /\ \A r, x, y, z, u : RunRecord(r) =>
       /\ RunRecord([r EXCEPT !.pc = x, !.ord = y, !.station = z, !.settings = u])
       /\ [r EXCEPT !.pc = x, !.ord = y, !.station = z, !.settings = u].pc = x
  /\ \A r, x, y, z : RunRecord(r) =>
       /\ RunRecord([r EXCEPT !.pc = x, !.station = y, !.last = z])
       /\ [r EXCEPT !.pc = x, !.station = y, !.last = z].pc = x
  /\ \A r, x, y : RunRecord(r) =>
       /\ RunRecord([r EXCEPT !.pc = x, !.tries = y])
       /\ [r EXCEPT !.pc = x, !.tries = y].pc = x
  /\ \A r, x, y : RunRecord(r) =>
       /\ RunRecord([r EXCEPT !.pc = x, !.cancelled = y])
       /\ [r EXCEPT !.pc = x, !.cancelled = y].pc = x
<1>1. RunRecord(NoRun) /\ NoRun.pc = "unused"
  BY DEF RunRecord, NoRun, RunFields
<1>2. \A r, x : RunRecord(r) =>
       /\ RunRecord([r EXCEPT !.pc = x])
       /\ [r EXCEPT !.pc = x].pc = x
  BY RunRecordField DEF RunFields
<1>3. \A r, x : RunRecord(r) =>
       /\ RunRecord([r EXCEPT !.cancelled = x])
       /\ [r EXCEPT !.cancelled = x].pc = r.pc
  BY RunRecordField DEF RunFields
<1>4. \A r, x, y : RunRecord(r) =>
       /\ RunRecord([r EXCEPT !.pc = x, !.seen = y])
       /\ [r EXCEPT !.pc = x, !.seen = y].pc = x
  <2>1. \A r, x, y : RunRecord(r) => RunRecord([r EXCEPT !.pc = x, !.seen = y])
    BY RunRecordField DEF RunFields
  <2>2. \A r, x, y : RunRecord(r) => [r EXCEPT !.pc = x, !.seen = y].pc = x
    BY RunRecordField DEF RunFields
  <2> QED
    BY <2>1, <2>2
<1>5. \A r, x, y, z : RunRecord(r) =>
       /\ RunRecord([r EXCEPT !.pc = x, !.seen = y, !.outline = z])
       /\ [r EXCEPT !.pc = x, !.seen = y, !.outline = z].pc = x
  <2>1. \A r, x, y, z : RunRecord(r) => RunRecord([r EXCEPT !.pc = x, !.seen = y, !.outline = z])
    BY RunRecordField DEF RunFields
  <2>2. \A r, x, y, z : RunRecord(r) => [r EXCEPT !.pc = x, !.seen = y, !.outline = z].pc = x
    BY RunRecordField DEF RunFields
  <2> QED
    BY <2>1, <2>2
<1>6. \A r, x, y, z, u : RunRecord(r) =>
       /\ RunRecord([r EXCEPT !.pc = x, !.ord = y, !.station = z, !.settings = u])
       /\ [r EXCEPT !.pc = x, !.ord = y, !.station = z, !.settings = u].pc = x
  <2>1. \A r, x, y, z, u : RunRecord(r) => RunRecord([r EXCEPT !.pc = x, !.ord = y, !.station = z, !.settings = u])
    BY RunRecordField DEF RunFields
  <2>2. \A r, x, y, z, u : RunRecord(r) => [r EXCEPT !.pc = x, !.ord = y, !.station = z, !.settings = u].pc = x
    BY RunRecordField DEF RunFields
  <2> QED
    BY <2>1, <2>2
<1>7. \A r, x, y, z : RunRecord(r) =>
       /\ RunRecord([r EXCEPT !.pc = x, !.station = y, !.last = z])
       /\ [r EXCEPT !.pc = x, !.station = y, !.last = z].pc = x
  <2>1. \A r, x, y, z : RunRecord(r) => RunRecord([r EXCEPT !.pc = x, !.station = y, !.last = z])
    BY RunRecordField DEF RunFields
  <2>2. \A r, x, y, z : RunRecord(r) => [r EXCEPT !.pc = x, !.station = y, !.last = z].pc = x
    BY RunRecordField DEF RunFields
  <2> QED
    BY <2>1, <2>2
<1>8. \A r, x, y : RunRecord(r) =>
       /\ RunRecord([r EXCEPT !.pc = x, !.tries = y])
       /\ [r EXCEPT !.pc = x, !.tries = y].pc = x
  <2>1. \A r, x, y : RunRecord(r) => RunRecord([r EXCEPT !.pc = x, !.tries = y])
    BY RunRecordField DEF RunFields
  <2>2. \A r, x, y : RunRecord(r) => [r EXCEPT !.pc = x, !.tries = y].pc = x
    BY RunRecordField DEF RunFields
  <2> QED
    BY <2>1, <2>2
<1>9. \A r, x, y : RunRecord(r) =>
       /\ RunRecord([r EXCEPT !.pc = x, !.cancelled = y])
       /\ [r EXCEPT !.pc = x, !.cancelled = y].pc = x
  <2>1. \A r, x, y : RunRecord(r) => RunRecord([r EXCEPT !.pc = x, !.cancelled = y])
    BY RunRecordField DEF RunFields
  <2>2. \A r, x, y : RunRecord(r) => [r EXCEPT !.pc = x, !.cancelled = y].pc = x
    BY RunRecordField DEF RunFields
  <2> QED
    BY <2>1, <2>2
<1> QED
  BY <1>1, <1>2, <1>3, <1>4, <1>5, <1>6, <1>7, <1>8, <1>9

LEMMA CallRecordField ==
  \A k \in CallFields : \A r, x : CallRecord(r) =>
    /\ CallRecord([r EXCEPT ![k] = x])
    /\ [r EXCEPT ![k] = x].pc = IF k = "pc" THEN x ELSE r.pc
BY DEF CallRecord, CallFields

LEMMA CallRecords ==
  /\ CallRecord(NoCall) /\ NoCall.pc = "idle"
  /\ \A r, x : CallRecord(r) =>
       /\ CallRecord([r EXCEPT !.pc = x])
       /\ [r EXCEPT !.pc = x].pc = x
  /\ \A r, x, y : CallRecord(r) =>
       /\ CallRecord([r EXCEPT !.pc = x, !.h = y])
       /\ [r EXCEPT !.pc = x, !.h = y].pc = x
  /\ \A r, x, y, z : CallRecord(r) =>
       /\ CallRecord([r EXCEPT !.pc = x, !.h = y, !.pick = z])
       /\ [r EXCEPT !.pc = x, !.h = y, !.pick = z].pc = x
  /\ \A r, x, y : CallRecord(r) =>
       /\ CallRecord([r EXCEPT !.pc = x, !.seen = y])
       /\ [r EXCEPT !.pc = x, !.seen = y].pc = x
  /\ \A r, x, y, z : CallRecord(r) =>
       /\ CallRecord([r EXCEPT !.pc = x, !.seen = y, !.station = z])
       /\ [r EXCEPT !.pc = x, !.seen = y, !.station = z].pc = x
  /\ \A r, x, y : CallRecord(r) =>
       /\ CallRecord([r EXCEPT !.pc = x, !.spine = y])
       /\ [r EXCEPT !.pc = x, !.spine = y].pc = x
  /\ \A r, x, y, z, u, v : CallRecord(r) =>
       /\ CallRecord([r EXCEPT !.pc = x, !.seen = y, !.spine = z, !.status = u, !.settings = v])
       /\ [r EXCEPT !.pc = x, !.seen = y, !.spine = z, !.status = u, !.settings = v].pc = x
<1>1. CallRecord(NoCall) /\ NoCall.pc = "idle"
  BY DEF CallRecord, NoCall, CallFields
<1>2. \A r, x : CallRecord(r) =>
       /\ CallRecord([r EXCEPT !.pc = x])
       /\ [r EXCEPT !.pc = x].pc = x
  BY CallRecordField DEF CallFields
<1>3. \A r, x, y : CallRecord(r) =>
       /\ CallRecord([r EXCEPT !.pc = x, !.h = y])
       /\ [r EXCEPT !.pc = x, !.h = y].pc = x
  <2>1. \A r, x, y : CallRecord(r) => CallRecord([r EXCEPT !.pc = x, !.h = y])
    BY CallRecordField DEF CallFields
  <2>2. \A r, x, y : CallRecord(r) => [r EXCEPT !.pc = x, !.h = y].pc = x
    BY CallRecordField DEF CallFields
  <2> QED
    BY <2>1, <2>2
<1>4. \A r, x, y, z : CallRecord(r) =>
       /\ CallRecord([r EXCEPT !.pc = x, !.h = y, !.pick = z])
       /\ [r EXCEPT !.pc = x, !.h = y, !.pick = z].pc = x
  <2>1. \A r, x, y, z : CallRecord(r) => CallRecord([r EXCEPT !.pc = x, !.h = y, !.pick = z])
    BY CallRecordField DEF CallFields
  <2>2. \A r, x, y, z : CallRecord(r) => [r EXCEPT !.pc = x, !.h = y, !.pick = z].pc = x
    BY CallRecordField DEF CallFields
  <2> QED
    BY <2>1, <2>2
<1>5. \A r, x, y : CallRecord(r) =>
       /\ CallRecord([r EXCEPT !.pc = x, !.seen = y])
       /\ [r EXCEPT !.pc = x, !.seen = y].pc = x
  <2>1. \A r, x, y : CallRecord(r) => CallRecord([r EXCEPT !.pc = x, !.seen = y])
    BY CallRecordField DEF CallFields
  <2>2. \A r, x, y : CallRecord(r) => [r EXCEPT !.pc = x, !.seen = y].pc = x
    BY CallRecordField DEF CallFields
  <2> QED
    BY <2>1, <2>2
<1>6. \A r, x, y, z : CallRecord(r) =>
       /\ CallRecord([r EXCEPT !.pc = x, !.seen = y, !.station = z])
       /\ [r EXCEPT !.pc = x, !.seen = y, !.station = z].pc = x
  <2>1. \A r, x, y, z : CallRecord(r) => CallRecord([r EXCEPT !.pc = x, !.seen = y, !.station = z])
    BY CallRecordField DEF CallFields
  <2>2. \A r, x, y, z : CallRecord(r) => [r EXCEPT !.pc = x, !.seen = y, !.station = z].pc = x
    BY CallRecordField DEF CallFields
  <2> QED
    BY <2>1, <2>2
<1>7. \A r, x, y : CallRecord(r) =>
       /\ CallRecord([r EXCEPT !.pc = x, !.spine = y])
       /\ [r EXCEPT !.pc = x, !.spine = y].pc = x
  <2>1. \A r, x, y : CallRecord(r) => CallRecord([r EXCEPT !.pc = x, !.spine = y])
    BY CallRecordField DEF CallFields
  <2>2. \A r, x, y : CallRecord(r) => [r EXCEPT !.pc = x, !.spine = y].pc = x
    BY CallRecordField DEF CallFields
  <2> QED
    BY <2>1, <2>2
<1>8. \A r, x, y, z, u, v : CallRecord(r) =>
       /\ CallRecord([r EXCEPT !.pc = x, !.seen = y, !.spine = z, !.status = u, !.settings = v])
       /\ [r EXCEPT !.pc = x, !.seen = y, !.spine = z, !.status = u, !.settings = v].pc = x
  <2>1. \A r, x, y, z, u, v : CallRecord(r) => CallRecord([r EXCEPT !.pc = x, !.seen = y, !.spine = z, !.status = u, !.settings = v])
    BY CallRecordField DEF CallFields
  <2>2. \A r, x, y, z, u, v : CallRecord(r) => [r EXCEPT !.pc = x, !.seen = y, !.spine = z, !.status = u, !.settings = v].pc = x
    BY CallRecordField DEF CallFields
  <2> QED
    BY <2>1, <2>2
<1> QED
  BY <1>1, <1>2, <1>3, <1>4, <1>5, <1>6, <1>7, <1>8

(* A step of a goroutine that works; a step of one request. *)

LEMMA EngineMoves ==
  ASSUME SlotIInv, NEW g \in Gens, Works(g), NEW r, RunRecord(r),
         run' = [run EXCEPT ![g] = r], UNCHANGED <<call, live, exclusive>>
  PROVE  SlotIInv'
<1>1. \A f \in Gens : f # g => run'[f] = run[f]
  BY DEF SlotIInv, Shapes
<1>2. run'[g] = r
  BY DEF SlotIInv, Shapes
<1>3. Shapes'
  BY <1>1, <1>2 DEF SlotIInv, Shapes
<1>4. \A f \in Gens : Works(f)' => Works(f)
  BY <1>1 DEF Works
<1> QED
  BY <1>3, <1>4 DEF SlotIInv, Holds

LEMMA CallMoves ==
  ASSUME SlotIInv, NEW c \in Callers, NEW r, CallRecord(r),
         call' = [call EXCEPT ![c] = r], UNCHANGED <<run, live, exclusive>>,
         r.pc \in HoldPCs => Holds(c)
  PROVE  SlotIInv'
<1>1. \A d \in Callers : d # c => call'[d] = call[d]
  BY DEF SlotIInv, Shapes
<1>2. call'[c] = r
  BY DEF SlotIInv, Shapes
<1>3. Shapes'
  BY <1>1, <1>2 DEF SlotIInv, Shapes
<1>4. \A d \in Callers : Holds(d)' => Holds(d)
  BY <1>1, <1>2 DEF Holds
<1> QED
  BY <1>3, <1>4 DEF SlotIInv, Works

LEMMA Rests == \A r : RunRecord(Rest(r))
<1> TAKE r
<1>1. Rest(r) = [NoRun EXCEPT !.pc = "top", !.cancelled = r.cancelled]
  BY DEF Rest
<1>2. RunRecord(NoRun)
  BY RunRecords
<1>3. RunRecord([NoRun EXCEPT !.pc = "top", !.cancelled = r.cancelled])
  BY <1>2, RunRecordField DEF RunFields
<1> QED
  BY <1>1, <1>3

LEMMA Jumps ==
  ASSUME SlotIInv, NEW g \in Gens, NEW pc, Jump(g, pc)
  PROVE  \E r : RunRecord(r) /\ run' = [run EXCEPT ![g] = r]
<1>1. run' = [run EXCEPT ![g] = [run[g] EXCEPT !.pc = pc]]
  BY DEF Jump
<1>2. RunRecord([run[g] EXCEPT !.pc = pc])
  BY RunRecords DEF SlotIInv, Shapes
<1> QED
  BY <1>1, <1>2

(* The other steps of the goroutine of an engine. *)
LEMMA EngineSteps ==
  ASSUME SlotIInv, NEW g \in Gens, EngineStep(g), ~Leave(g)
  PROVE  SlotIInv'
<1> DEFINE Moved == \E r : RunRecord(r) /\ run' = [run EXCEPT ![g] = r]
<1>1. RunRecord(run[g])
  BY DEF SlotIInv, Shapes
<1>2. Works(g) /\ UNCHANGED <<call, live, exclusive>>
  BY DEF EngineStep, Works, At, files,
         Started, Top, Woken, SpineReturns, Plan, PlannerReturns,
         PlanSaved, WriterReturns, SaveBeat, SaveCard, SaveHead, SaveGate,
         FinishStation, AwaitReplan, PersistPaused
<1>3. Moved
  <2>1. CASE Started(g)
    BY <1>1, <2>1, Jumps, RunRecords, Rests DEF Started
  <2>2. CASE Top(g)
    <3>1. RunRecord([run[g] EXCEPT !.pc = "spine", !.seen = progress])
      BY <1>1, RunRecordField DEF RunFields
    <3>2. RunRecord([run[g] EXCEPT !.pc = "writing", !.ord = progress.write + 1,
                                 !.station = outline.station,
                                 !.settings = settings])
      BY <1>1, RunRecordField DEF RunFields
    <3>3. [run EXCEPT ![g].pc = "spine", ![g].seen = progress]
             = [run EXCEPT ![g] = [run[g] EXCEPT !.pc = "spine", !.seen = progress]]
      BY DEF SlotIInv, Shapes
    <3>4. [run EXCEPT ![g].pc = "writing", ![g].ord = progress.write + 1,
                      ![g].station = outline.station, ![g].settings = settings]
             = [run EXCEPT ![g] = [run[g] EXCEPT !.pc = "writing",
                                                 !.ord = progress.write + 1,
                                                 !.station = outline.station,
                                                 !.settings = settings]]
      BY DEF SlotIInv, Shapes
    <3> QED
      BY <2>2, <3>1, <3>2, <3>3, <3>4, Jumps, Rests DEF Top
  <2>3. CASE Woken(g)
    BY <1>1, <2>3, Jumps, RunRecords, Rests DEF Woken
  <2>4. CASE SpineReturns(g)
    BY <1>1, <2>4, Jumps, RunRecords, Rests DEF SpineReturns, Fails
  <2>5. CASE Plan(g)
    <3>1. \A id, last : RunRecord([run[g] EXCEPT !.pc = "planning", !.station = id,
                                              !.last = last])
      BY <1>1, RunRecordField DEF RunFields
    <3>2. \A id, last :
            [run EXCEPT ![g].pc = "planning", ![g].station = id, ![g].last = last]
              = [run EXCEPT ![g] = [run[g] EXCEPT !.pc = "planning", !.station = id,
                                                  !.last = last]]
      BY DEF SlotIInv, Shapes
    <3>3. \/ \E pc : Jump(g, pc)
          \/ \E id, last : run' = [run EXCEPT ![g].pc = "planning", ![g].station = id,
                                              ![g].last = last]
      BY <2>5 DEF Plan, Fails
    <3>4. CASE \E pc : Jump(g, pc)
      BY <3>4, Jumps
    <3>5. ASSUME NEW id, NEW last,
                 run' = [run EXCEPT ![g].pc = "planning", ![g].station = id,
                                    ![g].last = last]
          PROVE  Moved
      <4>1. run' = [run EXCEPT ![g] = [run[g] EXCEPT !.pc = "planning", !.station = id,
                                                     !.last = last]]
        BY <3>2, <3>5
      <4>2. RunRecord([run[g] EXCEPT !.pc = "planning", !.station = id, !.last = last])
        BY <3>1
      <4> QED
        BY <4>1, <4>2
    <3> QED
      BY <3>3, <3>4, <3>5
  <2>6. CASE PlannerReturns(g)
    <3>1. RunRecord([run[g] EXCEPT !.pc = "plan", !.tries = 1])
      BY <1>1, RunRecordField DEF RunFields
    <3>2. [run EXCEPT ![g].pc = "plan", ![g].tries = 1]
             = [run EXCEPT ![g] = [run[g] EXCEPT !.pc = "plan", !.tries = 1]]
      BY DEF SlotIInv, Shapes
    <3> QED
      BY <2>6, <3>1, <3>2, Jumps, Rests DEF PlannerReturns, Fails
  <2>7. CASE PlanSaved(g)
    BY <1>1, <2>7, Jumps, RunRecords, Rests DEF PlanSaved
  <2>8. CASE WriterReturns(g)
    BY <1>1, <2>8, Jumps, RunRecords, Rests DEF WriterReturns, Fails
  <2>9. CASE SaveBeat(g)
    <3>1. \A o : RunRecord([run[g] EXCEPT !.pc = "card", !.seen = progress,
                                        !.outline = o])
      BY <1>1, RunRecordField DEF RunFields
    <3>2. \A o : [run EXCEPT ![g].pc = "card", ![g].seen = progress, ![g].outline = o]
                    = [run EXCEPT ![g] = [run[g] EXCEPT !.pc = "card", !.seen = progress,
                                                        !.outline = o]]
      BY DEF SlotIInv, Shapes
    <3>3. \/ run' = [run EXCEPT ![g] = Rest(run[g])]
          \/ \E o : run' = [run EXCEPT ![g].pc = "card", ![g].seen = progress,
                                       ![g].outline = o]
      BY <2>9 DEF SaveBeat
    <3> QED
      BY <3>1, <3>2, <3>3, Rests
  <2>10. CASE SaveCard(g)
    BY <1>1, <2>10, Jumps, RunRecords, Rests DEF SaveCard
  <2>11. CASE SaveHead(g)
    BY <1>1, <2>11, Jumps, RunRecords, Rests DEF SaveHead
  <2>12. CASE SaveGate(g)
    BY <1>1, <2>12, Jumps, RunRecords, Rests DEF SaveGate
  <2>13. CASE FinishStation(g)
    BY <1>1, <2>13, Jumps, RunRecords, Rests DEF FinishStation
  <2>14. CASE AwaitReplan(g)
    BY <1>1, <2>14, Jumps, RunRecords, Rests DEF AwaitReplan
  <2>15. CASE PersistPaused(g)
    BY <1>1, <2>15, Jumps, RunRecords, Rests DEF PersistPaused
  <2> QED
    BY <2>1, <2>2, <2>3, <2>4, <2>5, <2>6, <2>7, <2>8, <2>9, <2>10, <2>11, <2>12, <2>13, <2>14, <2>15 DEF EngineStep
<1> QED
  BY <1>2, <1>3, EngineMoves

LEMMA Leaves ==
  ASSUME SlotIInv, NEW g \in Gens, Leave(g)
  PROVE  SlotIInv'
<1>1. RunRecord([NoRun EXCEPT !.pc = "gone"]) /\ [NoRun EXCEPT !.pc = "gone"].pc = "gone"
  BY RunRecords
<1>2. run' = [run EXCEPT ![g] = [NoRun EXCEPT !.pc = "gone"]] /\ UNCHANGED call
  BY DEF Leave
<1>3. run'[g] = [NoRun EXCEPT !.pc = "gone"]
  BY <1>2 DEF SlotIInv, Shapes
<1>4. \A f \in Gens : f # g => run'[f] = run[f]
  BY <1>2 DEF SlotIInv, Shapes
<1>5. Works(g)
  BY DEF Leave, At, Works
<1>6. exclusive = "play" /\ live = g
  BY <1>5 DEF SlotIInv
<1>7. \A f \in Gens : ~Works(f)'
  BY <1>1, <1>3, <1>4, <1>6 DEF SlotIInv, Works
<1>8. \A c \in Callers : ~Holds(c)'
  BY <1>2, <1>6 DEF SlotIInv, Holds
<1>9. Shapes'
  BY <1>1, <1>2, <1>3, <1>4 DEF SlotIInv, Shapes
<1> QED
  BY <1>7, <1>8, <1>9 DEF SlotIInv

(* What a step that leaves the goroutines' slot in order guarantees. *)
SlotKept ==
  /\ run' = [g \in Gens |-> run'[g]] /\ \A g \in Gens : RunRecord(run'[g])
  /\ \A g \in Gens : Works(g)' => exclusive' = "play" /\ live' = g
  /\ exclusive = "replan" => exclusive' = "replan"

LEMMA RequestsReturn ==
  ASSUME SlotIInv, SlotKept, NEW c \in Callers, NEW r, CallRecord(r),
         call' = [call EXCEPT ![c] = r],
         r.pc \notin HoldPCs
  PROVE  SlotIInv'
<1>1. \A d \in Callers : d # c => call'[d] = call[d]
  BY DEF SlotIInv, Shapes
<1>2. call'[c] = r
  BY DEF SlotIInv, Shapes
<1>3. Shapes'
  BY <1>1, <1>2 DEF SlotIInv, Shapes, SlotKept
<1>4. \A d \in Callers : Holds(d)' => Holds(d)
  BY <1>1, <1>2 DEF Holds
<1>5. \A d \in Callers : Holds(d)' =>
         exclusive' = "replan" /\ \A e \in Callers : Holds(e)' => e = d
  BY <1>4 DEF SlotIInv, SlotKept
<1> QED
  BY <1>3, <1>5 DEF SlotIInv, SlotKept

(* Starting an engine takes the slot; nothing else happens to goroutines. *)
LEMMA StartKeepsSlot ==
  ASSUME SlotIInv, NEW st, Starting(st)
  PROVE  SlotKept
<1>1. CASE UNCHANGED <<run, live, exclusive>>
  BY <1>1 DEF SlotIInv, Shapes, Works, SlotKept
<1>2. ASSUME NEW g \in Gens, live = 0, exclusive = "none",
             run' = [run EXCEPT ![g] = [NoRun EXCEPT !.pc = "start"]],
             live' = g, exclusive' = "play"
      PROVE  SlotKept
  <2>1. RunRecord([NoRun EXCEPT !.pc = "start"])
    BY RunRecords
  <2>2. run'[g] = [NoRun EXCEPT !.pc = "start"]
    BY <1>2 DEF SlotIInv, Shapes
  <2>3. \A f \in Gens : f # g => run'[f] = run[f] /\ ~Works(f)
    BY <1>2 DEF SlotIInv, Shapes
  <2>4. \A f \in Gens : f # g => ~Works(f)'
    BY <2>3 DEF Works
  <2> QED
    BY <1>2, <2>1, <2>2, <2>3, <2>4 DEF SlotIInv, Shapes, SlotKept
<1> QED
  BY <1>1, <1>2 DEF Starting, Fresh

LEMMA CancelKeepsSlot ==
  ASSUME SlotIInv, Cancelling, UNCHANGED <<live, exclusive>>
  PROVE  SlotKept
<1>1. \A g \in Gens : RunRecord([run[g] EXCEPT !.cancelled = TRUE]) /\
                      [run[g] EXCEPT !.cancelled = TRUE].pc = run[g].pc
  BY RunRecords DEF SlotIInv, Shapes
<1>2. run' = [g \in Gens |-> run'[g]]
  BY DEF Cancelling
<1>3. \A g \in Gens : run'[g] = run[g] \/ run'[g] = [run[g] EXCEPT !.cancelled = TRUE]
  BY DEF Cancelling
<1>4. \A g \in Gens : RunRecord(run'[g]) /\ run'[g].pc = run[g].pc
  BY <1>1, <1>3 DEF SlotIInv, Shapes
<1>5. \A g \in Gens : Works(g)' => Works(g)
  BY <1>4 DEF Works
<1> QED
  BY <1>2, <1>4, <1>5 DEF SlotIInv, SlotKept

LEMMA UnchangedKeepsSlot ==
  ASSUME SlotIInv, UNCHANGED <<run, live, exclusive>>
  PROVE  SlotKept
BY DEF SlotIInv, Shapes, Works, SlotKept

LEMMA CallType ==
  ASSUME SlotIInv, NEW c \in Callers
  PROVE  CallRecord(call[c])
BY DEF SlotIInv, Shapes

(* The steps of requests that neither take the slot nor start or cancel engines. *)
PlainStep(c) ==
  \/ Turns(c) \/ Chooses(c) \/ Advance(c) \/ AdvanceSaved(c) \/ Refused(c)
  \/ CommitChoice(c) \/ ChoiceRecorded(c) \/ FactsSaved(c) \/ StationClosed(c)
  \/ OutlineCleared(c) \/ ChoiceCommitted(c) \/ Revise(c) \/ Revised(c)
  \/ Paused(c) \/ Stopped(c)

Moved(c) == \E r : CallRecord(r) /\ call' = [call EXCEPT ![c] = r] /\ r.pc \notin HoldPCs

LEMMA Gotos ==
  ASSUME SlotIInv, NEW c \in Callers, NEW pc, pc \notin HoldPCs
  PROVE  Goto(c, pc) \/ Return(c) => Moved(c)
<1>1. CallRecord(call[c])
  BY CallType
<1>2. CallRecord([call[c] EXCEPT !.pc = pc]) /\ [call[c] EXCEPT !.pc = pc].pc = pc
  BY <1>1, CallRecords
<1>3. Goto(c, pc) => call' = [call EXCEPT ![c] = [call[c] EXCEPT !.pc = pc]]
  BY DEF Goto
<1>4. Goto(c, pc) => Moved(c)
  BY <1>2, <1>3 DEF Moved
<1>5. CallRecord(NoCall) /\ NoCall.pc \notin HoldPCs
  BY CallRecords DEF HoldPCs
<1> QED
  BY <1>4, <1>5 DEF Return, Moved

(* Requests that note more than where they are. *)

LEMMA Handed ==
  ASSUME SlotIInv, NEW c \in Callers, NEW pc, NEW x,
         pc \notin HoldPCs,
         call' = [call EXCEPT ![c].pc = pc, ![c].h = x]
  PROVE  Moved(c)
<1> DEFINE r == [call[c] EXCEPT !.pc = pc, !.h = x]
<1>1. CallRecord(call[c])
  BY CallType
<1>2. CallRecord(r)
  BY <1>1, CallRecordField DEF CallFields
<1>3. r.pc = pc
  BY <1>1, CallRecordField DEF CallFields
<1>4. call' = [call EXCEPT ![c] = r]
  BY DEF SlotIInv, Shapes
<1> HIDE DEF r
<1> QED
  BY <1>2, <1>3, <1>4 DEF Moved

LEMMA Picked ==
  ASSUME SlotIInv, NEW c \in Callers, NEW pc, NEW x, NEW y,
         pc \notin HoldPCs,
         call' = [call EXCEPT ![c].pc = pc, ![c].h = x, ![c].pick = y]
  PROVE  Moved(c)
<1> DEFINE r == [call[c] EXCEPT !.pc = pc, !.h = x, !.pick = y]
<1>1. CallRecord(call[c])
  BY CallType
<1>2. CallRecord(r)
  BY <1>1, CallRecordField DEF CallFields
<1>3. r.pc = pc
  BY <1>1, CallRecordField DEF CallFields
<1>4. call' = [call EXCEPT ![c] = r]
  BY DEF SlotIInv, Shapes
<1> HIDE DEF r
<1> QED
  BY <1>2, <1>3, <1>4 DEF Moved

LEMMA Seen ==
  ASSUME SlotIInv, NEW c \in Callers, NEW pc, NEW x,
         pc \notin HoldPCs,
         call' = [call EXCEPT ![c].pc = pc, ![c].seen = x]
  PROVE  Moved(c)
<1> DEFINE r == [call[c] EXCEPT !.pc = pc, !.seen = x]
<1>1. CallRecord(call[c])
  BY CallType
<1>2. CallRecord(r)
  BY <1>1, CallRecordField DEF CallFields
<1>3. r.pc = pc
  BY <1>1, CallRecordField DEF CallFields
<1>4. call' = [call EXCEPT ![c] = r]
  BY DEF SlotIInv, Shapes
<1> HIDE DEF r
<1> QED
  BY <1>2, <1>3, <1>4 DEF Moved

LEMMA SeenAt ==
  ASSUME SlotIInv, NEW c \in Callers, NEW pc, NEW x, NEW y,
         pc \notin HoldPCs,
         call' = [call EXCEPT ![c].pc = pc, ![c].seen = x, ![c].station = y]
  PROVE  Moved(c)
<1> DEFINE r == [call[c] EXCEPT !.pc = pc, !.seen = x, !.station = y]
<1>1. CallRecord(call[c])
  BY CallType
<1>2. CallRecord(r)
  BY <1>1, CallRecordField DEF CallFields
<1>3. r.pc = pc
  BY <1>1, CallRecordField DEF CallFields
<1>4. call' = [call EXCEPT ![c] = r]
  BY DEF SlotIInv, Shapes
<1> HIDE DEF r
<1> QED
  BY <1>2, <1>3, <1>4 DEF Moved

LEMMA Read ==
  ASSUME SlotIInv, NEW c \in Callers, NEW pc, NEW x,
         pc \notin HoldPCs,
         call' = [call EXCEPT ![c].pc = pc, ![c].spine = x]
  PROVE  Moved(c)
<1> DEFINE r == [call[c] EXCEPT !.pc = pc, !.spine = x]
<1>1. CallRecord(call[c])
  BY CallType
<1>2. CallRecord(r)
  BY <1>1, CallRecordField DEF CallFields
<1>3. r.pc = pc
  BY <1>1, CallRecordField DEF CallFields
<1>4. call' = [call EXCEPT ![c] = r]
  BY DEF SlotIInv, Shapes
<1> HIDE DEF r
<1> QED
  BY <1>2, <1>3, <1>4 DEF Moved

LEMMA PlainSteps ==
  ASSUME SlotIInv, NEW c \in Callers, PlainStep(c)
  PROVE  SlotIInv'
<1>1. CallRecord(call[c])
  BY CallType
<1>2. Moved(c)
  <2>1. CASE Turns(c)
    <3>1. "turn" \notin HoldPCs
      BY DEF HoldPCs
    <3>2. call' = [call EXCEPT ![c].pc = "turn", ![c].h = live]
      BY <2>1 DEF Turns
    <3> QED
      BY <3>1, <3>2, Handed
  <2>2. CASE Chooses(c)
    <3>1. "choose" \notin HoldPCs
      BY DEF HoldPCs
    <3>2. PICK p : call' = [call EXCEPT ![c].pc = "choose", ![c].h = live, ![c].pick = p]
      BY <2>2 DEF Chooses
    <3> QED
      BY <3>1, <3>2, Picked
  <2>3. CASE Advance(c)
    BY SMTT(30), <2>3, Seen, Gotos DEF Advance, HoldPCs
  <2>4. CASE AdvanceSaved(c)
    <3>1. "idle" \notin HoldPCs /\ Return(c)
      BY <2>4 DEF AdvanceSaved, HoldPCs
    <3> QED
      BY <3>1, Gotos
  <2>5. CASE Refused(c)
    BY <2>5, Gotos DEF Refused, HoldPCs
  <2>6. CASE CommitChoice(c)
    <3>1. "refused" \notin HoldPCs /\ "chosen" \notin HoldPCs
      BY DEF HoldPCs
    <3>2. \/ Goto(c, "refused")
          \/ call' = [call EXCEPT ![c].pc = "chosen", ![c].seen = progress,
                                 ![c].station = beats[progress.gate].station]
      BY <2>6 DEF CommitChoice, Goto
    <3> QED
      BY <3>1, <3>2, SeenAt, Gotos
  <2>7. CASE ChoiceRecorded(c)
    BY <2>7, Gotos DEF ChoiceRecorded, HoldPCs
  <2>8. CASE FactsSaved(c)
    BY <2>8, Gotos DEF FactsSaved, HoldPCs
  <2>9. CASE StationClosed(c)
    BY <2>9, Gotos DEF StationClosed, HoldPCs
  <2>10. CASE OutlineCleared(c)
    BY <2>10, Gotos DEF OutlineCleared, HoldPCs
  <2>11. CASE ChoiceCommitted(c)
    BY <2>11, Gotos DEF ChoiceCommitted, HoldPCs
  <2>12. CASE Revise(c)
    BY <2>12, Read, Gotos DEF Revise, HoldPCs
  <2>13. CASE Revised(c)
    BY <2>13, Gotos DEF Revised, HoldPCs
  <2>14. CASE Paused(c)
    BY <2>14, Gotos DEF Paused, HoldPCs
  <2>15. CASE Stopped(c)
    BY <2>15, Gotos DEF Stopped, HoldPCs
  <2> QED
    BY <2>1, <2>2, <2>3, <2>4, <2>5, <2>6, <2>7, <2>8, <2>9, <2>10, <2>11, <2>12, <2>13, <2>14, <2>15 DEF PlainStep
<1>3. UNCHANGED <<run, live, exclusive>>
  <2>1. CASE Turns(c)
    BY <2>1 DEF Turns, engines
  <2>2. CASE Chooses(c)
    BY <2>2 DEF Chooses, engines
  <2>3. CASE Advance(c)
    BY <2>3 DEF Advance, engines
  <2>4. CASE AdvanceSaved(c)
    BY <2>4 DEF AdvanceSaved, engines
  <2>5. CASE Refused(c)
    BY <2>5 DEF Refused, engines
  <2>6. CASE CommitChoice(c)
    BY <2>6 DEF CommitChoice, engines
  <2>7. CASE ChoiceRecorded(c)
    BY <2>7 DEF ChoiceRecorded, engines
  <2>8. CASE FactsSaved(c)
    BY <2>8 DEF FactsSaved, engines
  <2>9. CASE StationClosed(c)
    BY <2>9 DEF StationClosed, engines
  <2>10. CASE OutlineCleared(c)
    BY <2>10 DEF OutlineCleared, engines
  <2>11. CASE ChoiceCommitted(c)
    BY <2>11 DEF ChoiceCommitted, engines
  <2>12. CASE Revise(c)
    BY <2>12 DEF Revise, engines
  <2>13. CASE Revised(c)
    BY <2>13 DEF Revised, engines
  <2>14. CASE Paused(c)
    BY <2>14 DEF Paused, engines
  <2>15. CASE Stopped(c)
    BY <2>15 DEF Stopped, engines
  <2> QED
    BY <2>1, <2>2, <2>3, <2>4, <2>5, <2>6, <2>7, <2>8, <2>9, <2>10, <2>11, <2>12, <2>13, <2>14, <2>15 DEF PlainStep
<1> QED
  BY <1>2, <1>3, CallMoves DEF Moved

(* The steps that start or cancel an engine. *)
LEMMA StartSteps ==
  ASSUME SlotIInv, NEW c \in Callers, ChooseReturns(c) \/ ReplanReturns(c)
  PROVE  SlotIInv'
<1>1. CallRecord(NoCall) /\ NoCall.pc \notin HoldPCs
  BY CallRecords DEF HoldPCs
<1>2. call' = [call EXCEPT ![c] = NoCall]
  BY DEF ChooseReturns, ReplanReturns, Return
<1>3. Starting(status) \/ UNCHANGED <<run, live, exclusive>>
  BY DEF ChooseReturns, ReplanReturns
<1>4. SlotKept
  BY <1>3, StartKeepsSlot, UnchangedKeepsSlot
<1> QED
  BY <1>1, <1>2, <1>4, RequestsReturn

LEMMA CancelSteps ==
  ASSUME SlotIInv, NEW c \in Callers, Pauses(c) \/ Replans(c)
  PROVE  SlotIInv'
<1>1. Cancelling \/ UNCHANGED run
  BY DEF Pauses, Replans
<1>2. UNCHANGED <<live, exclusive>>
  BY DEF Pauses, Replans
<1>3. SlotKept
  BY <1>1, <1>2, CancelKeepsSlot, UnchangedKeepsSlot
<1>4. {"pausing", "stopping", "replan"} \cap HoldPCs = {}
  BY DEF HoldPCs
<1>5. \/ Goto(c, "replan")
      \/ call' = [call EXCEPT ![c].pc = "pausing", ![c].h = live]
      \/ call' = [call EXCEPT ![c].pc = "stopping", ![c].h = live]
  BY DEF Pauses, Replans, Goto
<1>6. Moved(c)
  BY <1>4, <1>5, Handed, Gotos
<1> QED
  BY <1>3, <1>6, RequestsReturn DEF Moved

LEMMA UserStarts ==
  ASSUME SlotIInv, Starts
  PROVE  SlotIInv'
<1>1. SlotKept
  BY StartKeepsSlot DEF Starts
<1>2. UNCHANGED call
  BY DEF Starts
<1>3. \A c \in Callers : Holds(c)' <=> Holds(c)
  BY <1>2 DEF Holds
<1> QED
  BY <1>1, <1>2, <1>3 DEF SlotIInv, Shapes, SlotKept

LEMMA Crashes ==
  ASSUME SlotIInv, Crash
  PROVE  SlotIInv'
<1>1. RunRecord([NoRun EXCEPT !.pc = "gone"]) /\ [NoRun EXCEPT !.pc = "gone"].pc = "gone"
  BY RunRecords
<1>2. CallRecord(NoCall) /\ NoCall.pc = "idle"
  BY CallRecords
<1>3. call' = [c \in Callers |-> NoCall]
  BY DEF Crash
<1>4. run' = [g \in Gens |-> IF At(g, "unused") THEN run[g] ELSE [NoRun EXCEPT !.pc = "gone"]]
  BY DEF Crash
<1>5. \A g \in Gens : RunRecord(run'[g]) /\ ~Works(g)'
  BY <1>1, <1>4 DEF SlotIInv, Shapes, Works, At
<1>6. \A c \in Callers : CallRecord(call'[c]) /\ ~Holds(c)'
  BY <1>2, <1>3 DEF Holds, HoldPCs
<1>7. run' = [g \in Gens |-> run'[g]] /\ call' = [c \in Callers |-> call'[c]]
  BY <1>3, <1>4
<1> QED
  BY <1>5, <1>6, <1>7 DEF SlotIInv, Shapes

(* The steps of a replan. *)
LEMMA HoldersGo ==
  ASSUME SlotIInv, NEW c \in Callers, Holds(c), NEW pc, Goto(c, pc),
         UNCHANGED <<run, live, exclusive>>
  PROVE  SlotIInv'
<1>1. CallRecord([call[c] EXCEPT !.pc = pc])
  BY CallType, CallRecords
<1>2. call' = [call EXCEPT ![c] = [call[c] EXCEPT !.pc = pc]]
  BY DEF Goto
<1> QED
  BY <1>1, <1>2, CallMoves

LEMMA HolderReleases ==
  ASSUME SlotIInv, NEW c \in Callers, Holds(c), Moved(c),
         exclusive' = "none", UNCHANGED <<run, live>>
  PROVE  SlotIInv'
<1>1. PICK r : CallRecord(r) /\ call' = [call EXCEPT ![c] = r] /\ r.pc \notin HoldPCs
  BY DEF Moved
<1>2. \A d \in Callers : d # c => call'[d] = call[d] /\ ~Holds(d)
  BY <1>1 DEF SlotIInv, Shapes
<1>3. call'[c] = r
  BY <1>1 DEF SlotIInv, Shapes
<1>4. \A d \in Callers : ~Holds(d)'
  BY <1>1, <1>2, <1>3 DEF Holds
<1>5. \A g \in Gens : ~Works(g)'
  BY DEF SlotIInv, Works
<1>6. Shapes'
  BY <1>1, <1>2, <1>3 DEF SlotIInv, Shapes
<1> QED
  BY <1>4, <1>5, <1>6 DEF SlotIInv

LEMMA HolderTakes ==
  ASSUME SlotIInv, NEW c \in Callers, NEW r, CallRecord(r), exclusive = "none",
         call' = [call EXCEPT ![c] = r], exclusive' = "replan", UNCHANGED <<run, live>>
  PROVE  SlotIInv'
<1>1. \A d \in Callers : d # c => call'[d] = call[d] /\ ~Holds(d)
  BY DEF SlotIInv, Shapes
<1>2. call'[c] = r
  BY DEF SlotIInv, Shapes
<1>3. \A d \in Callers : Holds(d)' => d = c
  BY <1>1 DEF Holds
<1>4. \A g \in Gens : ~Works(g)'
  BY DEF SlotIInv, Works
<1>5. Shapes'
  BY <1>1, <1>2 DEF SlotIInv, Shapes
<1> QED
  BY <1>3, <1>4, <1>5 DEF SlotIInv

LEMMA ReplanBegins ==
  ASSUME SlotIInv, NEW c \in Callers, Replan(c)
  PROVE  SlotIInv'
<1> DEFINE r == [call[c] EXCEPT !.pc = "replanning", !.seen = progress,
                                !.spine = spine, !.status = status,
                                !.settings = settings]
<1>1. CASE /\ exclusive = "none" /\ exclusive' = "replan"
           /\ call' = [call EXCEPT ![c].pc = "replanning", ![c].seen = progress,
                                   ![c].spine = spine, ![c].status = status,
                                   ![c].settings = settings]
  <2>1. CallRecord(call[c])
    BY CallType
  <2>2. CallRecord(r)
    BY <2>1, CallRecordField DEF CallFields
  <2>3. call' = [call EXCEPT ![c] = r]
    BY <1>1 DEF SlotIInv, Shapes
  <2>4. UNCHANGED <<run, live>>
    BY DEF Replan
  <2> HIDE DEF r
  <2> QED
    BY <1>1, <2>2, <2>3, <2>4, HolderTakes
<1>2. CASE (Goto(c, "failed") \/ Goto(c, "restart")) /\ UNCHANGED exclusive
  <2>1. "failed" \notin HoldPCs /\ "restart" \notin HoldPCs
    BY DEF HoldPCs
  <2>2. Moved(c)
    BY <1>2, <2>1, Gotos
  <2>3. UNCHANGED <<run, live, exclusive>>
    BY <1>2 DEF Replan
  <2> QED
    BY <2>2, <2>3, CallMoves DEF Moved
<1> QED
  BY <1>1, <1>2 DEF Replan

LEMMA ReplanWrites ==
  ASSUME SlotIInv, NEW c \in Callers,
         \/ ReplanTruncates(c) \/ ReplanHeads(c) \/ ReplanOutline(c)
         \/ ReplanSpine(c) \/ ReplanStatus(c)
  PROVE  SlotIInv'
<1>1. Holds(c)
  BY DEF ReplanTruncates, ReplanHeads, ReplanOutline, ReplanSpine, ReplanStatus, Is,
         Holds, HoldPCs
<1>2. "failed" \notin HoldPCs /\ "restart" \notin HoldPCs
  BY DEF HoldPCs
<1>3. ASSUME NEW s, call' = [call EXCEPT ![c].pc = "heads", ![c].spine = s],
             UNCHANGED <<run, live, exclusive>>
      PROVE  SlotIInv'
  <2> DEFINE r == [call[c] EXCEPT !.pc = "heads", !.spine = s]
  <2>1. CallRecord(call[c])
    BY CallType
  <2>2. CallRecord(r)
    BY <2>1, CallRecordField DEF CallFields
  <2>3. call' = [call EXCEPT ![c] = r]
    BY <1>3 DEF SlotIInv, Shapes
  <2> HIDE DEF r
  <2> QED
    BY <1>1, <1>3, <2>2, <2>3, CallMoves
<1>4. ASSUME Goto(c, "failed") \/ Goto(c, "restart"), exclusive' = "none",
             UNCHANGED <<run, live>>
      PROVE  SlotIInv'
  <2>1. Moved(c)
    BY <1>2, <1>4, Gotos
  <2> QED
    BY <1>1, <1>4, <2>1, HolderReleases
<1>5. CASE ReplanTruncates(c)
  BY <1>3, <1>4, <1>5 DEF ReplanTruncates
<1>6. CASE ReplanHeads(c) \/ ReplanOutline(c) \/ ReplanSpine(c)
  <2>1. UNCHANGED <<run, live, exclusive>>
    BY <1>6 DEF ReplanHeads, ReplanOutline, ReplanSpine, engines
  <2>2. \E pc : Goto(c, pc)
    BY <1>6 DEF ReplanHeads, ReplanOutline, ReplanSpine
  <2> QED
    BY <1>1, <2>1, <2>2, HoldersGo
<1>7. CASE ReplanStatus(c)
  BY <1>4, <1>7 DEF ReplanStatus
<1> QED
  BY <1>5, <1>6, <1>7

LEMMA Initially == PlayInit => SlotIInv
<1> SUFFICES ASSUME PlayInit PROVE SlotIInv
  OBVIOUS
<1>1. \A g \in Gens : run[g] = NoRun
  BY DEF PlayInit
<1>2. \A c \in Callers : call[c] = NoCall
  BY DEF PlayInit
<1>3. Shapes
  BY <1>1, <1>2, RunRecords, CallRecords DEF PlayInit, Shapes
<1>4. \A g \in Gens : ~Works(g)
  BY <1>1, RunRecords DEF Works
<1>5. \A c \in Callers : ~Holds(c)
  BY <1>2, CallRecords DEF Holds, HoldPCs
<1> QED
  BY <1>3, <1>4, <1>5 DEF SlotIInv

LEMMA Steps == SlotIInv /\ [PlayNext]_vars => SlotIInv'
<1> SUFFICES ASSUME SlotIInv, [PlayNext]_vars PROVE SlotIInv'
  OBVIOUS
<1>1. ASSUME NEW g \in Gens, EngineStep(g) PROVE SlotIInv'
  BY <1>1, EngineSteps, Leaves
<1>2. ASSUME NEW c \in Callers, CallStep(c) PROVE SlotIInv'
  <2>1. \/ PlainStep(c) \/ ChooseReturns(c) \/ ReplanReturns(c) \/ Replan(c)
        \/ ReplanTruncates(c) \/ ReplanHeads(c) \/ ReplanOutline(c)
        \/ ReplanSpine(c) \/ ReplanStatus(c)
    BY <1>2 DEF CallStep, PlainStep
  <2> QED
    BY <2>1, PlainSteps, StartSteps, ReplanBegins, ReplanWrites
<1>3. ASSUME PlayerStep PROVE SlotIInv'
  <2>1. ASSUME NEW c \in Callers, Turns(c) \/ Chooses(c) PROVE SlotIInv'
    BY <2>1, PlainSteps DEF PlainStep
  <2>2. ASSUME NEW c \in Callers, Pauses(c) \/ Replans(c) PROVE SlotIInv'
    BY <2>2, CancelSteps
  <2>3. CASE UserEdits
    BY <2>3 DEF UserEdits, engines, SlotIInv, Shapes, Works, Holds
  <2> QED
    BY <1>3, <2>1, <2>2, <2>3, UserStarts DEF PlayerStep
<1>4. CASE UNCHANGED vars
  BY <1>4 DEF vars, codeVars, engines, SlotIInv, Shapes, Works, Holds
<1> QED
  BY <1>1, <1>2, <1>3, <1>4, Crashes DEF PlayNext, CodeStep

(***************************************************************************)
(* However starts, pauses, choices and replans overlap, at most one        *)
(* goroutine is between its start and its end; it is the one the host      *)
(* knows, and it holds the exclusive slot (play.go:261-298, :345-372).     *)
(***************************************************************************)
THEOREM SingleEngine == PlaySpec => []OneEngine
<1>1. SlotIInv => OneEngine
  BY DEF SlotIInv, OneEngine, Works, At
<1> QED
  BY <1>1, Initially, Steps, PTL DEF PlaySpec

(***************************************************************************)
(* From the moment a replan has the slot (acquireExclusive, play.go:406)   *)
(* until it gives it back, no engine works on the play and no other replan *)
(* does, however requests overlap.                                         *)
(***************************************************************************)
THEOREM ReplansAlone == PlaySpec => []ReplanWorksAlone
<1>1. SlotIInv => ReplanWorksAlone
  BY DEF SlotIInv, ReplanWorksAlone, Works, At
<1> QED
  BY <1>1, Initially, Steps, PTL DEF PlaySpec

--------------------------------------------------------------------------------
(***************************************************************************)
(* The rest is about requests that overlap with the engine and with each   *)
(* other, up to the moment at which two hold copies of the progress        *)
(* without a mutex in common (raced).                                      *)
(*                                                                         *)
(* What the engine and a request may write back is a progress they have    *)
(* read before.  PlayIInv says how far it can differ from the file by      *)
(* then: the engine plans and writes only while no choice is open, so that *)
(* no answer can come in between; whoever has locked a mutex keeps all     *)
(* others that save under it away; and no engine runs beside a replan.     *)
(***************************************************************************)

PlanPCs  == {"spine", "plan", "planning", "planned"}
WritePCs == {"writing", "commit", "card", "head"}
LockPCs  == {"card", "head", "gated", "finish", "drained"}
\* Requests that hold the mutex of the engine they have found
OwnerPCs  == {"turned", "refused", "chosen", "facts", "close", "clear", "resume"}

Heads(p) ==
  /\ p = [play |-> p.play, write |-> p.write, gate |-> p.gate, history |-> p.history]
  /\ p.play \in Nat /\ p.write \in Nat /\ p.gate \in Nat
  /\ p.play <= p.write /\ p.gate <= p.write

\* p differs from the file at most in the page the player is at.
UpToPage(p) == /\ Heads(p) /\ p.write = progress.write /\ p.gate = progress.gate
               /\ p.history = progress.history

Cards(o) ==
  /\ o = [station |-> o.station, cards |-> o.cards, next |-> o.next]
  /\ o.cards \in CardPlans \cup {<<>>} /\ o.next \in Nat

PlayFiles ==
  /\ Heads(progress) /\ progress.write <= MaxBeats /\ Cards(outline)
  /\ beats = [o \in Ordinals |-> beats[o]] /\ crashes \in Nat

PlayValues ==
  /\ wake = [g \in Gens |-> wake[g]] /\ mu = [g \in Gens |-> mu[g]]
  /\ live \in Gens \cup {0} /\ \A c \in Callers : call[c].h \in Gens \cup {0}

\* What a goroutine r knows; whether its mutex is held.
EngineFits(r, held) ==
  /\ r.pc \in PlanPCs => progress.gate = 0 /\ UpToPage(r.seen)
  /\ r.pc \in WritePCs =>
       progress.gate = 0 /\ r.ord = progress.write + 1 /\ r.ord <= MaxBeats
  /\ r.pc \in {"card", "head"} =>
       r.seen = progress /\ beats[r.ord].kind \in {"beat", "choice"} /\ Cards(r.outline)
  /\ r.pc \in LockPCs => held

\* What a request r knows.
CallFits(r) ==
  /\ r.pc = "turned" => UpToPage(r.seen) /\ r.seen.play < r.seen.write
  /\ r.pc = "chosen" => progress.gate # 0 /\ r.seen = progress
  /\ r.pc \in {"replanning", "heads"} => r.seen = progress

Owners ==
  \A c \in Callers : call[c].pc \in OwnerPCs /\ call[c].h # 0 =>
    /\ mu[call[c].h] /\ run[call[c].h].pc \notin LockPCs
    /\ \A d \in Callers : call[d].pc \in OwnerPCs /\ call[d].h = call[c].h => d = c

\* No choice is left behind without its answer.
ChoicesAnswered ==
  \A o \in 1..progress.write :
    beats[o].kind = "choice" => o = progress.gate \/ Answered(progress, o)

\* Missing beats are those a replan is about to forget.
BeatsExist ==
  crashes = 0 =>
    \A o \in 1..progress.write :
      \/ beats[o].kind # "none"
      \/ \E c \in Callers : Is(c, "heads") /\ o > Keep(c)

PlayIInv ==
  /\ PlayFiles /\ PlayValues
  /\ \A g \in Gens : EngineFits(run[g], mu[g])
  /\ \A c \in Callers : CallFits(call[c])
  /\ Owners /\ ChoicesAnswered /\ BeatsExist

(* Fields of updated records. *)

LEMMA RunField ==
  \A k, l \in RunFields : \A r, x : RunRecord(r) =>
    [r EXCEPT ![k] = x][l] = IF l = k THEN x ELSE r[l]
BY DEF RunRecord, RunFields

LEMMA CallField ==
  \A k, l \in CallFields : \A r, x : CallRecord(r) =>
    [r EXCEPT ![k] = x][l] = IF l = k THEN x ELSE r[l]
BY DEF CallRecord, CallFields

\* What EngineFits reads of a goroutine.
Alike(r, s) == s.pc = r.pc /\ s.seen = r.seen /\ s.ord = r.ord /\ s.outline = r.outline

LEMMA RunAt ==
  ASSUME SlotIInv, NEW g \in Gens, NEW x
  PROVE  LET r == [run[g] EXCEPT !.pc = x] IN
         /\ r.pc = x /\ r.seen = run[g].seen /\ r.ord = run[g].ord
         /\ r.outline = run[g].outline
         /\ [run EXCEPT ![g].pc = x] = [run EXCEPT ![g] = r]
<1>1. RunRecord(run[g])
  BY DEF SlotIInv, Shapes
<1>2. {"pc", "seen", "ord", "outline"} \subseteq RunFields
  BY DEF RunFields
<1> QED
  BY <1>1, <1>2, RunField

(* One goroutine works, so that a step of it concerns no other. *)

LEMMA Alone ==
  ASSUME SlotIInv, NEW g \in Gens, Works(g), NEW f \in Gens, f # g
  PROVE  ~Works(f) /\ run[f].pc \notin PlanPCs \cup WritePCs \cup LockPCs
BY DEF SlotIInv, Works, PlanPCs, WritePCs, LockPCs

MutexStep(g, r) ==
  \/ mu' = mu /\ (r.pc \in LockPCs => run[g].pc \in LockPCs)
  \/ run[g].pc \in LockPCs /\ mu' = [mu EXCEPT ![g] = FALSE]
  \/ ~mu[g] /\ mu' = [mu EXCEPT ![g] = TRUE]

LEMMA EngineKeeps ==
  ASSUME PlayIInv, SlotIInv, NEW g \in Gens, Works(g), NEW r,
         run' = [run EXCEPT ![g] = r], MutexStep(g, r), UNCHANGED <<call, crashes>>,
         live' \in {live, 0}, wake' = [h \in Gens |-> wake'[h]],
         PlayFiles', EngineFits(r, mu[g])', \A c \in Callers : CallFits(call[c])',
         ChoicesAnswered', BeatsExist'
  PROVE  PlayIInv'
<1>1. run'[g] = r /\ \A f \in Gens : f # g => run'[f] = run[f]
  BY DEF SlotIInv, Shapes
<1>2. /\ mu' = [h \in Gens |-> mu'[h]] /\ \A f \in Gens : f # g => mu'[f] = mu[f]
      /\ \/ mu'[g] = mu[g] /\ (r.pc \in LockPCs => run[g].pc \in LockPCs)
         \/ run[g].pc \in LockPCs
         \/ ~mu[g]
  BY DEF PlayIInv, PlayValues, MutexStep
<1>3. PlayValues'
  BY <1>2 DEF PlayIInv, PlayValues
<1>4. \A f \in Gens : EngineFits(run[f], mu[f])'
  <2> SUFFICES ASSUME NEW f \in Gens PROVE EngineFits(run[f], mu[f])'
    OBVIOUS
  <2>1. CASE f = g
    BY <1>1, <2>1 DEF EngineFits, UpToPage
  <2>2. CASE f # g
    <3>1. run[f].pc \notin PlanPCs \cup WritePCs \cup LockPCs
      BY <2>2, Alone
    <3>2. run'[f].pc \notin PlanPCs \cup WritePCs \cup LockPCs
      BY <1>1, <2>2, <3>1
    <3> QED
      BY <3>2 DEF EngineFits, WritePCs
  <2> QED
    BY <2>1, <2>2
<1>7. Owners'
  <2> SUFFICES ASSUME NEW c \in Callers, call[c].pc \in OwnerPCs, call[c].h # 0
               PROVE  mu'[call[c].h] /\ run'[call[c].h].pc \notin LockPCs
    BY DEF PlayIInv, Owners
  <2>1. mu[call[c].h] /\ run[call[c].h].pc \notin LockPCs /\ call[c].h \in Gens
    BY DEF PlayIInv, Owners, PlayValues
  <2>2. CASE call[c].h = g
    BY <1>1, <1>2, <2>1, <2>2
  <2>3. CASE call[c].h # g
    BY <1>1, <1>2, <2>1, <2>3
  <2> QED
    BY <2>2, <2>3
<1> QED
  BY <1>3, <1>4, <1>7 DEF PlayIInv

(* The files the invariant is about stay as they are. *)
Quiet == UNCHANGED <<progress, beats, crashes>> /\ Cards(outline)'

LEMMA QuietFiles ==
  ASSUME PlayIInv, Quiet
  PROVE  /\ PlayFiles' /\ ChoicesAnswered'
         /\ \A r, m : EngineFits(r, m) => EngineFits(r, m)'
         /\ \A r : CallFits(r) => CallFits(r)'
         /\ UNCHANGED call => BeatsExist'
<1>1. PlayFiles'
  BY DEF Quiet, PlayIInv, PlayFiles
<1>2. ChoicesAnswered'
  BY DEF Quiet, PlayIInv, ChoicesAnswered, Answered
<1>3. \A r, m : EngineFits(r, m) => EngineFits(r, m)'
  BY DEF Quiet, EngineFits, UpToPage
<1>4. \A r : CallFits(r) => CallFits(r)'
  BY DEF Quiet, CallFits, UpToPage
<1>5. UNCHANGED call => BeatsExist'
  <2>1. UNCHANGED call => \A c \in Callers : Keep(c)' = Keep(c) /\ Is(c, "heads")' = Is(c, "heads")
    BY DEF Keep, Is
  <2> QED
    BY <2>1 DEF Quiet, PlayIInv, BeatsExist
<1> QED
  BY <1>1, <1>2, <1>3, <1>4, <1>5

LEMMA QuietEngine ==
  ASSUME PlayIInv, SlotIInv, NEW g \in Gens, Works(g), NEW r, NEW m,
         run' = [run EXCEPT ![g] = r], MutexStep(g, r), mu'[g] = m, UNCHANGED call,
         live' \in {live, 0}, wake' = [h \in Gens |-> wake'[h]],
         Quiet, EngineFits(r, m)
  PROVE  PlayIInv'
<1>1. /\ PlayFiles' /\ ChoicesAnswered' /\ BeatsExist' /\ EngineFits(r, m)'
      /\ \A q : CallFits(q) => CallFits(q)'
  BY QuietFiles
<1>2. EngineFits(r, mu[g])'
  BY <1>1 DEF EngineFits, UpToPage
<1>3. \A c \in Callers : CallFits(call[c])'
  <2> SUFFICES ASSUME NEW c \in Callers PROVE CallFits(call[c])'
    OBVIOUS
  <2>1. CallFits(call[c])
    BY DEF PlayIInv
  <2>2. PICK q : q = call[c]
    OBVIOUS
  <2>3. CallFits(q)'
    BY <1>1, <2>1, <2>2
  <2>4. q = call'[c]
    BY <2>2
  <2> QED
    BY <2>3, <2>4 DEF CallFits, UpToPage
<1> QED
  BY <1>1, <1>2, <1>3, EngineKeeps DEF Quiet

\* A goroutine that knows nothing of the files.
LEMMA FreeEngine ==
  ASSUME PlayIInv, SlotIInv, NEW g \in Gens, Works(g), NEW r,
         run' = [run EXCEPT ![g] = r], MutexStep(g, r), UNCHANGED call,
         live' \in {live, 0}, wake' = [h \in Gens |-> wake'[h]],
         Quiet, r.pc \notin PlanPCs \cup WritePCs \cup LockPCs
  PROVE  PlayIInv'
<1>1. EngineFits(r, mu'[g])
  BY DEF EngineFits, WritePCs
<1> QED
  BY <1>1, QuietEngine

(* Steps of the engine that leave progress and beats alone. *)

Idles(g) == \E r : /\ run' = [run EXCEPT ![g] = r] /\ MutexStep(g, r)
                   /\ r.pc \notin PlanPCs \cup WritePCs \cup LockPCs

LEMMA JumpIdles ==
  ASSUME SlotIInv, NEW g \in Gens, NEW pc, Jump(g, pc), UNCHANGED mu,
         pc \notin PlanPCs \cup WritePCs \cup LockPCs
  PROVE  Idles(g)
BY RunAt DEF Jump, Idles, MutexStep

LEMMA RestIdles ==
  ASSUME NEW g \in Gens, run' = [run EXCEPT ![g] = Rest(@)],
         UNCHANGED mu \/ (run[g].pc \in LockPCs /\ Unlock(g))
  PROVE  Idles(g)
<1>1. Rest(run[g]).pc = "top"
  BY DEF Rest, NoRun
<1>2. Rest(run[g]).pc \notin PlanPCs \cup WritePCs \cup LockPCs
  BY <1>1 DEF PlanPCs, WritePCs, LockPCs
<1>3. MutexStep(g, Rest(run[g]))
  BY <1>2 DEF MutexStep, Unlock
<1> QED
  BY <1>2, <1>3 DEF Idles

LEMMA IdleSteps ==
  ASSUME PlayIInv, SlotIInv, NEW g \in Gens, Works(g), Idles(g), UNCHANGED call,
         live' \in {live, 0}, UNCHANGED wake \/ (\E x : wake' = [wake EXCEPT ![g] = x]),
         Quiet
  PROVE  PlayIInv'
<1>1. wake' = [h \in Gens |-> wake'[h]]
  BY DEF PlayIInv, PlayValues
<1>2. PICK r : /\ run' = [run EXCEPT ![g] = r] /\ MutexStep(g, r)
               /\ r.pc \notin PlanPCs \cup WritePCs \cup LockPCs
  BY DEF Idles
<1> QED
  BY <1>1, <1>2, FreeEngine

LEMMA CardsStay ==
  ASSUME PlayIInv, UNCHANGED <<progress, beats, crashes, outline>>
  PROVE  Quiet
BY DEF Quiet, PlayIInv, PlayFiles, Cards

\* To the same knowledge at another place.
LEMMA JumpKeeps ==
  ASSUME PlayIInv, SlotIInv, NEW g \in Gens, Works(g), NEW pc, Jump(g, pc),
         UNCHANGED <<call, mu, wake, live>>, Quiet,
         EngineFits([run[g] EXCEPT !.pc = pc], mu[g]),
         pc \in LockPCs => run[g].pc \in LockPCs
  PROVE  PlayIInv'
<1> DEFINE r == [run[g] EXCEPT !.pc = pc]
<1>1. r.pc = pc /\ run' = [run EXCEPT ![g] = r]
  BY RunAt DEF Jump
<1>2. wake' = [h \in Gens |-> wake'[h]]
  BY DEF PlayIInv, PlayValues
<1> HIDE DEF r
<1>3. MutexStep(g, r)
  BY <1>1 DEF MutexStep
<1>4. EngineFits(r, mu'[g])
  BY DEF r
<1> QED
  BY <1>1, <1>2, <1>3, <1>4, QuietEngine

LEMMA EasySteps ==
  ASSUME PlayIInv, SlotIInv, NEW g \in Gens,
         \/ Started(g) \/ Woken(g) \/ SaveGate(g) \/ AwaitReplan(g)
         \/ PersistPaused(g) \/ Leave(g)
  PROVE  PlayIInv'
<1>0. \A pc \in {"top", "exit", "leave", "wait"} : pc \notin PlanPCs \cup WritePCs \cup LockPCs
  BY DEF PlanPCs, WritePCs, LockPCs
<1>1. Works(g) /\ UNCHANGED <<call, progress, beats, crashes, outline>> /\ live' \in {live, 0}
      /\ (UNCHANGED wake \/ \E x : wake' = [wake EXCEPT ![g] = x])
  <2>1. CASE Started(g) BY <2>1 DEF Started, At, Works
  <2>2. CASE Woken(g) BY <2>2 DEF Woken, At, Works, files
  <2>3. CASE SaveGate(g) BY <2>3 DEF SaveGate, At, Works
  <2>4. CASE AwaitReplan(g) BY <2>4 DEF AwaitReplan, At, Works
  <2>5. CASE PersistPaused(g) BY <2>5 DEF PersistPaused, At, Works
  <2>6. CASE Leave(g) BY <2>6 DEF Leave, At, Works, files
  <2> QED
    BY <2>1, <2>2, <2>3, <2>4, <2>5, <2>6
<1>2. Idles(g)
  <2>1. CASE Started(g) BY <1>0, <2>1, JumpIdles DEF Started
  <2>2. CASE Woken(g) BY <1>0, <2>2, JumpIdles DEF Woken
  <2>3. CASE SaveGate(g) BY <2>3, RestIdles DEF SaveGate, At, LockPCs
  <2>4. CASE AwaitReplan(g) BY <2>4, RestIdles DEF AwaitReplan, At, LockPCs
  <2>5. CASE PersistPaused(g) BY <1>0, <2>5, JumpIdles DEF PersistPaused
  <2>6. CASE Leave(g)
    <3>1. [NoRun EXCEPT !.pc = "gone"].pc = "gone"
      BY DEF NoRun
    <3>2. "gone" \notin PlanPCs \cup WritePCs \cup LockPCs
      BY DEF PlanPCs, WritePCs, LockPCs
    <3> QED
      BY <2>6, <3>1, <3>2 DEF Leave, Idles, MutexStep
  <2> QED
    BY <2>1, <2>2, <2>3, <2>4, <2>5, <2>6
<1> QED
  BY <1>1, <1>2, CardsStay, IdleSteps

LEMMA TopKeeps ==
  ASSUME PlayIInv, SlotIInv, NEW g \in Gens, Top(g)
  PROVE  PlayIInv'
<1>1. Works(g) /\ UNCHANGED <<progress, beats, crashes, outline, call, live, wake, mu>>
  BY DEF Top, At, Works, files
<1>2. Quiet /\ wake' = [h \in Gens |-> wake'[h]]
  BY <1>1, CardsStay DEF PlayIInv, PlayValues
<1>3. RunRecord(run[g]) /\ Heads(progress)
  BY DEF SlotIInv, Shapes, PlayIInv, PlayFiles
<1>4. CASE Jump(g, "exit") \/ Jump(g, "wait")
  <2>1. \A pc \in {"exit", "wait"} : pc \notin PlanPCs \cup WritePCs \cup LockPCs
    BY DEF PlanPCs, WritePCs, LockPCs
  <2>2. Idles(g)
    BY <1>1, <1>4, <2>1, JumpIdles
  <2> QED
    BY <1>1, <1>2, <2>2, IdleSteps
<1>5. CASE ~MustWait /\ run' = [run EXCEPT ![g].pc = "spine", ![g].seen = progress]
  <2> DEFINE r == [run[g] EXCEPT !.pc = "spine", !.seen = progress]
  <2>1. run' = [run EXCEPT ![g] = r]
    BY <1>5 DEF SlotIInv, Shapes
  <2>2. r.pc = "spine" /\ r.seen = progress
    BY <1>3, RunRecordField, RunField DEF RunFields
  <2> HIDE DEF r
  <2>3. EngineFits(r, mu'[g])
    BY <1>3, <1>5, <2>2 DEF EngineFits, UpToPage, MustWait, PlanPCs, WritePCs, LockPCs
  <2>4. MutexStep(g, r)
    BY <1>1, <2>2 DEF MutexStep, LockPCs
  <2> QED
    BY <1>1, <1>2, <2>1, <2>3, <2>4, QuietEngine
<1>6. CASE /\ ~MustWait /\ progress.write < MaxBeats
           /\ run' = [run EXCEPT ![g].pc = "writing", ![g].ord = progress.write + 1,
                                 ![g].station = outline.station, ![g].settings = settings]
  <2> DEFINE r == [run[g] EXCEPT !.pc = "writing", !.ord = progress.write + 1,
                                 !.station = outline.station, !.settings = settings]
  <2>1. run' = [run EXCEPT ![g] = r]
    BY <1>6 DEF SlotIInv, Shapes
  <2>2. r.pc = "writing" /\ r.ord = progress.write + 1
    <3> DEFINE r1 == [run[g] EXCEPT !.pc = "writing"]
               r2 == [r1 EXCEPT !.ord = progress.write + 1]
               r3 == [r2 EXCEPT !.station = outline.station]
    <3>1. r = [r3 EXCEPT !.settings = settings]
      OBVIOUS
    <3>2. RunRecord(r1) /\ RunRecord(r2) /\ RunRecord(r3)
      <4> HIDE DEF r
      <4>1. {"pc", "ord", "station"} \subseteq RunFields
        BY DEF RunFields
      <4>2. RunRecord(r1)
        BY <1>3, <4>1, RunRecordField
      <4> HIDE DEF r1
      <4>3. RunRecord(r2)
        BY <4>1, <4>2, RunRecordField
      <4> HIDE DEF r2
      <4>4. RunRecord(r3)
        BY <4>1, <4>3, RunRecordField
      <4> QED
        BY <4>2, <4>3, <4>4
    <3>3. r1.pc = "writing"
      BY <1>3, RunField DEF RunFields
    <3> HIDE DEF r, r1
    <3>4. r2.pc = "writing" /\ r2.ord = progress.write + 1
      BY <3>2, <3>3, RunField DEF RunFields
    <3> HIDE DEF r2
    <3>5. r3.pc = "writing" /\ r3.ord = progress.write + 1
      BY <3>2, <3>4, RunField DEF RunFields
    <3> HIDE DEF r3
    <3> QED
      BY <3>1, <3>2, <3>5, RunField DEF RunFields
  <2> HIDE DEF r
  <2>3. EngineFits(r, mu'[g])
    <3>1. progress.gate = 0 /\ r.ord <= MaxBeats
      BY <1>3, <1>6, <2>2, BoundsAssumption DEF MustWait, Heads
    <3> QED
      BY <2>2, <3>1 DEF EngineFits, PlanPCs, LockPCs
  <2>4. MutexStep(g, r)
    BY <1>1, <2>2 DEF MutexStep, LockPCs
  <2> QED
    BY <1>1, <1>2, <2>1, <2>3, <2>4, QuietEngine
<1> QED
  BY <1>4, <1>5, <1>6 DEF Top

LEMMA PlanSteps ==
  ASSUME PlayIInv, SlotIInv, NEW g \in Gens,
         SpineReturns(g) \/ Plan(g) \/ PlannerReturns(g)
  PROVE  PlayIInv'
<1>1. /\ run[g].pc \in PlanPCs
      /\ UNCHANGED <<progress, beats, crashes, call, live, wake, mu>>
  BY DEF SpineReturns, Plan, PlannerReturns, At, PlanPCs
<1>2. Works(g) /\ EngineFits(run[g], mu[g]) /\ RunRecord(run[g])
  BY <1>1 DEF PlayIInv, SlotIInv, Shapes, Works, PlanPCs
<1>3. progress.gate = 0 /\ UpToPage(run[g].seen)
  BY <1>1, <1>2 DEF EngineFits
<1>4. Quiet
  <2>1. CASE UNCHANGED outline
    BY <1>1, <2>1, CardsStay
  <2>2. CASE \E cards \in CardPlans :
                outline' = [station |-> run[g].station, cards |-> cards, next |-> 0]
    BY <1>1, <2>2 DEF Quiet, Cards
  <2> QED
    BY <2>1, <2>2 DEF SpineReturns, Plan, PlannerReturns
<1>5. wake' = [h \in Gens |-> wake'[h]]
  BY <1>1 DEF PlayIInv, PlayValues
<1>6. CASE Jump(g, "exit")
  <2>1. Idles(g)
    BY <1>1, <1>6, JumpIdles DEF PlanPCs, WritePCs, LockPCs
  <2> QED
    BY <1>1, <1>2, <1>4, <2>1, IdleSteps
<1>7. ASSUME NEW r, run' = [run EXCEPT ![g] = r], r.pc \in PlanPCs, r.seen = run[g].seen
      PROVE  PlayIInv'
  <2>1. EngineFits(r, mu'[g])
    BY <1>3, <1>7 DEF EngineFits, PlanPCs, WritePCs, LockPCs
  <2>2. MutexStep(g, r)
    BY <1>1, <1>7 DEF MutexStep, PlanPCs, LockPCs
  <2> QED
    BY <1>1, <1>2, <1>4, <1>5, <1>7, <2>1, <2>2, QuietEngine
<1>8. CASE Jump(g, "plan") \/ Jump(g, "planned")
  <2>1. \A pc : Jump(g, pc) => run' = [run EXCEPT ![g] = [run[g] EXCEPT !.pc = pc]]
    BY DEF Jump
  <2>2. \A pc : [run[g] EXCEPT !.pc = pc].pc = pc /\ [run[g] EXCEPT !.pc = pc].seen = run[g].seen
    BY RunAt
  <2> QED
    BY <1>7, <1>8, <2>1, <2>2 DEF PlanPCs
<1>9. CASE run' = [run EXCEPT ![g].pc = "plan", ![g].tries = 1]
  <2> DEFINE r1 == [run[g] EXCEPT !.pc = "plan"]
             r == [r1 EXCEPT !.tries = 1]
  <2>1. run' = [run EXCEPT ![g] = r]
    BY <1>9 DEF SlotIInv, Shapes
  <2>2. RunRecord(r1) /\ r1.pc = "plan" /\ r1.seen = run[g].seen
    BY <1>2, RunRecordField, RunAt DEF RunFields
  <2> HIDE DEF r1
  <2>3. r.pc = "plan" /\ r.seen = run[g].seen
    BY <2>2, RunField DEF RunFields
  <2> HIDE DEF r
  <2> QED
    BY <1>7, <2>1, <2>3 DEF PlanPCs
<1>10. ASSUME NEW id, NEW last,
              run' = [run EXCEPT ![g].pc = "planning", ![g].station = id, ![g].last = last]
       PROVE  PlayIInv'
  <2> DEFINE r1 == [run[g] EXCEPT !.pc = "planning"]
             r2 == [r1 EXCEPT !.station = id]
             r == [r2 EXCEPT !.last = last]
  <2>1. run' = [run EXCEPT ![g] = r]
    BY <1>10 DEF SlotIInv, Shapes
  <2>2. RunRecord(r1) /\ r1.pc = "planning" /\ r1.seen = run[g].seen
    BY <1>2, RunRecordField, RunAt DEF RunFields
  <2> HIDE DEF r1
  <2>3. RunRecord(r2) /\ r2.pc = "planning" /\ r2.seen = run[g].seen
    BY <2>2, RunRecordField, RunField DEF RunFields
  <2> HIDE DEF r2
  <2>4. r.pc = "planning" /\ r.seen = run[g].seen
    BY <2>3, RunField DEF RunFields
  <2> HIDE DEF r
  <2> QED
    BY <1>7, <2>1, <2>4 DEF PlanPCs
<1>11. CASE SpineReturns(g)
  BY <1>6, <1>8, <1>11 DEF SpineReturns, Fails
<1>12. CASE Plan(g)
  BY <1>6, <1>10, <1>12 DEF Plan, Fails
<1>13. CASE PlannerReturns(g)
  BY <1>6, <1>8, <1>9, <1>13 DEF PlannerReturns, Fails
<1> QED
  BY <1>11, <1>12, <1>13

LEMMA WriteSteps ==
  ASSUME PlayIInv, SlotIInv, NEW g \in Gens,
         WriterReturns(g) \/ SaveCard(g) \/ FinishStation(g)
  PROVE  PlayIInv'
<1>1. /\ run[g].pc \in {"writing", "card", "finish"}
      /\ UNCHANGED <<progress, beats, crashes, call, live, wake>>
  BY DEF WriterReturns, SaveCard, FinishStation, At
<1>2. Works(g) /\ EngineFits(run[g], mu[g]) /\ RunRecord(run[g])
  BY <1>1 DEF PlayIInv, SlotIInv, Shapes, Works
<1>3. \A pc : LET r == [run[g] EXCEPT !.pc = pc] IN
              /\ r.pc = pc /\ r.seen = run[g].seen /\ r.ord = run[g].ord
              /\ r.outline = run[g].outline
  BY RunAt
<1>4. CASE WriterReturns(g)
  <2>1. Quiet /\ UNCHANGED mu
    BY <1>1, <1>4, CardsStay DEF WriterReturns
  <2>2. CASE Jump(g, "commit")
    <3>1. EngineFits([run[g] EXCEPT !.pc = "commit"], mu[g])
      BY <1>2, <1>3, <1>4 DEF WriterReturns, At, EngineFits, PlanPCs, WritePCs, LockPCs
    <3> QED
      BY <1>1, <1>2, <2>1, <2>2, <3>1, JumpKeeps DEF LockPCs
  <2>3. CASE Jump(g, "exit")
    <3>1. Idles(g)
      BY <2>1, <2>3, JumpIdles DEF PlanPCs, WritePCs, LockPCs
    <3> QED
      BY <1>1, <1>2, <2>1, <3>1, IdleSteps
  <2> QED
    BY <1>4, <2>2, <2>3 DEF WriterReturns, Fails
<1>5. CASE SaveCard(g)
  <2>1. At(g, "card") /\ outline' = run[g].outline /\ Jump(g, "head") /\ UNCHANGED mu
    BY <1>5 DEF SaveCard
  <2>2. Cards(run[g].outline)
    BY <1>2, <2>1 DEF EngineFits, At
  <2>3. Quiet
    BY <1>1, <2>1, <2>2 DEF Quiet, Cards
  <2>4. EngineFits([run[g] EXCEPT !.pc = "head"], mu[g])
    BY <1>2, <1>3, <2>1 DEF At, EngineFits, PlanPCs, WritePCs, LockPCs
  <2> QED
    BY <1>1, <1>2, <2>1, <2>3, <2>4, JumpKeeps DEF At, LockPCs
<1>6. CASE FinishStation(g)
  <2>1. Quiet
    BY <1>1, <1>6, CardsStay DEF FinishStation
  <2>2. At(g, "finish") /\ mu[g]
    BY <1>2, <1>6 DEF FinishStation, At, EngineFits, LockPCs
  <2>3. CASE run' = [run EXCEPT ![g] = Rest(@)] /\ Unlock(g)
    <3>1. Idles(g)
      BY <2>2, <2>3, RestIdles DEF At, LockPCs
    <3> QED
      BY <1>1, <1>2, <2>1, <3>1, IdleSteps
  <2>4. CASE Jump(g, "drained") /\ UNCHANGED mu
    <3>1. EngineFits([run[g] EXCEPT !.pc = "drained"], mu[g])
      BY <1>3, <2>2 DEF EngineFits, PlanPCs, WritePCs, LockPCs
    <3> QED
      BY <1>1, <1>2, <2>1, <2>2, <2>4, <3>1, JumpKeeps DEF At, LockPCs
  <2> QED
    BY <1>6, <2>3, <2>4 DEF FinishStation
<1> QED
  BY <1>4, <1>5, <1>6

(* The planner's progress is saved: but for the page it is the one of the file. *)
LEMMA PlanSavedKeeps ==
  ASSUME PlayIInv, SlotIInv, NEW g \in Gens, PlanSaved(g)
  PROVE  PlayIInv'
<1>0. PICK r : r = Rest(run[g])
  OBVIOUS
<1>1. /\ run[g].pc = "planned" /\ Works(g) /\ progress' = run[g].seen
      /\ run' = [run EXCEPT ![g] = r]
      /\ UNCHANGED <<beats, crashes, call, live, wake, mu, outline>>
  BY <1>0 DEF PlanSaved, At, Works
<1>2. EngineFits(run[g], mu[g])
  BY DEF PlayIInv
<1>3. progress.gate = 0 /\ UpToPage(run[g].seen)
  BY <1>1, <1>2 DEF EngineFits, PlanPCs
<1>4. /\ Heads(progress') /\ progress'.write = progress.write
      /\ progress'.gate = progress.gate /\ progress'.history = progress.history
  BY <1>1, <1>3 DEF UpToPage
<1>5. r.pc = "top"
  BY <1>0 DEF Rest, NoRun
<1>6. PlayFiles' /\ wake' = [h \in Gens |-> wake'[h]]
  BY <1>1, <1>4 DEF PlayIInv, PlayFiles, PlayValues, Heads, Cards
<1>7. EngineFits(r, mu[g])' /\ MutexStep(g, r)
  BY <1>1, <1>5 DEF EngineFits, MutexStep, PlanPCs, WritePCs, LockPCs
<1>8. ASSUME NEW c \in Callers PROVE CallFits(call[c])'
  <2>1. CallFits(call[c])
    BY DEF PlayIInv
  <2>2. call[c].pc \notin {"chosen", "replanning", "heads"}
    <3>1. call[c].pc # "chosen"
      BY <1>3, <2>1 DEF CallFits
    <3>2. ~Holds(c)
      BY <1>1 DEF SlotIInv
    <3> QED
      BY <3>1, <3>2 DEF Holds, HoldPCs
  <2>3. call' = call
    BY <1>1
  <2> QED
    BY <1>4, <2>1, <2>2, <2>3 DEF CallFits, UpToPage
<1>9. ChoicesAnswered'
  BY <1>1, <1>4 DEF PlayIInv, ChoicesAnswered, Answered
<1>10. BeatsExist'
  <2>1. \A c \in Callers : Keep(c)' = Keep(c) /\ Is(c, "heads")' = Is(c, "heads")
    BY <1>1 DEF Keep, Is
  <2> QED
    BY <1>1, <1>4, <2>1 DEF PlayIInv, BeatsExist
<1> QED
  BY <1>1, <1>6, <1>7, <1>8, <1>9, <1>10, EngineKeeps

(* The new beat lies beyond the write head. *)
LEMMA SaveBeatKeeps ==
  ASSUME PlayIInv, SlotIInv, NEW g \in Gens, SaveBeat(g)
  PROVE  PlayIInv'
<1>1. /\ run[g].pc = "commit" /\ ~mu[g] /\ Works(g)
      /\ UNCHANGED <<progress, outline, crashes, call, live, wake>>
  BY DEF SaveBeat, At, Works
<1>2. /\ EngineFits(run[g], mu[g]) /\ RunRecord(run[g])
      /\ wake' = [h \in Gens |-> wake'[h]]
  BY <1>1 DEF PlayIInv, PlayValues, SlotIInv, Shapes
<1>3. /\ progress.gate = 0 /\ run[g].ord = progress.write + 1 /\ run[g].ord <= MaxBeats
      /\ Heads(progress) /\ Cards(outline)
  BY <1>1, <1>2 DEF EngineFits, WritePCs, PlayIInv, PlayFiles
<1>4. CASE Written(outline)
  <2>1. run' = [run EXCEPT ![g] = Rest(@)] /\ UNCHANGED <<beats, mu>>
    BY <1>4 DEF SaveBeat
  <2>2. Idles(g) /\ Quiet
    BY <1>1, <2>1, RestIdles, CardsStay
  <2> QED
    BY <1>1, <2>2, IdleSteps
<1>5. CASE ~Written(outline)
  <2> DEFINE k == outline.cards[outline.next + 1]
             o == [outline EXCEPT !.next = @ + 1]
             r1 == [run[g] EXCEPT !.pc = "card"]
             r2 == [r1 EXCEPT !.seen = progress]
  <2>0. PICK r : r = [r2 EXCEPT !.outline = o]
    OBVIOUS
  <2>1. /\ mu' = [mu EXCEPT ![g] = TRUE]
        /\ beats' = [beats EXCEPT ![run[g].ord] = [kind |-> k, station |-> run[g].station]]
        /\ run' = [run EXCEPT ![g] = r]
    BY <1>5, <2>0 DEF SaveBeat, SlotIInv, Shapes
  <2>2. r.pc = "card" /\ r.seen = progress /\ r.ord = run[g].ord /\ r.outline = o
    <3>1. RunRecord(r1) /\ r1.pc = "card" /\ r1.ord = run[g].ord
      BY <1>2, RunRecordField, RunField DEF RunFields
    <3> HIDE DEF r1
    <3>2. RunRecord(r2) /\ r2.pc = "card" /\ r2.ord = run[g].ord /\ r2.seen = progress
      BY <3>1, RunRecordField, RunField DEF RunFields
    <3> HIDE DEF r2, o
    <3> QED
      BY <2>0, <3>2, RunField DEF RunFields
  <2>3. k \in {"beat", "choice"}
    <3>1. outline.next < Len(outline.cards) /\ outline.next \in Nat
          /\ outline.cards \in CardPlans \cup {<<>>}
      <4>1. Len(outline.cards) \in Nat
        BY <1>3, PlansAssumption DEF Cards
      <4> QED
        BY <1>3, <1>5, <4>1 DEF Written, Cards
    <3>2. outline.cards \in Seq({"beat", "choice"})
      BY <3>1, PlansAssumption
    <3>3. outline.next + 1 \in 1..Len(outline.cards)
      BY <3>1, <3>2
    <3> QED
      BY <3>2, <3>3
  <2>4. Cards(o)
    BY <1>3 DEF Cards
  <2> HIDE DEF k, o
  <2>5. /\ \A n \in Ordinals : n # run[g].ord => beats'[n] = beats[n]
        /\ beats'[run[g].ord].kind = k
        /\ beats' = [n \in Ordinals |-> beats'[n]]
    <3>1. run[g].ord \in Ordinals
      BY <1>3 DEF Ordinals, Heads
    <3> QED
      BY <2>1, <3>1 DEF PlayIInv, PlayFiles
  <2>6. PlayFiles'
    BY <1>1, <2>5 DEF PlayIInv, PlayFiles, Cards
  <2>7. EngineFits(r, mu[g])'
    <3>1. mu'[g]
      BY <2>1 DEF PlayIInv, PlayValues
    <3>2. beats'[r.ord].kind \in {"beat", "choice"} /\ Cards(r.outline)
      BY <2>2, <2>3, <2>4, <2>5
    <3> QED
      BY <1>1, <1>3, <2>2, <3>1, <3>2 DEF EngineFits, Cards, PlanPCs
  <2>8. MutexStep(g, r)
    BY <1>1, <2>1 DEF MutexStep
  <2>9. \A c \in Callers : CallFits(call[c])'
    BY <1>1 DEF PlayIInv, CallFits, UpToPage
  <2>10. \A n \in 1..progress.write : beats'[n] = beats[n]
    <3>1. progress.write \in Nat /\ MaxBeats \in Nat
      BY <1>3, BoundsAssumption DEF Heads
    <3>2. \A n \in 1..progress.write : n \in Ordinals /\ n # run[g].ord
      BY <1>3, <3>1 DEF Ordinals
    <3> QED
      BY <2>5, <3>2
  <2>11. ChoicesAnswered'
    BY <1>1, <2>10 DEF PlayIInv, ChoicesAnswered, Answered
  <2>12. BeatsExist'
    <3>1. \A c \in Callers : Keep(c)' = Keep(c) /\ Is(c, "heads")' = Is(c, "heads")
      BY <1>1 DEF Keep, Is
    <3> QED
      BY <1>1, <2>10, <3>1 DEF PlayIInv, BeatsExist
  <2> QED
    BY <1>1, <1>2, <2>1, <2>6, <2>7, <2>8, <2>9, <2>11, <2>12, EngineKeeps
<1> QED
  BY <1>4, <1>5

(* The engine has held the mutex since it read the progress: no request saved another
   in the meantime, and none is about to. *)
LEMMA SaveHeadKeeps ==
  ASSUME PlayIInv, SlotIInv, ~Overlap, NEW g \in Gens, SaveHead(g)
  PROVE  PlayIInv'
<1> DEFINE ord == run[g].ord
           choice == beats[ord].kind = "choice"
<1>1. /\ run[g].pc = "head" /\ Works(g)
      /\ UNCHANGED <<beats, outline, crashes, call, live, wake>>
  BY DEF SaveHead, At, Works
<1>2. /\ EngineFits(run[g], mu[g]) /\ RunRecord(run[g])
      /\ wake' = [h \in Gens |-> wake'[h]]
  BY <1>1 DEF PlayIInv, PlayValues, SlotIInv, Shapes
<1>3. /\ progress.gate = 0 /\ ord = progress.write + 1 /\ ord <= MaxBeats
      /\ run[g].seen = progress /\ beats[ord].kind \in {"beat", "choice"}
      /\ mu[g] /\ Heads(progress)
  BY <1>1, <1>2 DEF EngineFits, WritePCs, LockPCs, PlayIInv, PlayFiles
<1>4. progress' = [progress EXCEPT !.write = ord, !.play = IF @ = 0 THEN ord ELSE @,
                                   !.gate = IF choice THEN ord ELSE @]
  BY <1>3 DEF SaveHead
<1> HIDE DEF choice, ord
<1>5. /\ progress'.write = ord /\ progress'.history = progress.history
      /\ progress'.gate = IF choice THEN ord ELSE 0
      /\ Heads(progress')
  <2> DEFINE play == IF progress.play = 0 THEN ord ELSE progress.play
             gate == IF choice THEN ord ELSE progress.gate
  <2>1. progress' = [play |-> play, write |-> ord, gate |-> gate, history |-> progress.history]
    BY <1>3, <1>4 DEF Heads
  <2>2. /\ play \in Nat /\ play <= ord /\ gate \in Nat /\ gate <= ord /\ ord \in Nat
        /\ gate = IF choice THEN ord ELSE 0
    BY <1>3 DEF Heads
  <2> HIDE DEF play, gate
  <2> QED
    BY <2>1, <2>2 DEF Heads
<1>6. PlayFiles'
  BY <1>1, <1>3, <1>5 DEF PlayIInv, PlayFiles, Cards
<1>7. PICK r : /\ run' = [run EXCEPT ![g] = r] /\ MutexStep(g, r)
               /\ r.pc \in {"gated", "finish", "top"} /\ (r.pc \in LockPCs => mu'[g])
  <2>1. CASE (Jump(g, "gated") \/ Jump(g, "finish")) /\ UNCHANGED mu
    <3> DEFINE rec(pc) == [run[g] EXCEPT !.pc = pc]
    <3>1. \A pc : rec(pc).pc = pc /\ [run EXCEPT ![g].pc = pc] = [run EXCEPT ![g] = rec(pc)]
      BY <1>3, RunAt
    <3> HIDE DEF rec
    <3>2. PICK pc \in {"gated", "finish"} : run' = [run EXCEPT ![g] = rec(pc)]
      BY <2>1, <3>1 DEF Jump
    <3>3. rec(pc).pc = pc
      BY <3>1
    <3>4. MutexStep(g, rec(pc))
      BY <1>1, <2>1 DEF MutexStep, LockPCs
    <3> QED
      BY <1>1, <1>3, <2>1, <3>2, <3>3, <3>4
  <2>2. CASE run' = [run EXCEPT ![g] = Rest(@)] /\ Unlock(g)
    <3>1. Rest(run[g]).pc = "top"
      BY DEF Rest, NoRun
    <3> QED
      BY <1>1, <2>2, <3>1 DEF MutexStep, LockPCs, Unlock
  <2> QED
    BY <2>1, <2>2 DEF SaveHead
<1>8. EngineFits(r, mu[g])'
  BY <1>7 DEF EngineFits, PlanPCs, WritePCs
<1>9. ASSUME NEW c \in Callers PROVE CallFits(call[c])'
  <2>1. CallFits(call[c])
    BY DEF PlayIInv
  <2>2. call[c].pc \notin {"turned", "chosen", "replanning", "heads"}
    <3>1. EngineSaves(g) /\ g # 0
      BY <1>1, EnginesAssumption DEF EngineSaves
    <3>2. RequestSaves(c) => MutexOf(c) = g
      BY <3>1 DEF Overlap
    <3>3. RequestSaves(c) => call[c].pc \in OwnerPCs /\ call[c].h = g
      BY <3>1, <3>2 DEF MutexOf, OwnerPCs
    <3>4. ~RequestSaves(c)
      BY <1>1, <3>1, <3>3 DEF PlayIInv, Owners, LockPCs
    <3> QED
      BY <3>4 DEF RequestSaves
  <2>3. call' = call
    BY <1>1
  <2> QED
    BY <2>2, <2>3 DEF CallFits
<1>10. ASSUME NEW n \in 1..ord, beats[n].kind = "choice"
       PROVE  n = progress'.gate \/ Answered(progress', n)
  <2>1. CASE n = ord
    BY <1>5, <1>10, <2>1 DEF choice
  <2>2. CASE n # ord
    <3>1. n \in 1..progress.write /\ n # 0
      BY <1>3, <2>2 DEF Heads
    <3>2. Answered(progress, n)
      BY <1>3, <1>10, <3>1 DEF PlayIInv, ChoicesAnswered
    <3> QED
      BY <1>5, <3>2 DEF Answered
  <2> QED
    BY <2>1, <2>2
<1>11. ChoicesAnswered'
  BY <1>1, <1>5, <1>10 DEF ChoicesAnswered
<1>12. BeatsExist'
  <2>1. \A c \in Callers : Keep(c)' = Keep(c) /\ Is(c, "heads")' = Is(c, "heads")
    BY <1>1 DEF Keep, Is
  <2>2. \A n \in 1..ord : n = ord \/ n \in 1..progress.write
    BY <1>3 DEF Heads
  <2> QED
    BY <1>1, <1>3, <1>5, <2>1, <2>2 DEF PlayIInv, BeatsExist
<1> QED
  BY <1>1, <1>2, <1>6, <1>7, <1>8, <1>9, <1>11, <1>12, EngineKeeps

LEMMA EngineStepKeeps ==
  ASSUME PlayIInv, SlotIInv, ~Overlap, NEW g \in Gens, EngineStep(g)
  PROVE  PlayIInv'
BY EasySteps, TopKeeps, PlanSteps, WriteSteps, PlanSavedKeeps, SaveBeatKeeps, SaveHeadKeeps
DEF EngineStep

(* A step of one request. *)

\* Whoever else saves does so under the same mutex, which one request owns.
LEMMA SavesAlone ==
  ASSUME PlayIInv, ~Overlap, NEW c \in Callers, RequestSaves(c)
  PROVE  /\ \A d \in Callers : d # c => ~RequestSaves(d)
         /\ \A g \in Gens : ~EngineSaves(g)
<1>1. \A d \in Callers : RequestSaves(d) /\ MutexOf(d) # 0 =>
                          call[d].pc \in OwnerPCs /\ call[d].h = MutexOf(d)
  BY DEF MutexOf, OwnerPCs
<1>2. ASSUME NEW d \in Callers, d # c, RequestSaves(d) PROVE FALSE
  <2>1. MutexOf(c) # 0 /\ MutexOf(d) = MutexOf(c)
    BY <1>2 DEF Overlap
  <2> QED
    BY <1>1, <1>2, <2>1 DEF PlayIInv, Owners
<1>3. ASSUME NEW g \in Gens, EngineSaves(g) PROVE FALSE
  <2>1. MutexOf(c) = g /\ g # 0
    BY <1>3, EnginesAssumption DEF Overlap
  <2> QED
    BY <1>1, <1>3, <2>1 DEF PlayIInv, Owners, EngineSaves, LockPCs
<1> QED
  BY <1>2, <1>3

\* The mutex of a request that owns one stays held, and is that of no other.
OwnersStay(c, r) ==
  /\ \A d \in Callers : d # c /\ call[d].pc \in OwnerPCs /\ call[d].h # 0 =>
       mu'[call[d].h] /\ run'[call[d].h].pc \notin LockPCs
  /\ r.pc \in OwnerPCs /\ r.h # 0 =>
       /\ mu'[r.h] /\ run'[r.h].pc \notin LockPCs
       /\ \A d \in Callers : d # c /\ call[d].pc \in OwnerPCs => call[d].h # r.h

LEMMA CallKeeps ==
  ASSUME PlayIInv, SlotIInv, NEW c \in Callers,
         NEW r, call' = [call EXCEPT ![c] = r], r.h \in Gens \cup {0},
         PlayFiles', wake' = [h \in Gens |-> wake'[h]], mu' = [h \in Gens |-> mu'[h]],
         live' \in Gens \cup {0},
         CallFits(r)', \A d \in Callers : d # c => CallFits(call[d])',
         \A g \in Gens : EngineFits(run[g], mu[g])',
         OwnersStay(c, r), ChoicesAnswered', BeatsExist'
  PROVE  PlayIInv'
<1>1. call'[c] = r /\ \A d \in Callers : d # c => call'[d] = call[d]
  BY DEF SlotIInv, Shapes
<1>2. PlayValues'
  BY <1>1 DEF PlayIInv, PlayValues
<1>3. \A d \in Callers : CallFits(call[d])'
  <2> SUFFICES ASSUME NEW d \in Callers PROVE CallFits(call[d])'
    OBVIOUS
  <2>1. CASE d = c
    BY <1>1, <2>1 DEF CallFits, UpToPage
  <2>2. CASE d # c
    BY <2>2
  <2> QED
    BY <2>1, <2>2
<1>4. Owners'
  <2> SUFFICES ASSUME NEW d \in Callers, call'[d].pc \in OwnerPCs, call'[d].h # 0
               PROVE  /\ mu'[call'[d].h] /\ run'[call'[d].h].pc \notin LockPCs
                      /\ \A e \in Callers :
                           call'[e].pc \in OwnerPCs /\ call'[e].h = call'[d].h => e = d
    BY DEF Owners
  <2>1. CASE d = c
    BY <1>1, <2>1 DEF OwnersStay
  <2>2. CASE d # c
    BY <1>1, <2>2 DEF OwnersStay, PlayIInv, Owners
  <2> QED
    BY <2>1, <2>2
<1> QED
  BY <1>2, <1>3, <1>4 DEF PlayIInv

\* Goroutines that have started or been cancelled know what they knew.
LEMMA QuietRuns ==
  ASSUME PlayIInv, Quiet,
         \A g \in Gens : \/ Alike(run[g], run'[g])
                         \/ run'[g].pc \notin PlanPCs \cup WritePCs \cup LockPCs,
         \A g \in Gens : mu'[g] = mu[g] \/ run[g].pc \notin LockPCs
  PROVE  \A g \in Gens : EngineFits(run[g], mu[g])'
<1> SUFFICES ASSUME NEW g \in Gens PROVE EngineFits(run[g], mu[g])'
  OBVIOUS
<1>1. PICK s, m : s = run'[g] /\ m = mu'[g]
  OBVIOUS
<1>2. EngineFits(s, m)
  <2>1. EngineFits(run[g], mu[g])
    BY DEF PlayIInv
  <2>2. CASE Alike(run[g], s)
    BY <1>1, <2>1, <2>2 DEF Alike, EngineFits
  <2>3. CASE s.pc \notin PlanPCs \cup WritePCs \cup LockPCs
    BY <2>3 DEF EngineFits, WritePCs
  <2> QED
    BY <1>1, <2>2, <2>3
<1>3. EngineFits(s, m)'
  BY <1>2, QuietFiles
<1> QED
  BY <1>1, <1>3 DEF EngineFits, UpToPage

LEMMA QuietCall ==
  ASSUME PlayIInv, SlotIInv, NEW c \in Callers, ~Is(c, "heads"),
         NEW r, call' = [call EXCEPT ![c] = r], r.h \in Gens \cup {0}, CallFits(r),
         Quiet, wake' = [h \in Gens |-> wake'[h]], mu' = [h \in Gens |-> mu'[h]],
         live' \in Gens \cup {0},
         \A g \in Gens : \/ Alike(run[g], run'[g])
                         \/ run'[g].pc \notin PlanPCs \cup WritePCs \cup LockPCs,
         \A g \in Gens : mu'[g] = mu[g] \/ run[g].pc \notin LockPCs,
         OwnersStay(c, r)
  PROVE  PlayIInv'
<1>1. PlayFiles' /\ ChoicesAnswered' /\ CallFits(r)'
  BY QuietFiles
<1>2. \A g \in Gens : EngineFits(run[g], mu[g])'
  BY QuietRuns
<1>3. \A d \in Callers : d # c => call'[d] = call[d]
  BY DEF SlotIInv, Shapes
<1>4. BeatsExist'
  <2>1. \A d \in Callers : d # c => Keep(d)' = Keep(d) /\ Is(d, "heads")' = Is(d, "heads")
    BY <1>3 DEF Keep, Is
  <2>2. \A o : (\E d \in Callers : Is(d, "heads") /\ o > Keep(d)) =>
                (\E d \in Callers : Is(d, "heads") /\ o > Keep(d))'
    BY <2>1
  <2> QED
    BY <2>2 DEF Quiet, PlayIInv, BeatsExist
<1>5. ASSUME NEW d \in Callers, d # c PROVE CallFits(call[d])'
  <2>1. PICK q : q = call[d]
    OBVIOUS
  <2>2. CallFits(q)
    BY <2>1 DEF PlayIInv
  <2>3. CallFits(q)'
    BY <2>2, QuietFiles
  <2>4. q = call'[d]
    BY <1>3, <1>5, <2>1
  <2> QED
    BY <2>3, <2>4 DEF CallFits, UpToPage
<1> QED
  BY <1>1, <1>2, <1>4, <1>5, CallKeeps

LEMMA CallAt ==
  ASSUME SlotIInv, NEW c \in Callers, NEW x
  PROVE  LET r == [call[c] EXCEPT !.pc = x] IN
         /\ r.pc = x /\ r.seen = call[c].seen /\ r.h = call[c].h
         /\ [call EXCEPT ![c].pc = x] = [call EXCEPT ![c] = r]
<1>1. CallRecord(call[c])
  BY DEF SlotIInv, Shapes
<1>2. {"pc", "seen", "h"} \subseteq CallFields
  BY DEF CallFields
<1> QED
  BY <1>1, <1>2, CallField

\* What a request does to the mutex and the wake channel it has found.
Frees(c) == mu' = mu \/ (call[c].pc \in OwnerPCs /\ Unlocks(call[c].h))

\* Other requests keep the mutexes they hold.
LEMMA OthersOwn ==
  ASSUME PlayIInv, NEW c \in Callers, Frees(c),
         \A g \in Gens : run'[g].pc \in LockPCs => run[g].pc \in LockPCs
  PROVE  \A d \in Callers : d # c /\ call[d].pc \in OwnerPCs /\ call[d].h # 0 =>
           mu'[call[d].h] /\ run'[call[d].h].pc \notin LockPCs
<1> SUFFICES ASSUME NEW d \in Callers, d # c, call[d].pc \in OwnerPCs, call[d].h # 0
             PROVE  mu'[call[d].h] /\ run'[call[d].h].pc \notin LockPCs
  OBVIOUS
<1>1. call[d].h \in Gens /\ mu[call[d].h] /\ run[call[d].h].pc \notin LockPCs
  BY DEF PlayIInv, PlayValues, Owners
<1>2. call[c].pc \in OwnerPCs => call[c].h # call[d].h
  BY DEF PlayIInv, Owners
<1>3. mu'[call[d].h]
  BY <1>1, <1>2 DEF Frees, Unlocks, PlayIInv, PlayValues
<1> QED
  BY <1>1, <1>3

\* Requests that go on, and end, without saving the progress.
LEMMA Proceeds ==
  ASSUME PlayIInv, SlotIInv, NEW c \in Callers, ~Is(c, "heads"),
         NEW r, call' = [call EXCEPT ![c] = r], CallFits(r), Quiet,
         r.h = call[c].h \/ (r.h = 0 /\ r.pc = "idle"),
         UNCHANGED <<run, live>>, wake' = wake \/ Wakes(call[c].h), Frees(c),
         r.pc \in OwnerPCs => call[c].pc \in OwnerPCs /\ UNCHANGED mu
  PROVE  PlayIInv'
<1>1. /\ call[c].h \in Gens \cup {0} /\ r.h \in Gens \cup {0} /\ live' \in Gens \cup {0}
      /\ wake' = [h \in Gens |-> wake'[h]] /\ mu' = [h \in Gens |-> mu'[h]]
  BY DEF PlayIInv, PlayValues, Wakes, Frees, Unlocks
<1>2. \A g \in Gens : Alike(run[g], run'[g])
  BY DEF Alike
<1>3. \A g \in Gens : mu'[g] = mu[g] \/ run[g].pc \notin LockPCs
  <2> SUFFICES ASSUME NEW g \in Gens, mu'[g] # mu[g] PROVE run[g].pc \notin LockPCs
    OBVIOUS
  <2>1. call[c].pc \in OwnerPCs /\ call[c].h = g
    BY DEF Frees, Unlocks, PlayIInv, PlayValues
  <2> QED
    BY <2>1, EnginesAssumption DEF PlayIInv, Owners
<1>4. OwnersStay(c, r)
  <2>1. "idle" \notin OwnerPCs
    BY DEF OwnerPCs
  <2>2. r.pc \in OwnerPCs /\ r.h # 0 =>
          /\ mu'[r.h] /\ run'[r.h].pc \notin LockPCs
          /\ \A d \in Callers : d # c /\ call[d].pc \in OwnerPCs => call[d].h # r.h
    BY <2>1 DEF PlayIInv, Owners
  <2> QED
    BY <2>2, OthersOwn DEF OwnersStay
<1> QED
  BY <1>1, <1>2, <1>3, <1>4, QuietCall

LEMMA GoesOn ==
  ASSUME PlayIInv, SlotIInv, NEW c \in Callers, ~Is(c, "heads"),
         NEW pc, Goto(c, pc), pc \notin {"turned", "chosen", "replanning", "heads"}, Quiet,
         UNCHANGED <<run, live, wake>>, Frees(c),
         pc \in OwnerPCs => call[c].pc \in OwnerPCs /\ UNCHANGED mu
  PROVE  PlayIInv'
<1>1. PICK r : r = [call[c] EXCEPT !.pc = pc]
  OBVIOUS
<1>2. r.pc = pc /\ r.h = call[c].h /\ call' = [call EXCEPT ![c] = r]
  BY <1>1, CallAt DEF Goto
<1>3. CallFits(r)
  BY <1>2 DEF CallFits
<1> QED
  BY <1>2, <1>3, Proceeds

LEMMA Idle == NoCall.pc = "idle" /\ NoCall.h = 0 /\ CallFits(NoCall)
BY DEF NoCall, CallFits

LEMMA GoesHome ==
  ASSUME PlayIInv, SlotIInv, NEW c \in Callers, ~Is(c, "heads"),
         Return(c), Quiet, UNCHANGED <<run, live>>, wake' = wake \/ Wakes(call[c].h),
         Frees(c)
  PROVE  PlayIInv'
<1>1. PICK r : r = NoCall
  OBVIOUS
<1>2. r.pc = "idle" /\ r.h = 0 /\ CallFits(r) /\ call' = [call EXCEPT ![c] = r]
  BY <1>1, Idle DEF Return
<1>3. r.pc \notin OwnerPCs
  BY <1>2 DEF OwnerPCs
<1> QED
  BY <1>2, <1>3, Proceeds

LEMMA NoCards == Cards(NoOutline)
BY DEF Cards, NoOutline

\* The files of the choice after its progress, the refusals, the revision.
LEMMA ChoiceSteps ==
  ASSUME PlayIInv, SlotIInv, NEW c \in Callers,
         \/ Refused(c) \/ FactsSaved(c) \/ StationClosed(c) \/ OutlineCleared(c)
         \/ ChoiceCommitted(c) \/ Revised(c)
  PROVE  PlayIInv'
<1>0. /\ {"refused", "facts", "close", "clear", "resume"} \subseteq OwnerPCs
      /\ {"wake", "revise", "revising"} \cap OwnerPCs = {}
  BY DEF OwnerPCs
<1>1. CASE Refused(c)
  <2>1. UNCHANGED <<progress, beats, crashes, outline, run, live, wake>>
    BY <1>1 DEF Refused, files
  <2>2. Is(c, "refused") /\ Unlocks(call[c].h) /\ Return(c)
    BY <1>1 DEF Refused
  <2>3. Frees(c) /\ ~Is(c, "heads")
    BY <1>0, <2>2 DEF Frees, Is
  <2> QED
    BY <2>1, <2>2, <2>3, CardsStay, GoesHome
<1>2. CASE FactsSaved(c)
  <2>1. UNCHANGED <<progress, beats, crashes, outline, run, live, wake, mu>>
    BY <1>2 DEF FactsSaved, engines
  <2>2. Is(c, "facts") /\ Goto(c, "close")
    BY <1>2 DEF FactsSaved
  <2> QED
    BY <1>0, <2>1, <2>2, CardsStay, GoesOn DEF Is, Frees
<1>3. CASE StationClosed(c)
  <2>1. UNCHANGED <<progress, beats, crashes, outline, run, live, wake, mu>>
    BY <1>3 DEF StationClosed, engines
  <2>2. Is(c, "close") /\ Goto(c, "clear")
    BY <1>3 DEF StationClosed
  <2> QED
    BY <1>0, <2>1, <2>2, CardsStay, GoesOn DEF Is, Frees
<1>4. CASE OutlineCleared(c)
  <2>1. UNCHANGED <<progress, beats, crashes, run, live, wake, mu>> /\ outline' = NoOutline
    BY <1>4 DEF OutlineCleared, engines
  <2>2. Is(c, "clear") /\ Goto(c, "resume")
    BY <1>4 DEF OutlineCleared
  <2>3. Quiet
    BY <2>1, NoCards DEF Quiet, Cards
  <2> QED
    BY <1>0, <2>1, <2>2, <2>3, GoesOn DEF Is, Frees
<1>5. CASE ChoiceCommitted(c)
  <2>1. UNCHANGED <<progress, beats, crashes, outline, run, live, wake>>
    BY <1>5 DEF ChoiceCommitted
  <2>2. Is(c, "resume") /\ Unlocks(call[c].h) /\ (Goto(c, "wake") \/ Goto(c, "revise"))
    BY <1>5 DEF ChoiceCommitted
  <2>3. Frees(c) /\ ~Is(c, "heads")
    BY <1>0, <2>2 DEF Frees, Is
  <2> QED
    BY <1>0, <2>1, <2>2, <2>3, CardsStay, GoesOn
<1>6. CASE Revised(c)
  <2>1. UNCHANGED <<progress, beats, crashes, outline, run, live, wake, mu>>
    BY <1>6 DEF Revised, engines
  <2>2. Is(c, "revising") /\ Goto(c, "wake")
    BY <1>6 DEF Revised
  <2> QED
    BY <1>0, <2>1, <2>2, CardsStay, GoesOn DEF Is, Frees
<1> QED
  BY <1>1, <1>2, <1>3, <1>4, <1>5, <1>6

LEMMA ReviseKeeps ==
  ASSUME PlayIInv, SlotIInv, NEW c \in Callers, Revise(c)
  PROVE  PlayIInv'
<1>1. /\ UNCHANGED <<progress, beats, crashes, outline, run, live, wake, mu>>
      /\ ~Is(c, "heads")
  BY DEF Revise, files, engines, Is
<1>2. \A pc \in {"wake", "revising"} : pc \notin OwnerPCs
  BY DEF OwnerPCs
<1>3. Quiet /\ Frees(c)
  BY <1>1, CardsStay DEF Frees
<1>4. CASE Goto(c, "wake")
  BY <1>1, <1>2, <1>3, <1>4, GoesOn
<1>5. CASE call' = [call EXCEPT ![c].pc = "revising", ![c].spine = spine]
  <2> DEFINE r1 == [call[c] EXCEPT !.pc = "revising"]
  <2>1. PICK r : r = [r1 EXCEPT !.spine = spine]
    OBVIOUS
  <2>2. call' = [call EXCEPT ![c] = r]
    BY <1>5, <2>1 DEF SlotIInv, Shapes
  <2>3. CallRecord(r1) /\ r1.pc = "revising" /\ r1.h = call[c].h
    BY CallType, CallRecordField, CallField DEF CallFields
  <2> HIDE DEF r1
  <2>4. r.pc = "revising" /\ r.h = call[c].h
    BY <2>1, <2>3, CallField DEF CallFields
  <2>5. CallFits(r)
    BY <2>4 DEF CallFits
  <2> QED
    BY <1>1, <1>2, <1>3, <2>2, <2>4, <2>5, Proceeds
<1> QED
  BY <1>4, <1>5 DEF Revise

\* A replan but for the beats and the heads.
LEMMA ReplanSteps ==
  ASSUME PlayIInv, SlotIInv, NEW c \in Callers,
         ReplanOutline(c) \/ ReplanSpine(c) \/ ReplanStatus(c)
  PROVE  PlayIInv'
<1>0. {"outline", "spine", "meta", "restart"} \cap OwnerPCs = {}
  BY DEF OwnerPCs
<1>1. UNCHANGED <<progress, beats, crashes, run, live, wake, mu>>
  BY DEF ReplanOutline, ReplanSpine, ReplanStatus, engines
<1>2. /\ call[c].pc \in {"outline", "spine", "meta"}
      /\ \E pc \in {"spine", "meta", "restart"} : Goto(c, pc)
  BY DEF ReplanOutline, ReplanSpine, ReplanStatus, Is
<1>3. Quiet
  <2>1. outline' = NoOutline \/ outline' = outline
    BY DEF ReplanOutline, ReplanSpine, ReplanStatus
  <2> QED
    BY <1>1, <2>1, NoCards DEF Quiet, Cards, PlayIInv, PlayFiles
<1> QED
  BY <1>0, <1>1, <1>2, <1>3, GoesOn DEF Is, Frees

LEMMA ReplanKeeps ==
  ASSUME PlayIInv, SlotIInv, NEW c \in Callers, Replan(c)
  PROVE  PlayIInv'
<1>0. {"replanning", "restart", "failed"} \cap OwnerPCs = {}
  BY DEF OwnerPCs
<1>1. /\ UNCHANGED <<progress, beats, crashes, outline, run, live, wake, mu>>
      /\ Is(c, "replan")
  BY DEF Replan, files
<1>2. Quiet /\ Frees(c) /\ ~Is(c, "heads")
  BY <1>1, CardsStay DEF Frees, Is
<1>3. CASE Goto(c, "failed") \/ Goto(c, "restart")
  BY <1>0, <1>1, <1>2, <1>3, GoesOn
<1>4. CASE call' = [call EXCEPT ![c].pc = "replanning", ![c].seen = progress,
                                ![c].spine = spine, ![c].status = status,
                                ![c].settings = settings]
  <2> DEFINE r1 == [call[c] EXCEPT !.pc = "replanning"]
             r2 == [r1 EXCEPT !.seen = progress]
             r3 == [r2 EXCEPT !.spine = spine]
             r4 == [r3 EXCEPT !.status = status]
  <2>1. PICK r : r = [r4 EXCEPT !.settings = settings]
    OBVIOUS
  <2>2. call' = [call EXCEPT ![c] = r]
    BY <1>4, <2>1 DEF SlotIInv, Shapes
  <2>3. CallRecord(r1) /\ r1.pc = "replanning" /\ r1.h = call[c].h
    BY CallType, CallRecordField, CallField DEF CallFields
  <2> HIDE DEF r1
  <2>4. CallRecord(r2) /\ r2.pc = "replanning" /\ r2.h = call[c].h /\ r2.seen = progress
    BY <2>3, CallRecordField, CallField DEF CallFields
  <2> HIDE DEF r2
  <2>5. CallRecord(r3) /\ r3.pc = "replanning" /\ r3.h = call[c].h /\ r3.seen = progress
    BY <2>4, CallRecordField, CallField DEF CallFields
  <2> HIDE DEF r3
  <2>6. CallRecord(r4) /\ r4.pc = "replanning" /\ r4.h = call[c].h /\ r4.seen = progress
    BY <2>5, CallRecordField, CallField DEF CallFields
  <2> HIDE DEF r4
  <2>7. r.pc = "replanning" /\ r.h = call[c].h /\ r.seen = progress
    BY <2>1, <2>6, CallField DEF CallFields
  <2>8. CallFits(r)
    BY <2>7 DEF CallFits
  <2> QED
    BY <1>0, <1>1, <1>2, <2>2, <2>7, <2>8, Proceeds
<1> QED
  BY <1>3, <1>4 DEF Replan

(* Requests begin. *)

LEMMA CancelAlike ==
  ASSUME SlotIInv, Cancelling \/ UNCHANGED run
  PROVE  \A g \in Gens : Alike(run[g], run'[g])
<1> SUFFICES ASSUME NEW g \in Gens PROVE Alike(run[g], run'[g])
  OBVIOUS
<1>1. run'[g] = run[g] \/ run'[g] = [run[g] EXCEPT !.cancelled = TRUE]
  BY DEF Cancelling
<1>2. RunRecord(run[g])
  BY DEF SlotIInv, Shapes
<1>3. {"pc", "seen", "ord", "outline", "cancelled"} \subseteq RunFields
  BY DEF RunFields
<1>4. Alike(run[g], [run[g] EXCEPT !.cancelled = TRUE])
  BY <1>2, <1>3, RunField DEF Alike
<1> QED
  BY <1>1, <1>4 DEF Alike

LEMMA Begins ==
  ASSUME PlayIInv, SlotIInv, NEW c \in Callers, MayCall(c),
         NEW r, call' = [call EXCEPT ![c] = r],
         r.pc \notin OwnerPCs \cup {"turned", "chosen", "replanning", "heads"},
         r.h = live \/ r.h = call[c].h,
         Quiet, UNCHANGED <<live, wake, mu>>, Cancelling \/ UNCHANGED run
  PROVE  PlayIInv'
<1>1. ~Is(c, "heads")
  BY DEF MayCall, Is
<1>2. /\ r.h \in Gens \cup {0} /\ live' \in Gens \cup {0}
      /\ wake' = [h \in Gens |-> wake'[h]] /\ mu' = [h \in Gens |-> mu'[h]]
  BY DEF PlayIInv, PlayValues
<1>3. CallFits(r)
  BY DEF CallFits
<1>4. \A g \in Gens : Alike(run[g], run'[g])
  BY CancelAlike
<1>5. OwnersStay(c, r)
  <2>1. Frees(c) /\ \A g \in Gens : run'[g].pc \in LockPCs => run[g].pc \in LockPCs
    BY <1>4 DEF Frees, Alike
  <2> QED
    BY <2>1, OthersOwn DEF OwnersStay
<1> QED
  BY <1>1, <1>2, <1>3, <1>4, <1>5, QuietCall

LEMMA BeginSteps ==
  ASSUME PlayIInv, SlotIInv, NEW c \in Callers,
         Turns(c) \/ Chooses(c) \/ Pauses(c) \/ Replans(c)
  PROVE  PlayIInv'
<1>0. \A pc \in {"turn", "choose", "pausing", "stopping", "replan"} :
        pc \notin OwnerPCs \cup {"turned", "chosen", "replanning", "heads"}
  BY DEF OwnerPCs
<1>1. /\ UNCHANGED <<progress, beats, crashes, outline, live, wake, mu>> /\ MayCall(c)
      /\ Cancelling \/ UNCHANGED run
  BY DEF Turns, Chooses, Pauses, Replans, files, engines
<1>2. Quiet
  BY <1>1, CardsStay
<1>3. \/ \E pc \in {"turn", "pausing", "stopping"} :
           call' = [call EXCEPT ![c].pc = pc, ![c].h = live]
      \/ \E p : call' = [call EXCEPT ![c].pc = "choose", ![c].h = live, ![c].pick = p]
      \/ live = 0 /\ Goto(c, "replan")
  BY DEF Turns, Chooses, Pauses, Replans, Goto
<1>4. ASSUME NEW pc \in {"turn", "pausing", "stopping"},
             call' = [call EXCEPT ![c].pc = pc, ![c].h = live]
      PROVE  PlayIInv'
  <2> DEFINE r1 == [call[c] EXCEPT !.pc = pc]
  <2>1. PICK r : r = [r1 EXCEPT !.h = live]
    OBVIOUS
  <2>2. call' = [call EXCEPT ![c] = r]
    BY <1>4, <2>1 DEF SlotIInv, Shapes
  <2>3. CallRecord(r1) /\ r1.pc = pc
    BY CallType, CallRecordField, CallField DEF CallFields
  <2> HIDE DEF r1
  <2>4. r.pc = pc /\ r.h = live
    BY <2>1, <2>3, CallField DEF CallFields
  <2> QED
    BY <1>0, <1>1, <1>2, <2>2, <2>4, Begins
<1>5. ASSUME NEW p, call' = [call EXCEPT ![c].pc = "choose", ![c].h = live, ![c].pick = p]
      PROVE  PlayIInv'
  <2> DEFINE r1 == [call[c] EXCEPT !.pc = "choose"]
             r2 == [r1 EXCEPT !.h = live]
  <2>1. PICK r : r = [r2 EXCEPT !.pick = p]
    OBVIOUS
  <2>2. call' = [call EXCEPT ![c] = r]
    BY <1>5, <2>1 DEF SlotIInv, Shapes
  <2>3. CallRecord(r1) /\ r1.pc = "choose"
    BY CallType, CallRecordField, CallField DEF CallFields
  <2> HIDE DEF r1
  <2>4. CallRecord(r2) /\ r2.pc = "choose" /\ r2.h = live
    BY <2>3, CallRecordField, CallField DEF CallFields
  <2> HIDE DEF r2
  <2>5. r.pc = "choose" /\ r.h = live
    BY <2>1, <2>4, CallField DEF CallFields
  <2> QED
    BY <1>0, <1>1, <1>2, <2>2, <2>5, Begins
<1>6. ASSUME live = 0, Goto(c, "replan")
      PROVE  PlayIInv'
  <2>1. PICK r : r = [call[c] EXCEPT !.pc = "replan"]
    OBVIOUS
  <2>2. r.pc = "replan" /\ r.h = call[c].h /\ call' = [call EXCEPT ![c] = r]
    BY <1>6, <2>1, CallAt DEF Goto
  <2> QED
    BY <1>0, <1>1, <1>2, <1>6, <2>2, Begins
<1> QED
  BY <1>3, <1>4, <1>5, <1>6

(* Requests lock the mutex of the engine they have found. *)

LEMMA Locked ==
  ASSUME PlayIInv, SlotIInv, NEW c \in Callers, ~Is(c, "heads"),
         NEW r, call' = [call EXCEPT ![c] = r], CallFits(r), Quiet, r.h = call[c].h,
         r.pc \in OwnerPCs, Locks(r.h), UNCHANGED <<run, live, wake>>
  PROVE  PlayIInv'
<1>1. /\ r.h \in Gens \cup {0} /\ live' \in Gens \cup {0}
      /\ wake' = [h \in Gens |-> wake'[h]] /\ mu' = [h \in Gens |-> mu'[h]]
  BY DEF PlayIInv, PlayValues, Locks
<1>2. \A g \in Gens : Alike(run[g], run'[g])
  BY DEF Alike
<1>3. r.h # 0 => ~mu[r.h] /\ mu'[r.h] /\ run[r.h].pc \notin LockPCs
  <2> SUFFICES ASSUME r.h # 0 PROVE ~mu[r.h] /\ mu'[r.h] /\ run[r.h].pc \notin LockPCs
    OBVIOUS
  <2>1. r.h \in Gens /\ ~mu[r.h] /\ mu'[r.h]
    BY <1>1 DEF Locks, PlayIInv, PlayValues
  <2>2. EngineFits(run[r.h], mu[r.h])
    BY <2>1 DEF PlayIInv
  <2> QED
    BY <2>1, <2>2 DEF EngineFits
<1>4. \A g \in Gens : mu'[g] = mu[g] \/ run[g].pc \notin LockPCs
  BY <1>3 DEF Locks, PlayIInv, PlayValues
<1>5. OwnersStay(c, r)
  <2>1. ASSUME NEW d \in Callers, d # c, call[d].pc \in OwnerPCs, call[d].h # 0
        PROVE  mu'[call[d].h] /\ run'[call[d].h].pc \notin LockPCs /\ mu[call[d].h]
    <3>1. mu[call[d].h] /\ run[call[d].h].pc \notin LockPCs /\ call[d].h \in Gens
      BY <2>1 DEF PlayIInv, PlayValues, Owners
    <3> QED
      BY <3>1 DEF Locks, PlayIInv, PlayValues
  <2> QED
    BY <1>3, <2>1 DEF OwnersStay
<1> QED
  BY <1>1, <1>2, <1>4, <1>5, QuietCall

LEMMA LockSteps ==
  ASSUME PlayIInv, SlotIInv, NEW c \in Callers, Advance(c) \/ CommitChoice(c)
  PROVE  PlayIInv'
<1>0. {"turned", "refused", "chosen"} \subseteq OwnerPCs
  BY DEF OwnerPCs
<1>1. /\ UNCHANGED <<progress, beats, crashes, outline, run, live, wake>>
      /\ Locks(call[c].h) /\ ~Is(c, "heads")
  BY DEF Advance, CommitChoice, files, Is
<1>2. Quiet /\ Heads(progress)
  BY <1>1, CardsStay DEF PlayIInv, PlayFiles
<1>3. CASE Goto(c, "refused")
  <2>1. PICK r : r = [call[c] EXCEPT !.pc = "refused"]
    OBVIOUS
  <2>2. r.pc = "refused" /\ r.h = call[c].h /\ call' = [call EXCEPT ![c] = r]
    BY <1>3, <2>1, CallAt DEF Goto
  <2>3. CallFits(r)
    BY <2>2 DEF CallFits
  <2> QED
    BY <1>0, <1>1, <1>2, <2>2, <2>3, Locked
<1>4. ASSUME progress.play < progress.write,
             call' = [call EXCEPT ![c].pc = "turned", ![c].seen = progress]
      PROVE  PlayIInv'
  <2> DEFINE r1 == [call[c] EXCEPT !.pc = "turned"]
  <2>1. PICK r : r = [r1 EXCEPT !.seen = progress]
    OBVIOUS
  <2>2. call' = [call EXCEPT ![c] = r]
    BY <1>4, <2>1 DEF SlotIInv, Shapes
  <2>3. CallRecord(r1) /\ r1.pc = "turned" /\ r1.h = call[c].h
    BY CallType, CallRecordField, CallField DEF CallFields
  <2> HIDE DEF r1
  <2>4. r.pc = "turned" /\ r.h = call[c].h /\ r.seen = progress
    BY <2>1, <2>3, CallField DEF CallFields
  <2>5. CallFits(r)
    BY <1>2, <1>4, <2>4 DEF CallFits, UpToPage
  <2> QED
    BY <1>0, <1>1, <1>2, <2>2, <2>4, <2>5, Locked
<1>5. ASSUME NEW x, progress.gate # 0,
             call' = [call EXCEPT ![c].pc = "chosen", ![c].seen = progress,
                                  ![c].station = x]
      PROVE  PlayIInv'
  <2> DEFINE r1 == [call[c] EXCEPT !.pc = "chosen"]
             r2 == [r1 EXCEPT !.seen = progress]
  <2>1. PICK r : r = [r2 EXCEPT !.station = x]
    OBVIOUS
  <2>2. call' = [call EXCEPT ![c] = r]
    BY <1>5, <2>1 DEF SlotIInv, Shapes
  <2>3. CallRecord(r1) /\ r1.pc = "chosen" /\ r1.h = call[c].h
    BY CallType, CallRecordField, CallField DEF CallFields
  <2> HIDE DEF r1
  <2>4. CallRecord(r2) /\ r2.pc = "chosen" /\ r2.h = call[c].h /\ r2.seen = progress
    BY <2>3, CallRecordField, CallField DEF CallFields
  <2> HIDE DEF r2
  <2>5. r.pc = "chosen" /\ r.h = call[c].h /\ r.seen = progress
    BY <2>1, <2>4, CallField DEF CallFields
  <2>6. CallFits(r)
    BY <1>5, <2>5 DEF CallFits
  <2> QED
    BY <1>0, <1>1, <1>2, <2>2, <2>5, <2>6, Locked
<1>6. CASE Advance(c)
  <2>1. \/ Goto(c, "refused")
        \/ /\ progress.play < progress.write
           /\ call' = [call EXCEPT ![c].pc = "turned", ![c].seen = progress]
    BY <1>6 DEF Advance, Goto
  <2> QED
    BY <1>3, <1>4, <2>1
<1>7. CASE CommitChoice(c)
  <2>1. \/ Goto(c, "refused")
        \/ /\ progress.gate # 0
           /\ call' = [call EXCEPT ![c].pc = "chosen", ![c].seen = progress,
                                   ![c].station = beats[progress.gate].station]
    BY <1>7 DEF CommitChoice, Goto
  <2> QED
    BY <1>3, <1>5, <2>1
<1> QED
  BY <1>6, <1>7

(* Requests that have waited for an engine, and requests that start one. *)

LEMMA Waited ==
  ASSUME PlayIInv, SlotIInv, NEW c \in Callers, Paused(c) \/ Stopped(c)
  PROVE  PlayIInv'
<1>1. /\ UNCHANGED <<progress, beats, crashes, outline, run, live, wake, mu>>
      /\ ~Is(c, "heads") /\ (Return(c) \/ Goto(c, "replan"))
  BY DEF Paused, Stopped, engines, Is
<1>2. Quiet /\ Frees(c) /\ "replan" \notin OwnerPCs
  BY <1>1, CardsStay DEF Frees, OwnerPCs
<1> QED
  BY <1>1, <1>2, GoesHome, GoesOn

LEMMA StartAlike ==
  ASSUME PlayIInv, SlotIInv, NEW st,
         Starting(st) \/ UNCHANGED <<run, live>>
  PROVE  /\ live' \in Gens \cup {0}
         /\ \A g \in Gens : \/ Alike(run[g], run'[g])
                            \/ run'[g].pc \notin PlanPCs \cup WritePCs \cup LockPCs
<1>1. CASE UNCHANGED <<run, live>>
  BY <1>1 DEF Alike, PlayIInv, PlayValues
<1>2. ASSUME NEW h \in Gens, run' = [run EXCEPT ![h] = [NoRun EXCEPT !.pc = "start"]],
             live' = h
      PROVE  /\ live' \in Gens \cup {0}
             /\ \A g \in Gens : \/ Alike(run[g], run'[g])
                                \/ run'[g].pc \notin PlanPCs \cup WritePCs \cup LockPCs
  <2>1. [NoRun EXCEPT !.pc = "start"].pc = "start"
    BY DEF NoRun
  <2>2. "start" \notin PlanPCs \cup WritePCs \cup LockPCs
    BY DEF PlanPCs, WritePCs, LockPCs
  <2>3. run'[h].pc = "start" /\ \A g \in Gens : g # h => run'[g] = run[g]
    BY <1>2, <2>1 DEF SlotIInv, Shapes
  <2> QED
    BY <1>2, <2>2, <2>3 DEF Alike
<1> QED
  BY <1>1, <1>2 DEF Starting, Fresh

LEMMA Restarts ==
  ASSUME PlayIInv, SlotIInv, NEW c \in Callers, ChooseReturns(c) \/ ReplanReturns(c)
  PROVE  PlayIInv'
<1>1. /\ UNCHANGED <<progress, beats, crashes, outline, mu>>
      /\ ~Is(c, "heads") /\ Return(c)
      /\ wake' = wake \/ Wakes(call[c].h)
      /\ Starting(status) \/ UNCHANGED <<run, live>>
  BY DEF ChooseReturns, ReplanReturns, Is
<1>2. PICK r : r = NoCall
  OBVIOUS
<1>3. r.pc = "idle" /\ r.h = 0 /\ CallFits(r) /\ call' = [call EXCEPT ![c] = r]
  BY <1>1, <1>2, Idle DEF Return
<1>4. /\ wake' = [h \in Gens |-> wake'[h]] /\ mu' = [h \in Gens |-> mu'[h]]
      /\ \A g \in Gens : mu'[g] = mu[g]
  BY <1>1 DEF PlayIInv, PlayValues, Wakes
<1>5. /\ live' \in Gens \cup {0}
      /\ \A g \in Gens : \/ Alike(run[g], run'[g])
                         \/ run'[g].pc \notin PlanPCs \cup WritePCs \cup LockPCs
  BY <1>1, StartAlike
<1>6. Quiet
  BY <1>1, CardsStay
<1>7. OwnersStay(c, r)
  <2>1. Frees(c) /\ \A g \in Gens : run'[g].pc \in LockPCs => run[g].pc \in LockPCs
    BY <1>1, <1>5 DEF Frees, Alike
  <2>2. r.pc \notin OwnerPCs
    BY <1>3 DEF OwnerPCs
  <2> QED
    BY <2>1, <2>2, OthersOwn DEF OwnersStay
<1> QED
  BY <1>1, <1>3, <1>4, <1>5, <1>6, <1>7, QuietCall

\* What the requests hold and know stays as it is.
LEMMA CallsStay ==
  ASSUME PlayIInv, Quiet, UNCHANGED <<call, mu>>,
         \A g \in Gens : run'[g].pc \in LockPCs => run[g].pc \in LockPCs
  PROVE  (\A c \in Callers : CallFits(call[c])') /\ Owners'
<1>1. \A c \in Callers : CallFits(call[c])'
  BY DEF PlayIInv, CallFits, UpToPage, Quiet
<1>2. Owners'
  <2>1. \A c \in Callers : call[c].h \in Gens \cup {0}
    BY DEF PlayIInv, PlayValues
  <2> QED
    BY <2>1 DEF PlayIInv, Owners
<1> QED
  BY <1>1, <1>2

LEMMA StartsKeeps ==
  ASSUME PlayIInv, SlotIInv, Starts
  PROVE  PlayIInv'
<1>1. /\ UNCHANGED <<progress, beats, crashes, outline, wake, mu, call>>
      /\ Starting(status)
  BY DEF Starts
<1>2. Quiet
  BY <1>1, CardsStay
<1>3. /\ live' \in Gens \cup {0}
      /\ \A g \in Gens : \/ Alike(run[g], run'[g])
                         \/ run'[g].pc \notin PlanPCs \cup WritePCs \cup LockPCs
  BY <1>1, StartAlike
<1>4. \A g \in Gens : EngineFits(run[g], mu[g])'
  BY <1>1, <1>2, <1>3, QuietRuns
<1>5. (\A c \in Callers : CallFits(call[c])') /\ Owners'
  BY <1>1, <1>2, <1>3, CallsStay DEF Alike
<1>6. PlayValues'
  BY <1>1, <1>3 DEF PlayIInv, PlayValues
<1> QED
  BY <1>1, <1>2, <1>4, <1>5, <1>6, QuietFiles DEF PlayIInv

\* Nothing the invariant is about changes.
LEMMA Untouched ==
  ASSUME PlayIInv, UNCHANGED <<progress, outline, beats, crashes, run, live, wake, mu, call>>
  PROVE  PlayIInv'
<1>1. Quiet
  BY CardsStay
<1>2. \A g \in Gens : Alike(run[g], run'[g]) /\ mu'[g] = mu[g]
  BY DEF Alike
<1>3. \A g \in Gens : EngineFits(run[g], mu[g])'
  BY <1>1, <1>2, QuietRuns
<1>4. (\A c \in Callers : CallFits(call[c])') /\ Owners'
  BY <1>1, CallsStay
<1>5. PlayValues'
  BY DEF PlayIInv, PlayValues
<1> QED
  BY <1>1, <1>3, <1>4, <1>5, QuietFiles DEF PlayIInv

LEMMA CrashKeeps ==
  ASSUME PlayIInv, SlotIInv, Crash
  PROVE  PlayIInv'
<1>1. /\ UNCHANGED <<progress, beats, outline>> /\ crashes' \in Nat /\ crashes' # 0
      /\ live' = 0
  BY DEF Crash, PlayIInv, PlayFiles
<1>2. \A c \in Callers : call'[c].pc = "idle" /\ call'[c].h = 0
  BY Idle DEF Crash
<1>3. \A g \in Gens : run'[g].pc \in {"unused", "gone"}
  <2>1. [NoRun EXCEPT !.pc = "gone"].pc = "gone"
    BY DEF NoRun
  <2> QED
    BY <2>1 DEF Crash, At
<1>4. PlayFiles'
  BY <1>1 DEF PlayIInv, PlayFiles, Heads, Cards
<1>5. PlayValues'
  <2>1. wake' = [g \in Gens |-> FALSE] /\ mu' = [g \in Gens |-> FALSE]
    BY DEF Crash
  <2> QED
    BY <1>1, <1>2, <2>1 DEF PlayValues
<1>6. \A g \in Gens : EngineFits(run[g], mu[g])'
  BY <1>3 DEF EngineFits, PlanPCs, WritePCs, LockPCs
<1>7. \A c \in Callers : CallFits(call[c])'
  BY <1>2 DEF CallFits
<1>8. Owners'
  BY <1>2 DEF Owners, OwnerPCs
<1>9. ChoicesAnswered'
  BY <1>1 DEF PlayIInv, ChoicesAnswered, Answered
<1>10. BeatsExist'
  BY <1>1 DEF BeatsExist
<1> QED
  BY <1>4, <1>5, <1>6, <1>7, <1>8, <1>9, <1>10 DEF PlayIInv

\* Who does not save knows nothing of the files.
LEMMA OthersFit ==
  ASSUME SlotIInv, NEW c \in Callers, NEW r, call' = [call EXCEPT ![c] = r],
         \A d \in Callers : d # c => ~RequestSaves(d)
  PROVE  \A d \in Callers : d # c => CallFits(call[d])'
<1> SUFFICES ASSUME NEW d \in Callers, d # c PROVE CallFits(call[d])'
  OBVIOUS
<1>1. call'[d] = call[d]
  BY DEF SlotIInv, Shapes
<1>2. call'[d].pc \notin {"turned", "chosen", "replanning", "heads"}
  BY <1>1 DEF RequestSaves
<1> QED
  BY <1>2 DEF CallFits

(* A page is turned: the engine has not raised the write head since. *)
LEMMA AdvanceSavedKeeps ==
  ASSUME PlayIInv, SlotIInv, ~Overlap, NEW c \in Callers, AdvanceSaved(c)
  PROVE  PlayIInv'
<1>1. /\ call[c].pc = "turned" /\ UNCHANGED <<beats, crashes, outline, run, live>>
      /\ progress' = [call[c].seen EXCEPT !.play = @ + 1]
      /\ Wakes(call[c].h) /\ Unlocks(call[c].h)
  BY DEF AdvanceSaved, Is
<1>2. PICK r : r = NoCall
  OBVIOUS
<1>3. r.pc = "idle" /\ r.h = 0 /\ call' = [call EXCEPT ![c] = r]
  BY <1>2, Idle DEF AdvanceSaved, Return
<1>4. CallFits(call[c]) /\ Heads(progress)
  BY DEF PlayIInv, PlayFiles
<1>5. UpToPage(call[c].seen) /\ call[c].seen.play < call[c].seen.write
  BY <1>1, <1>4 DEF CallFits
<1>6. /\ Heads(progress') /\ progress'.write = progress.write
      /\ progress'.gate = progress.gate /\ progress'.history = progress.history
  <2>1. PICK s : s = call[c].seen
    OBVIOUS
  <2>2. progress' = [play |-> s.play + 1, write |-> s.write, gate |-> s.gate,
                     history |-> s.history]
    BY <1>1, <1>5, <2>1 DEF UpToPage, Heads
  <2>3. s.play + 1 <= s.write /\ s.play + 1 \in Nat
    BY <1>5, <2>1 DEF UpToPage, Heads
  <2> QED
    BY <1>5, <2>1, <2>2, <2>3 DEF UpToPage, Heads
<1>7. PlayFiles'
  BY <1>1, <1>6 DEF PlayIInv, PlayFiles, Cards
<1>8. /\ \A d \in Callers : d # c => ~RequestSaves(d)
      /\ \A g \in Gens : ~EngineSaves(g)
      /\ \A d \in Callers : ~Is(d, "heads")
  <2>1. RequestSaves(c)
    BY <1>1 DEF RequestSaves
  <2> QED
    BY <1>1, <2>1, SavesAlone DEF RequestSaves, Is
<1>9. /\ wake' = [h \in Gens |-> wake'[h]] /\ mu' = [h \in Gens |-> mu'[h]]
      /\ live' \in Gens \cup {0} /\ \A g \in Gens : g # call[c].h => mu'[g] = mu[g]
  BY <1>1 DEF PlayIInv, PlayValues, Wakes, Unlocks
<1>10. ASSUME NEW g \in Gens PROVE EngineFits(run[g], mu[g])'
  <2>1. run[g].pc \notin {"card", "head"}
    BY <1>8 DEF EngineSaves
  <2>2. run[g].pc \in LockPCs => mu'[g] = mu[g]
    <3>1. g # 0
      BY EnginesAssumption
    <3>2. call[c].h = g => run[g].pc \notin LockPCs
      BY <1>1, <3>1 DEF PlayIInv, Owners, OwnerPCs
    <3> QED
      BY <1>9, <3>2
  <2>3. EngineFits(run[g], mu[g])
    BY DEF PlayIInv
  <2> QED
    BY <1>1, <1>6, <2>1, <2>2, <2>3 DEF EngineFits, UpToPage
<1>11. CallFits(r)'
  BY <1>3 DEF CallFits
<1>12. ChoicesAnswered'
  BY <1>1, <1>6 DEF PlayIInv, ChoicesAnswered, Answered
<1>13. BeatsExist'
  BY <1>1, <1>6, <1>8 DEF PlayIInv, BeatsExist
<1>14. OwnersStay(c, r)
  <2>1. Frees(c) /\ r.pc \notin OwnerPCs
    BY <1>1, <1>3 DEF Frees, OwnerPCs
  <2>2. \A g \in Gens : run'[g].pc \in LockPCs => run[g].pc \in LockPCs
    BY <1>1
  <2> QED
    BY <2>1, <2>2, OthersOwn DEF OwnersStay
<1>15. \A d \in Callers : d # c => CallFits(call[d])'
  BY <1>3, <1>8, OthersFit
<1> QED
  BY <1>3, <1>7, <1>9, <1>10, <1>11, <1>12, <1>13, <1>14, <1>15, CallKeeps

(* While a choice is open, the engine neither plans nor writes. *)
LEMMA ChoiceRecordedKeeps ==
  ASSUME PlayIInv, SlotIInv, ~Overlap, NEW c \in Callers, ChoiceRecorded(c)
  PROVE  PlayIInv'
<1>1. /\ call[c].pc = "chosen"
      /\ UNCHANGED <<beats, crashes, outline, run, live, wake, mu>>
  BY DEF ChoiceRecorded, engines, Is
<1>2. CallFits(call[c]) /\ Heads(progress)
  BY DEF PlayIInv, PlayFiles
<1>3. progress.gate # 0 /\ call[c].seen = progress
  BY <1>1, <1>2 DEF CallFits
<1>4. PICK r : r = [call[c] EXCEPT !.pc = "facts"]
  OBVIOUS
<1>5. r.pc = "facts" /\ r.h = call[c].h /\ call' = [call EXCEPT ![c] = r]
  BY <1>4, CallAt DEF ChoiceRecorded, Goto
<1>6. /\ Heads(progress') /\ progress'.write = progress.write
      /\ progress'.gate = 0 /\ progress'.history = progress.history \cup {AnswerOf(c)}
  <2> DEFINE play == IF progress.play < progress.gate THEN progress.gate ELSE progress.play
             history == progress.history \cup {AnswerOf(c)}
  <2>1. progress' = [play |-> play, write |-> progress.write, gate |-> 0,
                     history |-> history]
    BY <1>2, <1>3 DEF ChoiceRecorded, Heads
  <2>2. play \in Nat /\ play <= progress.write
    BY <1>2 DEF Heads
  <2> HIDE DEF play, history
  <2>3. /\ progress'.write = progress.write /\ progress'.gate = 0
        /\ progress'.history = history /\ Heads(progress')
    BY <1>2, <2>1, <2>2 DEF Heads
  <2> QED
    BY <2>3 DEF history
<1>7. PlayFiles'
  BY <1>1, <1>6 DEF PlayIInv, PlayFiles, Cards
<1>8. /\ \A d \in Callers : d # c => ~RequestSaves(d)
      /\ \A d \in Callers : ~Is(d, "heads")
  <2>1. RequestSaves(c)
    BY <1>1 DEF RequestSaves
  <2> QED
    BY <1>1, <2>1, SavesAlone DEF RequestSaves, Is
<1>9. /\ wake' = [h \in Gens |-> wake'[h]] /\ mu' = [h \in Gens |-> mu'[h]]
      /\ live' \in Gens \cup {0} /\ r.h \in Gens \cup {0}
  BY <1>1, <1>5 DEF PlayIInv, PlayValues
<1>10. ASSUME NEW g \in Gens PROVE EngineFits(run[g], mu[g])'
  <2>1. EngineFits(run[g], mu[g])
    BY DEF PlayIInv
  <2>2. run[g].pc \notin PlanPCs \cup WritePCs
    BY <1>3, <2>1 DEF EngineFits
  <2> QED
    BY <1>1, <2>1, <2>2 DEF EngineFits, WritePCs
<1>11. CallFits(r)'
  BY <1>5 DEF CallFits
<1>12. ChoicesAnswered'
  <2>1. AnswerOf(c).ord = progress.gate
    BY <1>3 DEF AnswerOf
  <2>2. \A o : o = progress.gate \/ Answered(progress, o) => Answered(progress', o)
    BY <1>6, <2>1 DEF Answered
  <2> QED
    BY <1>1, <1>6, <2>2 DEF PlayIInv, ChoicesAnswered
<1>13. BeatsExist'
  BY <1>1, <1>6, <1>8 DEF PlayIInv, BeatsExist
<1>14. OwnersStay(c, r)
  BY <1>1, <1>5 DEF PlayIInv, Owners, OwnerPCs, OwnersStay
<1>15. \A d \in Callers : d # c => CallFits(call[d])'
  BY <1>5, <1>8, OthersFit
<1> QED
  BY <1>5, <1>7, <1>9, <1>10, <1>11, <1>12, <1>13, <1>14, <1>15, CallKeeps

(* A replan keeps the page the player is at, and an open choice. *)

LEMMA KeepIs ==
  ASSUME NEW c \in Callers, Heads(call[c].seen)
  PROVE  Keep(c) = IF call[c].seen.gate = 0 THEN call[c].seen.play ELSE call[c].seen.write
<1> DEFINE p == call[c].seen
<1>1. /\ p.play \in Nat /\ p.write \in Nat /\ p.gate \in Nat
      /\ p.play <= p.write /\ p.gate <= p.write
  BY DEF Heads
<1> HIDE DEF p
<1>2. CASE p.gate = 0
  <2>1. \A x \in {p.play} : (\A y \in {p.play} : y <= x) <=> x = p.play
    BY <1>1
  <2>2. Keep(c) = CHOOSE x \in {p.play} : \A y \in {p.play} : y <= x
    BY <1>2 DEF Keep, LastKept, p
  <2> QED
    BY <1>2, <2>1, <2>2 DEF p
<1>3. CASE p.gate # 0
  <2>1. \A x \in {p.play, p.write, p.gate} :
          (\A y \in {p.play, p.write, p.gate} : y <= x) <=> x = p.write
    BY <1>1
  <2>2. Keep(c) = CHOOSE x \in {p.play, p.write, p.gate} :
                     \A y \in {p.play, p.write, p.gate} : y <= x
    BY <1>3 DEF Keep, LastKept, p
  <2> QED
    BY <1>3, <2>1, <2>2 DEF p
<1> QED
  BY <1>2, <1>3 DEF p

LEMMA NoEngine ==
  ASSUME SlotIInv, NEW c \in Callers, Holds(c), NEW g \in Gens
  PROVE  run[g].pc \notin PlanPCs \cup WritePCs \cup LockPCs
BY DEF SlotIInv, Works, PlanPCs, WritePCs, LockPCs

LEMMA ReplanTruncatesKeeps ==
  ASSUME PlayIInv, SlotIInv, ~Overlap, NEW c \in Callers, ReplanTruncates(c)
  PROVE  PlayIInv'
<1>1. /\ call[c].pc = "replanning" /\ ~Is(c, "heads")
      /\ UNCHANGED <<progress, crashes, outline, run, live, wake, mu>>
  BY DEF ReplanTruncates, Is
<1>2. ASSUME Goto(c, "failed") \/ Goto(c, "restart"), UNCHANGED beats
      PROVE  PlayIInv'
  <2>1. {"failed", "restart"} \cap OwnerPCs = {}
    BY DEF OwnerPCs
  <2> QED
    BY <1>1, <1>2, <2>1, CardsStay, GoesOn DEF Frees
<1>3. ASSUME NEW s, call' = [call EXCEPT ![c].pc = "heads", ![c].spine = s],
             beats' = [o \in Ordinals |-> IF o > Keep(c) THEN NoBeat ELSE beats[o]]
      PROVE  PlayIInv'
  <2> DEFINE r1 == [call[c] EXCEPT !.pc = "heads"]
  <2>1. PICK r : r = [r1 EXCEPT !.spine = s]
    OBVIOUS
  <2>2. call' = [call EXCEPT ![c] = r]
    BY <1>3, <2>1 DEF SlotIInv, Shapes
  <2>3. CallRecord(r1) /\ r1.pc = "heads" /\ r1.h = call[c].h /\ r1.seen = call[c].seen
    BY CallType, CallRecordField, CallField DEF CallFields
  <2> HIDE DEF r1
  <2>4. r.pc = "heads" /\ r.h = call[c].h /\ r.seen = call[c].seen
    BY <2>1, <2>3, CallField DEF CallFields
  <2>5. CallFits(call[c])
    BY DEF PlayIInv
  <2>6. r.seen = progress /\ Heads(progress)
    BY <1>1, <2>4, <2>5 DEF CallFits, PlayIInv, PlayFiles
  <2>7. \A d \in Callers : d # c => ~RequestSaves(d)
    <3>1. RequestSaves(c)
      BY <1>1 DEF RequestSaves
    <3> QED
      BY <3>1, SavesAlone
  <2>8. /\ wake' = [h \in Gens |-> wake'[h]] /\ mu' = [h \in Gens |-> mu'[h]]
        /\ live' \in Gens \cup {0} /\ r.h \in Gens \cup {0}
    BY <1>1, <2>4 DEF PlayIInv, PlayValues
  <2>9. \A g \in Gens : run'[g].pc \notin PlanPCs \cup WritePCs \cup LockPCs
    BY <1>1, NoEngine DEF Holds, HoldPCs
  <2>10. \A g \in Gens : EngineFits(run[g], mu[g])'
    BY <2>9 DEF EngineFits, WritePCs
  <2>11. CallFits(r)'
    BY <1>1, <2>4, <2>6 DEF CallFits
  <2>12. PlayFiles'
    BY <1>1, <1>3 DEF PlayIInv, PlayFiles, Cards, Heads
  <2>13. /\ beats' = [o \in Ordinals |-> beats'[o]]
         /\ \A o \in 1..progress.write :
              beats'[o] = IF o > Keep(c) THEN NoBeat ELSE beats[o]
    <3>1. progress.write <= MaxBeats /\ progress.write \in Nat /\ MaxBeats \in Nat
      BY BoundsAssumption DEF PlayIInv, PlayFiles, Heads
    <3>2. 1..progress.write \subseteq Ordinals
      BY <3>1 DEF Ordinals
    <3> QED
      BY <1>3, <3>2
  <2>14. ChoicesAnswered'
    <3>1. NoBeat.kind # "choice"
      BY DEF NoBeat
    <3>2. \A o \in 1..progress.write : beats'[o].kind = "choice" => beats[o].kind = "choice"
      BY <2>13, <3>1
    <3> QED
      BY <1>1, <3>2 DEF PlayIInv, ChoicesAnswered, Answered
  <2>15. BeatsExist'
    <3>1. Is(c, "heads")' /\ Keep(c)' = Keep(c)
      <4>1. call'[c] = r
        BY <2>2 DEF SlotIInv, Shapes
      <4> QED
        BY <2>4, <4>1 DEF Is, Keep
    <3>2. \A d \in Callers : ~Is(d, "heads")
      BY <1>1, <2>7 DEF Is, RequestSaves
    <3>3. crashes = 0 => \A o \in 1..progress.write : beats[o].kind # "none"
      BY <3>2 DEF PlayIInv, BeatsExist
    <3>4. crashes = 0 => \A o \in 1..progress.write : beats'[o].kind # "none" \/ o > Keep(c)
      BY <2>13, <3>3
    <3> QED
      BY <1>1, <3>1, <3>4 DEF BeatsExist
  <2>16. OwnersStay(c, r)
    BY <1>1, <2>4 DEF PlayIInv, Owners, OwnerPCs, OwnersStay
  <2>17. \A d \in Callers : d # c => CallFits(call[d])'
    BY <2>2, <2>7, OthersFit
  <2> QED
    BY <2>2, <2>8, <2>10, <2>11, <2>12, <2>14, <2>15, <2>16, <2>17, CallKeeps
<1> QED
  BY <1>2, <1>3 DEF ReplanTruncates

LEMMA ReplanHeadsKeeps ==
  ASSUME PlayIInv, SlotIInv, ~Overlap, NEW c \in Callers, ReplanHeads(c)
  PROVE  PlayIInv'
<1>1. /\ call[c].pc = "heads"
      /\ progress' = [call[c].seen EXCEPT !.write = Keep(c)]
      /\ UNCHANGED <<beats, crashes, outline, run, live, wake, mu>>
  BY DEF ReplanHeads, engines, Is
<1>2. PICK r : r = [call[c] EXCEPT !.pc = "outline"]
  OBVIOUS
<1>3. r.pc = "outline" /\ r.h = call[c].h /\ call' = [call EXCEPT ![c] = r]
  BY <1>2, CallAt DEF ReplanHeads, Goto
<1>4. CallFits(call[c]) /\ Heads(progress)
  BY DEF PlayIInv, PlayFiles
<1>5. call[c].seen = progress
  BY <1>1, <1>4 DEF CallFits
<1>6. /\ Keep(c) \in Nat /\ Keep(c) <= progress.write
      /\ progress.play <= Keep(c) /\ progress.gate <= Keep(c)
  BY <1>4, <1>5, KeepIs DEF Heads
<1>7. /\ Heads(progress') /\ progress'.write = Keep(c)
      /\ progress'.gate = progress.gate /\ progress'.history = progress.history
  <2>1. progress' = [play |-> progress.play, write |-> Keep(c), gate |-> progress.gate,
                     history |-> progress.history]
    BY <1>1, <1>4, <1>5 DEF Heads
  <2> QED
    BY <1>4, <1>6, <2>1 DEF Heads
<1>8. PlayFiles'
  <2>1. progress'.write <= MaxBeats
    BY <1>4, <1>6, <1>7, BoundsAssumption DEF PlayIInv, PlayFiles, Heads
  <2> QED
    BY <1>1, <1>7, <2>1 DEF PlayIInv, PlayFiles, Cards
<1>9. \A d \in Callers : d # c => ~RequestSaves(d)
  <2>1. RequestSaves(c)
    BY <1>1 DEF RequestSaves
  <2> QED
    BY <2>1, SavesAlone
<1>10. /\ wake' = [h \in Gens |-> wake'[h]] /\ mu' = [h \in Gens |-> mu'[h]]
       /\ live' \in Gens \cup {0} /\ r.h \in Gens \cup {0}
  BY <1>1, <1>3 DEF PlayIInv, PlayValues
<1>11. \A g \in Gens : run'[g].pc \notin PlanPCs \cup WritePCs \cup LockPCs
  BY <1>1, NoEngine DEF Holds, HoldPCs
<1>12. \A g \in Gens : EngineFits(run[g], mu[g])'
  BY <1>11 DEF EngineFits, WritePCs
<1>13. CallFits(r)'
  BY <1>3 DEF CallFits
<1>14. \A o \in 1..progress'.write : o \in 1..progress.write /\ ~(o > Keep(c))
  BY <1>4, <1>6, <1>7 DEF Heads
<1>15. ChoicesAnswered'
  BY <1>1, <1>7, <1>14 DEF PlayIInv, ChoicesAnswered, Answered
<1>16. BeatsExist'
  <2>1. \A d \in Callers : Is(d, "heads") => d = c
    BY <1>9 DEF Is, RequestSaves
  <2>2. crashes = 0 => \A o \in 1..progress'.write : beats[o].kind # "none"
    BY <1>14, <2>1 DEF PlayIInv, BeatsExist
  <2> QED
    BY <1>1, <2>2 DEF BeatsExist
<1>17. OwnersStay(c, r)
  BY <1>1, <1>3 DEF PlayIInv, Owners, OwnerPCs, OwnersStay
<1>18. \A d \in Callers : d # c => CallFits(call[d])'
  BY <1>3, <1>9, OthersFit
<1> QED
  BY <1>3, <1>8, <1>10, <1>12, <1>13, <1>15, <1>16, <1>17, <1>18, CallKeeps

(* Together *)

LEMMA PlayInitially == PlayInit => PlayIInv
<1> SUFFICES ASSUME PlayInit PROVE PlayIInv
  OBVIOUS
<1>1. /\ \A g \in Gens : run[g].pc = "unused"
      /\ \A c \in Callers : call[c].pc = "idle" /\ call[c].h = 0
  BY Idle, RunRecords DEF PlayInit
<1>2. /\ progress.play = 0 /\ progress.write = 0 /\ progress.gate = 0
      /\ progress = [play |-> 0, write |-> 0, gate |-> 0, history |-> {}]
  BY DEF PlayInit, NoProgress
<1>3. PlayFiles
  BY <1>2, NoCards, BoundsAssumption DEF PlayInit, PlayFiles, Heads
<1>4. PlayValues
  BY <1>1 DEF PlayInit, PlayValues
<1>5. \A g \in Gens : EngineFits(run[g], mu[g])
  BY <1>1 DEF EngineFits, PlanPCs, WritePCs, LockPCs
<1>6. \A c \in Callers : CallFits(call[c])
  BY <1>1 DEF CallFits
<1>7. Owners
  BY <1>1 DEF Owners, OwnerPCs
<1>8. ChoicesAnswered /\ BeatsExist
  BY <1>2 DEF ChoicesAnswered, BeatsExist
<1> QED
  BY <1>3, <1>4, <1>5, <1>6, <1>7, <1>8 DEF PlayIInv

LEMMA CallStepKeeps ==
  ASSUME PlayIInv, SlotIInv, ~Overlap, NEW c \in Callers, CallStep(c)
  PROVE  PlayIInv'
BY LockSteps, AdvanceSavedKeeps, ChoiceRecordedKeeps, ChoiceSteps, ReviseKeeps, Waited,
   Restarts, ReplanKeeps, ReplanTruncatesKeeps, ReplanHeadsKeeps, ReplanSteps
DEF CallStep

LEMMA PlaySteps == SlotIInv /\ PlayIInv /\ ~Overlap /\ [PlayNext]_vars => PlayIInv'
<1> SUFFICES ASSUME SlotIInv, PlayIInv, ~Overlap, [PlayNext]_vars PROVE PlayIInv'
  OBVIOUS
<1>1. CASE PlayerStep
  <2>1. CASE UserEdits
    BY <2>1, Untouched DEF UserEdits, engines
  <2> QED
    BY <1>1, <2>1, BeginSteps, StartsKeeps DEF PlayerStep
<1>2. CASE UNCHANGED vars
  BY <1>2, Untouched DEF vars, codeVars, files, engines
<1> QED
  BY <1>1, <1>2, EngineStepKeeps, CallStepKeeps, CrashKeeps DEF PlayNext, CodeStep

\* The invariant the three theorems below rest on.
UnracedIInv == SlotIInv /\ (~raced => PlayIInv /\ ~Overlap)

LEMMA Unraces == [PlayNext]_vars /\ ~raced' => ~raced
BY DEF PlayNext, vars

LEMMA PlayInvariance == PlaySpec => []UnracedIInv
<1>1. PlayInit => UnracedIInv
  <2> SUFFICES ASSUME PlayInit PROVE ~Overlap
    BY Initially, PlayInitially DEF UnracedIInv
  <2>1. \A c \in Callers : call[c].pc = "idle"
    BY Idle DEF PlayInit
  <2> QED
    BY <2>1 DEF Overlap, RequestSaves
<1>2. UnracedIInv /\ [PlayNext]_vars => UnracedIInv'
  <2> SUFFICES ASSUME UnracedIInv, [PlayNext]_vars, ~raced'
               PROVE  PlayIInv' /\ ~Overlap'
    BY Steps DEF UnracedIInv
  <2>1. SlotIInv /\ PlayIInv /\ ~Overlap
    BY Unraces DEF UnracedIInv
  <2>2. ~Overlap'
    <3>1. CASE PlayNext
      BY <3>1 DEF PlayNext
    <3>2. CASE UNCHANGED vars
      BY <2>1, <3>2 DEF vars, codeVars, engines, Overlap, RequestSaves, EngineSaves, MutexOf
    <3> QED
      BY <3>1, <3>2
  <2> QED
    BY <2>1, <2>2, PlaySteps
<1> QED
  BY <1>1, <1>2, PTL DEF PlaySpec

(* Which steps save the progress. *)

LEMMA SavesProgress ==
  ASSUME [PlayNext]_vars
  PROVE  \/ UNCHANGED progress
         \/ \E g \in Gens : PlanSaved(g) \/ SaveHead(g)
         \/ \E c \in Callers : AdvanceSaved(c) \/ ChoiceRecorded(c) \/ ReplanHeads(c)
<1>1. ASSUME NEW g \in Gens, EngineStep(g) PROVE UNCHANGED progress \/ PlanSaved(g) \/ SaveHead(g)
  BY <1>1 DEF EngineStep, Started, Top, Woken, SpineReturns, Plan, PlannerReturns,
     WriterReturns, SaveBeat, SaveCard, SaveGate, FinishStation, AwaitReplan,
     PersistPaused, Leave, files
<1>2. ASSUME NEW c \in Callers, CallStep(c)
      PROVE  UNCHANGED progress \/ AdvanceSaved(c) \/ ChoiceRecorded(c) \/ ReplanHeads(c)
  BY <1>2 DEF CallStep, Advance, Refused, CommitChoice, FactsSaved, StationClosed,
     OutlineCleared, ChoiceCommitted, Revise, Revised, ChooseReturns, Paused, Stopped,
     Replan, ReplanTruncates, ReplanOutline, ReplanSpine, ReplanStatus, ReplanReturns, files
<1>3. PlayerStep \/ Crash \/ UNCHANGED vars => UNCHANGED progress
  BY DEF PlayerStep, Turns, Chooses, Pauses, Replans, Starts, UserEdits, Crash, vars,
     codeVars, files
<1> QED
  BY <1>1, <1>2, <1>3 DEF PlayNext, CodeStep

LEMMA AnswersKept ==
  ASSUME SlotIInv, PlayIInv, [PlayNext]_vars
  PROVE  progress.history \subseteq progress'.history
<1>1. \A g \in Gens : EngineFits(run[g], mu[g])
  BY DEF PlayIInv
<1>2. (\A c \in Callers : CallFits(call[c])) /\ Heads(progress)
  BY DEF PlayIInv, PlayFiles
<1>3. ASSUME NEW g \in Gens, PlanSaved(g) PROVE progress'.history = progress.history
  BY <1>1, <1>3 DEF PlanSaved, At, EngineFits, PlanPCs, UpToPage
<1>4. ASSUME NEW g \in Gens, SaveHead(g) PROVE progress'.history = progress.history
  <2>1. run[g].seen = progress
    BY <1>1, <1>4 DEF SaveHead, At, EngineFits
  <2>2. \E x, y, z : progress' = [progress EXCEPT !.write = x, !.play = y, !.gate = z]
    BY <1>4, <2>1 DEF SaveHead
  <2> QED
    BY <1>2, <2>2 DEF Heads
<1>5. ASSUME NEW c \in Callers, AdvanceSaved(c) PROVE progress'.history = progress.history
  <2>1. UpToPage(call[c].seen)
    BY <1>2, <1>5 DEF AdvanceSaved, Is, CallFits
  <2>2. progress' = [call[c].seen EXCEPT !.play = @ + 1]
    BY <1>5 DEF AdvanceSaved
  <2> QED
    BY <2>1, <2>2 DEF UpToPage, Heads
<1>6. ASSUME NEW c \in Callers, ChoiceRecorded(c)
      PROVE  progress.history \subseteq progress'.history
  <2>1. call[c].seen = progress
    BY <1>2, <1>6 DEF ChoiceRecorded, Is, CallFits
  <2>2. \E x, y : progress' = [progress EXCEPT !.history = @ \cup {AnswerOf(c)},
                                               !.gate = x, !.play = y]
    BY <1>6, <2>1 DEF ChoiceRecorded
  <2> QED
    BY <1>2, <2>2 DEF Heads
<1>7. ASSUME NEW c \in Callers, ReplanHeads(c) PROVE progress'.history = progress.history
  <2>1. call[c].seen = progress
    BY <1>2, <1>7 DEF ReplanHeads, Is, CallFits
  <2>2. progress' = [progress EXCEPT !.write = Keep(c)]
    BY <1>7, <2>1 DEF ReplanHeads
  <2> QED
    BY <1>2, <2>2 DEF Heads
<1> QED
  BY <1>3, <1>4, <1>5, <1>6, <1>7, SavesProgress

(***************************************************************************)
(* Until two requests, or a request and the engine, hold copies of the     *)
(* progress without a mutex in common, a choice the player may reach is    *)
(* the open one or has its answer: nobody gets stuck (Engine.Advance       *)
(* engine.go:532-556, commitChoice :572-654, Replan :727-887).             *)
(***************************************************************************)
THEOREM NoOrphans == PlaySpec => []NoOrphanChoice
<1>1. UnracedIInv => NoOrphanChoice
  BY DEF UnracedIInv, PlayIInv, ChoicesAnswered, NoOrphanChoice
<1> QED
  BY <1>1, PlayInvariance, PTL

(***************************************************************************)
(* Until then and until the process dies, every page up to the write head  *)
(* can be turned to, but while a replan is between deleting beats and      *)
(* lowering the head (Engine.Replan, engine.go:842-863).                   *)
(***************************************************************************)
THEOREM PagesExist == PlaySpec => []HeadsHaveBeats
<1>1. UnracedIInv => HeadsHaveBeats
  BY DEF UnracedIInv, PlayIInv, BeatsExist, HeadsHaveBeats
<1> QED
  BY <1>1, PlayInvariance, PTL

(***************************************************************************)
(* Up to the same moment no step takes an answer back, though five of them *)
(* write a progress read earlier, the planning one without any mutex       *)
(* (SaveProgress in internal/galgame/play/engine.go).                      *)
(***************************************************************************)
THEOREM AnswersAreKept == PlaySpec => AnswersStay
<1>1. UnracedIInv /\ [PlayNext]_vars =>
        [raced' \/ progress.history \subseteq progress'.history]_vars
  BY Unraces, AnswersKept DEF UnracedIInv
<1> QED
  BY <1>1, PlayInvariance, PTL DEF PlaySpec, AnswersStay

================================================================================
