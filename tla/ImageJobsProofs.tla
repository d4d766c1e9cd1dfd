---------------------------- MODULE ImageJobsProofs ----------------------------
(***************************************************************************)
(* Proofs about ImageJobs for every number of units, users and moves: the  *)
(* inductive invariant ImgIInv, by which no job in flight is forgotten,    *)
(* and what holds of a merged chapter.                                     *)
(*                                                                         *)
(* The lemmas named ...Effect say, once per kind of write, what the        *)
(* sequences of jobs and goroutines are afterwards; the invariants are     *)
(* proved from them.                                                       *)
(***************************************************************************)
EXTENDS ImageJobs, SequenceTheorems, TLAPS

USE UnitsAssumption, CallersAssumption, SizeAssumption DEF Callers

(* Sequences: an element added, an element replaced. *)
LEMMA Appended ==
  ASSUME NEW S, NEW s \in Seq(S), NEW e \in S, NEW t, t = Append(s, e)
  PROVE  /\ t \in Seq(S)
         /\ Len(s) \in Nat /\ Len(t) = Len(s) + 1
         /\ DOMAIN s = 1 .. Len(s) /\ DOMAIN t = 1 .. Len(s) + 1
         /\ \A i \in DOMAIN s : i \in DOMAIN t /\ t[i] = s[i]
         /\ t[Len(s) + 1] = e
BY AppendProperties, LenProperties

LEMMA Replaced ==
  ASSUME NEW S, NEW s \in Seq(S), NEW k \in DOMAIN s, NEW e \in S,
         NEW t, t = [s EXCEPT ![k] = e]
  PROVE  /\ t \in Seq(S)
         /\ Len(t) = Len(s) /\ DOMAIN t = DOMAIN s
         /\ \A i \in DOMAIN s : t[i] = IF i = k THEN e ELSE s[i]
BY ExceptSeq, LenProperties

(* A job file that is written again. *)
LEMMA SavedEffect ==
  ASSUME TypeOK, NEW j \in DOMAIN jobs, NEW status \in Statuses,
         NEW stamp \in Nat, jobs' = Saved(j, status, stamp)
  PROVE  /\ jobs' \in Seq(Job)
         /\ Len(jobs') = Len(jobs) /\ DOMAIN jobs' = DOMAIN jobs
         /\ \A k \in DOMAIN jobs :
              /\ jobs'[k].unit = jobs[k].unit /\ jobs'[k].key = jobs[k].key
              /\ jobs'[k].status = IF k = j THEN status ELSE jobs[k].status
<1>1. jobs \in Seq(Job) /\ jobs[j] \in Job
  BY ElementOfSeq, LenProperties DEF TypeOK
<1> DEFINE job == [jobs[j] EXCEPT !.status = status, !.started = stamp]
<1>2. /\ job \in Job /\ job.unit = jobs[j].unit /\ job.key = jobs[j].key
      /\ job.status = status
  BY <1>1 DEF Job
<1>3. jobs' = [jobs EXCEPT ![j] = job]
  BY DEF Saved
<1> HIDE DEF job
<1> QED
  BY <1>1, <1>2, <1>3, Replaced

(* A goroutine that is about to be launched. *)
LEMMA BegunEffect ==
  ASSUME TypeOK, NEW j \in Nat, runs' = Begun(j)
  PROVE  /\ runs' \in Seq(Run)
         /\ DOMAIN runs = 1 .. Len(runs) /\ Now \in Nat
         /\ Now \notin DOMAIN runs /\ Now \in DOMAIN runs'
         /\ DOMAIN runs' = DOMAIN runs \cup {Now}
         /\ runs'[Now].pc = "saved" /\ runs'[Now].job = j
         /\ \A g \in DOMAIN runs : runs'[g] = runs[g]
<1> DEFINE r == [NoRun EXCEPT !.pc = "saved", !.job = j]
<1>1. r \in Run /\ r.pc = "saved" /\ r.job = j
  BY DEF NoRun, Run, Statuses
<1>2. runs \in Seq(Run) /\ runs' = Append(runs, r)
  BY DEF TypeOK, Begun
<1> HIDE DEF r
<1>3. /\ runs' \in Seq(Run) /\ Len(runs) \in Nat
      /\ DOMAIN runs = 1 .. Len(runs) /\ DOMAIN runs' = 1 .. Len(runs) + 1
      /\ \A i \in DOMAIN runs : runs'[i] = runs[i]
      /\ runs'[Len(runs) + 1] = r
  BY <1>1, <1>2, Appended
<1> QED
  BY <1>1, <1>3 DEF Now

(* A goroutine that goes on. *)
LEMMA RunEffect ==
  ASSUME TypeOK, NEW g \in DOMAIN runs, NEW r \in Run,
         runs' = [runs EXCEPT ![g] = r]
  PROVE  /\ runs' \in Seq(Run) /\ DOMAIN runs' = DOMAIN runs
         /\ \A h \in DOMAIN runs : runs'[h] = IF h = g THEN r ELSE runs[h]
BY Replaced DEF TypeOK

(* The types of elements, used everywhere. *)
LEMMA Elements ==
  ASSUME TypeOK
  PROVE  /\ DOMAIN jobs = 1 .. Len(jobs) /\ Len(jobs) \in Nat
         /\ DOMAIN running = DOMAIN jobs
         /\ DOMAIN runs = 1 .. Len(runs) /\ Len(runs) \in Nat
         /\ \A j \in DOMAIN jobs : jobs[j] \in Job
         /\ \A g \in DOMAIN runs : runs[g] \in Run
         /\ \A c \in Callers : call[c] \in Call
         /\ NoRun \in Run /\ NoRun.pc = "gone"
         /\ IdleCall \in Call /\ IdleCall.pc = "idle"
<1>1. jobs \in Seq(Job) /\ runs \in Seq(Run) /\ running \in Seq(Nat)
  BY DEF TypeOK
<1>2. /\ DOMAIN jobs = 1 .. Len(jobs) /\ Len(jobs) \in Nat
      /\ DOMAIN runs = 1 .. Len(runs) /\ Len(runs) \in Nat
      /\ DOMAIN running = 1 .. Len(running)
      /\ Len(running) = Len(jobs)
  BY <1>1, LenProperties DEF TypeOK
<1>3. \A j \in DOMAIN jobs : jobs[j] \in Job
  BY <1>1, <1>2, ElementOfSeq
<1>4. \A g \in DOMAIN runs : runs[g] \in Run
  BY <1>1, <1>2, ElementOfSeq
<1>5. NoRun \in Run /\ NoRun.pc = "gone"
  BY DEF NoRun, Run, Statuses
<1>6. IdleCall \in Call /\ IdleCall.pc = "idle"
  BY DEF IdleCall, Call, Keys
<1>7. \A c \in Callers : call[c] \in Call
  BY DEF TypeOK
<1> QED
  BY <1>2, <1>3, <1>4, <1>5, <1>6, <1>7

(* The call of one caller changes; a goroutine waiting to be launched stays so,
   unless this call launches it. *)
LEMMA OneCall ==
  ASSUME ImgIInv, NEW c \in Callers, NEW r \in Call,
         call' = [call EXCEPT ![c] = r],
         DOMAIN jobs \subseteq DOMAIN jobs', DOMAIN runs \subseteq DOMAIN runs',
         \A g \in DOMAIN runs :
           runs[g].pc = "saved" /\ (call[c].pc = "launch" => g # call[c].stamp)
             => runs'[g].pc = "saved" /\ runs'[g].job = runs[g].job,
         r.pc \in {"check", "save"} \/ (c = Watcher /\ r.pc # "idle")
           => r.unit \in Units,
         r.pc \in {"launch", "cancel"} => r.job \in DOMAIN jobs',
         r.pc = "launch" => /\ r.stamp \in DOMAIN runs' \ DOMAIN runs
                            /\ runs'[r.stamp].pc = "saved"
                            /\ runs'[r.stamp].job = r.job
  PROVE  /\ call' \in [Callers -> Call]
         /\ \A d \in Callers : call'[d] = IF d = c THEN r ELSE call[d]
         /\ CallsMatch'
<1>1. /\ call' \in [Callers -> Call]
      /\ \A d \in Callers : call'[d] = IF d = c THEN r ELSE call[d]
  BY DEF ImgIInv, TypeOK
<1>2. CallsMatch
  BY DEF ImgIInv
<1>3. (call[Watcher].pc # "idle" => call[Watcher].unit \in Units)'
  BY <1>1, <1>2 DEF CallsMatch
<1>4. ASSUME NEW d \in Callers
      PROVE  /\ call'[d].pc \in {"check", "save"} => call'[d].unit \in Units
             /\ call'[d].pc \in {"launch", "cancel"} =>
                  call'[d].job \in DOMAIN jobs'
             /\ call'[d].pc = "launch" =>
                  /\ call'[d].stamp \in DOMAIN runs'
                  /\ runs'[call'[d].stamp].pc = "saved"
                  /\ runs'[call'[d].stamp].job = call'[d].job
  <2>1. CASE d = c
    BY <1>1, <2>1
  <2>2. CASE d # c
    <3>1. call'[d] = call[d]
      BY <1>1, <2>2
    <3>2. call[d].pc = "launch" /\ call[c].pc = "launch"
            => call[c].stamp # call[d].stamp
      BY <1>2, <2>2 DEF CallsMatch
    <3> QED
      BY <1>2, <3>1, <3>2 DEF CallsMatch
  <2> QED
    BY <2>1, <2>2
<1>5. ASSUME NEW d \in Callers, NEW e \in Callers, d # e,
             call'[d].pc = "launch", call'[e].pc = "launch"
      PROVE  call'[d].stamp # call'[e].stamp
  <2>1. ASSUME NEW f \in Callers, f # c, call'[f].pc = "launch"
        PROVE  call'[f] = call[f] /\ call[f].stamp \in DOMAIN runs
    BY <1>1, <1>2, <2>1 DEF CallsMatch
  <2>2. CASE d = c \/ e = c
    BY <1>1, <1>5, <2>1, <2>2
  <2>3. CASE d # c /\ e # c
    BY <1>2, <1>5, <2>1, <2>3 DEF CallsMatch
  <2> QED
    BY <2>2, <2>3
<1> QED
  BY <1>1, <1>3, <1>4, <1>5 DEF CallsMatch

(* An action that touches neither jobs nor goroutines but a call that launches
   nothing. *)
LEMMA QuietCall ==
  ASSUME ImgIInv, NEW c \in Callers, NEW r \in Call,
         call' = [call EXCEPT ![c] = r], UNCHANGED <<jobs, runs, lost>>,
         call[c].pc # "launch", r.pc # "launch",
         r.pc \in {"check", "save"} \/ (c = Watcher /\ r.pc # "idle")
           => r.unit \in Units,
         r.pc = "cancel" => r.job \in DOMAIN jobs
  PROVE  /\ call' \in [Callers -> Call]
         /\ CallsMatch' /\ RunsMatch' /\ InFlightIsWorkedOn'
<1>1. /\ call' \in [Callers -> Call]
      /\ \A d \in Callers : call'[d] = IF d = c THEN r ELSE call[d]
      /\ CallsMatch'
  BY OneCall
<1>2. RunsMatch'
  BY <1>1 DEF ImgIInv, RunsMatch
<1>3. InFlightIsWorkedOn'
  BY DEF ImgIInv, InFlightIsWorkedOn, WorkedOn
<1> QED
  BY <1>1, <1>2, <1>3

LEMMA TickInv ==
  ASSUME ImgIInv, NEW u \in Units, Tick(u)
  PROVE  ImgIInv'
<1> USE DEF Tick, chapter, files, bounds
<1> DEFINE r == [IdleCall EXCEPT !.pc = "check", !.unit = u]
<1>1. r \in Call /\ r.pc = "check" /\ r.unit = u
  BY DEF IdleCall, Call, Keys
<1>2. call' = [call EXCEPT ![Watcher] = r]
  OBVIOUS
<1> HIDE DEF r
<1>3. /\ call' \in [Callers -> Call]
      /\ CallsMatch' /\ RunsMatch' /\ InFlightIsWorkedOn'
  BY <1>1, <1>2, QuietCall
<1>4. TypeOK'
  BY <1>3 DEF ImgIInv, TypeOK
<1> QED
  BY <1>3, <1>4 DEF ImgIInv

LEMMA UserStartInv ==
  ASSUME ImgIInv, NEW c \in Users, NEW u \in Units,
         NEW key \in {"manual", "forced"}, UserStart(c, u, key)
  PROVE  ImgIInv'
<1> USE DEF UserStart, chapter, files
<1> DEFINE r == [IdleCall EXCEPT !.pc = "check", !.unit = u, !.key = key]
<1>1. r \in Call /\ r.pc = "check" /\ r.unit = u
  BY DEF IdleCall, Call, Keys
<1>2. call' = [call EXCEPT ![c] = r]
  OBVIOUS
<1> HIDE DEF r
<1>3. /\ call' \in [Callers -> Call]
      /\ CallsMatch' /\ RunsMatch' /\ InFlightIsWorkedOn'
  BY <1>1, <1>2, QuietCall
<1>4. TypeOK'
  BY <1>3 DEF ImgIInv, TypeOK
<1> QED
  BY <1>3, <1>4 DEF ImgIInv

(* The watcher is done with units only. *)
LEMMA DoneType ==
  ASSUME ImgIInv, NEW c \in Callers, call[c].pc # "idle"
  PROVE  Done(c) \subseteq Units
BY DEF ImgIInv, TypeOK, CallsMatch, Done

LEMMA StartReturnsInv ==
  ASSUME ImgIInv, NEW c \in Callers, StartReturns(c)
  PROVE  ImgIInv'
<1> USE DEF StartReturns, chapter, files, bounds
<1>1. IdleCall \in Call /\ IdleCall.pc = "idle"
  BY Elements DEF ImgIInv
<1>2. /\ call' \in [Callers -> Call]
      /\ CallsMatch' /\ RunsMatch' /\ InFlightIsWorkedOn'
  BY <1>1, QuietCall
<1>3. attempted' \subseteq Units
  BY DoneType DEF ImgIInv, TypeOK
<1>4. TypeOK'
  BY <1>2, <1>3 DEF ImgIInv, TypeOK
<1> QED
  BY <1>2, <1>4 DEF ImgIInv

LEMMA StartFailsInv ==
  ASSUME ImgIInv, NEW c \in Callers, StartFails(c)
  PROVE  ImgIInv'
<1> USE DEF StartFails, chapter, files
<1>1. IdleCall \in Call /\ IdleCall.pc = "idle"
  BY Elements DEF ImgIInv
<1>2. /\ call' \in [Callers -> Call]
      /\ CallsMatch' /\ RunsMatch' /\ InFlightIsWorkedOn'
  BY <1>1, QuietCall
<1>3. TypeOK'
  BY <1>2 DEF ImgIInv, TypeOK
<1> QED
  BY <1>2, <1>3 DEF ImgIInv

LEMMA StartProceedsInv ==
  ASSUME ImgIInv, NEW c \in Callers, StartProceeds(c)
  PROVE  ImgIInv'
<1> USE DEF StartProceeds, chapter, files, bounds
<1> DEFINE r == [call[c] EXCEPT !.pc = "save"]
<1>1. r \in Call /\ r.pc = "save" /\ r.unit = call[c].unit
  BY DEF ImgIInv, TypeOK, Call
<1>2. r.unit \in Units
  BY <1>1 DEF ImgIInv, CallsMatch
<1>3. call' = [call EXCEPT ![c] = r]
  OBVIOUS
<1> HIDE DEF r
<1>4. /\ call' \in [Callers -> Call]
      /\ CallsMatch' /\ RunsMatch' /\ InFlightIsWorkedOn'
  BY <1>1, <1>2, <1>3, QuietCall
<1>5. TypeOK'
  BY <1>4 DEF ImgIInv, TypeOK
<1> QED
  BY <1>4, <1>5 DEF ImgIInv

(* The record of a caller that has saved and will launch. *)
LEMMA LaunchingType ==
  ASSUME TypeOK, NEW c \in Callers, NEW j \in Nat, call' = Launching(c, j)
  PROVE  \E r \in Call : /\ call' = [call EXCEPT ![c] = r]
                         /\ r.pc = "launch" /\ r.unit = call[c].unit
                         /\ r.job = j /\ r.stamp = Now
<1> DEFINE r == [IdleCall EXCEPT !.pc = "launch", !.unit = call[c].unit,
                                 !.job = j, !.stamp = Now]
<1>1. Now \in Nat /\ call[c] \in Call
  BY Elements DEF Now
<1>2. /\ r \in Call /\ r.pc = "launch" /\ r.unit = call[c].unit
      /\ r.job = j /\ r.stamp = Now
  BY <1>1 DEF IdleCall, Call, Keys
<1>3. call' = [call EXCEPT ![c] = r]
  BY DEF Launching
<1> HIDE DEF r
<1> QED
  BY <1>2, <1>3

(* A new job file. *)
LEMMA NewJobEffect ==
  ASSUME TypeOK, NEW job \in Job, jobs' = Append(jobs, job),
         running' = Append(running, 0)
  PROVE  /\ jobs' \in Seq(Job) /\ running' \in Seq(Nat)
         /\ Len(jobs') = Len(running')
         /\ DOMAIN jobs = 1 .. Len(jobs) /\ Len(jobs) \in Nat
         /\ Len(jobs) + 1 \in DOMAIN jobs' /\ Len(jobs) + 1 \notin DOMAIN jobs
         /\ DOMAIN jobs' = DOMAIN jobs \cup {Len(jobs) + 1}
         /\ \A j \in DOMAIN jobs : jobs'[j] = jobs[j]
         /\ jobs'[Len(jobs) + 1] = job
<1>1. jobs \in Seq(Job) /\ running \in Seq(Nat) /\ Len(running) = Len(jobs)
  BY DEF TypeOK
<1>2. /\ jobs' \in Seq(Job) /\ Len(jobs) \in Nat
      /\ Len(jobs') = Len(jobs) + 1
      /\ DOMAIN jobs = 1 .. Len(jobs) /\ DOMAIN jobs' = 1 .. Len(jobs) + 1
      /\ \A j \in DOMAIN jobs : jobs'[j] = jobs[j]
      /\ jobs'[Len(jobs) + 1] = job
  BY <1>1, Appended
<1>3. running' \in Seq(Nat) /\ Len(running') = Len(running) + 1
  BY <1>1, Appended
<1> QED
  BY <1>1, <1>2, <1>3

LEMMA StartSavesInv ==
  ASSUME ImgIInv, NEW c \in Callers, StartSaves(c)
  PROVE  ImgIInv'
<1> DEFINE new == Len(jobs) + 1
           job == [unit |-> call[c].unit, key |-> call[c].key,
                   status |-> "active", started |-> Now]
<1>1. TypeOK /\ call[c].unit \in Units /\ call[c] \in Call
  BY DEF ImgIInv, CallsMatch, TypeOK, StartSaves
<1>2. job \in Job /\ job.status = "active"
  BY <1>1, Elements DEF Job, Call, Now, Statuses
<1>3. /\ jobs' = Append(jobs, job) /\ running' = Append(running, 0)
      /\ runs' = Begun(new) /\ call' = Launching(c, new)
      /\ UNCHANGED <<settings, chapter, pictures, attempted, lost, bounds>>
      /\ call[c].pc = "save"
  BY DEF StartSaves
<1> HIDE DEF job
<1>4. /\ jobs' \in Seq(Job) /\ running' \in Seq(Nat)
      /\ Len(jobs') = Len(running')
      /\ new \in DOMAIN jobs' /\ new \notin DOMAIN jobs /\ new \in Nat
      /\ DOMAIN jobs' = DOMAIN jobs \cup {new}
      /\ \A j \in DOMAIN jobs : jobs'[j] = jobs[j]
      /\ jobs'[new] = job
  BY <1>1, <1>2, <1>3, NewJobEffect
<1> HIDE DEF new
<1>5. /\ runs' \in Seq(Run) /\ Now \notin DOMAIN runs /\ Now \in DOMAIN runs'
      /\ DOMAIN runs' = DOMAIN runs \cup {Now}
      /\ runs'[Now].pc = "saved" /\ runs'[Now].job = new
      /\ \A g \in DOMAIN runs : runs'[g] = runs[g]
  BY <1>1, <1>3, <1>4, BegunEffect
<1>6. PICK r \in Call : /\ call' = [call EXCEPT ![c] = r]
                        /\ r.pc = "launch" /\ r.unit = call[c].unit
                        /\ r.job = new /\ r.stamp = Now
  BY <1>1, <1>3, <1>4, LaunchingType
<1>7. /\ call' \in [Callers -> Call]
      /\ \A d \in Callers : call'[d] = IF d = c THEN r ELSE call[d]
      /\ CallsMatch'
  <2>1. \A g \in DOMAIN runs :
          runs[g].pc = "saved" /\ (call[c].pc = "launch" => g # call[c].stamp)
            => runs'[g].pc = "saved" /\ runs'[g].job = runs[g].job
    BY <1>5
  <2>2. /\ DOMAIN jobs \subseteq DOMAIN jobs'
        /\ DOMAIN runs \subseteq DOMAIN runs'
        /\ r.stamp \in DOMAIN runs' \ DOMAIN runs
    BY <1>4, <1>5, <1>6
  <2> QED
    BY <1>1, <1>4, <1>5, <1>6, <2>1, <2>2, OneCall
<1>8. TypeOK'
  <2>1. lost' \subseteq DOMAIN jobs'
    BY <1>1, <1>3, <1>4 DEF TypeOK
  <2> QED
    BY <1>1, <1>3, <1>4, <1>5, <1>7, <2>1 DEF TypeOK, chapter, bounds
<1>9. RunsMatch'
  <2>1. \A g \in DOMAIN runs : runs[g].pc = "saved" =>
          \E d \in Callers : d # c /\ call[d].pc = "launch" /\ call[d].stamp = g
    BY <1>3 DEF ImgIInv, RunsMatch
  <2>2. ASSUME NEW g \in DOMAIN runs, runs[g].pc = "saved"
        PROVE  \E d \in Callers : call'[d].pc = "launch" /\ call'[d].stamp = g
    BY <1>7, <2>1, <2>2
  <2> QED
    BY <1>4, <1>5, <1>6, <1>7, <2>2 DEF ImgIInv, RunsMatch
<1>10. InFlightIsWorkedOn'
  BY <1>3, <1>4, <1>5 DEF ImgIInv, InFlightIsWorkedOn, WorkedOn
<1> QED
  BY <1>7, <1>8, <1>9, <1>10 DEF ImgIInv

LEMMA LaunchInv ==
  ASSUME ImgIInv, NEW c \in Callers, Launch(c)
  PROVE  ImgIInv'
<1> DEFINE g == call[c].stamp
           r == [runs[g] EXCEPT !.pc = "execute"]
<1>1. /\ TypeOK /\ call[c].pc = "launch"
      /\ g \in DOMAIN runs /\ runs[g].pc = "saved" /\ runs[g] \in Run
      /\ runs[g].job = call[c].job /\ call[c].job \in DOMAIN jobs
      /\ g \in Nat /\ IdleCall \in Call /\ IdleCall.pc = "idle"
  BY Elements DEF Launch, ImgIInv, CallsMatch
<1>2. /\ runs' = [runs EXCEPT ![g] = r]
      /\ running' = [running EXCEPT ![call[c].job] = g]
      /\ call' = [call EXCEPT ![c] = IdleCall] /\ attempted' = Done(c)
      /\ UNCHANGED <<settings, chapter, files, lost, bounds>>
  BY DEF Launch
<1>3. r \in Run /\ r.pc = "execute" /\ r.job = runs[g].job
  BY <1>1 DEF Run
<1> HIDE DEF g, r
<1>4. /\ runs' \in Seq(Run) /\ DOMAIN runs' = DOMAIN runs
      /\ \A h \in DOMAIN runs : runs'[h] = IF h = g THEN r ELSE runs[h]
  BY <1>1, <1>2, <1>3, RunEffect
<1>5. running' \in Seq(Nat) /\ Len(running') = Len(running)
  BY <1>1, <1>2, Elements, Replaced DEF TypeOK
<1>6. /\ call' \in [Callers -> Call]
      /\ \A d \in Callers : call'[d] = IF d = c THEN IdleCall ELSE call[d]
      /\ CallsMatch'
  <2>1. \A h \in DOMAIN runs :
          runs[h].pc = "saved" /\ (call[c].pc = "launch" => h # call[c].stamp)
            => runs'[h].pc = "saved" /\ runs'[h].job = runs[h].job
    BY <1>1, <1>4 DEF g
  <2>2. DOMAIN jobs \subseteq DOMAIN jobs' /\ DOMAIN runs \subseteq DOMAIN runs'
    BY <1>2, <1>4 DEF files
  <2> QED
    BY <1>1, <1>2, <2>1, <2>2, OneCall
<1>7. attempted' \subseteq Units
  BY <1>1, <1>2, DoneType
<1>8. TypeOK'
  BY <1>1, <1>2, <1>4, <1>5, <1>6, <1>7 DEF TypeOK, chapter, files, bounds
<1>9. RunsMatch'
  <2>1. \A h \in DOMAIN runs : runs[h].pc = "saved" /\ h # g =>
          \E d \in Callers : d # c /\ call[d].pc = "launch" /\ call[d].stamp = h
    BY DEF ImgIInv, RunsMatch, g
  <2> QED
    BY <1>1, <1>2, <1>3, <1>4, <1>6, <2>1 DEF ImgIInv, RunsMatch, files
<1>10. InFlightIsWorkedOn'
  BY <1>1, <1>2, <1>3, <1>4 DEF ImgIInv, InFlightIsWorkedOn, WorkedOn, files
<1> QED
  BY <1>6, <1>8, <1>9, <1>10 DEF ImgIInv

(* The goroutine that is told of its cancellation, if there is one. *)
LEMMA CancelledEffect ==
  ASSUME TypeOK, NEW j,
         runs' = [g \in DOMAIN runs |-> IF g = running[j]
                    THEN [runs[g] EXCEPT !.cancelled = TRUE] ELSE runs[g]]
  PROVE  /\ runs' \in Seq(Run) /\ DOMAIN runs' = DOMAIN runs
         /\ \A g \in DOMAIN runs : /\ runs'[g].pc = runs[g].pc
                                   /\ runs'[g].job = runs[g].job
                                   /\ runs'[g].result = runs[g].result
<1>1. \A g \in DOMAIN runs :
        /\ runs[g] \in Run
        /\ [runs[g] EXCEPT !.cancelled = TRUE] \in Run
        /\ [runs[g] EXCEPT !.cancelled = TRUE].pc = runs[g].pc
        /\ [runs[g] EXCEPT !.cancelled = TRUE].job = runs[g].job
        /\ [runs[g] EXCEPT !.cancelled = TRUE].result = runs[g].result
  BY Elements DEF Run
<1>2. DOMAIN runs = 1 .. Len(runs) /\ Len(runs) \in Nat
  BY Elements
<1>3. runs' \in [1 .. Len(runs) -> Run]
  BY <1>1, <1>2
<1>4. runs' \in Seq(Run)
  BY <1>2, <1>3, IsASeq
<1> QED
  BY <1>1, <1>4

LEMMA CancelInv ==
  ASSUME ImgIInv, NEW c \in Users, NEW j \in DOMAIN jobs, Cancel(c, j)
  PROVE  ImgIInv'
<1> DEFINE r == [IdleCall EXCEPT !.pc = "cancel", !.job = j,
                                 !.stamp = jobs[j].started]
<1>1. TypeOK /\ j \in Nat /\ jobs[j] \in Job
  BY Elements DEF ImgIInv
<1>2. r \in Call /\ r.pc = "cancel" /\ r.job = j
  BY <1>1 DEF IdleCall, Call, Keys, Job
<1>3. /\ call' = [call EXCEPT ![c] = r] /\ requests' = requests + 1
      /\ runs' = [g \in DOMAIN runs |-> IF g = running[j]
                    THEN [runs[g] EXCEPT !.cancelled = TRUE] ELSE runs[g]]
      /\ UNCHANGED <<settings, chapter, files, attempted, running, lost,
                     failures, toggles, crashes>>
      /\ call[c].pc = "idle"
  BY DEF Cancel
<1> HIDE DEF r
<1>4. /\ runs' \in Seq(Run) /\ DOMAIN runs' = DOMAIN runs
      /\ \A g \in DOMAIN runs : /\ runs'[g].pc = runs[g].pc
                                /\ runs'[g].job = runs[g].job
                                /\ runs'[g].result = runs[g].result
  BY <1>1, <1>3, CancelledEffect
<1>5. /\ call' \in [Callers -> Call]
      /\ \A d \in Callers : call'[d] = IF d = c THEN r ELSE call[d]
      /\ CallsMatch'
  <2>1. c # Watcher /\ UNCHANGED jobs
    BY <1>3 DEF files
  <2> QED
    BY ZenonT(30), <1>2, <1>3, <1>4, <2>1, OneCall
<1>6. TypeOK'
  BY SMTT(30), <1>1, <1>3, <1>4, <1>5 DEF TypeOK, chapter, files
<1>7. RunsMatch'
  BY <1>3, <1>4, <1>5 DEF ImgIInv, RunsMatch, files
<1>8. InFlightIsWorkedOn'
  BY <1>3, <1>4 DEF files, ImgIInv, InFlightIsWorkedOn, WorkedOn
<1> QED
  BY <1>5, <1>6, <1>7, <1>8 DEF ImgIInv

LEMMA CancelSavesInv ==
  ASSUME ImgIInv, NEW c \in Callers, CancelSaves(c)
  PROVE  ImgIInv'
<1> USE DEF CancelSaves, chapter, bounds
<1>1. /\ TypeOK /\ call[c].job \in DOMAIN jobs /\ call[c].stamp \in Nat
      /\ IdleCall \in Call /\ IdleCall.pc = "idle"
  BY Elements DEF ImgIInv, CallsMatch, Call
<1>2. /\ jobs' \in Seq(Job)
      /\ Len(jobs') = Len(jobs) /\ DOMAIN jobs' = DOMAIN jobs
      /\ \A k \in DOMAIN jobs : jobs'[k].status =
           IF k = call[c].job THEN "cancelled" ELSE jobs[k].status
  BY <1>1, SavedEffect DEF Statuses, Ended
<1>3. /\ call' \in [Callers -> Call]
      /\ \A d \in Callers : call'[d] = IF d = c THEN IdleCall ELSE call[d]
      /\ CallsMatch'
  BY <1>1, <1>2, OneCall
<1>4. TypeOK'
  BY <1>1, <1>2, <1>3 DEF TypeOK
<1>5. RunsMatch'
  BY <1>2, <1>3 DEF ImgIInv, RunsMatch
<1>6. InFlightIsWorkedOn'
  BY <1>2 DEF ImgIInv, InFlightIsWorkedOn, WorkedOn
<1> QED
  BY <1>3, <1>4, <1>5, <1>6 DEF ImgIInv

LEMMA RetryInv ==
  ASSUME ImgIInv, NEW c \in Users, NEW j \in DOMAIN jobs, Retry(c, j)
  PROVE  ImgIInv'
<1>1. TypeOK /\ j \in Nat /\ Now \in Nat
  BY Elements DEF ImgIInv, Now
<1>2. /\ jobs' = Saved(j, "active", Now) /\ runs' = Begun(j)
      /\ call' = Launching(c, j) /\ lost' = lost \ {j}
      /\ requests' = requests + 1 /\ call[c].pc = "idle"
      /\ UNCHANGED <<settings, chapter, pictures, attempted, running, failures,
                     toggles, crashes>>
  BY DEF Retry
<1>3. /\ jobs' \in Seq(Job)
      /\ Len(jobs') = Len(jobs) /\ DOMAIN jobs' = DOMAIN jobs
      /\ \A k \in DOMAIN jobs : jobs'[k].status =
           IF k = j THEN "active" ELSE jobs[k].status
  BY ZenonT(30), <1>1, <1>2, SavedEffect DEF Statuses
<1>4. /\ runs' \in Seq(Run) /\ Now \notin DOMAIN runs /\ Now \in DOMAIN runs'
      /\ DOMAIN runs' = DOMAIN runs \cup {Now}
      /\ runs'[Now].pc = "saved" /\ runs'[Now].job = j
      /\ \A g \in DOMAIN runs : runs'[g] = runs[g]
  BY <1>1, <1>2, BegunEffect
<1>5. PICK r \in Call : /\ call' = [call EXCEPT ![c] = r]
                        /\ r.pc = "launch" /\ r.unit = call[c].unit
                        /\ r.job = j /\ r.stamp = Now
  BY <1>1, <1>2, LaunchingType
<1>6. /\ call' \in [Callers -> Call]
      /\ \A d \in Callers : call'[d] = IF d = c THEN r ELSE call[d]
      /\ CallsMatch'
  <2>1. \A g \in DOMAIN runs :
          runs[g].pc = "saved" /\ (call[c].pc = "launch" => g # call[c].stamp)
            => runs'[g].pc = "saved" /\ runs'[g].job = runs[g].job
    BY <1>4
  <2>2. /\ DOMAIN jobs \subseteq DOMAIN jobs'
        /\ DOMAIN runs \subseteq DOMAIN runs'
        /\ r.stamp \in DOMAIN runs' \ DOMAIN runs /\ c # Watcher
    BY <1>3, <1>4, <1>5
  <2> QED
    BY <1>3, <1>4, <1>5, <2>1, <2>2, OneCall
<1>7. TypeOK'
  <2>1. lost' \subseteq DOMAIN jobs'
    BY <1>1, <1>2, <1>3 DEF TypeOK
  <2> QED
    BY <1>1, <1>2, <1>3, <1>4, <1>6, <2>1 DEF TypeOK, chapter
<1>8. RunsMatch'
  <2>1. ASSUME NEW g \in DOMAIN runs, runs[g].pc = "saved"
        PROVE  \E d \in Callers : call'[d].pc = "launch" /\ call'[d].stamp = g
    BY <1>2, <1>6, <2>1 DEF ImgIInv, RunsMatch
  <2> QED
    BY <1>3, <1>4, <1>5, <1>6, <2>1 DEF ImgIInv, RunsMatch
<1>9. InFlightIsWorkedOn'
  BY <1>2, <1>3, <1>4 DEF ImgIInv, InFlightIsWorkedOn, WorkedOn
<1> QED
  BY <1>6, <1>7, <1>8, <1>9 DEF ImgIInv

LEMMA ReportInv ==
  ASSUME ImgIInv, NEW g \in DOMAIN runs, Report(g)
  PROVE  ImgIInv'
<1>1. TypeOK /\ g \in Nat /\ runs[g].job \in DOMAIN jobs
  BY Elements DEF ImgIInv, RunsMatch, Report
<1>2. /\ jobs' = Saved(runs[g].job, "active", g) /\ runs[g].pc = "execute"
      /\ UNCHANGED <<settings, chapter, pictures, memory, lost, bounds>>
  BY DEF Report
<1>3. /\ jobs' \in Seq(Job)
      /\ Len(jobs') = Len(jobs) /\ DOMAIN jobs' = DOMAIN jobs
      /\ \A k \in DOMAIN jobs : jobs'[k].status =
           IF k = runs[g].job THEN "active" ELSE jobs[k].status
  BY <1>1, <1>2, SavedEffect DEF Statuses
<1>4. TypeOK'
  BY <1>1, <1>2, <1>3 DEF TypeOK, chapter, memory, bounds
<1>5. CallsMatch' /\ RunsMatch'
  BY <1>2, <1>3 DEF ImgIInv, CallsMatch, RunsMatch, memory
<1>6. InFlightIsWorkedOn'
  <2>1. WorkedOn(runs[g].job)'
    BY <1>2 DEF WorkedOn, memory
  <2> QED
    BY <1>2, <1>3, <2>1 DEF ImgIInv, InFlightIsWorkedOn, WorkedOn, memory
<1> QED
  BY <1>4, <1>5, <1>6 DEF ImgIInv

(* A goroutine past its launch goes on: the callers do not notice. *)
LEMMA OneRun ==
  ASSUME ImgIInv, NEW g \in DOMAIN runs, NEW r \in Run,
         runs[g].pc # "saved", runs' = [runs EXCEPT ![g] = r],
         UNCHANGED call, DOMAIN jobs' = DOMAIN jobs,
         r.pc \in {"save", "cleanup"} => r.result \in Ended,
         r.pc # "saved", r.pc # "gone" => r.job = runs[g].job,
         r.pc # "gone" => runs[g].pc # "gone"
  PROVE  /\ runs' \in Seq(Run) /\ DOMAIN runs' = DOMAIN runs
         /\ \A h \in DOMAIN runs : runs'[h] = IF h = g THEN r ELSE runs[h]
         /\ CallsMatch' /\ RunsMatch'
<1>1. /\ runs' \in Seq(Run) /\ DOMAIN runs' = DOMAIN runs
      /\ \A h \in DOMAIN runs : runs'[h] = IF h = g THEN r ELSE runs[h]
  BY RunEffect DEF ImgIInv
<1>2. CallsMatch'
  BY <1>1 DEF ImgIInv, CallsMatch
<1>3. RunsMatch'
  BY <1>1 DEF ImgIInv, RunsMatch
<1> QED
  BY <1>1, <1>2, <1>3

LEMMA ExecuteReturnsInv ==
  ASSUME ImgIInv, NEW g \in DOMAIN runs, ExecuteReturns(g)
  PROVE  ImgIInv'
<1>1. PICK result \in Ended, pics \in SUBSET Units : Executed(g, result, pics)
  BY DEF ExecuteReturns
<1> DEFINE r == [runs[g] EXCEPT !.pc = "save", !.result = result]
<1>2. TypeOK /\ runs[g] \in Run
  BY Elements DEF ImgIInv
<1>3. r \in Run /\ r.pc = "save" /\ r.result = result /\ r.job = runs[g].job
  BY <1>2 DEF Run, Statuses
<1>4. /\ runs' = [runs EXCEPT ![g] = r] /\ runs[g].pc = "execute"
      /\ pictures' = pics
      /\ UNCHANGED <<settings, chapter, jobs, attempted, call, running, lost,
                     bounds>>
  BY <1>1 DEF Executed
<1> HIDE DEF r
<1>5. /\ runs' \in Seq(Run) /\ DOMAIN runs' = DOMAIN runs
      /\ \A h \in DOMAIN runs : runs'[h] = IF h = g THEN r ELSE runs[h]
      /\ CallsMatch' /\ RunsMatch'
  BY <1>3, <1>4, OneRun
<1>6. TypeOK'
  BY <1>2, <1>4, <1>5 DEF TypeOK, chapter, bounds
<1>7. InFlightIsWorkedOn'
  BY <1>3, <1>4, <1>5 DEF ImgIInv, InFlightIsWorkedOn, WorkedOn
<1> QED
  BY <1>5, <1>6, <1>7 DEF ImgIInv

LEMMA ResultSavedInv ==
  ASSUME ImgIInv, NEW g \in DOMAIN runs, ResultSaved(g)
  PROVE  ImgIInv'
<1> DEFINE r == [runs[g] EXCEPT !.pc = "cleanup"]
           j == runs[g].job
<1>1. /\ runs' = [runs EXCEPT ![g] = r] /\ runs[g].pc = "save"
      /\ jobs' = Saved(j, runs[g].result, g)
      /\ UNCHANGED <<settings, chapter, pictures, attempted, call, running,
                     lost, bounds>>
  BY DEF ResultSaved
<1>2. /\ TypeOK /\ runs[g] \in Run /\ g \in Nat /\ j \in DOMAIN jobs
      /\ runs[g].result \in Ended
  BY <1>1, Elements DEF ImgIInv, RunsMatch
<1>3. r \in Run /\ r.pc = "cleanup" /\ r.result = runs[g].result /\ r.job = j
  BY <1>2 DEF Run
<1> HIDE DEF r, j
<1>4. /\ jobs' \in Seq(Job)
      /\ Len(jobs') = Len(jobs) /\ DOMAIN jobs' = DOMAIN jobs
      /\ \A k \in DOMAIN jobs : jobs'[k].status =
           IF k = j THEN runs[g].result ELSE jobs[k].status
  BY <1>1, <1>2, SavedEffect DEF Statuses
<1>5. /\ runs' \in Seq(Run) /\ DOMAIN runs' = DOMAIN runs
      /\ \A h \in DOMAIN runs : runs'[h] = IF h = g THEN r ELSE runs[h]
      /\ CallsMatch' /\ RunsMatch'
  BY <1>1, <1>2, <1>3, <1>4, OneRun DEF j
<1>6. TypeOK'
  BY <1>1, <1>2, <1>4, <1>5 DEF TypeOK, chapter, bounds
<1>7. InFlightIsWorkedOn'
  BY <1>1, <1>2, <1>4, <1>5
     DEF ImgIInv, InFlightIsWorkedOn, WorkedOn, Ended, j
<1> QED
  BY <1>5, <1>6, <1>7 DEF ImgIInv

LEMMA CleanupInv ==
  ASSUME ImgIInv, NEW g \in DOMAIN runs, Cleanup(g)
  PROVE  ImgIInv'
<1>1. /\ runs' = [runs EXCEPT ![g] = NoRun] /\ runs[g].pc = "cleanup"
      /\ running' = [running EXCEPT ![runs[g].job] = 0]
      /\ UNCHANGED <<settings, chapter, files, attempted, call, lost, bounds>>
  BY DEF Cleanup
<1>2. /\ TypeOK /\ runs[g].job \in DOMAIN jobs
      /\ DOMAIN running = DOMAIN jobs /\ NoRun \in Run /\ NoRun.pc = "gone"
  BY <1>1, Elements DEF ImgIInv, RunsMatch
<1>3. /\ runs' \in Seq(Run) /\ DOMAIN runs' = DOMAIN runs
      /\ \A h \in DOMAIN runs : runs'[h] = IF h = g THEN NoRun ELSE runs[h]
      /\ CallsMatch' /\ RunsMatch'
  BY <1>1, <1>2, OneRun DEF files
<1>4. running' \in Seq(Nat) /\ Len(running') = Len(running)
  BY <1>1, <1>2, Replaced DEF TypeOK
<1>5. TypeOK'
  BY <1>1, <1>2, <1>3, <1>4 DEF TypeOK, chapter, files, bounds
<1>6. InFlightIsWorkedOn'
  BY <1>1, <1>3 DEF ImgIInv, InFlightIsWorkedOn, WorkedOn, files
<1> QED
  BY <1>3, <1>5, <1>6 DEF ImgIInv

(* The chapter and the settings are nobody's copy. *)
LEMMA OutsideInv ==
  ASSUME ImgIInv, WriteUnit \/ Merge \/ \E mode \in Modes : Toggle(mode)
  PROVE  ImgIInv'
<1>1. UNCHANGED <<files, memory, lost>>
  BY DEF WriteUnit, Merge, Toggle
<1>2. CallsMatch' /\ RunsMatch' /\ InFlightIsWorkedOn'
  BY <1>1 DEF ImgIInv, CallsMatch, RunsMatch, InFlightIsWorkedOn, WorkedOn,
              files, memory
<1>3. TypeOK'
  <2>1. CASE WriteUnit
    <3>1. /\ written' \in 0 .. total /\ engine' \in {"writing", "waiting"}
          /\ written' = total <=> engine' # "writing"
      BY <2>1 DEF ImgIInv, TypeOK, WriteUnit, Units
    <3> QED
      BY <1>1, <2>1, <3>1 DEF ImgIInv, TypeOK, WriteUnit, files, memory, bounds
  <2>2. CASE Merge
    BY <1>1, <2>2 DEF ImgIInv, TypeOK, Merge, files, memory, bounds
  <2>3. CASE \E mode \in Modes : Toggle(mode)
    BY <1>1, <2>3 DEF ImgIInv, TypeOK, Toggle, chapter, files, memory
  <2> QED
    BY <2>1, <2>2, <2>3
<1> QED
  BY <1>2, <1>3 DEF ImgIInv

LEMMA CrashInv ==
  ASSUME ImgIInv, Crash
  PROVE  ImgIInv'
<1>1. /\ call' = [c \in Callers |-> IdleCall] /\ attempted' = {}
      /\ runs' = [g \in DOMAIN runs |-> NoRun]
      /\ running' = [j \in DOMAIN running |-> 0]
      /\ lost' = {j \in DOMAIN jobs : jobs[j].status = "active"}
      /\ crashes' = crashes + 1
      /\ UNCHANGED <<settings, chapter, files, requests, failures, toggles>>
  BY DEF Crash
<1>2. /\ TypeOK /\ NoRun \in Run /\ NoRun.pc = "gone"
      /\ IdleCall \in Call /\ IdleCall.pc = "idle"
      /\ DOMAIN runs = 1 .. Len(runs) /\ Len(runs) \in Nat
      /\ DOMAIN running = 1 .. Len(jobs) /\ Len(jobs) \in Nat
  BY Elements DEF ImgIInv
<1>3. runs' \in Seq(Run)
  <2>1. runs' \in [1 .. Len(runs) -> Run]
    BY <1>1, <1>2
  <2> QED
    BY <1>2, <2>1, IsASeq
<1>4. running' \in Seq(Nat) /\ Len(running') = Len(jobs)
  <2>1. running' \in [1 .. Len(jobs) -> Nat]
    BY <1>1, <1>2
  <2>2. running' \in Seq(Nat)
    BY <1>2, <2>1, IsASeq
  <2>3. DOMAIN running' = 1 .. Len(jobs)
    BY <2>1
  <2>4. Len(running') = Len(jobs)
    BY <1>2, <2>2, <2>3, LenProperties
  <2> QED
    BY <2>2, <2>4
<1>5. TypeOK'
  BY <1>1, <1>2, <1>3, <1>4 DEF TypeOK, chapter, files
<1>6. CallsMatch' /\ RunsMatch'
  BY <1>1, <1>2 DEF CallsMatch, RunsMatch
<1>7. InFlightIsWorkedOn'
  BY <1>1 DEF InFlightIsWorkedOn, files
<1> QED
  BY <1>5, <1>6, <1>7 DEF ImgIInv

LEMMA InitInv == Init => ImgIInv
<1> SUFFICES ASSUME Init PROVE ImgIInv
  OBVIOUS
<1>1. IdleCall \in Call /\ IdleCall.pc = "idle"
  BY DEF IdleCall, Call, Keys
<1>2. /\ <<>> \in Seq(Job) /\ <<>> \in Seq(Run) /\ <<>> \in Seq(Nat)
      /\ DOMAIN <<>> = {} /\ Len(<<>>) = 0
  OBVIOUS
<1>3. TypeOK
  <2>1. /\ written \in 0 .. total /\ engine \in {"writing", "waiting"}
        /\ written = total <=> engine # "writing"
    BY DEF Init, Units
  <2> QED
    BY <1>1, <1>2, <2>1 DEF Init, TypeOK
<1>4. CallsMatch /\ RunsMatch /\ InFlightIsWorkedOn
  BY <1>1, <1>2 DEF Init, CallsMatch, RunsMatch, InFlightIsWorkedOn
<1> QED
  BY <1>3, <1>4 DEF ImgIInv

LEMMA StepInv == ImgIInv /\ [Next]_vars => ImgIInv'
<1> SUFFICES ASSUME ImgIInv, [Next]_vars PROVE ImgIInv'
  OBVIOUS
<1>1. CASE UNCHANGED vars
  BY <1>1 DEF vars, chapter, files, memory, bounds, ImgIInv, TypeOK,
              CallsMatch, RunsMatch, InFlightIsWorkedOn, WorkedOn
<1>2. ASSUME NEW u \in Units, Tick(u) PROVE ImgIInv'
  BY <1>2, TickInv
<1>3. ASSUME NEW c \in Users, UserStep(c) PROVE ImgIInv'
  BY <1>3, UserStartInv, CancelInv, RetryInv DEF UserStep
<1>4. ASSUME NEW c \in Callers, CallStep(c) PROVE ImgIInv'
  BY <1>4, StartReturnsInv, StartFailsInv, StartProceedsInv, StartSavesInv,
     LaunchInv, CancelSavesInv DEF CallStep
<1>5. ASSUME NEW g \in DOMAIN runs, Report(g) \/ RunStep(g) PROVE ImgIInv'
  BY <1>5, ReportInv, ExecuteReturnsInv, ResultSavedInv, CleanupInv DEF RunStep
<1>6. CASE WriteUnit \/ Merge \/ \E mode \in Modes : Toggle(mode)
  BY <1>6, OutsideInv
<1>7. CASE Crash
  BY <1>7, CrashInv
<1> QED
  BY <1>1, <1>2, <1>3, <1>4, <1>5, <1>6, <1>7 DEF Next

(* Calls, goroutines and job files match in every reachable state. *)
THEOREM Inductive == Spec => []ImgIInv
BY InitInv, StepInv, PTL DEF Spec

(* No job in flight is forgotten while the process lives. *)
THEOREM NoJobForgotten == Spec => []InFlightIsWorkedOn
<1>1. ImgIInv => InFlightIsWorkedOn
  BY DEF ImgIInv
<1> QED
  BY <1>1, Inductive, PTL

--------------------------------------------------------------------------------
(* What holds of a merged chapter *)

(* A job file stays, with its unit and its key. *)
LEMMA JobsStay ==
  ASSUME ImgIInv, [Next]_vars
  PROVE  /\ DOMAIN jobs \subseteq DOMAIN jobs'
         /\ \A j \in DOMAIN jobs : /\ jobs'[j].unit = jobs[j].unit
                                   /\ jobs'[j].key = jobs[j].key
<1>1. TypeOK
  BY DEF ImgIInv
<1>2. CASE UNCHANGED jobs
  BY <1>2
<1>3. CASE \E c \in Callers : StartSaves(c)
  <2>1. PICK c \in Callers : StartSaves(c)
    BY <1>3
  <2> DEFINE job == [unit |-> call[c].unit, key |-> call[c].key,
                     status |-> "active", started |-> Now]
  <2>2. job \in Job
    <3>1. call[c].unit \in Units /\ call[c] \in Call
      BY <2>1 DEF ImgIInv, CallsMatch, TypeOK, StartSaves
    <3> QED
      BY <1>1, <3>1, Elements DEF Job, Call, Now, Statuses
  <2>3. jobs' = Append(jobs, job) /\ running' = Append(running, 0)
    BY <2>1 DEF StartSaves
  <2> HIDE DEF job
  <2> QED
    BY <1>1, <2>2, <2>3, NewJobEffect
<1>4. CASE \E c \in Callers : CancelSaves(c)
  <2>1. PICK c \in Callers : CancelSaves(c)
    BY <1>4
  <2>2. /\ jobs' = Saved(call[c].job, "cancelled", call[c].stamp)
        /\ call[c].job \in DOMAIN jobs /\ call[c].stamp \in Nat
    BY <1>1, <2>1, Elements DEF CancelSaves, ImgIInv, CallsMatch, Call
  <2> QED
    BY <1>1, <2>2, SavedEffect DEF Statuses, Ended
<1>5. CASE \E c \in Users, j \in DOMAIN jobs : Retry(c, j)
  <2>1. PICK c \in Users, j \in DOMAIN jobs : Retry(c, j)
    BY <1>5
  <2>2. jobs' = Saved(j, "active", Now) /\ Now \in Nat
    BY <1>1, <2>1, Elements DEF Retry, Now
  <2> QED
    BY <1>1, <2>2, SavedEffect DEF Statuses
<1>6. CASE \E g \in DOMAIN runs : Report(g) \/ ResultSaved(g)
  <2>1. PICK g \in DOMAIN runs : Report(g) \/ ResultSaved(g)
    BY <1>6
  <2>2. g \in Nat /\ runs[g].job \in DOMAIN jobs /\ runs[g].result \in Statuses
    BY <1>1, <2>1, Elements DEF ImgIInv, RunsMatch, Report, ResultSaved, Run
  <2>3. \E status \in Statuses : jobs' = Saved(runs[g].job, status, g)
    BY <2>1, <2>2 DEF Report, ResultSaved, Statuses
  <2> QED
    BY <1>1, <2>2, <2>3, SavedEffect
<1>7. \/ UNCHANGED jobs
      \/ \E c \in Callers : StartSaves(c)
      \/ \E c \in Callers : CancelSaves(c)
      \/ \E c \in Users, j \in DOMAIN jobs : Retry(c, j)
      \/ \E g \in DOMAIN runs : Report(g) \/ ResultSaved(g)
  <2>1. CASE UNCHANGED vars
    BY <2>1 DEF vars, files
  <2>2. ASSUME NEW c \in Users, UserStep(c)
        PROVE  UNCHANGED jobs \/ \E j \in DOMAIN jobs : Retry(c, j)
    BY <2>2 DEF UserStep, UserStart, Cancel, files
  <2>3. ASSUME NEW c \in Callers, CallStep(c)
        PROVE  UNCHANGED jobs \/ StartSaves(c) \/ CancelSaves(c)
    BY <2>3 DEF CallStep, StartReturns, StartFails, StartProceeds, Launch, files
  <2>4. ASSUME NEW g \in DOMAIN runs, RunStep(g)
        PROVE  UNCHANGED jobs \/ ResultSaved(g)
    BY <2>4 DEF RunStep, ExecuteReturns, Executed, Cleanup, files
  <2>5. ASSUME \/ \E u \in Units : Tick(u)
               \/ WriteUnit \/ Merge \/ Crash
               \/ \E mode \in Modes : Toggle(mode)
        PROVE  UNCHANGED jobs
    BY <2>5 DEF Tick, WriteUnit, Merge, Crash, Toggle, files
  <2> QED
    BY <2>1, <2>2, <2>3, <2>4, <2>5 DEF Next
<1> QED
  BY <1>2, <1>3, <1>4, <1>5, <1>6, <1>7

(* What a step does outside of jobs, calls and goroutines. *)
LEMMA Outside ==
  ASSUME ImgIInv, [Next]_vars
  PROVE  /\ total' = total
         /\ engine' = "merged" => engine = "merged" \/ Merge
         /\ \/ toggles' = toggles + 1
            \/ toggles' = toggles /\ settings' = settings
         /\ requests' = requests + 1 \/ requests' = requests
<1> DEFINE Kept == UNCHANGED <<chapter, settings, toggles>>
           Frame == Kept /\ (requests' = requests + 1 \/ requests' = requests)
<1>1. CASE UNCHANGED vars
  BY <1>1 DEF vars, chapter, bounds
<1>2. ASSUME NEW u \in Units, Tick(u) PROVE Frame
  BY <1>2 DEF Tick, bounds
<1>3. ASSUME NEW c \in Users, UserStep(c) PROVE Frame
  BY <1>3 DEF UserStep, UserStart, Cancel, Retry
<1>4. ASSUME NEW c \in Callers, CallStep(c) PROVE Frame
  BY <1>4 DEF CallStep, StartReturns, StartFails, StartProceeds, StartSaves,
              Launch, CancelSaves, bounds
<1>5. ASSUME NEW g \in DOMAIN runs, Report(g) \/ RunStep(g) PROVE Frame
  BY <1>5 DEF Report, RunStep, ExecuteReturns, Executed, ResultSaved, Cleanup,
              bounds
<1>6. CASE WriteUnit
  BY <1>6 DEF WriteUnit, bounds
<1>7. CASE Merge
  BY <1>7 DEF Merge, bounds
<1>8. CASE Crash
  BY <1>8 DEF Crash, chapter
<1>9. CASE \E mode \in Modes : Toggle(mode)
  BY <1>9 DEF Toggle, chapter
<1>10. CASE Frame
  BY <1>10 DEF chapter
<1> HIDE DEF Frame
<1> QED
  BY <1>1, <1>2, <1>3, <1>4, <1>5, <1>6, <1>7, <1>8, <1>9, <1>10 DEF Next

(* A chapter with automatic images is merged only when all its units have a
   job. *)
LEMMA TriedInit == Init => EveryUnitWasTried
BY DEF Init, EveryUnitWasTried

LEMMA TriedStep ==
  ImgIInv /\ EveryUnitWasTried /\ [Next]_vars => EveryUnitWasTried'
<1> SUFFICES ASSUME ImgIInv, EveryUnitWasTried, [Next]_vars,
                    engine' = "merged", settings' = "auto", toggles' = 0,
                    NEW u \in 1 .. total'
             PROVE  JobsOf(u)' # {}
  BY DEF EveryUnitWasTried
<1>1. JobsOf(u) \subseteq JobsOf(u)'
  BY JobsStay DEF JobsOf
<1>2. /\ total' = total
      /\ engine' = "merged" => engine = "merged" \/ Merge
      /\ settings = "auto" /\ toggles = 0
  BY Outside DEF ImgIInv, TypeOK
<1>3. CASE Merge
  BY <1>1, <1>2, <1>3 DEF Merge, Settled, Completed
<1>4. CASE engine = "merged"
  BY <1>1, <1>2, <1>4 DEF EveryUnitWasTried
<1> QED
  BY <1>2, <1>3, <1>4

(* A chapter is never merged over a unit the watcher has yet to come to. *)
THEOREM MergedAfterTrying == Spec => []EveryUnitWasTried
BY TriedInit, TriedStep, Inductive, PTL DEF Spec

(* While the user has made no request: the watcher alone starts jobs, one for a
   unit, each worked on by one goroutine until its last save. *)
WatcherAlone ==
  /\ \A c \in Users : call[c].pc = "idle"
  /\ call[Watcher].key = "auto" /\ call[Watcher].pc # "cancel"
  /\ call[Watcher].pc \in {"check", "save"} =>
       call[Watcher].unit \in 1 .. written
  /\ call[Watcher].pc = "save" => JobsOf(call[Watcher].unit) = {}

OneJobPerUnit ==
  /\ \A j \in DOMAIN jobs :
       jobs[j].key = "auto" /\ jobs[j].unit \in 1 .. written
  /\ \A j, k \in DOMAIN jobs : jobs[j].unit = jobs[k].unit => j = k

OneRunPerJob ==
  /\ \A g \in DOMAIN runs : runs[g].pc \in {"saved", "execute"} =>
       jobs[runs[g].job].status = "active"
  /\ \A g, h \in DOMAIN runs :
       /\ {runs[g].pc, runs[h].pc} \subseteq {"saved", "execute", "save"}
       /\ runs[g].job = runs[h].job
       => g = h

QuietParts == /\ WatcherAlone /\ OneJobPerUnit /\ OneRunPerJob
              /\ EveryUnitWasTried /\ MergedIsQuiet

QuietInv == requests = 0 => QuietParts

(* The parts about calls and jobs, when no job and no goroutine changes. *)
LEMMA QuietTick ==
  ASSUME ImgIInv, QuietParts, NEW u \in Units, Tick(u)
  PROVE  WatcherAlone' /\ OneJobPerUnit' /\ OneRunPerJob' /\ MergedIsQuiet'
<1> DEFINE r == [IdleCall EXCEPT !.pc = "check", !.unit = u]
<1>1. /\ call' = [call EXCEPT ![Watcher] = r] /\ u \in 1 .. written
      /\ UNCHANGED <<settings, chapter, files, attempted, runs, running, lost,
                     bounds>>
  BY DEF Tick, Units, ImgIInv, TypeOK
<1>2. r.pc = "check" /\ r.unit = u /\ r.key = "auto"
  BY DEF IdleCall
<1> HIDE DEF r
<1>3. \A d \in Callers : call'[d] = IF d = Watcher THEN r ELSE call[d]
  BY <1>1 DEF ImgIInv, TypeOK
<1>4. WatcherAlone'
  BY <1>1, <1>2, <1>3 DEF QuietParts, WatcherAlone, chapter
<1>5. OneJobPerUnit' /\ OneRunPerJob' /\ MergedIsQuiet'
  BY <1>1 DEF QuietParts, OneJobPerUnit, OneRunPerJob, MergedIsQuiet, chapter,
              files, bounds
<1> QED
  BY <1>4, <1>5

(* A call of the watcher ends, or goes on to save. *)
LEMMA QuietCheck ==
  ASSUME ImgIInv, QuietParts,
         StartReturns(Watcher) \/ StartFails(Watcher) \/ StartProceeds(Watcher)
  PROVE  WatcherAlone' /\ OneJobPerUnit' /\ OneRunPerJob' /\ MergedIsQuiet'
<1>1. /\ UNCHANGED <<settings, chapter, files, runs, requests, toggles>>
      /\ \/ call' = [call EXCEPT ![Watcher] = IdleCall]
         \/ /\ StartProceeds(Watcher)
            /\ call' = [call EXCEPT ![Watcher].pc = "save"]
  BY DEF StartReturns, StartFails, StartProceeds, bounds
<1>2. OneJobPerUnit' /\ OneRunPerJob' /\ MergedIsQuiet'
  BY <1>1 DEF QuietParts, OneJobPerUnit, OneRunPerJob, MergedIsQuiet, chapter,
              files
<1>3. CASE call' = [call EXCEPT ![Watcher] = IdleCall]
  <2>1. \A d \in Callers : call'[d] = IF d = Watcher THEN IdleCall ELSE call[d]
    BY <1>3 DEF ImgIInv, TypeOK
  <2>2. IdleCall.pc = "idle" /\ IdleCall.key = "auto"
    BY DEF IdleCall
  <2>3. WatcherAlone'
    BY <1>1, <2>1, <2>2 DEF QuietParts, WatcherAlone, chapter
  <2> QED
    BY <1>2, <2>3
<1>4. CASE /\ StartProceeds(Watcher)
           /\ call' = [call EXCEPT ![Watcher].pc = "save"]
  <2> DEFINE r == [call[Watcher] EXCEPT !.pc = "save"]
  <2>1. call[Watcher] \in Call
    BY DEF ImgIInv, TypeOK
  <2>2. /\ call' = [call EXCEPT ![Watcher] = r] /\ r.pc = "save"
        /\ r.unit = call[Watcher].unit /\ r.key = call[Watcher].key
    BY <1>4, <2>1 DEF Call
  <2> HIDE DEF r
  <2>3. \A d \in Callers : call'[d] = IF d = Watcher THEN r ELSE call[d]
    BY <2>2 DEF ImgIInv, TypeOK
  <2>4. /\ call[Watcher].key = "auto" /\ call[Watcher].pc = "check"
        /\ call[Watcher].unit \in 1 .. written
        /\ ~Existing(Watcher)
    BY <1>4 DEF QuietParts, WatcherAlone, StartProceeds
  <2>5. \A j \in DOMAIN jobs : jobs[j].unit # call[Watcher].unit
    <3> SUFFICES ASSUME NEW j \in DOMAIN jobs, jobs[j].unit = call[Watcher].unit
                 PROVE  FALSE
      OBVIOUS
    <3>1. j \in JobsOf(call[Watcher].unit) /\ jobs[j].key = call[Watcher].key
      BY <2>4 DEF JobsOf, QuietParts, OneJobPerUnit
    <3> QED
      BY <2>4, <3>1 DEF Existing
  <2>6. \A j \in DOMAIN jobs' : jobs'[j].unit # call'[Watcher].unit
    BY <1>1, <2>2, <2>3, <2>5 DEF files
  <2>7. WatcherAlone'
    BY <1>1, <2>2, <2>3, <2>4, <2>6
       DEF QuietParts, WatcherAlone, JobsOf, chapter
  <2> QED
    BY <1>2, <2>7
<1> QED
  BY <1>1, <1>3, <1>4

LEMMA QuietSave ==
  ASSUME ImgIInv, QuietParts, StartSaves(Watcher)
  PROVE  WatcherAlone' /\ OneJobPerUnit' /\ OneRunPerJob' /\ MergedIsQuiet'
<1> DEFINE new == Len(jobs) + 1
           u == call[Watcher].unit
           job == [unit |-> u, key |-> call[Watcher].key,
                   status |-> "active", started |-> Now]
<1>1. /\ TypeOK /\ u \in Units /\ call[Watcher] \in Call
      /\ u \in 1 .. written /\ call[Watcher].key = "auto" /\ JobsOf(u) = {}
  BY DEF ImgIInv, CallsMatch, TypeOK, StartSaves, QuietParts, WatcherAlone
<1>2. job \in Job /\ job.status = "active" /\ job.key = "auto" /\ job.unit = u
  BY <1>1, Elements DEF Job, Call, Now, Statuses
<1>3. /\ jobs' = Append(jobs, job) /\ running' = Append(running, 0)
      /\ runs' = Begun(new) /\ call' = Launching(Watcher, new)
      /\ UNCHANGED <<settings, chapter, pictures, attempted, lost, bounds>>
  BY DEF StartSaves
<1> HIDE DEF job, u
<1>4. /\ new \in DOMAIN jobs' /\ new \notin DOMAIN jobs /\ new \in Nat
      /\ DOMAIN jobs' = DOMAIN jobs \cup {new}
      /\ \A j \in DOMAIN jobs : jobs'[j] = jobs[j]
      /\ jobs'[new] = job
  BY <1>1, <1>2, <1>3, NewJobEffect
<1> HIDE DEF new
<1>5. /\ Now \notin DOMAIN runs /\ Now \in DOMAIN runs'
      /\ DOMAIN runs' = DOMAIN runs \cup {Now}
      /\ runs'[Now].pc = "saved" /\ runs'[Now].job = new
      /\ \A g \in DOMAIN runs : runs'[g] = runs[g]
  BY <1>1, <1>3, <1>4, BegunEffect
<1>6. WatcherAlone'
  <2> DEFINE r == [IdleCall EXCEPT !.pc = "launch", !.unit = u, !.job = new,
                                   !.stamp = Now]
  <2>1. r.pc = "launch" /\ r.key = "auto"
    BY DEF IdleCall
  <2>2. call' = [call EXCEPT ![Watcher] = r]
    BY <1>3 DEF Launching, u
  <2> HIDE DEF r
  <2>3. \A d \in Callers : call'[d] = IF d = Watcher THEN r ELSE call[d]
    BY <2>2 DEF ImgIInv, TypeOK
  <2> QED
    BY <2>1, <2>3 DEF QuietParts, WatcherAlone
<1>7. OneJobPerUnit'
  <2>1. \A j \in DOMAIN jobs : jobs[j].unit # u
    BY <1>1 DEF JobsOf
  <2> QED
    BY <1>1, <1>2, <1>3, <1>4, <2>1 DEF QuietParts, OneJobPerUnit, chapter
<1>8. OneRunPerJob'
  <2>1. \A g \in DOMAIN runs :
          runs[g].pc # "gone" => runs[g].job \in DOMAIN jobs
    BY DEF ImgIInv, RunsMatch
  <2> QED
    BY <1>2, <1>4, <1>5, <2>1 DEF QuietParts, OneRunPerJob
<1>9. MergedIsQuiet'
  <2> SUFFICES ASSUME engine = "merged", settings = "auto", toggles = 0
               PROVE  FALSE
    BY <1>3 DEF MergedIsQuiet, chapter, bounds
  <2>1. u \in 1 .. total
    BY <1>1 DEF TypeOK, Units
  <2> QED
    BY <1>1, <2>1 DEF QuietParts, EveryUnitWasTried
<1> QED
  BY <1>6, <1>7, <1>8, <1>9

LEMMA QuietLaunch ==
  ASSUME ImgIInv, QuietParts, Launch(Watcher)
  PROVE  WatcherAlone' /\ OneJobPerUnit' /\ OneRunPerJob' /\ MergedIsQuiet'
<1> DEFINE g == call[Watcher].stamp
           r == [runs[g] EXCEPT !.pc = "execute"]
<1>1. /\ TypeOK /\ g \in DOMAIN runs /\ runs[g].pc = "saved" /\ runs[g] \in Run
  BY Elements DEF Launch, ImgIInv, CallsMatch
<1>2. /\ runs' = [runs EXCEPT ![g] = r]
      /\ call' = [call EXCEPT ![Watcher] = IdleCall]
      /\ UNCHANGED <<settings, chapter, files, lost, bounds>>
  BY DEF Launch
<1>3. r \in Run /\ r.pc = "execute" /\ r.job = runs[g].job
  BY <1>1 DEF Run
<1> HIDE DEF g, r
<1>4. /\ DOMAIN runs' = DOMAIN runs
      /\ \A h \in DOMAIN runs : runs'[h] = IF h = g THEN r ELSE runs[h]
  BY <1>1, <1>2, <1>3, RunEffect
<1>5. \A h \in DOMAIN runs :
        /\ runs'[h].job = runs[h].job
        /\ \/ runs'[h].pc = runs[h].pc
           \/ runs'[h].pc = "execute" /\ runs[h].pc = "saved"
  BY <1>1, <1>3, <1>4
<1>6. OneRunPerJob'
  BY <1>2, <1>4, <1>5 DEF QuietParts, OneRunPerJob, files
<1>7. WatcherAlone'
  <2>1. \A d \in Callers : call'[d] = IF d = Watcher THEN IdleCall ELSE call[d]
    BY <1>2 DEF ImgIInv, TypeOK
  <2>2. IdleCall.pc = "idle" /\ IdleCall.key = "auto"
    BY DEF IdleCall
  <2> QED
    BY <2>1, <2>2 DEF QuietParts, WatcherAlone
<1>8. OneJobPerUnit' /\ MergedIsQuiet'
  BY <1>2 DEF QuietParts, OneJobPerUnit, MergedIsQuiet, chapter, files, bounds
<1> QED
  BY <1>6, <1>7, <1>8

(* A goroutine's step: it reports what the file already says, goes on, ends its
   job or disappears. *)
LEMMA QuietRun ==
  ASSUME ImgIInv, QuietParts, NEW g \in DOMAIN runs, Report(g) \/ RunStep(g)
  PROVE  WatcherAlone' /\ OneJobPerUnit' /\ OneRunPerJob' /\ MergedIsQuiet'
<1>1. TypeOK /\ runs[g] \in Run /\ g \in Nat
  BY Elements DEF ImgIInv
<1>2. /\ UNCHANGED <<settings, chapter, call, lost, bounds>>
      /\ \/ /\ Report(g) /\ UNCHANGED runs
            /\ jobs' = Saved(runs[g].job, "active", g)
         \/ /\ runs[g].pc = "execute" /\ UNCHANGED jobs
            /\ \E result \in Ended : runs' =
                 [runs EXCEPT ![g].pc = "save", ![g].result = result]
         \/ /\ runs[g].pc = "save" /\ jobs' = Saved(runs[g].job, runs[g].result, g)
            /\ runs' = [runs EXCEPT ![g].pc = "cleanup"]
         \/ /\ runs[g].pc = "cleanup" /\ UNCHANGED jobs
            /\ runs' = [runs EXCEPT ![g] = NoRun]
  BY DEF Report, RunStep, ExecuteReturns, Executed, ResultSaved, Cleanup,
         memory, files, bounds
<1>3. ASSUME UNCHANGED <<settings, chapter, call, bounds>>,
             DOMAIN jobs' = DOMAIN jobs,
             \A j \in DOMAIN jobs : /\ jobs'[j].unit = jobs[j].unit
                                    /\ jobs'[j].key = jobs[j].key
      PROVE  WatcherAlone' /\ OneJobPerUnit'
  BY <1>3 DEF QuietParts, WatcherAlone, OneJobPerUnit, JobsOf, chapter
<1>4. CASE /\ Report(g)
           /\ UNCHANGED runs
           /\ jobs' = Saved(runs[g].job, "active", g)
  <2>1. /\ runs[g].job \in DOMAIN jobs
        /\ jobs[runs[g].job].status = "active"
    BY <1>4 DEF Report, ImgIInv, RunsMatch, QuietParts, OneRunPerJob
  <2>2. /\ DOMAIN jobs' = DOMAIN jobs
        /\ \A j \in DOMAIN jobs :
             /\ jobs'[j].unit = jobs[j].unit /\ jobs'[j].key = jobs[j].key
             /\ jobs'[j].status = jobs[j].status
    BY SMTT(30), <1>1, <1>4, <2>1, SavedEffect DEF Statuses
  <2>3. OneRunPerJob'
    BY <1>4, <2>2 DEF QuietParts, OneRunPerJob, ImgIInv, RunsMatch
  <2>4. MergedIsQuiet'
    BY <1>2, <2>2 DEF QuietParts, MergedIsQuiet, chapter, bounds
  <2> QED
    BY <1>2, <1>3, <2>2, <2>3, <2>4
<1>5. CASE /\ runs[g].pc = "execute" /\ UNCHANGED jobs
           /\ \E result \in Ended : runs' =
                [runs EXCEPT ![g].pc = "save", ![g].result = result]
  <2>1. PICK result \in Ended : runs' =
               [runs EXCEPT ![g].pc = "save", ![g].result = result]
    BY <1>5
  <2> DEFINE r == [runs[g] EXCEPT !.pc = "save", !.result = result]
  <2>2. r \in Run /\ r.pc = "save" /\ r.job = runs[g].job
    BY <1>1 DEF Run, Statuses
  <2>3. runs' = [runs EXCEPT ![g] = r]
    BY <2>1
  <2> HIDE DEF r
  <2>4. /\ DOMAIN runs' = DOMAIN runs
        /\ \A h \in DOMAIN runs : runs'[h] = IF h = g THEN r ELSE runs[h]
    BY <1>1, <2>2, <2>3, RunEffect
  <2>5. OneRunPerJob'
    BY <1>5, <2>2, <2>4 DEF QuietParts, OneRunPerJob
  <2>6. MergedIsQuiet'
    BY <1>2, <1>5 DEF QuietParts, MergedIsQuiet, chapter, bounds
  <2> QED
    BY <1>2, <1>3, <1>5, <2>5, <2>6
<1>6. CASE /\ runs[g].pc = "save"
           /\ jobs' = Saved(runs[g].job, runs[g].result, g)
           /\ runs' = [runs EXCEPT ![g].pc = "cleanup"]
  <2> DEFINE r == [runs[g] EXCEPT !.pc = "cleanup"]
             j == runs[g].job
  <2>1. j \in DOMAIN jobs /\ runs[g].result \in Ended
    BY <1>6 DEF ImgIInv, RunsMatch
  <2>2. r \in Run /\ r.pc = "cleanup" /\ r.job = j
    BY <1>1 DEF Run
  <2>3. runs' = [runs EXCEPT ![g] = r] /\ jobs' = Saved(j, runs[g].result, g)
    BY <1>6
  <2> HIDE DEF r
  <2>4. /\ DOMAIN runs' = DOMAIN runs
        /\ \A h \in DOMAIN runs : runs'[h] = IF h = g THEN r ELSE runs[h]
    BY <1>1, <2>2, <2>3, RunEffect
  <2>5. /\ DOMAIN jobs' = DOMAIN jobs
        /\ \A k \in DOMAIN jobs :
             /\ jobs'[k].unit = jobs[k].unit /\ jobs'[k].key = jobs[k].key
             /\ jobs'[k].status = IF k = j THEN runs[g].result
                                           ELSE jobs[k].status
    BY <1>1, <2>1, <2>3, SavedEffect DEF Statuses
  <2>6. OneRunPerJob'
    <3>1. \A h \in DOMAIN runs : h # g /\ runs[h].pc \in {"saved", "execute"}
            => runs[h].job # j /\ runs[h].job \in DOMAIN jobs
      BY <1>6 DEF QuietParts, OneRunPerJob, ImgIInv, RunsMatch
    <3>2. \A h \in DOMAIN runs : runs'[h].pc \in {"saved", "execute", "save"} =>
            h # g /\ runs'[h] = runs[h]
      BY <2>2, <2>4
    <3> QED
      BY <2>4, <2>5, <3>1, <3>2 DEF QuietParts, OneRunPerJob
  <2>7. MergedIsQuiet'
    BY <1>2, <2>1, <2>5 DEF QuietParts, MergedIsQuiet, chapter, bounds, Ended
  <2> QED
    BY <1>2, <1>3, <2>5, <2>6, <2>7
<1>7. CASE /\ runs[g].pc = "cleanup" /\ UNCHANGED jobs
           /\ runs' = [runs EXCEPT ![g] = NoRun]
  <2>1. NoRun \in Run /\ NoRun.pc = "gone"
    BY <1>1, Elements
  <2>2. /\ DOMAIN runs' = DOMAIN runs
        /\ \A h \in DOMAIN runs : runs'[h] = IF h = g THEN NoRun ELSE runs[h]
    BY <1>1, <1>7, <2>1, RunEffect
  <2>3. OneRunPerJob'
    BY <1>7, <2>1, <2>2 DEF QuietParts, OneRunPerJob
  <2>4. MergedIsQuiet'
    BY <1>2, <1>7 DEF QuietParts, MergedIsQuiet, chapter, bounds
  <2> QED
    BY <1>2, <1>3, <1>7, <2>3, <2>4
<1> QED
  BY <1>2, <1>4, <1>5, <1>6, <1>7

LEMMA QuietOutside ==
  ASSUME ImgIInv, QuietParts, requests = 0,
         WriteUnit \/ Merge \/ \E mode \in Modes : Toggle(mode)
  PROVE  WatcherAlone' /\ OneJobPerUnit' /\ OneRunPerJob' /\ MergedIsQuiet'
<1>1. /\ UNCHANGED <<files, memory, lost, requests>>
      /\ written' = written \/ written' = written + 1
  BY DEF WriteUnit, Merge, Toggle, chapter, bounds
<1>2. written \in Nat /\ toggles \in Nat /\ 1 .. written \subseteq 1 .. written'
  BY <1>1 DEF ImgIInv, TypeOK, Units
<1>3. WatcherAlone' /\ OneJobPerUnit' /\ OneRunPerJob'
  BY <1>1, <1>2 DEF QuietParts, WatcherAlone, OneJobPerUnit, OneRunPerJob,
                    JobsOf, files, memory
<1>4. MergedIsQuiet'
  <2>1. CASE WriteUnit
    BY <2>1 DEF WriteUnit, MergedIsQuiet
  <2>2. CASE \E mode \in Modes : Toggle(mode)
    BY <1>2, <2>2 DEF Toggle, MergedIsQuiet
  <2>3. CASE Merge
    <3> SUFFICES ASSUME settings = "auto", NEW j \in DOMAIN jobs
                 PROVE  jobs[j].status # "active"
      BY <1>1, <2>3 DEF Merge, MergedIsQuiet, files, bounds
    <3>1. jobs[j].unit \in 1 .. total
      BY DEF QuietParts, OneJobPerUnit, ImgIInv, TypeOK, Units
    <3>2. Settled(jobs[j].unit)
      BY <2>3, <3>1 DEF Merge
    <3>3. PICK k \in JobsOf(jobs[j].unit) : jobs[k].status \in Ended
      BY <3>2 DEF Settled, Completed, Ended
    <3>4. k = j
      BY <3>3 DEF JobsOf, QuietParts, OneJobPerUnit
    <3> QED
      BY <3>3, <3>4 DEF Ended
  <2> QED
    BY <2>1, <2>2, <2>3
<1> QED
  BY <1>3, <1>4

LEMMA QuietCrash ==
  ASSUME ImgIInv, QuietParts, Crash
  PROVE  WatcherAlone' /\ OneJobPerUnit' /\ OneRunPerJob' /\ MergedIsQuiet'
<1>1. /\ call' = [c \in Callers |-> IdleCall]
      /\ runs' = [g \in DOMAIN runs |-> NoRun]
      /\ UNCHANGED <<settings, chapter, files, requests, toggles>>
  BY DEF Crash
<1>2. /\ NoRun.pc = "gone" /\ IdleCall.pc = "idle" /\ IdleCall.key = "auto"
  BY DEF NoRun, IdleCall
<1>3. WatcherAlone' /\ OneRunPerJob'
  BY <1>1, <1>2 DEF WatcherAlone, OneRunPerJob
<1>4. OneJobPerUnit' /\ MergedIsQuiet'
  BY <1>1 DEF QuietParts, OneJobPerUnit, MergedIsQuiet, chapter, files
<1> QED
  BY <1>3, <1>4

LEMMA QuietInit == Init => QuietInv
<1> SUFFICES ASSUME Init PROVE QuietParts
  BY DEF QuietInv, QuietParts
<1>1. IdleCall.pc = "idle" /\ IdleCall.key = "auto" /\ DOMAIN <<>> = {}
  BY DEF IdleCall
<1> QED
  BY <1>1 DEF Init, QuietParts, WatcherAlone, OneJobPerUnit, OneRunPerJob,
              EveryUnitWasTried, MergedIsQuiet

LEMMA QuietStep == ImgIInv /\ QuietInv /\ [Next]_vars => QuietInv'
<1> SUFFICES ASSUME ImgIInv, QuietInv, [Next]_vars, requests' = 0
             PROVE  QuietParts'
  BY DEF QuietInv, QuietParts
<1>1. requests = 0
  BY Outside DEF ImgIInv, TypeOK
<1>2. QuietParts
  BY <1>1 DEF QuietInv, QuietParts
<1>3. EveryUnitWasTried'
  BY <1>2, TriedStep DEF QuietParts
<1> DEFINE Rest == /\ WatcherAlone /\ OneJobPerUnit /\ OneRunPerJob
                   /\ MergedIsQuiet
<1>4. ASSUME UNCHANGED vars PROVE Rest'
  BY <1>2, <1>4 DEF QuietParts, WatcherAlone, OneJobPerUnit, OneRunPerJob,
       MergedIsQuiet, JobsOf, vars, chapter, files, memory, bounds
<1>5. ASSUME NEW u \in Units, Tick(u) PROVE Rest'
  BY <1>2, <1>5, QuietTick
<1>6. ASSUME NEW c \in Users, UserStep(c) PROVE FALSE
  BY <1>1, <1>6 DEF UserStep, UserStart, Cancel, Retry
<1>7. ASSUME NEW c \in Callers, CallStep(c) PROVE Rest'
  <2>1. c = Watcher /\ ~CancelSaves(c)
    BY <1>2, <1>7 DEF QuietParts, WatcherAlone, CallStep, StartReturns,
         StartFails, StartProceeds, StartSaves, Launch, CancelSaves
  <2> QED
    BY <1>2, <1>7, <2>1, QuietCheck, QuietSave, QuietLaunch DEF CallStep
<1>8. ASSUME NEW g \in DOMAIN runs, Report(g) \/ RunStep(g) PROVE Rest'
  BY <1>2, <1>8, QuietRun
<1>9. ASSUME WriteUnit \/ Merge \/ \E mode \in Modes : Toggle(mode)
      PROVE  Rest'
  BY <1>1, <1>2, <1>9, QuietOutside
<1>10. ASSUME Crash PROVE Rest'
  BY <1>2, <1>10, QuietCrash
<1>11. Rest'
  <2> HIDE DEF Rest
  <2> QED
    BY <1>4, <1>5, <1>6, <1>7, <1>8, <1>9, <1>10 DEF Next
<1> QED
  BY <1>3, <1>11 DEF QuietParts

(* Nothing is generated for a merged chapter unless the user asks for it. *)
THEOREM MergedStaysQuiet == Spec => []MergedIsQuiet
<1>1. QuietInv => MergedIsQuiet
  BY DEF QuietInv, QuietParts, MergedIsQuiet
<1>2. Spec => []QuietInv
  BY QuietInit, QuietStep, Inductive, PTL DEF Spec
<1> QED
  BY <1>1, <1>2, PTL
================================================================================
