------------------------------- MODULE ImageJobs -------------------------------
(***************************************************************************)
(* The images of a chapter: jobs (internal/imagejob/service), the watcher  *)
(* that starts one for every unit that has been written                    *)
(* (internal/host/unit_images.go) and the engine, which merges the chapter *)
(* when they have ended (internal/host/engine.go, waitForChapterImages).   *)
(*                                                                         *)
(* A job is a file.  The goroutine that works on it holds a copy, saves it *)
(* with every report and once more at the end; Cancel and Retry save       *)
(* copies of their own.  Nothing but a job's status and its start change   *)
(* after its first save, so that a copy is a status and a start.           *)
(*                                                                         *)
(* Starts are numbered: the k-th save that begins a job or an attempt      *)
(* stands for StartedAt = k, and runs[k] is the goroutine it leads to.     *)
(***************************************************************************)
EXTENDS Naturals, Sequences

CONSTANTS
  MaxUnits,     \* bound on the writing units of the chapter
  Users,        \* handlers of HTTP requests that run at the same time
  Watcher,      \* the goroutine of startCompletedUnitWatcher
  Size          \* bound on units and disturbances together, see CanMove

Units   == 1 .. MaxUnits
Callers == Users \cup {Watcher}

ASSUME UnitsAssumption   == MaxUnits \in Nat \ {0}
ASSUME CallersAssumption == Watcher \notin Users
ASSUME SizeAssumption    == Size \in Nat

\* settings.Novel: disabled, enabled, enabled with AutoGenerate
Modes    == {"off", "manual", "auto"}
\* The idempotency key of a request: Manual is hashed, Force makes it unique
Keys     == {"auto", "manual", "forced"}
\* TerminalStatus; a timeout counts as failed
Ended    == {"completed", "failed", "cancelled"}
\* prompting, validating, binding, submitting, queued and running are "active"
Statuses == Ended \cup {"active"}

Job  == [unit : Units, key : Keys, status : Statuses, started : Nat]
Call == [pc : {"idle", "check", "save", "launch", "cancel"},
         unit : Units \cup {0}, key : Keys, job : Nat, stamp : Nat]
Run  == [pc : {"saved", "execute", "save", "cleanup", "gone"}, job : Nat,
         cancelled : BOOLEAN, result : Statuses]

VARIABLES
  settings,   \* the mode in settings.json
  total,      \* the units the chapter's plan has
  written,    \* completed units of the chapter
  engine,     \* writing units, waiting for images, chapter merged
  jobs,       \* the job files, by the order of their creation
  pictures,   \* units whose image is in the chapter's directory
  attempted,  \* the watcher's memory of units it is done with
  call,       \* Start, Cancel and Retry in progress, with their copies
  runs,       \* the goroutines, by start
  running,    \* Service.running: the goroutine whose cancel function is kept
  lost,       \* jobs that were active when the process died, until retried
  requests,   \* requests of the users so far
  failures,   \* starts refused by the configuration
  toggles,    \* changes of the settings
  crashes     \* process deaths

chapter == <<total, written, engine>>
files   == <<jobs, pictures>>
memory  == <<attempted, call, runs, running>>
bounds  == <<requests, failures, toggles, crashes>>
vars    == <<settings, chapter, files, memory, lost, bounds>>

\* Requests, refused starts, changes of the settings and process deaths are
\* bounded by what the units leave of Size
CanMove == total + requests + failures + toggles + crashes < Size

IdleCall == [pc |-> "idle", unit |-> 0, key |-> "auto", job |-> 0, stamp |-> 0]
NoRun    == [pc |-> "gone", job |-> 0, cancelled |-> FALSE, result |-> "active"]

Init ==
  /\ settings \in Modes
  /\ total \in Units
  /\ written = 0
  /\ engine = "writing"
  /\ jobs = <<>>
  /\ pictures = {}
  /\ attempted = {}
  /\ call = [c \in Callers |-> IdleCall]
  /\ runs = <<>>
  /\ running = <<>>
  /\ lost = {}
  /\ requests = 0 /\ failures = 0 /\ toggles = 0 /\ crashes = 0

--------------------------------------------------------------------------------
(* Start *)

JobsOf(u) == {j \in DOMAIN jobs : jobs[j].unit = u}

\* The watcher comes to a unit it is not done with
Tick(u) ==
  /\ settings = "auto"
  /\ u <= written
  /\ u \notin attempted
  /\ call[Watcher].pc = "idle"
  /\ call' = [call EXCEPT ![Watcher] = [IdleCall EXCEPT !.pc = "check",
                                                        !.unit = u]]
  /\ UNCHANGED <<settings, chapter, files, attempted, runs, running,
                 lost, bounds>>

\* The user asks for the image of a unit that has a text
UserStart(c, u, key) ==
  /\ CanMove
  /\ call[c].pc = "idle"
  /\ u <= written
  /\ call' = [call EXCEPT ![c] = [IdleCall EXCEPT !.pc = "check", !.unit = u,
                                                  !.key = key]]
  /\ requests' = requests + 1
  /\ UNCHANGED <<settings, chapter, files, attempted, runs, running,
                 lost, failures, toggles, crashes>>

\* shouldGenerate
Wanted(c) ==
  settings = "auto" \/ (settings = "manual" /\ call[c].key # "auto")

\* Mutant: the key looks at jobs in flight only
ExistingInFlight(c) ==
  \E j \in JobsOf(call[c].unit) :
    jobs[j].key = call[c].key /\ jobs[j].status = "active"

\* FindJobByIdempotencyKey
Existing(c) ==
  call[c].key # "forced" /\ \E j \in JobsOf(call[c].unit) :
                                jobs[j].key = call[c].key

\* sameBusyIdentity
Busy(c) == \E j \in JobsOf(call[c].unit) : jobs[j].status = "active"

\* What the watcher remembers of a start that returned no error
Done(c) == attempted \cup {u \in {call[c].unit} : c = Watcher}

\* Start returns without a new job
StartReturns(c) ==
  /\ call[c].pc = "check"
  /\ \/ ~Wanted(c) /\ attempted' = Done(c)
     \/ Wanted(c) /\ Existing(c) /\ attempted' = Done(c)
     \/ Wanted(c) /\ ~Existing(c) /\ Busy(c) /\ UNCHANGED attempted
  /\ call' = [call EXCEPT ![c] = IdleCall]
  /\ UNCHANGED <<settings, chapter, files, runs, running, lost, bounds>>

\* No profile, provider disabled, files unreadable
StartFails(c) ==
  /\ CanMove
  /\ call[c].pc \in {"check", "save"}
  /\ call' = [call EXCEPT ![c] = IdleCall]
  /\ failures' = failures + 1
  /\ UNCHANGED <<settings, chapter, files, attempted, runs, running,
                 lost, requests, toggles, crashes>>

StartProceeds(c) ==
  /\ call[c].pc = "check"
  /\ Wanted(c) /\ ~Existing(c) /\ ~Busy(c)
  /\ call' = [call EXCEPT ![c].pc = "save"]
  /\ UNCHANGED <<settings, chapter, files, attempted, runs, running,
                 lost, bounds>>

\* The number of the next start, and the goroutine it will have
Now       == Len(runs) + 1
Begun(j)  == Append(runs, [NoRun EXCEPT !.pc = "saved", !.job = j])
Launching(c, j) == [call EXCEPT ![c] = [IdleCall EXCEPT
                      !.pc = "launch", !.unit = call[c].unit, !.job = j,
                      !.stamp = Now]]

StartSaves(c) ==
  /\ call[c].pc = "save"
  /\ jobs' = Append(jobs, [unit |-> call[c].unit, key |-> call[c].key,
                           status |-> "active", started |-> Now])
  /\ running' = Append(running, 0)
  /\ runs' = Begun(Len(jobs) + 1)
  /\ call' = Launching(c, Len(jobs) + 1)
  /\ UNCHANGED <<settings, chapter, pictures, attempted, lost, bounds>>

\* launch, and the return of Start or Retry
Launch(c) ==
  LET job == call[c].job
      g   == call[c].stamp
  IN  /\ call[c].pc = "launch"
      /\ runs' = [runs EXCEPT ![g].pc = "execute"]
      /\ running' = [running EXCEPT ![job] = g]
      /\ attempted' = Done(c)
      /\ call' = [call EXCEPT ![c] = IdleCall]
      /\ UNCHANGED <<settings, chapter, files, lost, bounds>>

--------------------------------------------------------------------------------
(* Cancel and Retry *)

\* SaveJob of a copy of job j
Saved(j, status, stamp) ==
  [jobs EXCEPT ![j] = [@ EXCEPT !.status = status, !.started = stamp]]

\* The copy is loaded, the goroutine whose cancel function is kept is told
Cancel(c, j) ==
  /\ CanMove
  /\ call[c].pc = "idle"
  /\ runs' = [g \in DOMAIN runs |-> IF g = running[j]
                THEN [runs[g] EXCEPT !.cancelled = TRUE] ELSE runs[g]]
  /\ call' = [call EXCEPT ![c] = [IdleCall EXCEPT
                !.pc = "cancel", !.job = j, !.stamp = jobs[j].started]]
  /\ requests' = requests + 1
  /\ UNCHANGED <<settings, chapter, files, attempted, running, lost,
                 failures, toggles, crashes>>

CancelSaves(c) ==
  /\ call[c].pc = "cancel"
  /\ jobs' = Saved(call[c].job, "cancelled", call[c].stamp)
  /\ call' = [call EXCEPT ![c] = IdleCall]
  /\ UNCHANGED <<settings, chapter, pictures, attempted, runs, running,
                 lost, bounds>>

\* A new attempt, whatever the job's status
Retry(c, j) ==
  /\ CanMove
  /\ call[c].pc = "idle"
  /\ jobs' = Saved(j, "active", Now)
  /\ runs' = Begun(j)
  /\ call' = Launching(c, j)
  /\ lost' = lost \ {j}
  /\ requests' = requests + 1
  /\ UNCHANGED <<settings, chapter, pictures, attempted, running,
                 failures, toggles, crashes>>

--------------------------------------------------------------------------------
(* The goroutine of a job *)

\* jobReporter: any of the active statuses
Report(g) ==
  /\ runs[g].pc = "execute"
  /\ jobs' = Saved(runs[g].job, "active", g)
  /\ UNCHANGED <<settings, chapter, pictures, memory, lost, bounds>>

\* Provider.Execute returns, and persistOutputs puts the image into the chapter's
\* directory, an error of this write being ignored; a second image may still fail
Executed(g, result, pics) ==
  /\ runs[g].pc = "execute"
  /\ result = "cancelled" => runs[g].cancelled
  /\ pics \in {pictures, pictures \cup {jobs[runs[g].job].unit}}
  /\ pictures' = pics
  /\ runs' = [runs EXCEPT ![g].pc = "save", ![g].result = result]
  /\ UNCHANGED <<settings, chapter, jobs, attempted, call, running,
                 lost, bounds>>

\* Mutant: an execution that has been cancelled never returns
ExecuteReturnsUncancelled(g) ==
  /\ ~runs[g].cancelled
  /\ \E result \in Ended, pics \in SUBSET Units : Executed(g, result, pics)

ExecuteReturns(g) ==
  \E result \in Ended, pics \in SUBSET Units : Executed(g, result, pics)

\* Mutant: Cancel is trusted to have saved the job
ResultSavedUnlessCancelled(g) ==
  /\ runs[g].pc = "save"
  /\ jobs' = IF runs[g].cancelled THEN jobs
             ELSE Saved(runs[g].job, runs[g].result, g)
  /\ runs' = [runs EXCEPT ![g].pc = "cleanup"]
  /\ UNCHANGED <<settings, chapter, pictures, attempted, call, running,
                 lost, bounds>>

ResultSaved(g) ==
  /\ runs[g].pc = "save"
  /\ jobs' = Saved(runs[g].job, runs[g].result, g)
  /\ runs' = [runs EXCEPT ![g].pc = "cleanup"]
  /\ UNCHANGED <<settings, chapter, pictures, attempted, call, running,
                 lost, bounds>>

\* The deferred delete is by job, whose cancel function may be another's
Cleanup(g) ==
  /\ runs[g].pc = "cleanup"
  /\ running' = [running EXCEPT ![runs[g].job] = 0]
  /\ runs' = [runs EXCEPT ![g] = NoRun]
  /\ UNCHANGED <<settings, chapter, files, attempted, call, lost,
                 bounds>>

--------------------------------------------------------------------------------
(* The engine *)

WriteUnit ==
  /\ engine = "writing"
  /\ written' = written + 1
  /\ engine' = IF written' = total THEN "waiting" ELSE "writing"
  /\ UNCHANGED <<settings, total, files, memory, lost, bounds>>

\* loadChapterImageProgress: completed, or the job started last has ended
Completed(u) ==
  u \in pictures /\ \E j \in JobsOf(u) : jobs[j].status = "completed"
\* Mutants: no job is in flight; only completed units are settled
SettledWhenIdle(u) ==
  \A j \in JobsOf(u) : jobs[j].status \in Ended
SettledWhenCompleted(u) == Completed(u)
Settled(u) ==
  \/ Completed(u)
  \/ \E j \in JobsOf(u) : /\ jobs[j].status \in Ended
                          /\ \A k \in JobsOf(u) :
                                jobs[k].started <= jobs[j].started

\* waitForChapterImages returns, the chapter is put together from its files
Merge ==
  /\ engine = "waiting"
  /\ settings = "auto" => \A u \in 1 .. total : Settled(u)
  /\ engine' = "merged"
  /\ UNCHANGED <<settings, total, written, files, memory, lost, bounds>>

--------------------------------------------------------------------------------
(* The settings, and process deaths *)

Toggle(mode) ==
  /\ CanMove
  /\ mode # settings
  /\ settings' = mode
  /\ toggles' = toggles + 1
  /\ UNCHANGED <<chapter, files, memory, lost, requests, failures,
                 crashes>>

\* Nothing looks at the job files when the program starts again
Crash ==
  /\ CanMove
  /\ attempted' = {}
  /\ call' = [c \in Callers |-> IdleCall]
  /\ runs' = [g \in DOMAIN runs |-> NoRun]
  /\ running' = [j \in DOMAIN running |-> 0]
  /\ lost' = {j \in DOMAIN jobs : jobs[j].status = "active"}
  /\ crashes' = crashes + 1
  /\ UNCHANGED <<settings, chapter, files, requests, failures, toggles>>

--------------------------------------------------------------------------------
CallStep(c) == \/ StartReturns(c) \/ StartFails(c) \/ StartProceeds(c)
               \/ StartSaves(c) \/ Launch(c) \/ CancelSaves(c)

RunStep(g) == ExecuteReturns(g) \/ ResultSaved(g) \/ Cleanup(g)

UserStep(c) ==
  \/ \E u \in Units, key \in {"manual", "forced"} : UserStart(c, u, key)
  \/ \E j \in DOMAIN jobs : Cancel(c, j) \/ Retry(c, j)

Next ==
  \/ \E u \in Units : Tick(u)
  \/ \E c \in Users : UserStep(c)
  \/ \E c \in Callers : CallStep(c)
  \/ \E g \in DOMAIN runs : Report(g) \/ RunStep(g)
  \/ WriteUnit \/ Merge \/ Crash
  \/ \E mode \in Modes : Toggle(mode)

Spec == Init /\ [][Next]_vars

\* More starts than these cannot be: the watcher's jobs have one key per unit
Stamps == 1 .. Size

\* Calls and goroutines go on (every execution has a timeout), the engine polls,
\* every tick of the watcher comes to every unit
Fairness ==
  /\ \A c \in Callers : WF_vars(CallStep(c))
  /\ \A g \in Stamps : WF_vars(g \in DOMAIN runs /\ RunStep(g))
  /\ \A u \in Units : SF_vars(Tick(u))
  /\ WF_vars(Merge)

FairSpec == Spec /\ Fairness
--------------------------------------------------------------------------------
(* Properties *)

TypeOK ==
  /\ settings \in Modes
  /\ total \in Units
  /\ written \in 0 .. total
  /\ written = total <=> engine # "writing"
  /\ engine \in {"writing", "waiting", "merged"}
  /\ jobs \in Seq(Job)
  /\ pictures \subseteq Units
  /\ attempted \subseteq Units
  /\ call \in [Callers -> Call]
  /\ runs \in Seq(Run)
  /\ running \in Seq(Nat)
  /\ Len(running) = Len(jobs)
  /\ lost \subseteq DOMAIN jobs
  /\ requests \in Nat /\ failures \in Nat /\ toggles \in Nat /\ crashes \in Nat

\* A call that starts a job has a unit, a call about to launch has a goroutine
CallsMatch ==
  /\ call[Watcher].pc # "idle" => call[Watcher].unit \in Units
  /\ \A c \in Callers :
    /\ call[c].pc \in {"check", "save"} => call[c].unit \in Units
    /\ call[c].pc \in {"launch", "cancel"} => call[c].job \in DOMAIN jobs
    /\ call[c].pc = "launch" =>
         /\ call[c].stamp \in DOMAIN runs
         /\ runs[call[c].stamp].pc = "saved"
         /\ runs[call[c].stamp].job = call[c].job
    /\ \A d \in Callers : /\ c # d
                          /\ call[c].pc = "launch" /\ call[d].pc = "launch"
                          => call[c].stamp # call[d].stamp

RunsMatch ==
  \A g \in DOMAIN runs :
    /\ runs[g].pc # "gone" => runs[g].job \in DOMAIN jobs
    /\ runs[g].pc = "saved" =>
         \E c \in Callers : call[c].pc = "launch" /\ call[c].stamp = g
    /\ runs[g].pc \in {"save", "cleanup"} => runs[g].result \in Ended

WorkedOn(j) ==
  \E g \in DOMAIN runs :
    runs[g].job = j /\ runs[g].pc \in {"saved", "execute", "save"}

\* A job whose file says that it is in flight has a goroutine, or a call about
\* to start one, that will still save its result; only the death of the
\* process leaves one behind (service.go:238-242, 359, 430, 457-461, 491).
InFlightIsWorkedOn ==
  \A j \in DOMAIN jobs :
    jobs[j].status = "active" => j \in lost \/ WorkedOn(j)

\* The inductive invariant: the types, the copies and registers of calls and
\* goroutines match the job files, and no job in flight is forgotten.
ImgIInv == TypeOK /\ CallsMatch /\ RunsMatch /\ InFlightIsWorkedOn

\* With automatic images all the time, a chapter is merged only when every one
\* of its units was given a job: the engine waits for units whose job the
\* watcher has yet to create (engine.go:369-406).
EveryUnitWasTried ==
  engine = "merged" /\ settings = "auto" /\ toggles = 0 =>
    \A u \in 1 .. total : JobsOf(u) # {}

\* Without requests of the user a merged chapter stays quiet: no job for it is
\* in flight and none is started, also when the program is restarted and its
\* watcher has forgotten what it did (unit_images.go:49-61, service.go:208-209).
MergedIsQuiet ==
  engine = "merged" /\ settings = "auto" /\ toggles = 0 /\ requests = 0 =>
    \A j \in DOMAIN jobs : jobs[j].status # "active"

\* Once the user lets them be, all jobs have ended for good, those excepted
\* that a process death left behind (service.go:344-359: a last save by each
\* goroutine).
JobsSettle ==
  <>[](\A j \in DOMAIN jobs : jobs[j].status # "active" \/ j \in lost)

\* The engine's wait for the images ends, unless a process death left a job in
\* flight or the watcher was told "skipped" for a unit and is done with it
\* (engine.go:324, unit_images.go:60).
WaitEnds ==
  engine = "waiting" ~>
    \/ engine = "merged"
    \/ \E j \in lost : jobs[j].status = "active"
    \/ \E u \in attempted : JobsOf(u) = {}

\* What the program's documents say, and the code does not:
\* one job in flight per unit (service.go:246-247)
OneJobInFlight ==
  \A j, k \in DOMAIN jobs :
    jobs[j].unit = jobs[k].unit /\ jobs[j].status = "active"
      /\ jobs[k].status = "active" => j = k

\* no job is in flight for ever: those of a dead process are resumed or end
\* (docs/history/novel_comfy_bridge_architecture.md:192-200)
RestartRecovers == engine = "waiting" ~> engine = "merged"

\* every picture is there when the chapter is complete (README.md:58)
MergedHasPictures ==
  engine = "merged" /\ settings = "auto" /\ toggles = 0 =>
    pictures = 1 .. total

\* a unit that has not changed is generated once, unless the user asks again
\* (docs/history/novel_comfy_bridge_architecture.md:180-187)
SameTextSameJob ==
  \A j, k \in DOMAIN jobs :
    jobs[j].unit = jobs[k].unit /\ "forced" \notin {jobs[j].key, jobs[k].key}
      => j = k
================================================================================
