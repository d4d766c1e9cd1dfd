-------------------------------- MODULE FactLog --------------------------------
(***************************************************************************)
(* An append-only file of facts (internal/store/append_log.go), the one    *)
(* behind the timeline: timeline.jsonl, timeline.json of earlier versions, *)
(* and timeline.md, a copy for human readers (internal/store/world.go).    *)
(* state_changes.jsonl is the same file without the copy.                  *)
(*                                                                         *)
(* A call holds the lock of the store from its beginning to its end, so    *)
(* that calls do not interleave; a step is what can fail, or be the last   *)
(* one before the process dies or the power fails.  Appending hands whole  *)
(* lines to the system one after the other; a line may be cut off.         *)
(*                                                                         *)
(* Assumed of the file system: the bytes appended to a file reach the disk *)
(* in their order, and all of them have when a sync returns; renames and   *)
(* removals are on the disk when they return.                              *)
(***************************************************************************)
EXTENDS Naturals, Sequences, Functions

CONSTANTS
  Batches,    \* the batches of facts that commits bring
  Legacy,     \* the facts in timeline.json, where there is one
  Junk,       \* a line that is not a record
  MaxFaults   \* bound on failures of the file system, deaths, power failures

Fact == Range(Legacy) \cup UNION {Range(b) : b \in Batches}

ASSUME BatchesAssumption == \A b \in Batches : b \in Seq(Range(b)) /\ b # <<>>
ASSUME LegacyAssumption  == Legacy \in Seq(Range(Legacy)) /\ IsInjective(Legacy)
ASSUME JunkAssumption    == Junk \notin Fact
ASSUME FaultsAssumption  == MaxFaults \in Nat

\* appendLog, as loaded and as reset
Cache  == [loaded : BOOLEAN, hasLog : BOOLEAN, legacyPresent : BOOLEAN, values : Seq(Fact)]
Unread == [loaded |-> FALSE, hasLog |-> FALSE, legacyPresent |-> FALSE, values |-> <<>>]

\* timeline.jsonl: its lines, the first `safe` of which are on the disk for good,
\* and whether the last line is followed by a piece of another
NoFile == [there |-> FALSE, lines |-> <<>>, torn |-> FALSE, safe |-> 0]

VARIABLES
  log,         \* timeline.jsonl
  legacy,      \* timeline.json exists
  copy,        \* the lines of timeline.md
  cache,       \* WorldStore.timeline
  ready,       \* WorldStore.timelineProjectionReady
  pc,          \* the call in progress: what it does next
  batch,       \* its argument
  at,          \* how much of the batch is looked at, then written
  added,       \* the facts of the batch that are new
  confirmed,   \* facts some call has returned success for
  faults

vars == <<log, legacy, copy, cache, ready, pc, batch, at, added, confirmed, faults>>
disk == <<log, legacy, copy>>
call == <<batch, at, added>>

Fault == faults < MaxFaults /\ faults' = faults + 1

--------------------------------------------------------------------------------
\* The lines of the file when one more is appended: it continues a piece.
Extended(file, f) == [file EXCEPT !.lines = Append(@, IF file.torn THEN Junk ELSE f),
                                  !.torn  = FALSE]

\* What a load finds: pieces are cut off, a log supersedes the old file.
Repaired == [log EXCEPT !.torn = FALSE]
Loaded   == [loaded |-> TRUE, hasLog |-> log.there, legacyPresent |-> legacy,
             values |-> IF log.there THEN log.lines ELSE IF legacy THEN Legacy ELSE <<>>]
Readable == ~log.there \/ Junk \notin Range(log.lines)

Load == IF cache.loaded THEN UNCHANGED <<log, cache>>
                        ELSE Readable /\ log' = Repaired /\ cache' = Loaded

\* Mutant: the copy counts as checked after an error.
GiveReady(up) == /\ pc' = "idle"
                 /\ cache' = up
                 /\ UNCHANGED ready

\* An error ends the call; the next one rebuilds the copy.
Give(up) == /\ pc' = "idle"
            /\ cache' = up
            /\ ready' = FALSE

--------------------------------------------------------------------------------
\* AppendTimelineEvents is called.
Begin(b) ==
  /\ pc = "idle"
  /\ pc' = "load"
  /\ batch' = b /\ at' = 0 /\ added' = <<>>
  /\ UNCHANGED <<disk, cache, ready, confirmed, faults>>

LoadSucceeds ==
  /\ pc = "load"
  /\ Load
  /\ pc' = IF ready THEN "scan" ELSE "copy"
  /\ UNCHANGED <<legacy, copy, ready, call, confirmed, faults>>

LoadFails ==
  /\ pc = "load" /\ ~cache.loaded
  /\ \/ Readable /\ Fault
     \/ ~Readable /\ UNCHANGED faults
  /\ log' \in {log, Repaired}
  /\ Give(Unread)
  /\ UNCHANGED <<legacy, copy, call, confirmed>>

\* ensureTimelineProjectionUnlocked
CopyChecked ==
  /\ pc = "copy"
  /\ copy' = cache.values
  /\ ready' = TRUE
  /\ pc' = "scan"
  /\ UNCHANGED <<log, legacy, cache, call, confirmed, faults>>

CopyFails ==
  /\ pc = "copy"
  /\ Fault
  /\ Give(cache)
  /\ UNCHANGED <<disk, call, confirmed>>

\* Mutant: only the log is looked at, not the rest of the batch.
ScanLogOnly ==
  /\ pc = "scan" /\ at < Len(batch)
  /\ at' = at + 1
  /\ added' = IF batch[at + 1] \in Range(cache.values)
              THEN added ELSE Append(added, batch[at + 1])
  /\ UNCHANGED <<disk, cache, ready, pc, batch, confirmed, faults>>

\* One round of the loop that drops what the log has and what comes twice.
Scan ==
  /\ pc = "scan" /\ at < Len(batch)
  /\ at' = at + 1
  /\ added' = IF batch[at + 1] \in Range(cache.values) \cup Range(added)
              THEN added ELSE Append(added, batch[at + 1])
  /\ UNCHANGED <<disk, cache, ready, pc, batch, confirmed, faults>>

\* Mutant: what can be read counts as being on the disk.
ScannedNoSync ==
  /\ pc = "scan" /\ at = Len(batch)
  /\ pc' = IF ~cache.hasLog THEN "create"
           ELSE IF added # <<>> THEN "append" ELSE "remember"
  /\ at' = 0
  /\ UNCHANGED <<disk, cache, ready, batch, added, confirmed, faults>>

\* Its end chooses among a new file, an append and another sync.
Scanned ==
  /\ pc = "scan" /\ at = Len(batch)
  /\ pc' = IF ~cache.hasLog THEN "create"
           ELSE IF added # <<>> THEN "append" ELSE "sync"
  /\ at' = 0
  /\ UNCHANGED <<disk, cache, ready, batch, added, confirmed, faults>>

\* The first append writes a file with all facts, those of the old file included.
Create ==
  /\ pc = "create"
  /\ log' = [there |-> TRUE, lines |-> cache.values \o added, torn |-> FALSE,
             safe |-> Len(cache.values \o added)]
  /\ cache' = [cache EXCEPT !.hasLog = TRUE]
  /\ pc' = "remember"
  /\ UNCHANGED <<legacy, copy, ready, call, confirmed, faults>>

\* A later one appends the new facts.
AppendLine ==
  /\ pc = "append" /\ at < Len(added)
  /\ log' = Extended(log, added[at + 1])
  /\ at' = at + 1
  /\ UNCHANGED <<legacy, copy, cache, ready, pc, batch, added, confirmed, faults>>

Appended ==
  /\ pc = "append" /\ at = Len(added)
  /\ pc' = "sync"
  /\ UNCHANGED <<disk, cache, ready, call, confirmed, faults>>

\* Also when all facts were there: an earlier sync may have failed.
Sync ==
  /\ pc = "sync"
  /\ log' = [log EXCEPT !.safe = Len(log.lines)]
  /\ pc' = "remember"
  /\ UNCHANGED <<legacy, copy, cache, ready, call, confirmed, faults>>

\* Mutant: the cache survives a failed write.
WriteFailsKeepsCache ==
  /\ pc \in {"create", "append", "sync"}
  /\ Fault
  /\ \/ UNCHANGED log
     \/ pc = "append" /\ at < Len(added) /\ log' = [log EXCEPT !.torn = TRUE]
  /\ Give(cache)
  /\ UNCHANGED <<legacy, copy, call, confirmed>>

\* A failed write may leave a piece; the cache is dropped, and the next load
\* looks at the file.
WriteFails ==
  /\ pc \in {"create", "append", "sync"}
  /\ Fault
  /\ \/ UNCHANGED log
     \/ pc = "append" /\ at < Len(added) /\ log' = [log EXCEPT !.torn = TRUE]
  /\ Give(Unread)
  /\ UNCHANGED <<legacy, copy, call, confirmed>>

Remember ==
  /\ pc = "remember"
  /\ cache' = [cache EXCEPT !.values = @ \o added]
  /\ pc' = IF cache.legacyPresent THEN "clean" ELSE "show"
  /\ UNCHANGED <<disk, ready, call, confirmed, faults>>

RemoveLegacy ==
  /\ pc = "clean"
  /\ legacy' = FALSE
  /\ cache' = [cache EXCEPT !.legacyPresent = FALSE]
  /\ pc' = "show"
  /\ UNCHANGED <<log, copy, ready, call, confirmed, faults>>

RemoveFails ==
  /\ pc = "clean"
  /\ Fault
  /\ Give(cache)
  /\ UNCHANGED <<disk, call, confirmed>>

\* The copy is extended, and the call returns.
Show ==
  /\ pc = "show"
  /\ copy' = copy \o added
  /\ confirmed' = confirmed \cup Range(batch)
  /\ pc' = "idle"
  /\ UNCHANGED <<log, legacy, cache, ready, call, faults>>

ShowFails ==
  /\ pc = "show" /\ added # <<>>
  /\ Fault
  /\ \E n \in 0 .. Len(added), piece \in {<<>>, <<Junk>>} :
       copy' = copy \o SubSeq(added, 1, n) \o piece
  /\ Give(cache)
  /\ UNCHANGED <<log, legacy, call, confirmed>>

--------------------------------------------------------------------------------
\* LoadTimeline
Read ==
  /\ pc = "idle" /\ ~cache.loaded
  /\ Load
  /\ UNCHANGED <<legacy, copy, ready, pc, call, confirmed, faults>>

\* The process dies; a line that is being written may be cut off.
Forget == /\ cache' = Unread /\ ready' = FALSE /\ pc' = "idle"
          /\ UNCHANGED <<legacy, call, confirmed>>

Die ==
  /\ Fault
  /\ \/ UNCHANGED log
     \/ pc = "append" /\ at < Len(added) /\ log' = [log EXCEPT !.torn = TRUE]
  /\ \/ UNCHANGED copy
     \/ /\ pc = "show"
        /\ \E n \in 0 .. Len(added), piece \in {<<>>, <<Junk>>} :
             copy' = copy \o SubSeq(added, 1, n) \o piece
  /\ Forget

\* The power fails: lines that were not synced may be gone, or cut.
PowerFails ==
  /\ Fault
  /\ \E n \in log.safe .. Len(log.lines), t \in BOOLEAN :
       /\ t => (n < Len(log.lines) \/ log.torn)
       /\ log' = [log EXCEPT !.lines = SubSeq(@, 1, n), !.torn = t]
  /\ \E n \in 0 .. Len(copy) : copy' = SubSeq(copy, 1, n)
  /\ Forget
--------------------------------------------------------------------------------
Init ==
  /\ log = NoFile
  /\ legacy \in BOOLEAN
  /\ copy = <<>>
  /\ cache = Unread /\ ready = FALSE
  /\ pc = "idle" /\ batch = <<>> /\ at = 0 /\ added = <<>>
  /\ confirmed = IF legacy THEN Range(Legacy) ELSE {}
  /\ faults = 0

Finish == \/ LoadSucceeds \/ CopyChecked \/ Scan \/ Scanned
          \/ Create \/ AppendLine \/ Appended \/ Sync
          \/ Remember \/ RemoveLegacy \/ Show

Fail == \/ LoadFails \/ CopyFails \/ WriteFails \/ RemoveFails \/ ShowFails

Next == \/ \E b \in Batches : Begin(b)
        \/ Finish \/ Fail
        \/ Read \/ Die \/ PowerFails

Spec == Init /\ [][Next]_vars

\* A call that is running comes to an end, and a commit that has failed is run
\* again, whatever other commits do in between (see CommitSaga).
FairSpec == /\ Spec
            /\ WF_vars(Finish)
            /\ \A b \in Batches : SF_vars(Begin(b))

--------------------------------------------------------------------------------
\* The facts a reader finds.
Facts == IF log.there THEN log.lines ELSE IF legacy THEN Legacy ELSE <<>>

File == [there : BOOLEAN, lines : Seq(Fact \cup {Junk}), torn : BOOLEAN, safe : Nat]

TypeOK ==
  /\ log \in File
  /\ legacy \in BOOLEAN
  /\ copy \in Seq(Fact \cup {Junk})
  /\ cache \in Cache
  /\ ready \in BOOLEAN
  /\ pc \in {"idle", "load", "copy", "scan", "create", "append", "sync", "remember",
             "clean", "show"}
  /\ batch \in Seq(Fact)
  /\ at \in Nat
  /\ added \in Seq(Fact)
  /\ confirmed \subseteq Fact
  /\ faults \in 0 .. MaxFaults

\* The file holds records only, none of them twice, and while somebody relies on
\* what was loaded it ends with a whole line.
LogParts ==
  /\ log.lines \in Seq(Fact)
  /\ IsInjective(log.lines)
  /\ log.safe <= Len(log.lines)
  /\ log.torn => ~cache.loaded
  /\ ~log.there => log.lines = <<>> /\ ~log.torn

\* What the call in progress has written and not yet remembered.
Written == CASE pc = "append"               -> SubSeq(added, 1, at)
             [] pc \in {"sync", "remember"} -> added
             [] OTHER                       -> <<>>

\* The cache is what a load would find, up to that.
CacheParts ==
  cache.loaded => /\ cache.legacyPresent = legacy
                  /\ cache.hasLog = log.there
                  /\ Facts = IF log.there THEN cache.values \o Written ELSE cache.values

CallParts ==
  /\ pc # "idle" => batch \in Batches
  /\ pc \notin {"idle", "load"} => cache.loaded
  /\ pc \notin {"idle", "load", "copy"} => ready
  /\ IsInjective(added) /\ Range(added) \subseteq Range(batch)
  /\ pc = "load" => at = 0 /\ added = <<>>
  /\ pc = "copy" => at = 0 /\ added = <<>>
  /\ pc \in {"scan", "create", "append", "sync", "remember"} =>
       Range(added) \cap Range(cache.values) = {}
  /\ pc = "scan" => /\ at <= Len(batch)
                    /\ \A i \in 1 .. at : batch[i] \in Range(cache.values) \cup Range(added)
  /\ pc \in {"create", "append", "sync", "remember", "clean", "show"} =>
       Range(batch) \subseteq Range(cache.values) \cup Range(added)
  /\ pc = "create" => ~log.there
  /\ pc = "append" => log.there /\ at <= Len(added)
  /\ pc = "sync" => log.there
  /\ pc \in {"remember", "clean", "show"} => log.there /\ log.safe = Len(log.lines)
  /\ pc \in {"clean", "show"} => Range(batch) \subseteq Range(cache.values)

\* The copy shows what is loaded, but for the facts this call is to add to it.
CopyParts ==
  ready => /\ cache.loaded
           /\ cache.values = IF pc \in {"clean", "show"} THEN copy \o added ELSE copy

\* append_log.go:9-13: what a call has returned success for is in a file, and on the
\* disk, whatever fails and whenever the process dies or the power fails later: also
\* after the retry of a call whose sync had failed, and while the facts of
\* timeline.json move to the log.
AckedSurvives ==
  confirmed \subseteq IF log.there THEN Range(SubSeq(log.lines, 1, log.safe))
                      ELSE IF legacy THEN Range(Legacy) ELSE {}

\* The type invariant, with what makes it and AckedSurvives inductive: the cache
\* that decides what is new agrees with the file after every failure.
FactIInv == TypeOK /\ LogParts /\ CacheParts /\ CallParts /\ CopyParts /\ AckedSurvives

\* world.go:63-115: between calls the copy for human readers, once checked, holds
\* the facts of the log in their order, whichever writes failed before.
CopyFollowsLog == ready /\ pc = "idle" => copy = Facts

\* The log implements the list that grows without repetition and keeps what it has
\* confirmed.
List == INSTANCE FactList WITH facts <- Facts
ImplementsFactList == List!Spec

\* Once nothing fails any more every batch gets in: no failure leaves a file that
\* cannot be read or a call that cannot succeed.
EveryBatchGetsIn == \A b \in Batches : <>(Range(b) \subseteq confirmed)
================================================================================
