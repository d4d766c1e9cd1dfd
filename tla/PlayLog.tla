-------------------------------- MODULE PlayLog --------------------------------
(***************************************************************************)
(* The logs of a theatre play as the workbench shows them: two files,      *)
(* events and stream, that grow and are rotated (internal/store/           *)
(* galgame_log.go), a broker that hands every addition to subscribers      *)
(* (internal/host/playlog.go), and a handler of GET /log/stream that       *)
(* subscribes first, then reads the end of both files, and sends what its  *)
(* channel holds beyond that (internal/entry/web/play.go).                 *)
(*                                                                         *)
(* A record has length 1 and is its own number; records count up in each   *)
(* file, so that order, gaps and repetitions in what the handler has sent  *)
(* can be told.                                                            *)
(***************************************************************************)
EXTENDS Naturals, Sequences

CONSTANTS
  Kinds,        \* the files
  MaxRecords,   \* bound on the records of a file
  Cap,          \* tavernLogCapBytes
  TailLength,   \* playLogTailBytes
  Buffer,       \* playLogClientBuffer
  MaxFaults     \* bound on failed writes, failed rotations and restarts

ASSUME KindsAssumption == "nothing" \notin Kinds
ASSUME SizesAssumption == {MaxRecords, Cap, TailLength, Buffer, MaxFaults}
                            \subseteq Nat

VARIABLES
  file,        \* the active file
  size,        \* tavernLogState.size
  epoch,       \* tavernLogState.epoch
  last,        \* number of the last record somebody tried to write
  locked,      \* logMu: the file some writer works on
  written,     \* its record is in the file
  pc,          \* the handler: "off", "subscribed", "live"
  snap,        \* what it knows of a file's end, once it has read it
  channel,     \* its channel
  sent,        \* what it has sent, by file
  due,         \* records handed on since it subscribed or, later, read the file
  overflow,    \* those of them that found the channel full
  faults

vars == <<file, size, epoch, last, locked, written, pc, snap, channel, sent, due,
          overflow, faults>>
logs == <<file, size, epoch, last, locked, written>>
handler == <<pc, snap, channel, sent, due, overflow>>

Nothing == "nothing"
Unread  == [epoch |-> 0, end |-> 0, read |-> FALSE]

Fault == faults < MaxFaults /\ faults' = faults + 1

End(s, n) == SubSeq(s, IF Len(s) > n THEN Len(s) - n + 1 ELSE 1, Len(s))

--------------------------------------------------------------------------------
(* Writers.  appendTavernLog holds logMu from the rotation to the observer.       *)

Full(k) == size[k] > 0 /\ size[k] + 1 > Cap

\* A full file is renamed away or, when that fails, cut.  When both fail it keeps its
\* records, and they are no longer counted.
Begin(k) ==
  /\ locked = Nothing
  /\ last[k] < MaxRecords
  /\ last' = [last EXCEPT ![k] = @ + 1]
  /\ locked' = k
  /\ written' = FALSE
  /\ IF Full(k)
     THEN /\ size'  = [size  EXCEPT ![k] = 0]
          /\ epoch' = [epoch EXCEPT ![k] = @ + 1]
          /\ \/ file' = [file EXCEPT ![k] = <<>>] /\ UNCHANGED faults
             \/ Fault /\ UNCHANGED file
     ELSE UNCHANGED <<file, size, epoch, faults>>
  /\ UNCHANGED handler

Write(k) ==
  /\ locked = k /\ ~written
  /\ file' = [file EXCEPT ![k] = Append(@, last[k])]
  /\ written' = TRUE
  /\ UNCHANGED <<size, epoch, last, locked, handler, faults>>

\* The write or the sync fails: the record may be in the file, nobody is told.
WriteFails(k) ==
  /\ locked = k /\ ~written
  /\ Fault
  /\ \/ UNCHANGED file
     \/ file' = [file EXCEPT ![k] = Append(@, last[k])]
  /\ locked' = Nothing
  /\ UNCHANGED <<size, epoch, last, written, handler>>

\* The broker hands the record on, without waiting for anybody.
Observe(k) ==
  /\ locked = k /\ written
  /\ locked' = Nothing
  /\ size' = [size EXCEPT ![k] = @ + 1]
  /\ IF pc = "off" THEN UNCHANGED <<channel, due, overflow>>
     ELSE /\ due' = [due EXCEPT ![k] = @ \cup {last[k]}]
          /\ IF Len(channel) < Buffer
             THEN /\ channel' = Append(channel, [kind |-> k, epoch |-> epoch[k],
                                                 off |-> size[k], record |-> last[k]])
                  /\ UNCHANGED overflow
             ELSE /\ overflow' = [overflow EXCEPT ![k] = @ \cup {last[k]}]
                  /\ UNCHANGED channel
  /\ UNCHANGED <<file, epoch, last, written, pc, snap, sent, faults>>

--------------------------------------------------------------------------------
(* The handler of one client.                                                     *)

None == [k \in Kinds |-> {}]

Subscribe ==
  /\ pc = "off"
  /\ pc' = "subscribed"
  /\ snap' = [k \in Kinds |-> Unread]
  /\ channel' = <<>>
  /\ sent' = [k \in Kinds |-> <<>>]
  /\ due' = None /\ overflow' = None
  /\ UNCHANGED <<logs, faults>>

\* Mutant: the file is read while a writer may be between writing and handing on.
ReadUnlocked(k) ==
  /\ pc = "subscribed" /\ ~snap[k].read
  /\ snap' = [snap EXCEPT ![k] = [epoch |-> epoch[k], end |-> size[k], read |-> TRUE]]
  /\ sent' = [sent EXCEPT ![k] = End(file[k], TailLength)]
  /\ due' = [due EXCEPT ![k] = {}]
  /\ overflow' = [overflow EXCEPT ![k] = {}]
  /\ UNCHANGED <<logs, pc, channel, faults>>

\* ReadLogTail, under logMu, for one file after the other.
ReadLogTail(k) ==
  /\ pc = "subscribed" /\ ~snap[k].read
  /\ locked = Nothing
  /\ snap' = [snap EXCEPT ![k] = [epoch |-> epoch[k], end |-> size[k], read |-> TRUE]]
  /\ sent' = [sent EXCEPT ![k] = End(file[k], TailLength)]
  /\ due' = [due EXCEPT ![k] = {}]
  /\ overflow' = [overflow EXCEPT ![k] = {}]
  /\ UNCHANGED <<logs, pc, channel, faults>>

SendSnapshot ==
  /\ pc = "subscribed" /\ \A k \in Kinds : snap[k].read
  /\ pc' = "live"
  /\ UNCHANGED <<logs, snap, channel, sent, due, overflow, faults>>

AfterSnapshot(item) ==
  LET s == snap[item.kind]
  IN  IF item.epoch # s.epoch THEN item.epoch > s.epoch ELSE item.off >= s.end

SendItem ==
  /\ pc = "live" /\ channel # <<>>
  /\ LET item == Head(channel)
     IN  sent' = IF AfterSnapshot(item)
                 THEN [sent EXCEPT ![item.kind] = Append(@, item.record)] ELSE sent
  /\ channel' = SubSeq(channel, 2, Len(channel))
  /\ UNCHANGED <<logs, pc, snap, due, overflow, faults>>

Leave ==
  /\ pc # "off"
  /\ pc' = "off"
  /\ UNCHANGED <<logs, snap, channel, sent, due, overflow, faults>>

\* The process dies and comes back: the sizes are those of the files.
Restart ==
  /\ Fault
  /\ size'  = [k \in Kinds |-> Len(file[k])]
  /\ epoch' = [k \in Kinds |-> 0]
  /\ locked' = Nothing
  /\ pc' = "off"
  /\ written' = FALSE
  /\ UNCHANGED <<file, last, snap, channel, sent, due, overflow>>
--------------------------------------------------------------------------------
Init ==
  /\ file = [k \in Kinds |-> <<>>]
  /\ size = [k \in Kinds |-> 0] /\ epoch = [k \in Kinds |-> 0]
  /\ last = [k \in Kinds |-> 0]
  /\ locked = Nothing /\ written = FALSE
  /\ pc = "off"
  /\ snap = [k \in Kinds |-> Unread]
  /\ channel = <<>>
  /\ sent = [k \in Kinds |-> <<>>]
  /\ due = None /\ overflow = None
  /\ faults = 0

Next == \/ \E k \in Kinds : \/ Begin(k) \/ Write(k) \/ WriteFails(k)
                            \/ Observe(k) \/ ReadLogTail(k)
        \/ Subscribe \/ SendSnapshot \/ SendItem \/ Leave \/ Restart

Spec == Init /\ [][Next]_vars

--------------------------------------------------------------------------------
Rising(s) == \A i, j \in DOMAIN s : i < j => s[i] < s[j]

\* The places in the channel of what the handler is going to send of a file.
ToCome(k) == {i \in DOMAIN channel : channel[i].kind = k /\ AfterSnapshot(channel[i])}

\* galgame_log.go:121-123, play.go:187-189: subscribe first, read the file next, and
\* no record is missed or repeated, across rotations and failed writes, however long
\* the two reads take.  What has been sent and what will be when the channel is empty
\* is in the order of the file, every record once, and what was handed on since the
\* file was read is there, unless the channel was full.
NoGapNoRepetition ==
  \A k \in Kinds :
    pc # "off" /\ snap[k].read =>
      /\ Rising(sent[k])
      /\ \A i \in ToCome(k), j \in DOMAIN sent[k] : sent[k][j] < channel[i].record
      /\ \A i, j \in ToCome(k) : i < j => channel[i].record < channel[j].record
      /\ \A r \in due[k] \ overflow[k] :
           \/ \E j \in DOMAIN sent[k] : sent[k][j] = r
           \/ \E i \in ToCome(k) : channel[i].record = r
================================================================================
