---------------------------- MODULE PlayLogProofs ----------------------------
(***************************************************************************)
(* What the workbench shows of a log has no gap and no repetition, for any *)
(* number of files, records, rotations, restarts and failed writes, and    *)
(* any size of the channel and of the end that is read.                    *)
(*                                                                         *)
(* The property alone is not inductive.  That the snapshot and the channel *)
(* do not overlap rests on positions: every item in the channel lies       *)
(* before the place the file is at (Placed), every snapshot at or before   *)
(* it (Caught).  That nothing comes twice rests on the writer that holds   *)
(* logMu: the record it has not handed on yet is above all others.         *)
(***************************************************************************)
EXTENDS PlayLog, SequenceTheorems, TLAPS

Item     == [kind : Kinds, epoch : Nat, off : Nat, record : Nat]
Snapshot == [epoch : Nat, end : Nat, read : BOOLEAN]

\* The states of a log and of its reader; the types of the files' contents.
LogTypeOK ==
  /\ file \in [Kinds -> Seq(Nat)]
  /\ size \in [Kinds -> Nat] /\ epoch \in [Kinds -> Nat] /\ last \in [Kinds -> Nat]
  /\ locked \in Kinds \cup {Nothing} /\ written \in BOOLEAN
  /\ pc \in {"off", "subscribed", "live"}
  /\ snap \in [Kinds -> Snapshot]
  /\ channel \in Seq(Item)
  /\ sent \in [Kinds -> Seq(Nat)]
  /\ due \in [Kinds -> SUBSET Nat] /\ overflow \in [Kinds -> SUBSET Nat]

\* Records the readers of file k may have: all of them, but for the one in hand.
Known(k, r) == r <= last[k] /\ (locked = k => r < last[k])

\* The file is in order, and a record that is not in it yet is its greatest.
FileInOrder ==
  \A k \in Kinds :
    /\ Rising(file[k])
    /\ \A i \in DOMAIN file[k] :
         file[k][i] <= last[k] /\ (locked = k /\ ~written => file[k][i] < last[k])

\* An item was handed on from before where its file is now.
InLine(item) ==
  /\ Known(item.kind, item.record)
  /\ item.epoch <= epoch[item.kind]
  /\ item.epoch = epoch[item.kind] => item.off < size[item.kind]

\* A file was read no further than it has got.
ReadTo(k, s) ==
  /\ s.epoch <= epoch[k]
  /\ s.epoch = epoch[k] => s.end <= size[k]

\* What is in the channel was handed on, in order, from before where the file is now.
Placed ==
  pc # "off" =>
    /\ \A i \in DOMAIN channel : InLine(channel[i])
    /\ \A i, j \in DOMAIN channel :
         i < j /\ channel[i].kind = channel[j].kind =>
           channel[i].record < channel[j].record

\* What was sent is known, and a snapshot is no further than its file.
Caught ==
  pc # "off" =>
    /\ \A k \in Kinds : \A j \in DOMAIN sent[k] : Known(k, sent[k][j])
    /\ \A k \in Kinds : snap[k].read => ReadTo(k, snap[k])

\* The handler sends once it has read every file.
ReadFirst == pc = "live" => \A k \in Kinds : snap[k].read

LogIInv ==
  /\ LogTypeOK /\ FileInOrder /\ Placed /\ Caught /\ ReadFirst /\ NoGapNoRepetition

\* The middle of the property: places rise, and lie above what was sent.
Orderly(places, items, done) ==
  /\ \A i \in places, j \in DOMAIN done : done[j] < items[i].record
  /\ \A i, j \in places : i < j => items[i].record < items[j].record

USE KindsAssumption, SizesAssumption DEF Nothing

--------------------------------------------------------------------------------
(* Sequences. *)

LEMMA Indexed ==
  ASSUME NEW S, NEW s \in Seq(S)
  PROVE  /\ Len(s) \in Nat /\ DOMAIN s = 1 .. Len(s)
         /\ \A i \in DOMAIN s : i \in Nat /\ s[i] \in S
BY LenProperties, ElementOfSeq

LEMMA Appended ==
  ASSUME NEW S, NEW s \in Seq(S), NEW e \in S
  PROVE  /\ Append(s, e) \in Seq(S)
         /\ DOMAIN Append(s, e) = 1 .. Len(s) + 1
         /\ \A i \in DOMAIN s : Append(s, e)[i] = s[i]
         /\ Append(s, e)[Len(s) + 1] = e
         /\ \A i \in DOMAIN Append(s, e) : i \in DOMAIN s \/ i = Len(s) + 1
<1>1. /\ Append(s, e) \in Seq(S) /\ Len(Append(s, e)) = Len(s) + 1
      /\ \A i \in 1 .. Len(s) : Append(s, e)[i] = s[i]
      /\ Append(s, e)[Len(s) + 1] = e
  BY AppendProperties
<1>2. DOMAIN s = 1 .. Len(s) /\ Len(s) \in Nat
  BY Indexed
<1>3. DOMAIN Append(s, e) = 1 .. Len(s) + 1
  BY <1>1, LenProperties
<1> QED
  BY <1>1, <1>2, <1>3

LEMMA AppendedRises ==
  ASSUME NEW s \in Seq(Nat), NEW e \in Nat, Rising(s), \A i \in DOMAIN s : s[i] < e
  PROVE  Rising(Append(s, e))
<1> DEFINE t == Append(s, e)
<1>1. /\ DOMAIN s = 1 .. Len(s) /\ Len(s) \in Nat
      /\ \A i \in DOMAIN s : t[i] = s[i]
      /\ t[Len(s) + 1] = e
      /\ DOMAIN t = 1 .. Len(s) + 1
      /\ \A i \in DOMAIN t : i \in DOMAIN s \/ i = Len(s) + 1
  BY Indexed, Appended
<1> HIDE DEF t
<1>2. ASSUME NEW i \in DOMAIN t, NEW j \in DOMAIN t, i < j PROVE t[i] < t[j]
  <2>1. i \in DOMAIN s
    BY <1>1, <1>2
  <2>2. CASE j \in DOMAIN s
    BY <1>1, <1>2, <2>1, <2>2 DEF Rising
  <2>3. CASE j = Len(s) + 1
    BY <1>1, <2>1, <2>3
  <2> QED
    BY <1>1, <2>2, <2>3
<1>3. Rising(t)
  BY <1>2 DEF Rising
<1> QED
  BY <1>3 DEF t

LEMMA Rest ==
  ASSUME NEW S, NEW s \in Seq(S), NEW m \in Nat, 1 <= m, m <= Len(s) + 1
  PROVE  LET t == SubSeq(s, m, Len(s)) IN
         /\ t \in Seq(S)
         /\ \A j \in DOMAIN t : j \in Nat /\ m + j - 1 \in DOMAIN s /\ t[j] = s[m + j - 1]
         /\ \A i \in DOMAIN s : m <= i => i - m + 1 \in DOMAIN t
<1> DEFINE l == Len(s)
           t == SubSeq(s, m, l)
<1>1. l \in Nat /\ DOMAIN s = 1 .. l /\ \A i \in DOMAIN s : s[i] \in S
  BY Indexed
<1>2. l \in Int /\ m \in Int /\ \A i \in m .. l : s[i] \in S
  <2> HIDE DEF l
  <2> QED BY <1>1
<1>3. /\ t \in Seq(S)
      /\ Len(t) = IF m <= l THEN l - m + 1 ELSE 0
      /\ \A j \in 1 .. l - m + 1 : t[j] = s[m + j - 1]
  <2> HIDE DEF l
  <2> QED BY <1>2, SubSeqProperties
<1>4. DOMAIN t = 1 .. Len(t)
  <2> HIDE DEF t
  <2> QED BY <1>3, Indexed
<1>5. m <= l + 1
  OBVIOUS
<1> HIDE DEF t, l
<1>6. DOMAIN t = 1 .. l - m + 1
  BY <1>1, <1>3, <1>4, <1>5
<1>7. \A j \in DOMAIN t : j \in Nat /\ m + j - 1 \in DOMAIN s /\ t[j] = s[m + j - 1]
  BY SMTT(30), <1>1, <1>3, <1>6
<1>8. \A i \in DOMAIN s : m <= i => i - m + 1 \in DOMAIN t
  BY <1>1, <1>6
<1> QED
  BY <1>3, <1>7, <1>8 DEF t, l

LEMMA EndOfFile ==
  ASSUME NEW s \in Seq(Nat), NEW n \in Nat
  PROVE  /\ End(s, n) \in Seq(Nat)
         /\ \A j \in DOMAIN End(s, n) : \E i \in DOMAIN s : End(s, n)[j] = s[i]
         /\ Rising(s) => Rising(End(s, n))
<1> DEFINE m == IF Len(s) > n THEN Len(s) - n + 1 ELSE 1
           t == SubSeq(s, m, Len(s))
<1>1. m \in Nat /\ 1 <= m /\ m <= Len(s) + 1
  BY Indexed
<1> HIDE DEF m
<1>2. /\ t \in Seq(Nat)
      /\ \A j \in DOMAIN t : j \in Nat /\ m + j - 1 \in DOMAIN s /\ t[j] = s[m + j - 1]
  BY SMTT(30), <1>1, Rest
<1> HIDE DEF t
<1>3. ASSUME Rising(s) PROVE Rising(t)
  <2>1. SUFFICES ASSUME NEW i \in DOMAIN t, NEW j \in DOMAIN t, i < j
                 PROVE  t[i] < t[j]
    BY DEF Rising
  <2>2. /\ m + i - 1 \in DOMAIN s /\ t[i] = s[m + i - 1]
        /\ m + j - 1 \in DOMAIN s /\ t[j] = s[m + j - 1]
        /\ i \in Nat /\ j \in Nat
    BY <1>2
  <2>3. m + i - 1 < m + j - 1
    BY <1>1, <2>1, <2>2
  <2>4. s[m + i - 1] < s[m + j - 1]
    BY <1>3, <2>2, <2>3 DEF Rising
  <2> QED
    BY <2>2, <2>4
<1>4. End(s, n) = t
  BY DEF End, m, t
<1> QED
  BY <1>2, <1>3, <1>4

LEMMA Dropped ==
  ASSUME NEW S, NEW s \in Seq(S), s # <<>>
  PROVE  LET t == SubSeq(s, 2, Len(s)) IN
         /\ t \in Seq(S) /\ 1 \in DOMAIN s /\ Head(s) = s[1]
         /\ \A i \in DOMAIN t : i + 1 \in DOMAIN s /\ t[i] = s[i + 1] /\ i \in Nat
         /\ \A i \in DOMAIN s : i # 1 => i - 1 \in DOMAIN t
<1> DEFINE t == SubSeq(s, 2, Len(s))
<1>1. Len(s) \in Nat \ {0} /\ DOMAIN s = 1 .. Len(s)
  BY Indexed, EmptySeq
<1>2. 2 \in Nat /\ 1 <= 2 /\ 2 <= Len(s) + 1 /\ 1 \in DOMAIN s
  BY <1>1
<1>3. /\ t \in Seq(S)
      /\ \A j \in DOMAIN t : j \in Nat /\ 2 + j - 1 \in DOMAIN s /\ t[j] = s[2 + j - 1]
      /\ \A i \in DOMAIN s : 2 <= i => i - 2 + 1 \in DOMAIN t
  BY <1>2, Rest
<1>4. Head(s) = s[1]
  OBVIOUS
<1>5. \A i \in DOMAIN s : i \in Nat /\ i >= 1
  BY <1>1
<1> HIDE DEF t
<1>6. \A i \in DOMAIN t : i + 1 \in DOMAIN s /\ t[i] = s[i + 1] /\ i \in Nat
  <2> TAKE i \in DOMAIN t
  <2>1. i \in Nat /\ 2 + i - 1 = i + 1
    BY <1>3
  <2> QED BY <1>3, <2>1
<1>7. \A i \in DOMAIN s : i # 1 => i - 1 \in DOMAIN t
  <2> TAKE i \in DOMAIN s
  <2>1. i # 1 => 2 <= i /\ i - 2 + 1 = i - 1
    BY <1>5
  <2> QED BY <1>3, <2>1
<1> QED
  BY <1>2, <1>3, <1>4, <1>6, <1>7 DEF t

--------------------------------------------------------------------------------
(* Steps of the writers. *)

\* The files and the reader go on from well-typed states.
Onward ==
  /\ \A k \in Kinds, r \in Nat : Known(k, r) => Known(k, r)'
  /\ \A k \in Kinds : \/ epoch[k] < epoch'[k]
                      \/ epoch'[k] = epoch[k] /\ size[k] <= size'[k]

LEMMA StillInLine ==
  ASSUME LogTypeOK, LogTypeOK', Onward
  PROVE  /\ \A item \in Item : InLine(item) => InLine(item)'
         /\ \A k \in Kinds, s \in Snapshot : ReadTo(k, s) => ReadTo(k, s)'
<1>1. \A k \in Kinds : /\ epoch[k] \in Nat /\ size[k] \in Nat
                       /\ epoch'[k] \in Nat /\ size'[k] \in Nat
  BY DEF LogTypeOK
<1>2. ASSUME NEW k \in Kinds, NEW s \in Snapshot, ReadTo(k, s) PROVE ReadTo(k, s)'
  <2>1. s.epoch \in Nat /\ s.end \in Nat
    BY DEF Snapshot
  <2>2. \/ epoch[k] < epoch'[k]
        \/ epoch'[k] = epoch[k] /\ size[k] <= size'[k]
    BY DEF Onward
  <2> QED
    BY <1>1, <1>2, <2>1, <2>2 DEF ReadTo
<1>3. ASSUME NEW item \in Item, InLine(item) PROVE InLine(item)'
  <2>1. /\ item.kind \in Kinds /\ item.record \in Nat
        /\ item.epoch \in Nat /\ item.off \in Nat
    BY DEF Item
  <2>2. \/ epoch[item.kind] < epoch'[item.kind]
        \/ epoch'[item.kind] = epoch[item.kind] /\ size[item.kind] <= size'[item.kind]
    BY <2>1 DEF Onward
  <2>3. Known(item.kind, item.record)'
    BY <1>3, <2>1 DEF Onward, InLine
  <2>4. /\ item.epoch <= epoch'[item.kind]
        /\ item.epoch = epoch'[item.kind] => item.off < size'[item.kind]
    BY <1>1, <1>3, <2>1, <2>2 DEF InLine
  <2> QED
    BY <2>3, <2>4 DEF InLine
<1> QED
  BY <1>2, <1>3

LEMMA CaughtStays ==
  ASSUME LogTypeOK, LogTypeOK', Caught, Onward, UNCHANGED <<pc, snap, sent>>
  PROVE  Caught'
<1>1. \A k \in Kinds : snap[k] \in Snapshot /\ \A j \in DOMAIN sent[k] : sent[k][j] \in Nat
  BY Indexed DEF LogTypeOK
<1>2. ASSUME pc # "off", NEW k \in Kinds, NEW j \in DOMAIN sent[k]
      PROVE  Known(k, sent[k][j])'
  BY <1>1, <1>2 DEF Caught, Onward
<1>3. ASSUME pc # "off", NEW k \in Kinds, snap[k].read
      PROVE  ReadTo(k, snap[k])'
  BY <1>1, <1>3, StillInLine DEF Caught
<1> QED
  BY <1>2, <1>3 DEF Caught

LEMMA ReaderStays ==
  ASSUME LogIInv, LogTypeOK', Onward, UNCHANGED <<pc, snap, channel, sent>>,
         \A k \in Kinds : due'[k] \ overflow'[k] \subseteq due[k] \ overflow[k]
  PROVE  Placed' /\ Caught' /\ ReadFirst' /\ NoGapNoRepetition'
<1>1. ReadFirst'
  BY DEF LogIInv, ReadFirst
<1>2. NoGapNoRepetition'
  <2>1. \A k \in Kinds : ToCome(k)' = ToCome(k)
    BY DEF ToCome, AfterSnapshot
  <2>2. SUFFICES ASSUME pc # "off", NEW k \in Kinds, snap[k].read
                 PROVE  /\ Rising(sent[k])
                        /\ Orderly(ToCome(k), channel, sent[k])
                        /\ \A r \in due'[k] \ overflow'[k] :
                             \/ \E j \in DOMAIN sent[k] : sent[k][j] = r
                             \/ \E i \in ToCome(k) : channel[i].record = r
    BY <2>1 DEF NoGapNoRepetition, Orderly
  <2>3. /\ Rising(sent[k])
        /\ Orderly(ToCome(k), channel, sent[k])
        /\ \A r \in due[k] \ overflow[k] :
             \/ \E j \in DOMAIN sent[k] : sent[k][j] = r
             \/ \E i \in ToCome(k) : channel[i].record = r
    BY <2>2 DEF LogIInv, NoGapNoRepetition, Orderly
  <2>4. \A r \in due'[k] \ overflow'[k] : r \in due[k] \ overflow[k]
    OBVIOUS
  <2> QED
    BY <2>3, <2>4
<1>3. Caught'
  BY CaughtStays DEF LogIInv
<1>4. Placed'
  <2>1. \A i \in DOMAIN channel : channel[i] \in Item
    BY Indexed DEF LogIInv, LogTypeOK
  <2>2. ASSUME pc # "off", NEW i \in DOMAIN channel PROVE InLine(channel[i])'
    BY <2>1, <2>2, StillInLine DEF LogIInv, Placed
  <2> QED
    BY <2>2 DEF LogIInv, Placed
<1> QED
  BY <1>1, <1>2, <1>3, <1>4

(* The record is numbered above all others; a full file is emptied, or starts to be
   counted anew. *)
LEMMA BeginInv ==
  ASSUME LogIInv, NEW k \in Kinds, Begin(k)
  PROVE  LogIInv'
<1>0. /\ LogTypeOK /\ FileInOrder /\ file \in [Kinds -> Seq(Nat)]
      /\ size \in [Kinds -> Nat] /\ epoch \in [Kinds -> Nat] /\ last \in [Kinds -> Nat]
  BY DEF LogIInv, LogTypeOK
<1>1. locked = Nothing /\ locked' = k /\ written' = FALSE /\ UNCHANGED handler
  BY DEF Begin
<1>2. last' = [last EXCEPT ![k] = @ + 1]
  BY DEF Begin
<1>3. file' = file \/ file' = [file EXCEPT ![k] = <<>>]
  BY DEF Begin
<1>4. \/ UNCHANGED <<size, epoch>>
      \/ size' = [size EXCEPT ![k] = 0] /\ epoch' = [epoch EXCEPT ![k] = @ + 1]
  BY DEF Begin
<1>5. LogTypeOK'
  <2>1. file' \in [Kinds -> Seq(Nat)]
    <3>1. <<>> \in Seq(Nat)
      OBVIOUS
    <3> QED
      BY <1>0, <1>3, <3>1
  <2>2. size' \in [Kinds -> Nat] /\ epoch' \in [Kinds -> Nat] /\ last' \in [Kinds -> Nat]
    <3>1. \A f \in [Kinds -> Nat] :
            [f EXCEPT ![k] = 0] \in [Kinds -> Nat] /\ [f EXCEPT ![k] = @ + 1] \in [Kinds -> Nat]
      OBVIOUS
    <3>2. last' \in [Kinds -> Nat]
      BY <1>0, <1>2, <3>1
    <3>3. CASE UNCHANGED <<size, epoch>>
      BY <1>0, <3>2, <3>3
    <3>4. CASE size' = [size EXCEPT ![k] = 0] /\ epoch' = [epoch EXCEPT ![k] = @ + 1]
      BY <1>0, <3>1, <3>2, <3>4
    <3> QED
      BY <1>4, <3>3, <3>4
  <2> QED
    BY <1>0, <1>1, <2>1, <2>2 DEF LogTypeOK, handler
<1>6. \A l \in Kinds : last[l] \in Nat /\ last'[l] = IF l = k THEN last[l] + 1 ELSE last[l]
  BY <1>0, <1>2
<1>7. FileInOrder'
  <2>1. ASSUME NEW l \in Kinds
        PROVE  /\ Rising(file'[l])
               /\ \A i \in DOMAIN file'[l] :
                    /\ file'[l][i] <= last'[l]
                    /\ locked' = l /\ ~written' => file'[l][i] < last'[l]
    <3>1. CASE file'[l] = file[l]
      <4>1. \A i \in DOMAIN file[l] : file[l][i] \in Nat /\ file[l][i] <= last[l]
        BY <1>0, Indexed DEF FileInOrder
      <4>2. /\ last[l] \in Nat /\ last'[l] \in Nat /\ last[l] <= last'[l]
            /\ locked' = l => last[l] < last'[l]
        BY <1>1, <1>6
      <4>3. \A i \in DOMAIN file'[l] : file'[l][i] \in Nat /\ file'[l][i] <= last[l]
        BY <3>1, <4>1
      <4>4. Rising(file'[l])
        BY <1>0, <3>1 DEF FileInOrder
      <4> QED
        BY <4>2, <4>3, <4>4
    <3>2. CASE file'[l] = <<>>
      <4>1. DOMAIN file'[l] = {}
        BY <3>2
      <4> QED
        BY <4>1 DEF Rising
    <3> QED
      BY <1>0, <1>3, <3>1, <3>2
  <2> QED
    BY <2>1 DEF FileInOrder
<1>8. \A l \in Kinds, r \in Nat : Known(l, r) => Known(l, r)'
  BY <1>1, <1>6 DEF Known
<1>9. \A l \in Kinds : \/ epoch[l] < epoch'[l]
                       \/ epoch'[l] = epoch[l] /\ size[l] <= size'[l]
  BY <1>0, <1>4
<1>10. Placed' /\ Caught' /\ ReadFirst' /\ NoGapNoRepetition'
  BY <1>1, <1>5, <1>8, <1>9, ReaderStays DEF Onward, handler
<1> QED
  BY <1>5, <1>7, <1>10 DEF LogIInv

(* A record that is appended is above those before it. *)
LEMMA FileAppended ==
  ASSUME LogIInv, NEW k \in Kinds, locked = k, ~written,
         file' = [file EXCEPT ![k] = Append(@, last[k])], last' = last,
         written' \/ locked' = Nothing
  PROVE  FileInOrder' /\ file' \in [Kinds -> Seq(Nat)]
<1> USE DEF LogIInv
<1>1. file[k] \in Seq(Nat) /\ last[k] \in Nat
  BY DEF LogTypeOK
<1>2. /\ Append(file[k], last[k]) \in Seq(Nat)
      /\ \A i \in DOMAIN file[k] : Append(file[k], last[k])[i] = file[k][i]
      /\ Append(file[k], last[k])[Len(file[k]) + 1] = last[k]
      /\ \A i \in DOMAIN Append(file[k], last[k]) : i \in DOMAIN file[k] \/ i = Len(file[k]) + 1
  BY SMTT(30), <1>1, Appended
<1>3. Rising(Append(file[k], last[k]))
  BY <1>1, AppendedRises DEF FileInOrder
<1>4. \A i \in DOMAIN Append(file[k], last[k]) : Append(file[k], last[k])[i] <= last[k]
  <2>1. \A i \in DOMAIN file[k] : file[k][i] <= last[k]
    BY DEF FileInOrder
  <2>2. last[k] <= last[k]
    BY <1>1
  <2> QED
    BY <1>2, <2>1, <2>2
<1>5. /\ \A l \in Kinds : l # k => file'[l] = file[l]
      /\ file'[k] = Append(file[k], last[k])
  BY DEF LogTypeOK
<1>6. file' \in [Kinds -> Seq(Nat)]
  BY <1>2 DEF LogTypeOK
<1>7. \A l \in Kinds : ~(locked' = l /\ ~written')
  BY DEF LogTypeOK
<1>8. ASSUME NEW l \in Kinds
      PROVE  /\ Rising(file'[l])
             /\ \A i \in DOMAIN file'[l] : file'[l][i] <= last'[l]
  BY <1>3, <1>4, <1>5 DEF FileInOrder
<1> QED
  BY <1>6, <1>7, <1>8 DEF FileInOrder

LEMMA WriteInv ==
  ASSUME LogIInv, NEW k \in Kinds, Write(k) \/ WriteFails(k)
  PROVE  LogIInv'
<1>1. /\ locked = k /\ ~written
      /\ \/ file' = file \/ file' = [file EXCEPT ![k] = Append(@, last[k])]
      /\ last' = last /\ size' = size /\ epoch' = epoch
      /\ UNCHANGED handler
      /\ \/ file' = [file EXCEPT ![k] = Append(@, last[k])] /\ written' = TRUE /\ locked' = locked
         \/ locked' = Nothing /\ written' = written
  BY DEF Write, WriteFails
<1>2. FileInOrder' /\ file' \in [Kinds -> Seq(Nat)]
  <2>1. CASE file' = [file EXCEPT ![k] = Append(@, last[k])]
    BY <1>1, <2>1, FileAppended
  <2>2. CASE file' = file /\ locked' = Nothing
    BY <1>1, <2>2 DEF LogIInv, LogTypeOK, FileInOrder
  <2> QED
    BY <1>1, <2>1, <2>2
<1>3. LogTypeOK'
  BY <1>1, <1>2 DEF LogIInv, LogTypeOK, handler
<1>4. \A l \in Kinds, r \in Nat : Known(l, r) => Known(l, r)'
  BY <1>1 DEF Known
<1>5. \A l \in Kinds : epoch'[l] = epoch[l] /\ size[l] <= size'[l]
  BY <1>1 DEF LogIInv, LogTypeOK
<1>6. Placed' /\ Caught' /\ ReadFirst' /\ NoGapNoRepetition'
  BY <1>1, <1>3, <1>4, <1>5, ReaderStays DEF Onward, handler
<1> QED
  BY <1>2, <1>3, <1>6 DEF LogIInv

(* The record is the greatest of its file, so it comes after all others; and the file
   goes on from where the item says it starts. *)
LEMMA ObserveInv ==
  ASSUME LogIInv, NEW k \in Kinds, Observe(k)
  PROVE  LogIInv'
<1>0. LogTypeOK /\ FileInOrder /\ Placed /\ Caught /\ NoGapNoRepetition
  BY DEF LogIInv
<1>e. PICK e \in Item :
        e = [kind |-> k, epoch |-> epoch[k], off |-> size[k], record |-> last[k]]
  BY <1>0 DEF LogTypeOK, Item
<1>1. /\ locked = k /\ written /\ locked' = Nothing
      /\ size' = [size EXCEPT ![k] = @ + 1]
      /\ UNCHANGED <<file, epoch, last, written, pc, snap, sent>>
  BY DEF Observe
<1>2. \/ channel' = channel /\ due' = due /\ overflow' = overflow
      \/ /\ channel' = channel
         /\ due' = [due EXCEPT ![k] = @ \cup {last[k]}]
         /\ overflow' = [overflow EXCEPT ![k] = @ \cup {last[k]}]
      \/ /\ pc # "off" /\ channel' = Append(channel, e) /\ overflow' = overflow
         /\ due' = [due EXCEPT ![k] = @ \cup {last[k]}]
  BY <1>e DEF Observe
<1>3. /\ last[k] \in Nat /\ size[k] \in Nat /\ epoch[k] \in Nat
      /\ channel \in Seq(Item)
  BY <1>0 DEF LogTypeOK
<1>4. Append(channel, e) \in Seq(Item)
  BY <1>3, Appended
<1>5. due' \in [Kinds -> SUBSET Nat] /\ overflow' \in [Kinds -> SUBSET Nat]
  <2>1. \A f \in [Kinds -> SUBSET Nat] :
          [f EXCEPT ![k] = @ \cup {last[k]}] \in [Kinds -> SUBSET Nat]
    BY <1>3
  <2> QED
    BY ZenonT(30), <1>0, <1>2, <2>1 DEF LogTypeOK
<1>6. LogTypeOK'
  <2>1. size' \in [Kinds -> Nat]
    BY <1>0, <1>1, <1>3 DEF LogTypeOK
  <2> QED
    BY <1>0, <1>1, <1>2, <1>3, <1>4, <1>5, <2>1 DEF LogTypeOK
<1>7. FileInOrder'
  <2>1. \A l \in Kinds : locked' # l
    BY <1>1
  <2> QED
    BY <1>0, <1>1, <2>1 DEF FileInOrder
<1>8. Onward
  <2>1. \A l \in Kinds, r \in Nat : Known(l, r) => Known(l, r)'
    BY <1>1 DEF Known
  <2>2. \A l \in Kinds : epoch'[l] = epoch[l] /\ size[l] <= size'[l]
    BY SMTT(30), <1>0, <1>1 DEF LogTypeOK
  <2> QED
    BY <2>1, <2>2 DEF Onward
<1>9. CASE channel' = channel /\ \A l \in Kinds : due'[l] \ overflow'[l] \subseteq due[l] \ overflow[l]
  <2>1. UNCHANGED <<pc, snap, channel, sent>>
    BY <1>1, <1>9
  <2>2. Placed' /\ Caught' /\ ReadFirst' /\ NoGapNoRepetition'
    BY <1>6, <1>8, <1>9, <2>1, ReaderStays
  <2> QED
    BY <1>6, <1>7, <2>2 DEF LogIInv
<1>10. CASE /\ pc # "off" /\ channel' = Append(channel, e) /\ overflow' = overflow
            /\ due' = [due EXCEPT ![k] = @ \cup {last[k]}]
  <2> DEFINE n == Len(channel) + 1
  <2>1. /\ n \in Nat
        /\ \A i \in DOMAIN channel : i \in DOMAIN channel' /\ channel'[i] = channel[i]
        /\ n \in DOMAIN channel' /\ channel'[n] = e
        /\ \A i \in DOMAIN channel' : i \in DOMAIN channel \/ i = n
        /\ \A i \in DOMAIN channel : i \in Nat /\ i < n /\ channel[i] \in Item
    <3>1. Len(channel) \in Nat /\ DOMAIN channel = 1 .. Len(channel)
      BY <1>3, Indexed
    <3>2. \A i \in DOMAIN channel : channel[i] \in Item
      BY <1>3, Indexed
    <3>3. \A i \in DOMAIN channel : i \in Nat /\ i < n
      BY <3>1
    <3>4. n \in Nat /\ n \in 1 .. Len(channel) + 1
      BY <3>1
    <3>5. \A i \in DOMAIN channel : i \in 1 .. Len(channel) + 1
      BY <3>1
    <3> HIDE DEF n
    <3>6. /\ DOMAIN channel' = 1 .. Len(channel) + 1
          /\ \A i \in DOMAIN channel : channel'[i] = channel[i]
          /\ channel'[Len(channel) + 1] = e
          /\ \A i \in DOMAIN channel' : i \in DOMAIN channel \/ i = Len(channel) + 1
      BY <1>3, <1>10, Appended
    <3> QED
      BY <3>2, <3>3, <3>4, <3>5, <3>6 DEF n
  <2> HIDE DEF n
  <2>2. e.kind = k /\ e.epoch = epoch[k] /\ e.off = size[k] /\ e.record = last[k]
    BY <1>e
  <2>3. InLine(e)'
    <3>1. size'[k] = size[k] + 1 /\ epoch'[k] = epoch[k] /\ last'[k] = last[k]
      BY <1>0, <1>1 DEF LogTypeOK
    <3>2. Known(k, last[k])'
      BY <1>1, <1>3, <3>1 DEF Known
    <3>3. Known(e.kind, e.record)'
      BY <1>1, <1>3, <2>2, <3>1 DEF Known
    <3>4. e.epoch <= epoch'[e.kind] /\ e.off < size'[e.kind]
      BY <1>3, <2>2, <3>1
    <3> QED
      BY <3>3, <3>4 DEF InLine
  <2>4. \A i \in DOMAIN channel : channel[i].kind = k => channel[i].record < last[k]
    BY <1>0, <1>1, <1>10 DEF Placed, InLine, Known
  <2>5. ASSUME NEW i \in DOMAIN channel' PROVE InLine(channel[i])'
    <3>1. CASE i \in DOMAIN channel
      <4>1. InLine(channel[i])
        BY <1>0, <1>10, <3>1 DEF Placed
      <4>2. \A item \in Item : InLine(item) => InLine(item)'
        BY <1>0, <1>6, <1>8, StillInLine
      <4>3. channel'[i] = channel[i] /\ channel[i] \in Item
        BY <2>1, <3>1
      <4>4. PICK item \in Item : item = channel[i]
        BY <4>3
      <4>5. InLine(item)'
        BY <4>1, <4>2, <4>4
      <4>6. item = channel'[i]
        BY <4>3, <4>4
      <4> QED
        BY <4>5, <4>6 DEF InLine, Known
    <3>2. CASE i = n
      BY <2>1, <2>3, <3>2 DEF InLine, Known
    <3> QED
      BY <2>1, <3>1, <3>2
  <2>6. Placed'
    <3>1. ASSUME NEW i \in DOMAIN channel', NEW j \in DOMAIN channel', i < j,
                 channel'[i].kind = channel'[j].kind
          PROVE  channel'[i].record < channel'[j].record
      <4>1. i \in DOMAIN channel
        BY <2>1, <3>1
      <4>2. CASE j \in DOMAIN channel
        BY <1>0, <1>10, <2>1, <3>1, <4>1, <4>2 DEF Placed
      <4>3. CASE j = n
        BY <2>1, <2>2, <2>4, <3>1, <4>1, <4>3
      <4> QED
        BY <2>1, <4>2, <4>3
    <3> QED
      BY <2>5, <3>1 DEF Placed
  <2>7. Caught' /\ ReadFirst'
    BY <1>0, <1>1, <1>6, <1>8, CaughtStays DEF LogIInv, ReadFirst
  <2>8. ASSUME pc # "off", NEW l \in Kinds, snap[l].read
        PROVE  /\ Orderly(ToCome(l)', channel', sent[l])
               /\ \A r \in due'[l] \ overflow[l] :
                    \/ \E j \in DOMAIN sent[l] : sent[l][j] = r
                    \/ \E i \in ToCome(l)' : channel'[i].record = r
    <3>1. /\ Orderly(ToCome(l), channel, sent[l])
          /\ \A r \in due[l] \ overflow[l] :
               \/ \E j \in DOMAIN sent[l] : sent[l][j] = r
               \/ \E i \in ToCome(l) : channel[i].record = r
      BY <1>0, <2>8 DEF NoGapNoRepetition, Orderly
    <3>2. /\ \A i \in ToCome(l) : i \in DOMAIN channel /\ i \in ToCome(l)' /\ channel[i].kind = l
          /\ \A i \in ToCome(l)' : i \in ToCome(l) \/ (i = n /\ l = k)
      BY <1>1, <2>1, <2>2 DEF ToCome, AfterSnapshot
    <3>3. l = k => n \in ToCome(l)'
      <4>1. l = k => AfterSnapshot(e)'
        <5>1. ReadTo(l, snap[l]) /\ snap[l] \in Snapshot
          BY <1>0, <2>8 DEF Caught, LogTypeOK
        <5> QED
          BY <1>1, <1>3, <2>2, <5>1 DEF AfterSnapshot, ReadTo, Snapshot
      <4> QED
        BY <1>1, <2>1, <2>2, <4>1 DEF ToCome, AfterSnapshot
    <3>4. l = k => \A j \in DOMAIN sent[l] : sent[l][j] < last[k]
      BY <1>0, <1>1, <2>8 DEF Caught, Known
    <3>5. Orderly(ToCome(l)', channel', sent[l])
      <4>1. ASSUME NEW i \in ToCome(l)', NEW j \in DOMAIN sent[l]
            PROVE  sent[l][j] < channel'[i].record
        BY <2>1, <2>2, <3>1, <3>2, <3>4 DEF Orderly
      <4>2. ASSUME NEW i \in ToCome(l)', NEW j \in ToCome(l)', i < j
            PROVE  channel'[i].record < channel'[j].record
        <5>1. i \in ToCome(l)
          BY <2>1, <3>2, <4>2
        <5>2. CASE j \in ToCome(l)
          BY <2>1, <3>1, <3>2, <4>2, <5>1, <5>2 DEF Orderly
        <5>3. CASE j = n /\ l = k
          BY <2>1, <2>2, <2>4, <3>2, <5>1, <5>3
        <5> QED
          BY <3>2, <5>2, <5>3
      <4> QED
        BY <4>1, <4>2 DEF Orderly
    <3>6. ASSUME NEW r \in due'[l] \ overflow[l]
          PROVE  \/ \E j \in DOMAIN sent[l] : sent[l][j] = r
                 \/ \E i \in ToCome(l)' : channel'[i].record = r
      <4>1. r \in due[l] \/ (l = k /\ r = last[k])
        BY <1>0, <1>10 DEF LogTypeOK
      <4>2. CASE r \in due[l]
        BY <2>1, <3>1, <3>2, <4>2
      <4>3. CASE l = k /\ r = last[k]
        BY <2>1, <2>2, <3>3, <4>3
      <4> QED
        BY <4>1, <4>2, <4>3
    <3> QED
      BY <3>5, <3>6
  <2>9. NoGapNoRepetition'
    <3>1. \A l \in Kinds : pc # "off" /\ snap[l].read => Rising(sent[l])
      BY <1>0 DEF NoGapNoRepetition
    <3>2. pc' = pc /\ snap' = snap /\ sent' = sent /\ overflow' = overflow
      BY <1>1, <1>10
    <3> QED
      BY <2>8, <3>1, <3>2 DEF NoGapNoRepetition, Orderly
  <2> QED
    BY <1>6, <1>7, <2>6, <2>7, <2>9 DEF LogIInv
<1>11. CASE /\ channel' = channel
            /\ due' = [due EXCEPT ![k] = @ \cup {last[k]}]
            /\ overflow' = [overflow EXCEPT ![k] = @ \cup {last[k]}]
  <2>1. \A l \in Kinds : due'[l] \ overflow'[l] \subseteq due[l] \ overflow[l]
    BY <1>0, <1>11 DEF LogTypeOK
  <2> QED
    BY <1>9, <1>11, <2>1
<1> QED
  BY <1>2, <1>9, <1>10, <1>11

--------------------------------------------------------------------------------
(* Steps of the handler. *)

LEMMA SubscribeInv ==
  ASSUME LogIInv, Subscribe
  PROVE  LogIInv'
<1>0. LogTypeOK /\ FileInOrder
  BY DEF LogIInv
<1>1. /\ pc' = "subscribed" /\ snap' = [k \in Kinds |-> Unread] /\ channel' = <<>>
      /\ sent' = [k \in Kinds |-> <<>>] /\ due' = None /\ overflow' = None
      /\ UNCHANGED logs
  BY DEF Subscribe
<1>2. \A k \in Kinds : ~snap'[k].read /\ DOMAIN sent'[k] = {}
  BY <1>1 DEF Unread
<1>3. LogTypeOK'
  <2>1. channel' \in Seq(Item) /\ sent' \in [Kinds -> Seq(Nat)]
    BY <1>1
  <2>2. snap' \in [Kinds -> Snapshot]
    BY <1>1 DEF Unread, Snapshot
  <2>3. due' \in [Kinds -> SUBSET Nat] /\ overflow' \in [Kinds -> SUBSET Nat]
    BY <1>1 DEF None
  <2> QED
    BY <1>0, <1>1, <2>1, <2>2, <2>3 DEF LogTypeOK, logs
<1>4. FileInOrder'
  BY <1>0, <1>1 DEF FileInOrder, logs
<1>5. DOMAIN channel' = {}
  BY <1>1
<1> QED
  BY <1>1, <1>2, <1>3, <1>4, <1>5
  DEF LogIInv, Placed, Caught, ReadFirst, NoGapNoRepetition

(* With the file unlocked all of its records are known, and all that is in the channel
   starts before its end: nothing of the channel will be sent for this file. *)
LEMMA ReadLogTailInv ==
  ASSUME LogIInv, NEW k \in Kinds, ReadLogTail(k)
  PROVE  LogIInv'
<1>0. LogTypeOK /\ FileInOrder /\ Placed /\ Caught /\ NoGapNoRepetition
  BY DEF LogIInv
<1>1. /\ pc = "subscribed" /\ ~snap[k].read /\ locked = Nothing
      /\ snap' = [snap EXCEPT ![k] = [epoch |-> epoch[k], end |-> size[k], read |-> TRUE]]
      /\ sent' = [sent EXCEPT ![k] = End(file[k], TailLength)]
      /\ due' = [due EXCEPT ![k] = {}] /\ overflow' = [overflow EXCEPT ![k] = {}]
      /\ UNCHANGED <<logs, pc, channel>>
  BY DEF ReadLogTail
<1>2. /\ file[k] \in Seq(Nat) /\ epoch[k] \in Nat /\ size[k] \in Nat /\ TailLength \in Nat
      /\ last[k] \in Nat
  BY <1>0, SizesAssumption DEF LogTypeOK
<1>3. /\ End(file[k], TailLength) \in Seq(Nat) /\ Rising(End(file[k], TailLength))
      /\ \A j \in DOMAIN End(file[k], TailLength) :
           \E i \in DOMAIN file[k] : End(file[k], TailLength)[j] = file[k][i]
  BY <1>0, <1>2, EndOfFile DEF FileInOrder
<1>4. \A l \in Kinds : l # k => /\ snap'[l] = snap[l] /\ sent'[l] = sent[l]
                                /\ due'[l] = due[l] /\ overflow'[l] = overflow[l]
  BY <1>0, <1>1 DEF LogTypeOK
<1>5. /\ snap'[k] = [epoch |-> epoch[k], end |-> size[k], read |-> TRUE]
      /\ sent'[k] = End(file[k], TailLength) /\ due'[k] = {}
  BY <1>0, <1>1 DEF LogTypeOK
<1>6. LogTypeOK'
  <2>1. snap' \in [Kinds -> Snapshot]
    BY <1>0, <1>1, <1>2 DEF LogTypeOK, Snapshot
  <2>2. sent' \in [Kinds -> Seq(Nat)]
    BY <1>0, <1>1, <1>3 DEF LogTypeOK
  <2>3. due' \in [Kinds -> SUBSET Nat] /\ overflow' \in [Kinds -> SUBSET Nat]
    BY <1>0, <1>1 DEF LogTypeOK
  <2> QED
    BY <1>0, <1>1, <2>1, <2>2, <2>3 DEF LogTypeOK, logs
<1>7. FileInOrder' /\ Placed'
  BY <1>0, <1>1 DEF FileInOrder, Placed, InLine, Known, logs
<1>8. ReadFirst'
  BY <1>1 DEF ReadFirst
<1>9. Caught'
  <2>1. ASSUME NEW l \in Kinds, NEW j \in DOMAIN sent'[l] PROVE Known(l, sent'[l][j])
    <3>1. CASE l = k
      BY <1>0, <1>1, <1>3, <1>5, <2>1, <3>1 DEF Known, FileInOrder
    <3>2. CASE l # k
      BY <1>0, <1>1, <1>4, <2>1, <3>2 DEF Caught
    <3> QED
      BY <3>1, <3>2
  <2>2. ASSUME NEW l \in Kinds, snap'[l].read PROVE ReadTo(l, snap'[l])
    <3>1. CASE l = k
      BY <1>2, <1>5, <3>1 DEF ReadTo
    <3>2. CASE l # k
      BY <1>0, <1>1, <1>4, <2>2, <3>2 DEF Caught
    <3> QED
      BY <3>1, <3>2
  <2> QED
    BY <1>1, <2>1, <2>2 DEF Caught, Known, ReadTo, logs
<1>10. ToCome(k)' = {}
  <2>1. ASSUME NEW i \in DOMAIN channel, channel[i].kind = k
        PROVE  /\ channel[i].epoch <= epoch[k] /\ channel[i].epoch \in Nat
               /\ channel[i].epoch = epoch[k] => channel[i].off < size[k]
               /\ channel[i].off \in Nat
    <3>1. channel[i] \in Item
      BY <1>0, Indexed DEF LogTypeOK
    <3>2. InLine(channel[i])
      BY <1>0, <1>1 DEF Placed
    <3> QED
      BY <2>1, <3>1, <3>2 DEF InLine, Item
  <2>2. ASSUME NEW i \in DOMAIN channel, channel[i].kind = k PROVE ~AfterSnapshot(channel[i])'
    <3>1. snap'[channel[i].kind].epoch = epoch[k] /\ snap'[channel[i].kind].end = size[k]
      BY <1>5, <2>2
    <3>2. channel' = channel
      BY <1>1
    <3> QED
      BY <1>2, <2>1, <2>2, <3>1, <3>2 DEF AfterSnapshot
  <2> QED
    BY <1>1, <2>2 DEF ToCome
<1>11. \A l \in Kinds : l # k => ToCome(l)' = ToCome(l)
  BY <1>1, <1>4 DEF ToCome, AfterSnapshot
<1>12. NoGapNoRepetition'
  <2>1. ASSUME NEW l \in Kinds, snap'[l].read
        PROVE  /\ Rising(sent'[l])
               /\ Orderly(ToCome(l)', channel, sent'[l])
               /\ \A r \in due'[l] \ overflow'[l] :
                    \/ \E j \in DOMAIN sent'[l] : sent'[l][j] = r
                    \/ \E i \in ToCome(l)' : channel[i].record = r
    <3>1. CASE l = k
      BY <1>3, <1>5, <1>10, <3>1 DEF Orderly
    <3>2. CASE l # k
      <4>1. /\ Rising(sent[l]) /\ Orderly(ToCome(l), channel, sent[l])
            /\ \A r \in due[l] \ overflow[l] :
                 \/ \E j \in DOMAIN sent[l] : sent[l][j] = r
                 \/ \E i \in ToCome(l) : channel[i].record = r
        BY <1>0, <1>1, <1>4, <2>1, <3>2 DEF NoGapNoRepetition, Orderly
      <4> QED
        BY <1>4, <1>11, <3>2, <4>1
    <3> QED
      BY <3>1, <3>2
  <2>2. pc' = pc /\ channel' = channel
    BY <1>1
  <2> QED
    BY <2>1, <2>2 DEF NoGapNoRepetition, Orderly
<1> QED
  BY <1>6, <1>7, <1>8, <1>9, <1>12 DEF LogIInv

LEMMA SendSnapshotInv ==
  ASSUME LogIInv, SendSnapshot
  PROVE  LogIInv'
<1>0. LogTypeOK /\ FileInOrder /\ Placed /\ Caught /\ NoGapNoRepetition
  BY DEF LogIInv
<1>1. /\ pc = "subscribed" /\ pc' = "live" /\ \A k \in Kinds : snap[k].read
      /\ UNCHANGED <<logs, snap, channel, sent, due, overflow>>
  BY DEF SendSnapshot
<1>2. LogTypeOK' /\ FileInOrder'
  BY <1>0, <1>1 DEF LogTypeOK, FileInOrder, logs
<1>3. Placed'
  BY <1>0, <1>1 DEF Placed, InLine, Known, logs
<1>4. Caught' /\ ReadFirst'
  BY <1>0, <1>1 DEF Caught, ReadFirst, ReadTo, Known, logs
<1>5. NoGapNoRepetition'
  <2>1. \A k \in Kinds : ToCome(k)' = ToCome(k)
    BY <1>1 DEF ToCome, AfterSnapshot
  <2> QED
    BY <1>0, <1>1, <2>1 DEF NoGapNoRepetition
<1> QED
  BY <1>2, <1>3, <1>4, <1>5 DEF LogIInv

(* The first item of the channel is below those that follow it. *)
LEMMA SendItemInv ==
  ASSUME LogIInv, SendItem
  PROVE  LogIInv'
<1>0. LogTypeOK /\ FileInOrder /\ Placed /\ Caught /\ NoGapNoRepetition /\ ReadFirst
  BY DEF LogIInv
<1>1. /\ pc = "live" /\ channel # <<>> /\ channel' = SubSeq(channel, 2, Len(channel))
      /\ sent' = IF AfterSnapshot(Head(channel))
                 THEN [sent EXCEPT ![Head(channel).kind] = Append(@, Head(channel).record)]
                 ELSE sent
      /\ UNCHANGED <<logs, pc, snap, due, overflow>>
  BY DEF SendItem
<1>2. /\ channel \in Seq(Item) /\ channel' \in Seq(Item)
      /\ 1 \in DOMAIN channel /\ Head(channel) = channel[1]
      /\ \A i \in DOMAIN channel' : i + 1 \in DOMAIN channel /\ channel'[i] = channel[i + 1]
                                    /\ i \in Nat
      /\ \A i \in DOMAIN channel : i # 1 => i - 1 \in DOMAIN channel'
  BY <1>0, <1>1, Dropped DEF LogTypeOK
<1>3. \A i \in DOMAIN channel : channel[i] \in Item /\ i \in Nat /\ i >= 1
  <2>1. DOMAIN channel = 1 .. Len(channel) /\ Len(channel) \in Nat
    BY <1>2, Indexed
  <2> QED
    BY <1>2, <2>1, Indexed
<1> DEFINE k == channel[1].kind
           r == channel[1].record
<1>4. k \in Kinds /\ r \in Nat
  BY <1>2, <1>3 DEF Item
<1>5. /\ Rising(sent[k]) /\ sent[k] \in Seq(Nat)
      /\ 1 \in ToCome(k) => \A j \in DOMAIN sent[k] : sent[k][j] < r
  BY <1>0, <1>1, <1>4 DEF NoGapNoRepetition, ReadFirst, LogTypeOK
<1>6. 1 \in ToCome(k) <=> AfterSnapshot(Head(channel))
  BY <1>2 DEF ToCome
<1>7. \A l \in Kinds : sent'[l] = IF l = k /\ 1 \in ToCome(k) THEN Append(sent[k], r) ELSE sent[l]
  BY <1>0, <1>1, <1>2, <1>4, <1>6 DEF LogTypeOK
<1>8. 1 \in ToCome(k) => Append(sent[k], r) \in Seq(Nat) /\ Rising(Append(sent[k], r))
  BY <1>4, <1>5, Appended, AppendedRises
<1>9. LogTypeOK'
  <2>1. sent' \in [Kinds -> Seq(Nat)]
    BY <1>0, <1>1, <1>2, <1>4, <1>6, <1>8 DEF LogTypeOK
  <2> QED
    BY <1>0, <1>1, <1>2, <2>1 DEF LogTypeOK, logs
<1>10. FileInOrder' /\ ReadFirst'
  BY <1>0, <1>1 DEF FileInOrder, ReadFirst, logs
<1>11. Placed'
  <2>1. ASSUME NEW i \in DOMAIN channel' PROVE InLine(channel'[i])
    BY <1>0, <1>1, <1>2 DEF Placed
  <2>2. ASSUME NEW i \in DOMAIN channel', NEW j \in DOMAIN channel', i < j,
               channel'[i].kind = channel'[j].kind
        PROVE  channel'[i].record < channel'[j].record
    <3>1. /\ i + 1 \in DOMAIN channel /\ j + 1 \in DOMAIN channel /\ i + 1 < j + 1
          /\ channel'[i] = channel[i + 1] /\ channel'[j] = channel[j + 1]
      BY <1>2, <2>2
    <3> QED
      BY <1>0, <1>1, <2>2, <3>1 DEF Placed
  <2> QED
    BY <1>1, <2>1, <2>2 DEF Placed, InLine, Known, logs
<1>12. ASSUME NEW l \in Kinds, NEW j \in DOMAIN sent'[l]
       PROVE  \/ j \in DOMAIN sent[l] /\ sent'[l][j] = sent[l][j]
              \/ l = k /\ 1 \in ToCome(k) /\ sent'[l][j] = r
  <2>1. CASE sent'[l] = sent[l]
    BY <1>12, <2>1
  <2>2. CASE l = k /\ 1 \in ToCome(k)
    <3>1. sent'[l] = Append(sent[l], r) /\ sent[l] \in Seq(Nat)
      BY <1>5, <1>7, <2>2
    <3>2. /\ \A i \in DOMAIN sent[l] : Append(sent[l], r)[i] = sent[l][i]
          /\ Append(sent[l], r)[Len(sent[l]) + 1] = r
          /\ \A i \in DOMAIN Append(sent[l], r) : i \in DOMAIN sent[l] \/ i = Len(sent[l]) + 1
      BY SMTT(30), <1>4, <3>1, Appended
    <3> QED
      BY <1>12, <2>2, <3>1, <3>2
  <2> QED
    BY <1>7, <2>1, <2>2
<1>13. Caught'
  <2>1. ASSUME NEW l \in Kinds, NEW j \in DOMAIN sent'[l] PROVE Known(l, sent'[l][j])
    <3>1. Known(k, r)
      BY <1>0, <1>1, <1>2 DEF Placed, InLine
    <3>2. j \in DOMAIN sent[l] => Known(l, sent[l][j])
      BY <1>0, <1>1 DEF Caught
    <3> QED
      BY <1>12, <2>1, <3>1, <3>2
  <2> QED
    BY <1>0, <1>1, <2>1 DEF Caught, Known, ReadTo, logs
<1>14. \A l \in Kinds : \A i \in ToCome(l)' : i + 1 \in ToCome(l) /\ i \in Nat
                                              /\ channel'[i] = channel[i + 1]
  BY <1>1, <1>2 DEF ToCome, AfterSnapshot
<1>15. \A l \in Kinds : \A i \in ToCome(l) :
         \/ i = 1 /\ l = k
         \/ i - 1 \in ToCome(l)' /\ channel'[i - 1] = channel[i]
  <2>1. ASSUME NEW l \in Kinds, NEW i \in ToCome(l), i # 1
        PROVE  i - 1 \in ToCome(l)' /\ channel'[i - 1] = channel[i]
    <3>1. i \in DOMAIN channel /\ i \in Nat /\ i - 1 \in DOMAIN channel'
      BY <1>2, <1>3, <2>1 DEF ToCome
    <3>2. channel'[i - 1] = channel[i]
      <4>1. (i - 1) + 1 = i
        BY <3>1
      <4> QED
        BY <1>2, <3>1, <4>1
    <3> QED
      BY <1>1, <2>1, <3>1, <3>2 DEF ToCome, AfterSnapshot
  <2>2. ASSUME NEW l \in Kinds, 1 \in ToCome(l) PROVE l = k
    BY <2>2 DEF ToCome
  <2> QED
    BY <2>1, <2>2
<1>16. NoGapNoRepetition'
  <2>1. ASSUME NEW l \in Kinds, snap[l].read
        PROVE  /\ Rising(sent'[l])
               /\ Orderly(ToCome(l)', channel', sent'[l])
               /\ \A x \in due[l] \ overflow[l] :
                    \/ \E j \in DOMAIN sent'[l] : sent'[l][j] = x
                    \/ \E i \in ToCome(l)' : channel'[i].record = x
    <3>1. /\ Rising(sent[l]) /\ Orderly(ToCome(l), channel, sent[l])
          /\ \A x \in due[l] \ overflow[l] :
               \/ \E j \in DOMAIN sent[l] : sent[l][j] = x
               \/ \E i \in ToCome(l) : channel[i].record = x
      BY <1>0, <1>1, <2>1 DEF NoGapNoRepetition, Orderly
    <3>2. Rising(sent'[l])
      BY <1>7, <1>8, <3>1
    <3>3. Orderly(ToCome(l)', channel', sent'[l])
      <4>1. ASSUME NEW i \in ToCome(l)', NEW j \in DOMAIN sent'[l]
            PROVE  sent'[l][j] < channel'[i].record
        <5>1. i + 1 \in ToCome(l) /\ i + 1 > 1 /\ channel'[i] = channel[i + 1]
          <6>1. i \in DOMAIN channel' /\ channel' \in Seq(Item)
            BY <1>2, <4>1 DEF ToCome
          <6>2. i \in 1 .. Len(channel')
            BY <6>1, Indexed
          <6>3. i \in Nat /\ i + 1 > 1
            <7>1. Len(channel') \in Nat
              BY <6>1, Indexed
            <7> QED
              BY <6>2, <7>1
          <6> QED
            BY <1>14, <4>1, <6>3
        <5>2. l = k /\ 1 \in ToCome(k) => r < channel[i + 1].record
          BY <3>1, <5>1 DEF Orderly
        <5>3. j \in DOMAIN sent[l] => sent[l][j] < channel[i + 1].record
          BY <3>1, <5>1 DEF Orderly
        <5> QED
          BY <1>12, <4>1, <5>1, <5>2, <5>3
      <4>2. ASSUME NEW i \in ToCome(l)', NEW j \in ToCome(l)', i < j
            PROVE  channel'[i].record < channel'[j].record
        <5>1. i + 1 < j + 1
          BY <1>14, <4>2
        <5> QED
          BY <1>14, <3>1, <4>2, <5>1 DEF Orderly
      <4> QED
        BY <4>1, <4>2 DEF Orderly
    <3>4. ASSUME NEW x \in due[l] \ overflow[l]
          PROVE  \/ \E j \in DOMAIN sent'[l] : sent'[l][j] = x
                 \/ \E i \in ToCome(l)' : channel'[i].record = x
      <4>1. CASE \E j \in DOMAIN sent[l] : sent[l][j] = x
        <5>1. PICK j \in DOMAIN sent[l] : sent[l][j] = x
          BY <4>1
        <5>2. j \in DOMAIN sent'[l] /\ sent'[l][j] = sent[l][j]
          <6>1. CASE sent'[l] = sent[l]
            BY <6>1
          <6>2. CASE l = k /\ 1 \in ToCome(k)
            <7>1. sent'[l] = Append(sent[l], r) /\ sent[l] \in Seq(Nat)
              BY <1>5, <1>7, <6>2
            <7>2. DOMAIN sent[l] = 1 .. Len(sent[l]) /\ Len(sent[l]) \in Nat
              BY <7>1, Indexed
            <7>3. j \in 1 .. Len(sent[l]) + 1
              BY <7>2
            <7> QED
              BY <1>4, <7>1, <7>3, Appended
          <6> QED
            BY <1>7, <6>1, <6>2
        <5> QED
          BY <5>1, <5>2
      <4>2. CASE \E i \in ToCome(l) : channel[i].record = x
        <5>1. PICK i \in ToCome(l) : channel[i].record = x
          BY <4>2
        <5>2. CASE i = 1 /\ l = k
          <6>1. sent'[l] = Append(sent[l], r) /\ sent[l] \in Seq(Nat) /\ x = r
            BY <1>5, <1>7, <5>1, <5>2
          <6>2. Len(sent[l]) + 1 \in 1 .. Len(sent[l]) + 1
            <7>1. Len(sent[l]) \in Nat
              BY <6>1, Indexed
            <7> QED
              BY <7>1
          <6> QED
            BY <1>4, <6>1, <6>2, Appended
        <5> QED
          BY <1>15, <5>1, <5>2
      <4> QED
        BY <3>1, <4>1, <4>2
    <3> QED
      BY <3>2, <3>3, <3>4
  <2>2. pc' = pc /\ snap' = snap /\ due' = due /\ overflow' = overflow
    BY <1>1
  <2> QED
    BY <2>1, <2>2 DEF NoGapNoRepetition, Orderly
<1> QED
  BY <1>9, <1>10, <1>11, <1>13, <1>16 DEF LogIInv

LEMMA LeaveInv ==
  ASSUME LogIInv, Leave
  PROVE  LogIInv'
BY DEF LogIInv, Leave, LogTypeOK, FileInOrder, Placed, Caught, ReadFirst,
       NoGapNoRepetition, logs

(* A record that was in hand is in the file or lost; the files are counted anew. *)
LEMMA RestartInv ==
  ASSUME LogIInv, Restart
  PROVE  LogIInv'
<1>0. LogTypeOK /\ FileInOrder
  BY DEF LogIInv
<1>1. /\ size' = [k \in Kinds |-> Len(file[k])] /\ epoch' = [k \in Kinds |-> 0]
      /\ locked' = Nothing /\ written' = FALSE /\ pc' = "off"
      /\ UNCHANGED <<file, last, snap, channel, sent, due, overflow>>
  BY DEF Restart
<1>2. size' \in [Kinds -> Nat]
  <2>1. \A k \in Kinds : Len(file[k]) \in Nat
    BY <1>0, Indexed DEF LogTypeOK
  <2> QED
    BY <1>1, <2>1
<1>3. LogTypeOK'
  BY <1>0, <1>1, <1>2 DEF LogTypeOK
<1>4. FileInOrder'
  BY <1>0, <1>1 DEF FileInOrder
<1> QED
  BY <1>1, <1>3, <1>4 DEF LogIInv, Placed, Caught, ReadFirst, NoGapNoRepetition

--------------------------------------------------------------------------------
LEMMA LogIInvInit == Init => LogIInv
<1> SUFFICES ASSUME Init PROVE LogIInv
  OBVIOUS
<1>1. LogTypeOK
  <2>1. file \in [Kinds -> Seq(Nat)] /\ sent \in [Kinds -> Seq(Nat)] /\ channel \in Seq(Item)
    BY DEF Init
  <2>2. snap \in [Kinds -> Snapshot]
    BY DEF Init, Unread, Snapshot
  <2>3. due \in [Kinds -> SUBSET Nat] /\ overflow \in [Kinds -> SUBSET Nat]
    BY DEF Init, None
  <2> QED
    BY <2>1, <2>2, <2>3 DEF Init, LogTypeOK
<1>2. \A k \in Kinds : file[k] = <<>>
  BY DEF Init
<1>3. ASSUME NEW k \in Kinds PROVE DOMAIN file[k] = {}
  BY <1>2
<1>4. FileInOrder
  <2>1. ASSUME NEW k \in Kinds PROVE Rising(file[k])
    BY <1>3 DEF Rising
  <2> QED
    BY <1>3, <2>1 DEF FileInOrder
<1>5. pc = "off"
  BY DEF Init
<1> QED
  BY <1>1, <1>4, <1>5
  DEF LogIInv, Placed, Caught, ReadFirst, NoGapNoRepetition

LEMMA LogIInvNext == LogIInv /\ [Next]_vars => LogIInv'
<1> SUFFICES ASSUME LogIInv, [Next]_vars PROVE LogIInv'
  OBVIOUS
<1>1. CASE UNCHANGED vars
  BY <1>1 DEF LogIInv, LogTypeOK, FileInOrder, Placed, InLine, Known, Caught, ReadTo,
              ReadFirst, NoGapNoRepetition, ToCome, AfterSnapshot, vars
<1>2. CASE Next
  BY <1>2, BeginInv, WriteInv, ObserveInv, ReadLogTailInv, SubscribeInv, SendSnapshotInv,
     SendItemInv, LeaveInv, RestartInv DEF Next
<1> QED
  BY <1>1, <1>2

(***************************************************************************)
(* The invariant the property rests on: the files are in order, the items  *)
(* in the channel lie before the place their file is at, a snapshot at or  *)
(* before it, and only the record a writer holds logMu for is not known to *)
(* the handler (galgame_log.go:79-132, playlog.go:60-80).                  *)
(***************************************************************************)
THEOREM LogInductive == Spec => []LogIInv
BY LogIInvInit, LogIInvNext, PTL DEF Spec

(***************************************************************************)
(* What a client of GET /log/stream is sent and will be sent is in the     *)
(* order of the file, every record once, and nothing that was handed on    *)
(* after the file was read is missing but what found the channel full      *)
(* (galgame_log.go:121-123, play.go:187-244).                              *)
(***************************************************************************)
THEOREM StreamHasNoGap == Spec => []NoGapNoRepetition
<1>1. LogIInv => NoGapNoRepetition
  BY DEF LogIInv
<1> QED
  BY <1>1, LogInductive, PTL

================================================================================
