----------------------------- MODULE FactLogProofs -----------------------------
(***************************************************************************)
(* Proofs about FactLog for all batches, any old file and any number of    *)
(* faults: the inductive invariant FactIInv, and from it that confirmed    *)
(* facts survive, that the copy follows the log, and that the log is a     *)
(* list that grows without repetition (FactList).                          *)
(***************************************************************************)
EXTENDS FactLog, SequenceTheorems, TLAPS

(* Sequences: what is in them, and that nothing is in them twice. *)
LEMMA Joined ==
  ASSUME NEW m \in Nat, NEW n \in Nat, NEW s, NEW t, NEW u,
         DOMAIN s = 1 .. m, DOMAIN t = 1 .. n, DOMAIN u = 1 .. m + n,
         \A i \in 1 .. m + n : u[i] = IF i <= m THEN s[i] ELSE t[i - m],
         IsInjective(s), IsInjective(t), Range(s) \cap Range(t) = {}
  PROVE  IsInjective(u)
<1>1. SUFFICES ASSUME NEW i \in 1 .. m + n, NEW j \in 1 .. m + n, u[i] = u[j]
               PROVE  i = j
  BY DEF IsInjective
<1>2. \A a \in 1 .. m, b \in 1 .. n : s[a] # t[b]
  BY DEF Range
<1>3. CASE i <= m /\ j <= m
  BY <1>1, <1>3 DEF IsInjective
<1>4. CASE i > m /\ j > m
  <2>1. i - m \in 1 .. n /\ j - m \in 1 .. n /\ t[i - m] = t[j - m]
    BY <1>1, <1>4
  <2>2. i - m = j - m
    BY <2>1 DEF IsInjective
  <2> QED BY <2>2
<1>5. CASE i <= m /\ j > m
  <2>1. i \in 1 .. m /\ j - m \in 1 .. n /\ s[i] = t[j - m]
    BY <1>1, <1>5
  <2> QED BY <2>1, <1>2
<1>6. CASE i > m /\ j <= m
  <2>1. j \in 1 .. m /\ i - m \in 1 .. n /\ s[j] = t[i - m]
    BY <1>1, <1>6
  <2> QED BY <2>1, <1>2
<1> QED BY <1>3, <1>4, <1>5, <1>6

LEMMA Concatenated ==
  ASSUME NEW S, NEW s \in Seq(S), NEW t \in Seq(S)
  PROVE  /\ s \o t \in Seq(S)
         /\ Len(s \o t) = Len(s) + Len(t)
         /\ Range(s \o t) = Range(s) \cup Range(t)
         /\ IsInjective(s) /\ IsInjective(t) /\ Range(s) \cap Range(t) = {}
              => IsInjective(s \o t)
<1>1. /\ s \o t \in Seq(S)
      /\ Len(s \o t) = Len(s) + Len(t)
      /\ \A i \in 1 .. Len(s) + Len(t) :
           (s \o t)[i] = IF i <= Len(s) THEN s[i] ELSE t[i - Len(s)]
  BY ConcatProperties
<1>2. Range(s \o t) = Range(s) \cup Range(t)
  BY RangeConcatenation
<1>3. /\ Len(s) \in Nat /\ DOMAIN s = 1 .. Len(s)
      /\ Len(t) \in Nat /\ DOMAIN t = 1 .. Len(t)
      /\ DOMAIN (s \o t) = 1 .. Len(s) + Len(t)
  BY <1>1, LenProperties
<1>4. ASSUME IsInjective(s), IsInjective(t), Range(s) \cap Range(t) = {}
      PROVE  IsInjective(s \o t)
  BY <1>1, <1>3, <1>4, Joined
<1> QED BY <1>1, <1>2, <1>4

LEMMA Lengthened ==
  ASSUME NEW S, NEW s \in Seq(S), NEW e \in S
  PROVE  /\ Append(s, e) \in Seq(S)
         /\ Len(Append(s, e)) = Len(s) + 1
         /\ Range(Append(s, e)) = Range(s) \cup {e}
         /\ IsInjective(s) /\ e \notin Range(s) => IsInjective(Append(s, e))
<1> DEFINE t == <<e>>
<1>1. t \in Seq(S) /\ Len(t) = 1
  OBVIOUS
<1>2. Range(t) = {e} /\ IsInjective(t)
  BY DEF Range, IsInjective
<1>3. Append(s, e) = s \o t
  BY AppendIsConcat
<1> HIDE DEF t
<1>4. /\ s \o t \in Seq(S)
      /\ Len(s \o t) = Len(s) + Len(t)
      /\ Range(s \o t) = Range(s) \cup Range(t)
      /\ IsInjective(s) /\ IsInjective(t) /\ Range(s) \cap Range(t) = {}
           => IsInjective(s \o t)
  BY <1>1, Concatenated, Zenon
<1>5. e \notin Range(s) => Range(s) \cap Range(t) = {}
  BY <1>2
<1> QED
  BY <1>1, <1>2, <1>3, <1>4, <1>5

LEMMA Shortened ==
  ASSUME NEW S, NEW s \in Seq(S), NEW n \in 0 .. Len(s)
  PROVE  /\ SubSeq(s, 1, n) \in Seq(S)
         /\ Len(SubSeq(s, 1, n)) = n
         /\ \A i \in 1 .. n : SubSeq(s, 1, n)[i] = s[i]
         /\ Range(SubSeq(s, 1, n)) \subseteq Range(s)
         /\ IsInjective(s) => IsInjective(SubSeq(s, 1, n))
<1> DEFINE t == SubSeq(s, 1, n)
<1>1. Len(s) \in Nat /\ DOMAIN s = 1 .. Len(s) /\ \A i \in 1 .. n : s[i] \in S
  BY LenProperties, ElementOfSeq
<1>2. t \in Seq(S) /\ Len(t) = n /\ \A i \in 1 .. n : t[i] = s[i]
  BY <1>1, SubSeqProperties
<1>3. DOMAIN t = 1 .. n
  BY <1>2, LenProperties
<1>4. Range(t) \subseteq Range(s)
  BY <1>1, <1>2, <1>3 DEF Range
<1>5. IsInjective(s) => IsInjective(t)
  BY <1>1, <1>2, <1>3 DEF IsInjective
<1> QED BY <1>2, <1>4, <1>5

LEMMA Longer ==
  ASSUME NEW S, NEW s \in Seq(S), NEW t \in Seq(S), NEW n \in 0 .. Len(s)
  PROVE  /\ SubSeq(s \o t, 1, Len(s)) = s
         /\ SubSeq(s \o t, 1, n) = SubSeq(s, 1, n)
<1>1. ASSUME NEW m \in 0 .. Len(s) PROVE SubSeq(s \o t, 1, m) = SubSeq(s, 1, m)
  <2>1. Len(s) \in Nat /\ Len(t) \in Nat
    BY LenProperties
  <2>2. CASE m = 0
    BY <2>2, SubSeqEmpty
  <2>3. CASE m # 0
    BY <2>1, <2>3, SubSeqOfConcat1
  <2> QED BY <2>2, <2>3
<1>2. SubSeq(s, 1, Len(s)) = s
  BY SubSeqFull
<1>3. Len(s) \in 0 .. Len(s)
  BY LenProperties
<1> QED BY <1>1, <1>2, <1>3

LEMMA FactsAreFacts ==
  ASSUME BatchesAssumption, LegacyAssumption
  PROVE  /\ \A b \in Batches : b \in Seq(Fact) /\ Range(b) \subseteq Fact
         /\ Legacy \in Seq(Fact) /\ IsInjective(Legacy) /\ Range(Legacy) \subseteq Fact
         /\ <<>> \in Seq(Fact) /\ <<>> \in Seq(Fact \cup {Junk})
         /\ Range(<<>>) = {} /\ IsInjective(<<>>) /\ Len(<<>>) = 0
<1>1. \A b \in Batches : Range(b) \subseteq Fact
  BY DEF Fact
<1>2. \A b \in Batches : b \in Seq(Fact)
  BY <1>1, SeqMonotonic DEF BatchesAssumption
<1>3. Range(Legacy) \subseteq Fact
  BY DEF Fact
<1>4. Legacy \in Seq(Fact)
  BY <1>3, SeqMonotonic DEF LegacyAssumption
<1>5. Range(<<>>) = {} /\ IsInjective(<<>>)
  BY DEF Range, IsInjective
<1> QED BY <1>1, <1>2, <1>3, <1>4, <1>5 DEF LegacyAssumption

--------------------------------------------------------------------------------
LEMMA Initially ==
  ASSUME BatchesAssumption, LegacyAssumption, FaultsAssumption, Init
  PROVE  FactIInv
<1> USE FactsAreFacts DEF Init
<1>1. TypeOK
  <2>1. log \in File
    BY DEF NoFile, File
  <2>2. cache \in Cache
    BY DEF Unread, Cache
  <2>3. confirmed \subseteq Fact /\ faults \in 0 .. MaxFaults
    BY DEF FaultsAssumption
  <2> QED BY <2>1, <2>2, <2>3 DEF TypeOK
<1>2. LogParts
  BY DEF LogParts, NoFile
<1>3. CacheParts /\ CopyParts
  BY DEF CacheParts, CopyParts, Unread
<1>4. CallParts
  BY DEF CallParts, Unread
<1>5. AckedSurvives
  BY DEF AckedSurvives, NoFile
<1> QED BY <1>1, <1>2, <1>3, <1>4, <1>5 DEF FactIInv

(* A step that leaves the files alone and the call at the same place... *)
LEMMA BeginKeeps ==
  ASSUME BatchesAssumption, LegacyAssumption, FactIInv, NEW b \in Batches, Begin(b)
  PROVE  FactIInv'
<1> USE FactsAreFacts DEF FactIInv, Begin, disk
<1>1. TypeOK'
  BY DEF TypeOK
<1>2. LogParts' /\ AckedSurvives'
  BY DEF LogParts, AckedSurvives
<1>3. CacheParts' /\ CopyParts'
  BY DEF CacheParts, CopyParts, Facts, Written
<1>4. CallParts'
  BY DEF CallParts
<1> QED BY <1>1, <1>2, <1>3, <1>4

(* The files after a load, and what it keeps. *)
LEMMA LoadEffect ==
  ASSUME FactIInv
  PROVE  /\ log \in File /\ Repaired \in File
         /\ Repaired.there = log.there /\ Repaired.lines = log.lines
         /\ Repaired.torn = FALSE /\ Repaired.safe = log.safe
         /\ log.there \in BOOLEAN /\ log.lines \in Seq(Fact) /\ log.torn \in BOOLEAN
         /\ log.lines \in Seq(Fact \cup {Junk}) /\ log.safe \in Nat
         /\ ~log.there => log.lines = <<>> /\ ~log.torn
<1>1. log \in File
  BY DEF FactIInv, TypeOK
<1> DEFINE L == Seq(Fact \cup {Junk})
<1>2. log \in [there : BOOLEAN, lines : L, torn : BOOLEAN, safe : Nat]
  BY <1>1 DEF File
<1> HIDE DEF L
<1>7. log.there \in BOOLEAN /\ log.lines \in L /\ log.torn \in BOOLEAN /\ log.safe \in Nat
  BY <1>2
<1>8. /\ Repaired.there = log.there /\ Repaired.lines = log.lines
      /\ Repaired.torn = FALSE /\ Repaired.safe = log.safe
  BY <1>2 DEF Repaired
<1>3. Repaired \in [there : BOOLEAN, lines : L, torn : BOOLEAN, safe : Nat]
  BY <1>2 DEF Repaired
<1>4. log.lines \in Seq(Fact) /\ (~log.there => log.lines = <<>> /\ ~log.torn)
  BY DEF FactIInv, LogParts
<1> USE DEF L
<1>6. log \in File /\ Repaired \in File
  BY <1>2, <1>3 DEF File
<1> QED BY <1>4, <1>6, <1>7, <1>8

LEMMA LoadSucceedsKeeps ==
  ASSUME BatchesAssumption, LegacyAssumption, FactIInv, LoadSucceeds
  PROVE  FactIInv'
<1> USE FactsAreFacts, LoadEffect DEF FactIInv, LoadSucceeds, Load, call
<1>1. CASE cache.loaded
  <2>1. TypeOK'
    BY <1>1 DEF TypeOK
  <2>2. LogParts' /\ AckedSurvives'
    BY <1>1 DEF LogParts, AckedSurvives
  <2>3. CacheParts' /\ CopyParts'
    BY <1>1 DEF CacheParts, CopyParts, Facts, Written
  <2>4. CallParts'
    BY <1>1 DEF CallParts, TypeOK
  <2> QED BY <2>1, <2>2, <2>3, <2>4
<1>2. CASE ~cache.loaded
  <2>0. log' = Repaired /\ cache' = Loaded /\ ~ready
    BY <1>2 DEF CopyParts
  <2>1. /\ log' = Repaired /\ cache' = Loaded /\ ~ready
        /\ log'.there = log.there /\ log'.lines = log.lines /\ log'.safe = log.safe
        /\ ~log'.torn
        /\ cache'.loaded /\ cache'.hasLog = log.there /\ cache'.legacyPresent = legacy
        /\ cache'.values = IF log.there THEN log.lines ELSE IF legacy THEN Legacy ELSE <<>>
    BY <2>0 DEF Loaded
  <2>2. TypeOK'
    <3>1. log' \in File
      BY <2>1
    <3>2. cache' \in Cache
      BY <2>1 DEF Loaded, Cache, TypeOK
    <3> QED BY <3>1, <3>2 DEF TypeOK
  <2>3. LogParts' /\ AckedSurvives'
    BY <2>1 DEF LogParts, AckedSurvives, NoFile
  <2>4. CacheParts' /\ CopyParts'
    BY <2>1 DEF CacheParts, CopyParts, Facts, Written
  <2>5. CallParts'
    BY <2>1 DEF CallParts, TypeOK
  <2> QED BY <2>2, <2>3, <2>4, <2>5
<1> QED BY <1>1, <1>2

LEMMA ErrorKeeps ==
  ASSUME BatchesAssumption, LegacyAssumption, FaultsAssumption, FactIInv,
         LoadFails \/ CopyFails \/ RemoveFails
  PROVE  FactIInv'
<1> USE FactsAreFacts, LoadEffect DEF FactIInv, FaultsAssumption
<1>1. CASE LoadFails
  <2> USE <1>1 DEF LoadFails, Give, call, Fault
  <2>1. /\ log' \in {log, Repaired}
        /\ log'.there = log.there /\ log'.lines = log.lines /\ log'.safe = log.safe
    OBVIOUS
  <2>2. TypeOK'
    <3>1. log' \in File
      BY <2>1
    <3>2. cache' \in Cache
      BY DEF Unread, Cache
    <3>3. faults' \in 0 .. MaxFaults
      BY DEF TypeOK
    <3> QED BY <3>1, <3>2, <3>3 DEF TypeOK
  <2>3. LogParts' /\ AckedSurvives'
    BY <2>1 DEF LogParts, AckedSurvives, Unread, NoFile
  <2>4. CacheParts' /\ CopyParts' /\ CallParts'
    BY <2>1 DEF CacheParts, CopyParts, CallParts, Unread
  <2> QED BY <2>2, <2>3, <2>4
<1>2. CASE CopyFails \/ RemoveFails
  <2> USE <1>2 DEF CopyFails, RemoveFails, Give, call, disk, Fault
  <2>1. TypeOK'
    <3>1. faults' \in 0 .. MaxFaults
      BY DEF TypeOK
    <3>2. cache' = cache /\ ready' = FALSE /\ pc' = "idle"
      OBVIOUS
    <3> QED BY <3>1, <3>2 DEF TypeOK
  <2>2. LogParts' /\ AckedSurvives'
    BY DEF LogParts, AckedSurvives
  <2>3. CacheParts' /\ CopyParts' /\ CallParts'
    BY DEF CacheParts, CopyParts, CallParts, Facts, Written
  <2> QED BY <2>1, <2>2, <2>3
<1> QED BY <1>1, <1>2

LEMMA CopyCheckedKeeps ==
  ASSUME BatchesAssumption, LegacyAssumption, FactIInv, CopyChecked
  PROVE  FactIInv'
<1> USE FactsAreFacts DEF FactIInv, CopyChecked, call
<1>1. TypeOK'
  <2>1. cache.values \in Seq(Fact \cup {Junk})
    BY SeqMonotonic DEF TypeOK, Cache
  <2> QED BY <2>1 DEF TypeOK
<1>2. LogParts' /\ AckedSurvives'
  BY DEF LogParts, AckedSurvives
<1>3. CacheParts' /\ CopyParts'
  BY DEF CacheParts, CopyParts, CallParts, Facts, Written
<1>4. CallParts'
  BY DEF CallParts, TypeOK
<1> QED BY <1>1, <1>2, <1>3, <1>4

LEMMA ScanKeeps ==
  ASSUME BatchesAssumption, LegacyAssumption, FactIInv, Scan
  PROVE  FactIInv'
<1> USE FactsAreFacts DEF FactIInv, Scan, disk
<1> DEFINE e == batch[at + 1]
<1>1. /\ e \in Fact /\ e \in Range(batch)
      /\ at + 1 \in 1 .. Len(batch) /\ Len(batch) \in Nat
  BY LenProperties DEF TypeOK, Range
<1>2. added \in Seq(Fact) /\ IsInjective(added)
  BY DEF TypeOK, CallParts
<1>3. /\ added' \in Seq(Fact) /\ IsInjective(added')
      /\ Range(added) \subseteq Range(added') /\ Range(added') \subseteq Range(added) \cup {e}
      /\ e \in Range(cache.values) \cup Range(added')
      /\ Range(added) \cap Range(cache.values) = {} => Range(added') \cap Range(cache.values) = {}
  <2>1. CASE e \in Range(cache.values) \cup Range(added)
    BY <1>2, <2>1
  <2>2. CASE e \notin Range(cache.values) \cup Range(added)
    BY <1>1, <1>2, <2>2, Lengthened
  <2> QED BY <2>1, <2>2
<1>4. TypeOK'
  BY <1>3 DEF TypeOK
<1>5. LogParts' /\ AckedSurvives'
  BY DEF LogParts, AckedSurvives
<1>6. CacheParts' /\ CopyParts'
  BY DEF CacheParts, CopyParts, CallParts, Facts, Written
<1>7. CallParts'
  <2>1. \A i \in 1 .. at + 1 : batch[i] \in Range(cache.values) \cup Range(added')
    BY <1>1, <1>3 DEF CallParts, TypeOK
  <2> QED BY <1>1, <1>3, <2>1 DEF CallParts, TypeOK
<1> QED BY <1>4, <1>5, <1>6, <1>7

LEMMA ScannedKeeps ==
  ASSUME BatchesAssumption, LegacyAssumption, FactIInv, Scanned
  PROVE  FactIInv'
<1> USE FactsAreFacts DEF FactIInv, Scanned, disk
<1>1. TypeOK'
  BY DEF TypeOK
<1>2. LogParts' /\ AckedSurvives'
  BY DEF LogParts, AckedSurvives
<1>3. CacheParts' /\ CopyParts'
  <2>1. cache.values \in Seq(Fact) /\ added \in Seq(Fact)
    BY DEF TypeOK, Cache
  <2>2. cache.values \o <<>> = cache.values /\ SubSeq(added, 1, 0) = <<>>
    BY <2>1, ConcatEmptySeq, SubSeqEmpty
  <2>3. Written = <<>>
    BY DEF Written
  <2>4. Written' = <<>>
    BY <2>2 DEF Written
  <2>5. Facts' = Facts
    BY DEF Facts
  <2>6. CacheParts'
    BY <2>3, <2>4, <2>5 DEF CacheParts
  <2>7. CopyParts'
    BY DEF CopyParts
  <2> QED BY <2>6, <2>7
<1>4. CallParts'
  <2>1. Range(batch) \subseteq Range(cache.values) \cup Range(added)
    <3>1. DOMAIN batch = 1 .. Len(batch) /\ at = Len(batch)
      BY LenProperties DEF TypeOK
    <3>2. \A i \in DOMAIN batch : batch[i] \in Range(cache.values) \cup Range(added)
      BY <3>1 DEF CallParts
    <3> QED BY <3>2 DEF Range
  <2>2. pc' = "create" => ~log.there
    BY DEF CallParts, CacheParts
  <2>3. pc' = "append" => log.there /\ 0 <= Len(added)
    <3>1. Len(added) \in Nat
      BY LenProperties DEF TypeOK
    <3>2. pc' = "append" => cache.hasLog
      OBVIOUS
    <3> QED BY <3>1, <3>2 DEF CallParts, CacheParts
  <2>4. pc' = "sync" => log.there
    BY DEF CallParts, CacheParts
  <2> QED BY <2>1, <2>2, <2>3, <2>4 DEF CallParts
<1> QED BY <1>1, <1>2, <1>3, <1>4

LEMMA CreateKeeps ==
  ASSUME BatchesAssumption, LegacyAssumption, FactIInv, Create
  PROVE  FactIInv'
<1> USE DEF FactIInv, Create, call
<1> DEFINE all == cache.values \o added
<1>1. /\ cache.loaded /\ ~log.there /\ cache.values \in Seq(Fact) /\ added \in Seq(Fact)
      /\ Range(added) \cap Range(cache.values) = {} /\ IsInjective(added)
  BY DEF TypeOK, CallParts, Cache
<1>2. Written = <<>>
  BY DEF Written
<1>3. Facts = cache.values /\ IsInjective(Facts)
  <2>1. Facts = cache.values
    BY <1>1 DEF CacheParts
  <2>2. Facts = IF legacy THEN Legacy ELSE <<>>
    BY <1>1 DEF Facts
  <2> QED BY <2>1, <2>2, FactsAreFacts
<1>4. /\ all \in Seq(Fact) /\ IsInjective(all) /\ Len(all) \in Nat
      /\ Range(all) = Range(cache.values) \cup Range(added)
  BY <1>1, <1>3, Concatenated, LenProperties
<1>5. all \in Seq(Fact \cup {Junk})
  BY <1>4, SeqMonotonic
<1> HIDE DEF all
<1>6. /\ log'.there /\ log'.lines = all /\ ~log'.torn /\ log'.safe = Len(all)
      /\ cache'.loaded /\ cache'.hasLog /\ cache'.values = cache.values
      /\ cache'.legacyPresent = cache.legacyPresent /\ pc' = "remember"
  BY <1>1 DEF TypeOK, Cache, all
<1>7. TypeOK'
  <2>1. log' \in File
    BY <1>4, <1>5 DEF File, all
  <2>2. cache' \in Cache
    BY DEF TypeOK, Cache
  <2> QED BY <2>1, <2>2 DEF TypeOK
<1>8. LogParts'
  <2> HIDE DEF Create, FactIInv
  <2> QED BY <1>4, <1>6 DEF LogParts
<1>9. CacheParts'
  <2>1. Written' = added
    BY DEF Written
  <2>2. Facts' = all
    BY <1>6 DEF Facts
  <2> QED BY <1>1, <1>6, <2>1, <2>2 DEF CacheParts, all
<1>10. CopyParts' /\ CallParts'
  BY <1>1, <1>6 DEF CopyParts, CallParts
<1>11. AckedSurvives'
  <2>1. SubSeq(all, 1, Len(all)) = all
    BY <1>4, SubSeqFull
  <2>2. confirmed \subseteq Range(cache.values)
    BY <1>1, <1>3 DEF AckedSurvives, Facts
  <2> QED BY <1>4, <1>6, <2>1, <2>2 DEF AckedSurvives
<1> QED BY <1>7, <1>8, <1>9, <1>10, <1>11

LEMMA AppendLineKeeps ==
  ASSUME FactIInv, AppendLine
  PROVE  FactIInv'
<1> USE DEF FactIInv, AppendLine
<1> DEFINE e == added[at + 1]
<1>1. /\ cache.loaded /\ log.there /\ ~log.torn /\ log.lines \in Seq(Fact) /\ log.safe \in Nat
      /\ cache.values \in Seq(Fact) /\ added \in Seq(Fact) /\ at \in Nat
      /\ Range(added) \cap Range(cache.values) = {} /\ IsInjective(added)
      /\ log.safe <= Len(log.lines) /\ IsInjective(log.lines)
  BY DEF TypeOK, CallParts, LogParts, Cache, File
<1>2. /\ at + 1 \in 1 .. Len(added) /\ at \in 0 .. Len(added) /\ Len(added) \in Nat
      /\ DOMAIN added = 1 .. Len(added) /\ e \in Fact /\ e \in Range(added)
  BY <1>1, LenProperties DEF Range
<1>3. log.lines = cache.values \o SubSeq(added, 1, at)
  BY <1>1 DEF CacheParts, Facts, Written
<1>4. e \notin Range(log.lines)
  <2>1. /\ SubSeq(added, 1, at) \in Seq(Fact) /\ Len(SubSeq(added, 1, at)) = at
        /\ \A i \in 1 .. at : SubSeq(added, 1, at)[i] = added[i]
    BY <1>1, <1>2, Shortened
  <2>2. DOMAIN SubSeq(added, 1, at) = 1 .. at
    BY <2>1, LenProperties
  <2>3. \A i \in 1 .. at : added[i] # e
    BY <1>1, <1>2 DEF IsInjective
  <2>4. e \notin Range(SubSeq(added, 1, at))
    BY <2>1, <2>2, <2>3 DEF Range
  <2>5. Range(log.lines) = Range(cache.values) \cup Range(SubSeq(added, 1, at))
    <3> DEFINE w == SubSeq(added, 1, at)
    <3>1. w \in Seq(Fact) /\ cache.values \in Seq(Fact)
      BY <1>1, <2>1
    <3> HIDE DEF w
    <3>2. Range(cache.values \o w) = Range(cache.values) \cup Range(w)
      BY <3>1, RangeConcatenation
    <3> QED BY <1>3, <3>2 DEF w
  <2> QED BY <1>1, <1>2, <2>4, <2>5
<1>5. /\ log'.lines = Append(log.lines, e) /\ log'.there /\ ~log'.torn /\ log'.safe = log.safe
      /\ log' \in File
  <2>1. log' = [[log EXCEPT !.lines = Append(log.lines, e)] EXCEPT !.torn = FALSE]
    BY <1>1 DEF Extended, TypeOK, File
  <2>2. Append(log.lines, e) \in Seq(Fact \cup {Junk})
    BY <1>1, <1>2, Lengthened, SeqMonotonic
  <2> QED BY <1>1, <2>1, <2>2 DEF TypeOK, File
<1>6. /\ log'.lines \in Seq(Fact) /\ IsInjective(log'.lines)
      /\ Len(log'.lines) = Len(log.lines) + 1
  BY <1>1, <1>2, <1>4, <1>5, Lengthened
<1>7. log'.lines = cache.values \o SubSeq(added, 1, at + 1)
  <2>1. SubSeq(added, 1, at + 1) = SubSeq(added, 1, at) \o <<e>>
    <3>1. 1 \in 1 .. Len(added) /\ at + 1 \in 1 .. Len(added) /\ (at + 1) - 1 = at
      BY <1>1, <1>2
    <3> QED BY <1>1, <3>1, SubSeqRecursiveSecond
  <2>2. SubSeq(added, 1, at) \in Seq(Fact) /\ <<e>> \in Seq(Fact)
    BY <1>1, <1>2, Shortened
  <2>3. Append(log.lines, e) = log.lines \o <<e>>
    BY <1>1, <1>2, AppendIsConcat
  <2>4. (cache.values \o SubSeq(added, 1, at)) \o <<e>>
          = cache.values \o (SubSeq(added, 1, at) \o <<e>>)
    <3> DEFINE w == SubSeq(added, 1, at)  v == <<e>>
    <3>1. w \in Seq(Fact) /\ v \in Seq(Fact) /\ cache.values \in Seq(Fact)
      BY <1>1, <2>2
    <3> HIDE DEF w, v
    <3>0. \A a, b, c \in Seq(Fact) : (a \o b) \o c = a \o (b \o c)
      BY SMTT(30), ConcatAssociative
    <3>2. (cache.values \o w) \o v = cache.values \o (w \o v)
      BY <3>0, <3>1
    <3> QED BY <3>2 DEF w, v
  <2> QED BY <1>3, <1>5, <2>1, <2>3, <2>4
<1>8. TypeOK'
  BY <1>5 DEF TypeOK
<1>9. LogParts'
  <2>1. Len(log.lines) \in Nat
    BY <1>1, LenProperties
  <2> QED BY <1>1, <1>5, <1>6, <2>1 DEF LogParts
<1>10. CacheParts'
  <2>1. Written' = SubSeq(added, 1, at + 1)
    BY DEF Written
  <2>2. Facts' = log'.lines
    BY <1>5 DEF Facts
  <2> QED BY <1>1, <1>5, <1>7, <2>1, <2>2 DEF CacheParts
<1>11. CopyParts' /\ CallParts'
  BY <1>1, <1>2, <1>5 DEF CopyParts, CallParts
<1>12. AckedSurvives'
  <2>1. log.safe \in 0 .. Len(log.lines)
    BY <1>1, LenProperties
  <2>2. SubSeq(log'.lines, 1, log.safe) = SubSeq(log.lines, 1, log.safe)
    <3>1. Append(log.lines, e) = log.lines \o <<e>> /\ <<e>> \in Seq(Fact)
      BY <1>1, <1>2, AppendIsConcat
    <3> QED BY SMTT(30), <1>1, <1>5, <2>1, <3>1, Longer
  <2> QED BY <1>1, <1>5, <2>2 DEF AckedSurvives
<1> QED BY <1>8, <1>9, <1>10, <1>11, <1>12

LEMMA AppendedKeeps ==
  ASSUME FactIInv, Appended
  PROVE  FactIInv'
<1> USE DEF FactIInv, Appended, disk, call
<1>1. TypeOK' /\ LogParts' /\ AckedSurvives'
  BY DEF TypeOK, LogParts, AckedSurvives
<1>2. CacheParts' /\ CopyParts'
  <2>1. SubSeq(added, 1, at) = added
    BY SubSeqFull DEF TypeOK
  <2>2. Written' = Written /\ Facts' = Facts
    BY <2>1 DEF Written, Facts
  <2> QED BY <2>2 DEF CacheParts, CopyParts
<1>3. CallParts'
  BY DEF CallParts
<1> QED BY <1>1, <1>2, <1>3

LEMMA SyncKeeps ==
  ASSUME FactIInv, Sync
  PROVE  FactIInv'
<1> USE DEF FactIInv, Sync, call
<1>1. /\ log'.there = log.there /\ log'.lines = log.lines /\ log'.torn = log.torn
      /\ log'.safe = Len(log.lines) /\ log' \in File
      /\ log.there /\ log.lines \in Seq(Fact) /\ Len(log.lines) \in Nat /\ log.safe \in Nat
  <2>1. log.lines \in Seq(Fact) /\ log.there
    BY DEF LogParts, CallParts
  <2>2. Len(log.lines) \in Nat
    BY <2>1, LenProperties
  <2> QED BY <2>1, <2>2 DEF TypeOK, File
<1>2. TypeOK' /\ LogParts'
  BY <1>1 DEF TypeOK, LogParts
<1>3. CacheParts' /\ CopyParts' /\ CallParts'
  BY <1>1 DEF CacheParts, CopyParts, CallParts, Written, Facts
<1>4. AckedSurvives'
  <2>1. SubSeq(log.lines, 1, Len(log.lines)) = log.lines
    BY <1>1, SubSeqFull
  <2>2. log.safe \in 0 .. Len(log.lines)
    BY <1>1 DEF LogParts
  <2>3. Range(SubSeq(log.lines, 1, log.safe)) \subseteq Range(log.lines)
    BY <1>1, <2>2, Shortened
  <2> QED BY <1>1, <2>1, <2>3 DEF AckedSurvives
<1> QED BY <1>2, <1>3, <1>4

LEMMA RememberKeeps ==
  ASSUME FactIInv, Remember
  PROVE  FactIInv'
<1> USE DEF FactIInv, Remember, disk, call
<1>1. /\ cache.values \in Seq(Fact) /\ added \in Seq(Fact)
      /\ cache.loaded /\ log.there /\ ready
  BY DEF TypeOK, Cache, CallParts
<1>2. /\ cache'.values = cache.values \o added /\ cache' \in Cache
      /\ cache'.loaded /\ cache'.hasLog = cache.hasLog
      /\ cache'.legacyPresent = cache.legacyPresent
      /\ Range(cache'.values) = Range(cache.values) \cup Range(added)
  <2>1. /\ cache.values \o added \in Seq(Fact)
        /\ Range(cache.values \o added) = Range(cache.values) \cup Range(added)
    BY <1>1, Concatenated
  <2> QED BY <1>1, <2>1 DEF TypeOK, Cache
<1>3. Facts' = Facts /\ Facts = cache.values \o added
  BY <1>1 DEF CacheParts, Facts, Written
<1>4. TypeOK' /\ LogParts' /\ AckedSurvives'
  BY <1>2 DEF TypeOK, LogParts, AckedSurvives
<1>5. CacheParts'
  <2>1. Written' = <<>> /\ cache'.values \in Seq(Fact)
    BY <1>2 DEF Written, Cache
  <2>2. cache'.values \o <<>> = cache'.values
    BY <2>1, ConcatEmptySeq
  <2> QED BY <1>1, <1>2, <1>3, <2>1, <2>2 DEF CacheParts
<1>6. CopyParts' /\ CallParts'
  BY <1>1, <1>2 DEF CopyParts, CallParts
<1> QED BY <1>4, <1>5, <1>6

LEMMA RemoveLegacyKeeps ==
  ASSUME FactIInv, RemoveLegacy
  PROVE  FactIInv'
<1> USE DEF FactIInv, RemoveLegacy, call
<1>1. /\ cache' \in Cache /\ cache'.values = cache.values /\ cache'.legacyPresent = FALSE
      /\ cache'.loaded = cache.loaded /\ cache'.hasLog = cache.hasLog /\ log.there
  BY DEF TypeOK, Cache, CallParts
<1>2. TypeOK' /\ LogParts' /\ AckedSurvives'
  BY <1>1 DEF TypeOK, LogParts, AckedSurvives
<1>3. Written' = Written /\ Facts' = Facts
  BY <1>1 DEF Written, Facts
<1>4. CacheParts'
  BY <1>1, <1>3 DEF CacheParts
<1>5. CopyParts'
  BY <1>1 DEF CopyParts
<1>6. CallParts'
  BY <1>1 DEF CallParts
<1> QED BY <1>2, <1>4, <1>5, <1>6

LEMMA ShowKeeps ==
  ASSUME FactIInv, Show
  PROVE  FactIInv'
<1> USE DEF FactIInv, Show, call
<1>1. /\ copy \in Seq(Fact \cup {Junk}) /\ added \in Seq(Fact \cup {Junk}) /\ batch \in Seq(Fact)
      /\ cache.values = copy \o added /\ cache.loaded /\ log.there
      /\ Range(batch) \subseteq Range(cache.values) /\ log.safe = Len(log.lines)
      /\ log.lines \in Seq(Fact)
  BY SeqMonotonic DEF TypeOK, CallParts, CopyParts, LogParts
<1>2. Written = <<>> /\ Written' = <<>> /\ Facts' = Facts
  BY DEF Written, Facts
<1>3. copy' \in Seq(Fact \cup {Junk}) /\ Range(batch) \subseteq Fact
  BY <1>1, Concatenated, RangeOfSeq
<1>4. TypeOK' /\ LogParts'
  BY <1>3 DEF TypeOK, LogParts
<1>5. CacheParts' /\ CopyParts' /\ CallParts'
  BY <1>1, <1>2 DEF CacheParts, CopyParts, CallParts
<1>6. AckedSurvives'
  <2>1. SubSeq(log.lines, 1, Len(log.lines)) = log.lines
    BY <1>1, SubSeqFull
  <2>2. log.lines = cache.values
    <3>1. cache.values \in Seq(Fact)
      BY DEF TypeOK, Cache
    <3>2. log.lines = cache.values \o <<>>
      BY <1>1, <1>2 DEF CacheParts, Facts
    <3> QED BY <3>1, <3>2, ConcatEmptySeq
  <2> QED BY <1>1, <2>1, <2>2 DEF AckedSurvives
<1> QED BY <1>4, <1>5, <1>6

LEMMA WriteFailsKeeps ==
  ASSUME FaultsAssumption, BatchesAssumption, LegacyAssumption, FactIInv, WriteFails
  PROVE  FactIInv'
<1> USE FactsAreFacts DEF FactIInv, WriteFails, Give, Fault, call, FaultsAssumption
<1>1. /\ log' \in File /\ log'.there = log.there /\ log'.lines = log.lines
      /\ log'.safe = log.safe /\ (log'.torn => log.torn \/ log.there)
  <2>1. CASE log' = log
    BY <2>1 DEF TypeOK
  <2>2. CASE pc = "append" /\ log' = [log EXCEPT !.torn = TRUE]
    BY <2>2 DEF TypeOK, File, CallParts
  <2> QED BY <2>1, <2>2
<1>2. TypeOK'
  <2>1. cache' \in Cache
    BY DEF Unread, Cache
  <2>2. faults' \in 0 .. MaxFaults
    BY DEF TypeOK
  <2> QED BY <1>1, <2>1, <2>2 DEF TypeOK
<1>3. LogParts' /\ AckedSurvives'
  BY <1>1 DEF LogParts, AckedSurvives, Unread
<1>4. CacheParts' /\ CopyParts' /\ CallParts'
  BY DEF CacheParts, CopyParts, CallParts, Unread
<1> QED BY <1>2, <1>3, <1>4

(* What a failed or interrupted write leaves of the copy for human readers. *)
LEMMA CopyStaysASequence ==
  ASSUME TypeOK, NEW n \in 0 .. Len(added), NEW piece \in {<<>>, <<Junk>>}
  PROVE  copy \o SubSeq(added, 1, n) \o piece \in Seq(Fact \cup {Junk})
<1> DEFINE w == SubSeq(added, 1, n)
<1>1. w \in Seq(Fact)
  BY Shortened DEF TypeOK
<1>0. Fact \subseteq Fact \cup {Junk} /\ <<Junk>> \in Seq(Fact \cup {Junk})
  OBVIOUS
<1>2. w \in Seq(Fact \cup {Junk}) /\ piece \in Seq(Fact \cup {Junk})
  BY <1>0, <1>1, SeqMonotonic, EmptySeq
<1> HIDE DEF w
<1>3. copy \o w \in Seq(Fact \cup {Junk})
  BY <1>2, Concatenated DEF TypeOK
<1>4. (copy \o w) \o piece \in Seq(Fact \cup {Junk})
  BY <1>2, <1>3, Concatenated
<1> QED BY <1>4 DEF w

LEMMA ShowFailsKeeps ==
  ASSUME FaultsAssumption, FactIInv, ShowFails
  PROVE  FactIInv'
<1> USE DEF FactIInv, ShowFails, Give, Fault, call, FaultsAssumption
<1>1. copy' \in Seq(Fact \cup {Junk})
  BY CopyStaysASequence
<1>2. faults' \in 0 .. MaxFaults
  BY DEF TypeOK
<1>3. TypeOK' /\ LogParts' /\ AckedSurvives'
  BY <1>1, <1>2 DEF TypeOK, LogParts, AckedSurvives
<1>4. CacheParts' /\ CopyParts' /\ CallParts'
  BY DEF CacheParts, CopyParts, CallParts, Written, Facts
<1> QED BY <1>3, <1>4

LEMMA ReadKeeps ==
  ASSUME BatchesAssumption, LegacyAssumption, FactIInv, Read
  PROVE  FactIInv'
<1> USE FactsAreFacts, LoadEffect DEF FactIInv, Read, Load, call
<1>0. log' = Repaired /\ cache' = Loaded /\ ~ready
  BY DEF CopyParts
<1>1. /\ log'.there = log.there /\ log'.lines = log.lines /\ log'.safe = log.safe
      /\ ~log'.torn
      /\ cache'.loaded /\ cache'.hasLog = log.there /\ cache'.legacyPresent = legacy
      /\ cache'.values = IF log.there THEN log.lines ELSE IF legacy THEN Legacy ELSE <<>>
  BY <1>0 DEF Loaded
<1>2. TypeOK'
  <2>1. log' \in File
    BY <1>0
  <2>2. cache' \in Cache
    BY <1>0, <1>1 DEF Loaded, Cache, TypeOK
  <2> QED BY <2>1, <2>2 DEF TypeOK
<1>3. LogParts' /\ AckedSurvives'
  BY <1>1 DEF LogParts, AckedSurvives
<1>4. CacheParts'
  <2>1. Written' = <<>> /\ log.lines \o <<>> = log.lines
    BY ConcatEmptySeq DEF Written
  <2>2. Facts' = cache'.values
    BY <1>1 DEF Facts
  <2> QED BY <1>1, <2>1, <2>2 DEF CacheParts
<1>5. CopyParts' /\ CallParts'
  BY <1>0, <1>1 DEF CopyParts, CallParts
<1> QED BY <1>2, <1>3, <1>4, <1>5

LEMMA DieKeeps ==
  ASSUME FaultsAssumption, BatchesAssumption, LegacyAssumption, FactIInv, Die
  PROVE  FactIInv'
<1> USE FactsAreFacts DEF FactIInv, Die, Forget, Fault, call, FaultsAssumption
<1>1. /\ log' \in File /\ log'.there = log.there /\ log'.lines = log.lines
      /\ log'.safe = log.safe /\ (log'.torn => log.torn \/ log.there)
  <2>1. CASE log' = log
    BY <2>1 DEF TypeOK
  <2>2. CASE pc = "append" /\ log' = [log EXCEPT !.torn = TRUE]
    BY <2>2 DEF TypeOK, File, CallParts
  <2> QED BY <2>1, <2>2
<1>2. copy' \in Seq(Fact \cup {Junk})
  <2>1. CASE copy' = copy
    BY <2>1 DEF TypeOK
  <2>2. CASE \E n \in 0 .. Len(added), piece \in {<<>>, <<Junk>>} :
               copy' = copy \o SubSeq(added, 1, n) \o piece
    BY <2>2, CopyStaysASequence
  <2> QED BY <2>1, <2>2
<1>3. TypeOK'
  <2>1. cache' \in Cache
    BY DEF Unread, Cache
  <2>2. faults' \in 0 .. MaxFaults
    BY DEF TypeOK
  <2> QED BY <1>1, <1>2, <2>1, <2>2 DEF TypeOK
<1>4. LogParts' /\ AckedSurvives'
  BY <1>1 DEF LogParts, AckedSurvives, Unread
<1>5. CacheParts' /\ CopyParts' /\ CallParts'
  BY DEF CacheParts, CopyParts, CallParts, Unread
<1> QED BY <1>3, <1>4, <1>5

LEMMA PowerFailsKeeps ==
  ASSUME FaultsAssumption, BatchesAssumption, LegacyAssumption, FactIInv, PowerFails
  PROVE  FactIInv'
<1> USE FactsAreFacts DEF FactIInv, PowerFails, Forget, Fault, call, FaultsAssumption
<1>1. PICK n \in log.safe .. Len(log.lines), t \in BOOLEAN :
        /\ t => (n < Len(log.lines) \/ log.torn)
        /\ log' = [log EXCEPT !.lines = SubSeq(log.lines, 1, n), !.torn = t]
  BY DEF TypeOK, File
<1>2. /\ log.lines \in Seq(Fact) /\ Len(log.lines) \in Nat /\ log.safe \in Nat
      /\ log.safe <= Len(log.lines) /\ IsInjective(log.lines)
      /\ n \in 0 .. Len(log.lines) /\ log.safe \in 0 .. n
      /\ (~log.there => log.lines = <<>> /\ ~log.torn)
  <2>1. log.lines \in Seq(Fact) /\ log.safe <= Len(log.lines) /\ log.safe \in Nat
    BY DEF LogParts, TypeOK, File
  <2>2. Len(log.lines) \in Nat
    BY <2>1, LenProperties
  <2> QED BY <2>1, <2>2 DEF LogParts
<1> DEFINE rest == SubSeq(log.lines, 1, n)
<1>3. rest \in Seq(Fact) /\ Len(rest) = n /\ IsInjective(rest)
  BY <1>2, Shortened
<1>4. rest \in Seq(Fact \cup {Junk})
  BY <1>3, SeqMonotonic
<1>5. SubSeq(rest, 1, log.safe) = SubSeq(log.lines, 1, log.safe)
  <2>1. CASE log.safe = 0
    BY <2>1, SubSeqEmpty
  <2>2. CASE log.safe # 0
    <3>1. /\ 1 \in 1 .. Len(log.lines) /\ n \in 1 .. Len(log.lines)
          /\ 1 \in 1 .. n - 1 + 1 /\ log.safe \in 1 .. n - 1 + 1
          /\ 1 + 1 - 1 = 1 /\ 1 + log.safe - 1 = log.safe
      BY <1>2, <2>2
    <3> QED BY SMTT(30), <1>2, <3>1, SubSeqOfSubSeq
  <2> QED BY <2>1, <2>2
<1> HIDE DEF rest
<1>6. /\ log'.lines = rest /\ log'.torn = t /\ log'.there = log.there
      /\ log'.safe = log.safe /\ log' \in File
  BY <1>1, <1>4 DEF TypeOK, File, rest
<1>7. copy' \in Seq(Fact \cup {Junk})
  BY Shortened DEF TypeOK
<1>8. TypeOK'
  <2>1. cache' \in Cache
    BY DEF Unread, Cache
  <2>2. faults' \in 0 .. MaxFaults
    BY DEF TypeOK
  <2> QED BY <1>6, <1>7, <2>1, <2>2 DEF TypeOK
<1>9. LogParts'
  <2>1. ~log.there => rest = <<>> /\ ~t
    <3>1. ASSUME ~log.there PROVE rest = <<>> /\ ~t
      <4>1. n = 0 /\ Len(log.lines) = 0
        BY <1>2, <3>1
      <4>2. rest = <<>>
        BY <4>1, SubSeqEmpty DEF rest
      <4> QED BY <1>1, <1>2, <3>1, <4>1, <4>2
    <3> QED BY <3>1
  <2>2. log.safe <= Len(rest) /\ ~cache'.loaded
    BY <1>2, <1>3 DEF Unread
  <2> HIDE DEF PowerFails, FactIInv
  <2> QED BY <1>3, <1>6, <2>1, <2>2 DEF LogParts
<1>10. AckedSurvives'
  BY <1>5, <1>6 DEF AckedSurvives
<1>11. CacheParts' /\ CopyParts' /\ CallParts'
  BY DEF CacheParts, CopyParts, CallParts, Unread
<1> QED BY <1>8, <1>9, <1>10, <1>11

--------------------------------------------------------------------------------
(* The cache that decides which facts are new agrees with the file, whatever      *)
(* fails: the type invariant, strengthened until it is inductive.                 *)
THEOREM Inductive == Spec => []FactIInv
<1> USE BatchesAssumption, LegacyAssumption, FaultsAssumption
<1>1. Init => FactIInv
  BY Initially
<1>2. FactIInv /\ [Next]_vars => FactIInv'
  <2> SUFFICES ASSUME FactIInv, [Next]_vars PROVE FactIInv'
    OBVIOUS
  <2>1. CASE \E b \in Batches : Begin(b)
    BY <2>1, BeginKeeps
  <2>2. CASE Finish
    BY <2>2, LoadSucceedsKeeps, CopyCheckedKeeps, ScanKeeps, ScannedKeeps, CreateKeeps,
       AppendLineKeeps, AppendedKeeps, SyncKeeps, RememberKeeps, RemoveLegacyKeeps, ShowKeeps
       DEF Finish
  <2>3. CASE Fail
    BY <2>3, ErrorKeeps, WriteFailsKeeps, ShowFailsKeeps DEF Fail
  <2>4. CASE Read \/ Die \/ PowerFails
    BY <2>4, ReadKeeps, DieKeeps, PowerFailsKeeps
  <2>5. CASE UNCHANGED vars
    BY <2>5 DEF vars, FactIInv, TypeOK, LogParts, CacheParts, CallParts, CopyParts,
       AckedSurvives, Facts, Written
  <2> QED BY <2>1, <2>2, <2>3, <2>4, <2>5 DEF Next
<1> QED BY <1>1, <1>2, PTL DEF Spec

(* What a call has returned success for is on the disk for good.                  *)
THEOREM ConfirmedForGood == Spec => []AckedSurvives
<1>1. FactIInv => AckedSurvives
  BY DEF FactIInv
<1> QED BY <1>1, Inductive, PTL

(* Between calls the copy for human readers, once checked, holds the facts.       *)
THEOREM CopyIsTrue == Spec => []CopyFollowsLog
<1>1. FactIInv => CopyFollowsLog
  <2> SUFFICES ASSUME FactIInv, ready, pc = "idle" PROVE copy = Facts
    BY DEF CopyFollowsLog
  <2>1. copy = cache.values /\ cache.loaded /\ Written = <<>> /\ cache.values \in Seq(Fact)
    BY DEF FactIInv, CopyParts, Written, TypeOK, Cache
  <2>2. cache.values \o <<>> = cache.values
    BY <2>1, ConcatEmptySeq
  <2>3. Facts = cache.values
    BY <2>1, <2>2 DEF FactIInv, CacheParts
  <2> QED BY <2>1, <2>3
<1> QED BY <1>1, Inductive, PTL

--------------------------------------------------------------------------------
LEMMA ConfirmedIsFound ==
  ASSUME FactIInv
  PROVE  /\ confirmed \subseteq Range(Facts)
         /\ log.there => Facts \in Seq(Fact) /\ IsInjective(Facts)
<1>1. log.lines \in Seq(Fact) /\ Len(log.lines) \in Nat /\ log.safe \in 0 .. Len(log.lines)
      /\ IsInjective(log.lines)
  <2>1. log.lines \in Seq(Fact) /\ log.safe \in Nat /\ log.safe <= Len(log.lines)
        /\ IsInjective(log.lines)
    BY DEF FactIInv, LogParts, TypeOK, File
  <2> QED BY <2>1, LenProperties
<1>2. Range(SubSeq(log.lines, 1, log.safe)) \subseteq Range(log.lines)
  BY <1>1, Shortened
<1> QED BY <1>1, <1>2 DEF FactIInv, AckedSurvives, Facts

LEMMA ConfirmedIsFoundLater ==
  ASSUME FactIInv'
  PROVE  confirmed' \subseteq Range(Facts)'
<1>1. /\ log'.lines \in Seq(Fact) /\ Len(log'.lines) \in Nat
      /\ log'.safe \in 0 .. Len(log'.lines)
  <2>1. log'.lines \in Seq(Fact) /\ log'.safe \in Nat /\ log'.safe <= Len(log'.lines)
    BY DEF FactIInv, LogParts, TypeOK, File
  <2> QED BY <2>1, LenProperties
<1>2. Range(SubSeq(log'.lines, 1, log'.safe)) \subseteq Range(log'.lines)
  BY <1>1, Shortened
<1> QED BY <1>1, <1>2 DEF FactIInv, AckedSurvives, Facts

LEMMA CreateGrows ==
  ASSUME BatchesAssumption, LegacyAssumption, FactIInv, FactIInv', Create
  PROVE  List!Grow(batch)
<1> DEFINE new == added
<1>1. /\ cache.values \in Seq(Fact) /\ new \in Seq(Fact) /\ cache.loaded /\ ~log.there
      /\ Range(new) \subseteq Range(batch)
  BY DEF Create, FactIInv, TypeOK, Cache, CallParts
<1> HIDE DEF new
<1>2. Facts = cache.values
  BY <1>1 DEF FactIInv, CacheParts
<1>3. Facts' = Facts \o new /\ IsInjective(Facts')
  BY <1>2, ConfirmedIsFound DEF Create, Facts, FactIInv, LogParts, new
<1>4. SubSeq(Facts', 1, Len(Facts)) = Facts
  BY <1>1, <1>2, <1>3, Longer
<1>5. Len(Facts) <= Len(Facts') /\ Range(Facts') \subseteq Range(Facts) \cup Range(batch)
  BY <1>1, <1>2, <1>3, Concatenated, LenProperties
<1> QED BY <1>3, <1>4, <1>5 DEF List!Grow, Create, List!Range, List!IsInjective,
       Range, IsInjective

LEMMA AppendLineGrows ==
  ASSUME FactIInv, FactIInv', AppendLine
  PROVE  List!Grow(batch)
<1> DEFINE e == added[at + 1]
<1>1. /\ log.lines \in Seq(Fact) /\ log.there /\ ~log.torn /\ cache.loaded
      /\ added \in Seq(Fact) /\ at \in Nat /\ Range(added) \subseteq Range(batch)
  BY DEF AppendLine, FactIInv, TypeOK, CallParts, LogParts
<1>2. e \in Fact /\ e \in Range(batch)
  <2>1. at + 1 \in DOMAIN added /\ at + 1 \in 1 .. Len(added)
    BY <1>1, LenProperties DEF AppendLine
  <2> QED BY <1>1, <2>1, ElementOfSeq DEF Range
<1>3. log'.lines = Append(log.lines, e) /\ log'.there
  BY <1>1 DEF AppendLine, Extended, FactIInv, TypeOK, File
<1> HIDE DEF e
<1>4. Facts = log.lines /\ Facts' = Append(log.lines, e)
  BY <1>1, <1>3 DEF Facts
<1>5. IsInjective(Facts')
  BY <1>3, <1>4 DEF FactIInv, LogParts
<1>6. Append(log.lines, e) = log.lines \o <<e>> /\ <<e>> \in Seq(Fact)
  BY <1>1, <1>2, AppendIsConcat
<1>7. SubSeq(Facts', 1, Len(Facts)) = Facts
  BY <1>1, <1>4, <1>6, Longer
<1>8. Len(Facts) <= Len(Facts') /\ Range(Facts') \subseteq Range(Facts) \cup Range(batch)
  BY <1>1, <1>2, <1>4, Lengthened, LenProperties
<1> QED BY <1>5, <1>7, <1>8 DEF List!Grow, AppendLine, List!Range, List!IsInjective,
       Range, IsInjective

LEMMA PowerFailsLoses ==
  ASSUME FactIInv, FactIInv', PowerFails
  PROVE  List!Lose \/ UNCHANGED List!vars
<1>1. PICK n \in log.safe .. Len(log.lines), t \in BOOLEAN :
        log' = [log EXCEPT !.lines = SubSeq(log.lines, 1, n), !.torn = t]
  BY DEF PowerFails, FactIInv, TypeOK, File
<1>2. log'.lines = SubSeq(log.lines, 1, n) /\ log'.there = log.there
  BY <1>1 DEF FactIInv, TypeOK, File
<1>3. confirmed' = confirmed /\ legacy' = legacy
  BY DEF PowerFails, Forget
<1>4. CASE log.there
  <2>1. Facts = log.lines /\ Facts' = SubSeq(Facts, 1, n)
    BY <1>2, <1>4 DEF Facts
  <2>2. n \in 0 .. Len(Facts)
    <3>1. log.safe \in Nat /\ Len(log.lines) \in Nat
      BY LenProperties DEF FactIInv, TypeOK, File, LogParts
    <3> QED BY <2>1, <3>1
  <2>3. confirmed \subseteq Range(Facts')
    <3>1. confirmed' \subseteq Range(Facts)'
      BY ConfirmedIsFoundLater
    <3> QED BY <1>3, <3>1
  <2> QED BY <1>3, <2>1, <2>2, <2>3 DEF List!Lose, List!Range, List!IsInjective, Range,
       IsInjective
<1>5. CASE ~log.there
  BY <1>2, <1>3, <1>5 DEF Facts, List!vars
<1> QED BY <1>4, <1>5

(* Every step of a call, of a failure and of a crash is a step of the list that   *)
(* grows without repetition, or invisible in it.                                  *)
THEOREM LogImplementsList == Spec => ImplementsFactList
<1> USE BatchesAssumption, LegacyAssumption, FaultsAssumption
<1>1. Init => List!Init
  BY FactsAreFacts DEF Init, List!Init, Facts, NoFile, List!Range, Range
<1>2. FactIInv /\ FactIInv' /\ [Next]_vars => [List!Next]_List!vars
  <2> SUFFICES ASSUME FactIInv, FactIInv', [Next]_vars PROVE List!Next \/ UNCHANGED List!vars
    OBVIOUS
  <2>1. CASE Create
    BY <2>1, CreateGrows DEF Create, List!Next, FactIInv, CallParts
  <2>2. CASE AppendLine
    BY <2>2, AppendLineGrows DEF AppendLine, List!Next, FactIInv, CallParts
  <2>3. CASE Show
    <3>1. log.there /\ cache.loaded /\ Range(batch) \subseteq Range(cache.values)
          /\ batch \in Batches /\ cache.values \in Seq(Fact)
      BY <2>3 DEF Show, FactIInv, CallParts, TypeOK, Cache
    <3>2. cache.values \o <<>> = cache.values
      BY <3>1, ConcatEmptySeq
    <3>3. Facts = cache.values /\ Facts' = Facts
      BY <2>3, <3>1, <3>2 DEF Show, FactIInv, CacheParts, Written, Facts
    <3> QED BY <2>3, <3>1, <3>3 DEF Show, List!Next, List!Confirm, List!Range, List!IsInjective, Range,
       IsInjective
  <2>4. CASE PowerFails
    BY <2>4, PowerFailsLoses DEF List!Next
  <2>5. CASE \/ \E b \in Batches : Begin(b)
             \/ Scan \/ Scanned \/ CopyChecked \/ Appended \/ Remember
             \/ CopyFails \/ RemoveFails \/ ShowFails
             \/ UNCHANGED vars
    BY <2>5 DEF Begin, Scan, Scanned, CopyChecked, Appended, Remember, CopyFails,
       RemoveFails, ShowFails, disk, call, vars, Facts, List!vars
  <2>6. CASE LoadSucceeds \/ LoadFails \/ Read
    BY <2>6, LoadEffect DEF LoadSucceeds, LoadFails, Read, Load, Facts, List!vars
  <2>7. CASE Sync
    BY <2>7 DEF Sync, Facts, List!vars, FactIInv, TypeOK, File
  <2>8. CASE WriteFails \/ Die
    BY <2>8 DEF WriteFails, Die, Forget, Facts, List!vars, FactIInv, TypeOK, File
  <2>9. CASE RemoveLegacy
    BY <2>9 DEF RemoveLegacy, Facts, List!vars, FactIInv, CallParts
  <2> QED BY <2>1, <2>2, <2>3, <2>4, <2>5, <2>6, <2>7, <2>8, <2>9 DEF Next, Finish, Fail
<1> QED BY <1>1, <1>2, Inductive, PTL DEF Spec, List!Spec, ImplementsFactList
================================================================================
