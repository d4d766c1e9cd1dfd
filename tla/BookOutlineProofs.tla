--------------------------- MODULE BookOutlineProofs ---------------------------
(***************************************************************************)
(* Proofs about BookOutline for every size of the book, all outlines and   *)
(* any number of crashes, whomever the arbiter dispatches: the inductive   *)
(* invariant BookIInv, and from it that written chapters keep their        *)
(* entries, that no routed work is unconfirmed, that the views agree and   *)
(* that a complete book is written.                                        *)
(***************************************************************************)
EXTENDS BookOutline, SequenceTheorems, FiniteSetTheorems,
        WellFoundedInduction, TLAPS

--------------------------------------------------------------------------------
(* Outlines. *)

LEMMA OutlineFacts ==
  ASSUME NEW o, OutlineShape(o)
  PROVE  /\ Len(o.entries) \in Nat /\ DOMAIN o.entries = 1 .. Len(o.entries)
         /\ Len(o.ends) \in Nat /\ DOMAIN o.ends = 1 .. Len(o.ends)
         /\ \A ch \in DOMAIN o.entries : o.entries[ch] \in Texts
         /\ \A i \in DOMAIN o.ends : o.ends[i] \in Nat /\ o.ends[i] <= Len(o.entries)
         /\ \A i \in DOMAIN o.ends :
              ArcStart(o, i) \in Nat /\ ArcStart(o, i) <= o.ends[i]
<1>1. o.entries \in Seq(Texts) /\ o.ends \in Seq(Nat)
  BY DEF OutlineShape
<1>2. /\ Len(o.entries) \in Nat /\ DOMAIN o.entries = 1 .. Len(o.entries)
      /\ Len(o.ends) \in Nat /\ DOMAIN o.ends = 1 .. Len(o.ends)
      /\ \A ch \in DOMAIN o.entries : o.entries[ch] \in Texts
      /\ \A i \in DOMAIN o.ends : o.ends[i] \in Nat
  BY <1>1, LenProperties, ElementOfSeq
<1>3. ASSUME NEW i \in DOMAIN o.ends
      PROVE  /\ o.ends[i] <= Len(o.entries)
             /\ ArcStart(o, i) \in Nat /\ ArcStart(o, i) <= o.ends[i]
  <2>1. o.ends # <<>> /\ Len(o.ends) \in DOMAIN o.ends /\ i <= Len(o.ends)
    BY <1>1, <1>2, EmptySeq
  <2>2. o.ends[i] <= Len(o.entries)
    BY <2>1 DEF OutlineShape
  <2>3. i # 1 => i - 1 \in DOMAIN o.ends /\ i - 1 <= i
    BY <1>2
  <2>4. ArcStart(o, i) \in Nat /\ ArcStart(o, i) <= o.ends[i]
    BY <1>2, <2>3 DEF OutlineShape, ArcStart
  <2> QED BY <2>2, <2>4
<1> QED BY <1>2, <1>3

\* The capacity is a number
LEMMA CapacityIsNat ==
  ASSUME NEW o, OutlineShape(o)
  PROVE  Capacity(o) \in Nat
<1>1. Len(o.ends) \in Nat /\ DOMAIN o.ends = 1 .. Len(o.ends) /\ Len(o.entries) \in Nat
  BY OutlineFacts
<1>2. IsFiniteSet(1 .. Len(o.ends))
  BY <1>1, FS_Interval
<1>3. Cardinality(Skeletons(o)) \in Nat
  BY <1>1, <1>2, FS_Subset, FS_CardinalityType DEF Skeletons
<1> QED BY <1>1, <1>3 DEF Capacity

\* Functions on an initial segment are sequences
LEMMA FunctionIsSeq ==
  ASSUME NEW S, NEW n \in Nat, NEW f \in [1 .. n -> S]
  PROVE  f \in Seq(S) /\ Len(f) = n
<1>1. f \in Seq(S)
  BY SeqDef
<1> QED BY <1>1, LenProperties

\* Three pieces in a row
LEMMA ThreePieces ==
  ASSUME NEW S, NEW a \in Seq(S), NEW b \in Seq(S), NEW c \in Seq(S)
  PROVE  /\ (a \o b) \o c \in Seq(S)
         /\ Len((a \o b) \o c) = Len(a) + Len(b) + Len(c)
         /\ \A i \in 1 .. Len(a) : ((a \o b) \o c)[i] = a[i]
<1>1. Len(a) \in Nat /\ Len(b) \in Nat /\ Len(c) \in Nat
  BY LenProperties
<1>2. PICK d : d = a \o b
  OBVIOUS
<1>a. /\ d \in Seq(S) /\ Len(d) = Len(a) + Len(b)
      /\ \A i \in 1 .. Len(a) + Len(b) :
           d[i] = IF i <= Len(a) THEN a[i] ELSE b[i - Len(a)]
  <2>1. /\ a \o b \in Seq(S)
        /\ Len(a \o b) = Len(a) + Len(b)
        /\ \A i \in 1 .. Len(a) + Len(b) :
             (a \o b)[i] = IF i <= Len(a) THEN a[i] ELSE b[i - Len(a)]
    BY ConcatProperties
  <2> QED BY <1>2, <2>1
<1>3. /\ d \o c \in Seq(S) /\ Len(d \o c) = Len(d) + Len(c)
      /\ \A i \in 1 .. Len(d) + Len(c) : (d \o c)[i] = IF i <= Len(d) THEN d[i] ELSE c[i - Len(d)]
  <2>1. d \in Seq(S)
    BY <1>a
  <2> QED BY <2>1, ConcatProperties
<1>4. \A i \in 1 .. Len(a) : (d \o c)[i] = a[i]
  BY <1>1, <1>a, <1>3
<1> QED BY <1>1, <1>2, <1>a, <1>3, <1>4

\* A splice keeps the chapters up to the cut and all other arcs
LEMMA Spliced ==
  ASSUME NEW o, OutlineShape(o), NEW i \in DOMAIN o.ends, NEW keep \in Nat,
         ArcStart(o, i) <= keep, keep <= o.ends[i], NEW new \in Seq(Texts)
  PROVE  LET s == Splice(o, i, keep, new)
         IN  /\ OutlineShape(s)
             /\ s.ends # <<>>
             /\ DOMAIN s.ends = DOMAIN o.ends
             /\ Len(s.entries) = keep + Len(new) + (Len(o.entries) - o.ends[i])
             /\ \A ch \in 1 .. keep : s.entries[ch] = o.entries[ch]
             /\ \A j \in DOMAIN o.ends :
                  s.ends[j] = IF j < i THEN o.ends[j]
                              ELSE keep + Len(new) + (o.ends[j] - o.ends[i])
<1> DEFINE s == Splice(o, i, keep, new)
           a == SubSeq(o.entries, 1, keep)
           b == SubSeq(o.entries, o.ends[i] + 1, Len(o.entries))
           L == Len(o.entries)
           n == Len(o.ends)
           e(j) == IF j < i THEN o.ends[j]
                   ELSE keep + Len(new) + (o.ends[j] - o.ends[i])
<1>1. /\ L \in Nat /\ DOMAIN o.entries = 1 .. L
      /\ n \in Nat /\ DOMAIN o.ends = 1 .. n /\ i \in 1 .. n
      /\ \A ch \in 1 .. L : o.entries[ch] \in Texts
      /\ \A j \in 1 .. n : o.ends[j] \in Nat /\ o.ends[j] <= L
      /\ \A j, k \in 1 .. n : j <= k => o.ends[j] <= o.ends[k]
  BY OutlineFacts DEF OutlineShape
<1>2. Len(new) \in Nat
  BY LenProperties
<1>3. /\ a \in Seq(Texts) /\ Len(a) = keep
      /\ \A ch \in 1 .. keep : a[ch] = o.entries[ch]
  <2>1. \A ch \in 1 .. keep : o.entries[ch] \in Texts
    BY <1>1
  <2> QED BY <1>1, <2>1, SubSeqProperties
<1>4. b \in Seq(Texts) /\ Len(b) = L - o.ends[i]
  <2>1. \A ch \in (o.ends[i] + 1) .. L : o.entries[ch] \in Texts
    BY <1>1
  <2>2. o.ends[i] + 1 \in Int /\ L \in Int
    BY <1>1
  <2>3. b \in Seq(Texts) /\ Len(b) = IF o.ends[i] + 1 <= L THEN L - (o.ends[i] + 1) + 1 ELSE 0
    BY <2>1, <2>2, SubSeqProperties
  <2> QED BY SMTT(30), <1>1, <2>3
<1>5. /\ s.entries = (a \o new) \o b
      /\ s.ends = [j \in 1 .. n |-> e(j)]
      /\ s.final = o.final
  BY <1>1 DEF Splice
<1> HIDE DEF a, b, s
<1>6. /\ s.entries \in Seq(Texts)
      /\ Len(s.entries) = keep + Len(new) + (L - o.ends[i])
      /\ \A ch \in 1 .. keep : s.entries[ch] = o.entries[ch]
  BY <1>3, <1>4, <1>5, ThreePieces
<1>7. \A j \in 1 .. n : e(j) \in Nat
  BY <1>1, <1>2
<1>8. s.ends \in Seq(Nat) /\ DOMAIN s.ends = 1 .. n /\ Len(s.ends) = n
  <2>1. s.ends \in [1 .. n -> Nat] /\ DOMAIN s.ends = 1 .. n
    BY <1>5, <1>7
  <2> QED BY <1>1, <2>1, FunctionIsSeq
<1>9. \A j, k \in 1 .. n : j <= k => e(j) <= e(k)
  <2>1. SUFFICES ASSUME NEW j \in 1 .. n, NEW k \in 1 .. n, j <= k
                 PROVE  e(j) <= e(k)
    OBVIOUS
  <2>2. o.ends[j] \in Nat /\ o.ends[k] \in Nat /\ o.ends[i] \in Nat /\ o.ends[j] <= o.ends[k]
    BY <1>1, <2>1
  <2>3. CASE j >= i \/ k < i
    BY SMTT(30), <1>1, <1>2, <2>1, <2>2, <2>3
  <2>4. CASE j < i /\ k >= i
    <3>1. i # 1 /\ i - 1 \in 1 .. n /\ j <= i - 1 /\ ArcStart(o, i) = o.ends[i - 1]
      BY <1>1, <2>4 DEF ArcStart
    <3>2. o.ends[j] <= o.ends[i - 1] /\ o.ends[i] <= o.ends[k] /\ o.ends[i - 1] \in Nat
      BY <1>1, <2>4, <3>1
    <3>3. e(j) = o.ends[j] /\ e(k) = keep + Len(new) + (o.ends[k] - o.ends[i])
      BY <1>1, <2>4
    <3>4. o.ends[j] <= keep
      BY <2>2, <3>1, <3>2
    <3> HIDE DEF e
    <3> QED BY SMTT(30), <1>2, <2>2, <3>2, <3>3, <3>4
  <2> QED BY <1>1, <2>1, <2>3, <2>4
<1>10. s.ends # <<>> /\ n \in 1 .. n /\ n >= i
  BY <1>1, <1>8, EmptySeq
<1>11. \A j \in 1 .. n : s.ends[j] = e(j)
  BY <1>5
<1>12. s.ends[Len(s.ends)] = Len(s.entries)
  <2>1. o.ends # <<>>
    BY <1>1, EmptySeq
  <2>2. o.ends[n] = L
    BY <2>1 DEF OutlineShape
  <2>3. s.ends[n] = e(n)
    BY <1>10, <1>11
  <2> QED BY <1>1, <1>6, <1>8, <1>10, <2>2, <2>3
<1>13. OutlineShape(s)
  <2>1. s \in [entries : Seq(Texts), ends : Seq(Nat), final : BOOLEAN]
    <3>1. s = [entries |-> s.entries, ends |-> s.ends, final |-> s.final]
      BY DEF s, Splice
    <3>2. s.final \in BOOLEAN
      BY <1>5 DEF OutlineShape
    <3> QED BY <1>6, <1>8, <3>1, <3>2
  <2>2. \A j, k \in DOMAIN s.ends : j <= k => s.ends[j] <= s.ends[k]
    BY <1>8, <1>9, <1>11
  <2> QED BY <1>6, <1>8, <1>12, <2>1, <2>2 DEF OutlineShape
<1> QED BY <1>1, <1>6, <1>8, <1>10, <1>11, <1>13 DEF s

LEMMA Least ==
  ASSUME NEW S \in SUBSET Nat, S # {}
  PROVE  \E k \in S : \A j \in S : k <= j
<1> DEFINE R == {ss \in Nat \X Nat : ss[1] < ss[2]}
<1>1. IsWellFoundedOn(R, Nat)
  BY NatLessThanWellFounded DEF OpToRel
<1>2. PICK k \in S : \A j \in S : ~(<<j, k>> \in R)
  <2> HIDE DEF R
  <2> QED BY <1>1, WFMin
<1>3. \A j \in S : j \in Nat /\ k \in Nat /\ ~(j < k)
  BY <1>2
<1> HIDE DEF R
<1> QED BY <1>3

\* The first arc that ends where arc i ends is written out
LEMMA FirstOfEnd ==
  ASSUME NEW o, OutlineShape(o), NEW i \in DOMAIN o.ends, o.ends[i] > 0
  PROVE  \E k \in DOMAIN o.ends :
           k <= i /\ o.ends[k] = o.ends[i] /\ ~Skeleton(o, k)
<1> DEFINE S == {k \in DOMAIN o.ends : o.ends[k] = o.ends[i]}
<1>1. /\ Len(o.ends) \in Nat /\ DOMAIN o.ends = 1 .. Len(o.ends)
      /\ \A k \in DOMAIN o.ends : o.ends[k] \in Nat
  BY OutlineFacts
<1>2. i \in S /\ S \in SUBSET Nat
  BY <1>1
<1>3. PICK k \in S : \A j \in S : k <= j
  BY <1>2, Least
<1>4. k \in DOMAIN o.ends /\ k <= i /\ o.ends[k] = o.ends[i] /\ k \in Nat /\ k >= 1
  BY <1>1, <1>2, <1>3
<1>5. ArcStart(o, k) # o.ends[k]
  <2>1. CASE k = 1
    BY <1>1, <1>4, <2>1 DEF ArcStart
  <2>2. CASE k # 1
    <3>1. k - 1 \in DOMAIN o.ends
      BY <1>1, <1>4, <2>2
    <3>2. k - 1 \notin S
      BY <1>2, <1>3, <1>4
    <3> QED BY <1>4, <2>2, <3>1, <3>2 DEF ArcStart
  <2> QED BY <2>1, <2>2
<1> QED BY <1>4, <1>5 DEF Skeleton

\* A revision cuts within its arc
LEMMA RevisionCuts ==
  ASSUME NEW o, OutlineShape(o), NEW i \in DOMAIN o.ends, NEW from \in Nat,
         from > 0, Revised(o, from, i)
  PROVE  from - 1 \in Nat /\ ArcStart(o, i) <= from - 1 /\ from - 1 <= o.ends[i]
<1>1. /\ Len(o.entries) \in Nat /\ Len(o.ends) \in Nat /\ DOMAIN o.ends = 1 .. Len(o.ends)
      /\ o.ends[i] \in Nat /\ o.ends[i] <= Len(o.entries)
      /\ ArcStart(o, i) \in Nat /\ ArcStart(o, i) <= o.ends[i]
  BY OutlineFacts
<1>2. CASE ArcStart(o, i) < from /\ from <= o.ends[i]
  BY <1>1, <1>2
<1>3. CASE /\ from = Len(o.entries) + 1
           /\ ~Skeleton(o, i)
           /\ \A j \in DOMAIN o.ends : j > i => Skeleton(o, j)
  <2>1. Len(o.ends) \in DOMAIN o.ends /\ o.ends # <<>>
    BY <1>1, EmptySeq
  <2>2. o.ends[Len(o.ends)] = Len(o.entries)
    BY <2>1 DEF OutlineShape
  <2>3. o.ends[i] > 0
    BY <1>1, <1>3 DEF Skeleton
  <2>4. PICK k \in DOMAIN o.ends : o.ends[k] = Len(o.entries) /\ ~Skeleton(o, k)
    <3>1. o.ends[Len(o.ends)] > 0
      BY <1>1, <2>2, <2>3
    <3> QED BY <2>1, <2>2, <3>1, FirstOfEnd
  <2>5. k <= i
    BY <1>1, <1>3, <2>4
  <2>6. o.ends[k] <= o.ends[i]
    BY <2>4, <2>5 DEF OutlineShape
  <2> QED BY <1>1, <1>3, <2>4, <2>6
<1> QED BY <1>2, <1>3 DEF Revised

\* A new volume comes after everything there is
LEMMA VolumeAppended ==
  ASSUME NEW o, OutlineShape(o), NEW new \in Seq(Texts),
         NEW more \in BOOLEAN, NEW fin \in BOOLEAN
  PROVE  LET s == Appended(o, new, more, fin)
         IN  /\ OutlineShape(s)
             /\ s.ends # <<>>
             /\ Len(s.entries) = Len(o.entries) + Len(new)
             /\ \A ch \in 1 .. Len(o.entries) : s.entries[ch] = o.entries[ch]
             /\ DOMAIN o.ends \subseteq DOMAIN s.ends
             /\ \A j \in DOMAIN s.ends :
                  s.ends[j] = IF j \in DOMAIN o.ends THEN o.ends[j] ELSE Len(s.entries)
<1> DEFINE s == Appended(o, new, more, fin)
           m == IF more THEN 2 ELSE 1
           t == [i \in 1 .. m |-> Len(o.entries) + Len(new)]
           L == Len(o.entries)
           n == Len(o.ends)
<1>1. /\ L \in Nat /\ n \in Nat /\ DOMAIN o.ends = 1 .. n
      /\ \A j \in 1 .. n : o.ends[j] \in Nat /\ o.ends[j] <= L
      /\ \A j, k \in 1 .. n : j <= k => o.ends[j] <= o.ends[k]
      /\ o.entries \in Seq(Texts) /\ o.ends \in Seq(Nat)
  BY OutlineFacts DEF OutlineShape
<1>2. Len(new) \in Nat /\ m \in Nat /\ m >= 1
  BY LenProperties
<1>3. t \in [1 .. m -> Nat] /\ \A i \in 1 .. m : t[i] = L + Len(new)
  BY <1>1, <1>2
<1>4. s.entries = o.entries \o new /\ s.ends = o.ends \o t /\ s.final = fin
  BY DEF Appended
<1> HIDE DEF s, t, m
<1>5. t \in Seq(Nat) /\ Len(t) = m
  BY <1>2, <1>3, FunctionIsSeq
<1>6. /\ s.entries \in Seq(Texts) /\ Len(s.entries) = L + Len(new)
      /\ \A ch \in 1 .. L : s.entries[ch] = o.entries[ch]
  BY <1>1, <1>2, <1>4, ConcatProperties
<1>7. /\ s.ends \in Seq(Nat) /\ Len(s.ends) = n + m
      /\ \A j \in 1 .. n + m : s.ends[j] = IF j <= n THEN o.ends[j] ELSE t[j - n]
  <2>1. /\ o.ends \o t \in Seq(Nat) /\ Len(o.ends \o t) = Len(o.ends) + Len(t)
        /\ \A j \in 1 .. Len(o.ends) + Len(t) : (o.ends \o t)[j] =
             IF j <= Len(o.ends) THEN o.ends[j] ELSE t[j - Len(o.ends)]
    <3>1. o.ends \in Seq(Nat) /\ t \in Seq(Nat)
      BY <1>1, <1>5
    <3> HIDE DEF n, L
    <3> QED BY <3>1, ConcatProperties
  <2> QED BY <1>4, <1>5, <2>1
<1>8. DOMAIN s.ends = 1 .. n + m
  BY <1>7, LenProperties
<1>9. \A j \in 1 .. n + m : s.ends[j] = IF j \in 1 .. n THEN o.ends[j] ELSE L + Len(new)
  <2>1. SUFFICES ASSUME NEW j \in 1 .. n + m
                 PROVE  s.ends[j] = IF j \in 1 .. n THEN o.ends[j] ELSE L + Len(new)
    OBVIOUS
  <2>2. CASE j <= n
    <3>1. s.ends[j] = o.ends[j]
      BY <1>7, <2>2
    <3>2. j \in 1 .. n
      <4>1. n \in Nat /\ m \in Nat
        BY <1>1, <1>2
      <4> HIDE DEF n
      <4> QED BY <2>2, <4>1
    <3> HIDE DEF n, L
    <3> QED BY <3>1, <3>2
  <2>3. CASE j > n
    <3>0. n \in Nat /\ m \in Nat
      BY <1>1, <1>2
    <3> HIDE DEF n, L
    <3>1. j - n \in 1 .. m
      BY <2>3, <3>0
    <3>2. s.ends[j] = t[j - n]
      BY <1>7, <2>3, <3>0
    <3>3. t[j - n] = L + Len(new)
      BY <1>3, <3>1
    <3>4. j \notin 1 .. n
      BY <2>3, <3>0
    <3> QED BY <3>2, <3>3, <3>4
  <2> QED BY <1>1, <1>2, <2>2, <2>3
<1>10. \A j, k \in 1 .. n + m : j <= k => s.ends[j] <= s.ends[k]
  <2>1. SUFFICES ASSUME NEW j \in 1 .. n + m, NEW k \in 1 .. n + m, j <= k
                 PROVE  s.ends[j] <= s.ends[k]
    OBVIOUS
  <2>2. /\ s.ends[j] = IF j \in 1 .. n THEN o.ends[j] ELSE L + Len(new)
        /\ s.ends[k] = IF k \in 1 .. n THEN o.ends[k] ELSE L + Len(new)
    BY <1>9
  <2>3. CASE k \in 1 .. n
    BY <1>1, <1>2, <2>1, <2>2, <2>3
  <2>4. CASE k \notin 1 .. n
    BY SMTT(30), <1>1, <1>2, <2>1, <2>2, <2>4
  <2> QED BY <2>3, <2>4
<1>11. n + m \in 1 .. n + m /\ n + m \notin 1 .. n /\ s.ends # <<>>
  BY <1>1, <1>2, <1>8, EmptySeq
<1>12. OutlineShape(s)
  <2>1. s = [entries |-> s.entries, ends |-> s.ends, final |-> s.final]
    BY DEF s, Appended
  <2>2. s \in [entries : Seq(Texts), ends : Seq(Nat), final : BOOLEAN]
    BY <1>4, <1>6, <1>7, <2>1
  <2> QED BY <1>4, <1>6, <1>7, <1>8, <1>9, <1>10, <1>11, <2>2 DEF OutlineShape
<1>13. 1 .. n \subseteq 1 .. n + m
  BY <1>1, <1>2
<1> QED BY <1>1, <1>6, <1>8, <1>9, <1>11, <1>12, <1>13 DEF s

--------------------------------------------------------------------------------
(* The inductive invariant, step by step. *)

\* What is written, and what is begun, lies within the first n chapters
Within(n) ==
  completed <= n /\ \A ch \in Chapters : units[ch] > 0 => ch <= n

\* Steps that neither write a unit nor take up a worker leave the memory alone
LEMMA NothingToRemember ==
  ASSUME BookTypeOK, Remember, units' = units,
         engine # "loop" \/ engine' \notin {"planner", "writer"}
  PROVE  sent' = sent /\ ahead' = ahead
BY DEF BookTypeOK, Remember

\* Steps that touch neither the outline nor the chapters
LEMMA Elsewhere ==
  ASSUME BookIInv, sent' \in BOOLEAN, ahead' = ahead,
         engine' = "writer" => sent' \/ (engine = "writer" /\ sent' = sent),
         UNCHANGED <<layered, flat, total, longForm, phase, completed, inProgress,
                     plans, units>>,
         \/ call' = IdleCall
         \/ call' = call /\ (call = IdleCall \/ engine' = engine),
         engine' \in {"stopped", "loop", "architect", "planner", "writer"},
         next' \in Dispatched \cup {"architect", None},
         confirming' \in {"no", "checked", "stored"}
  PROVE  BookIInv'
<1> USE DEF BookIInv
<1>1. BookTypeOK'
  <2>1. OutlineShape(layered') /\ flat' \in Seq(Texts)
    BY DEF BookTypeOK
  <2>2. IdleCall \in [write : {"none", "flat", "total", "form", "clear", "start"},
                      total : Nat, form : {"kept", "long", "short"}, ends : BOOLEAN,
                      chapter : Nat]
    BY DEF IdleCall
  <2>3. call' \in [write : {"none", "flat", "total", "form", "clear", "start"},
                   total : Nat, form : {"kept", "long", "short"}, ends : BOOLEAN,
                   chapter : Nat]
    BY <2>2 DEF BookTypeOK
  <2>4. engine' \in {"stopped", "loop", "architect", "planner", "writer"}
    BY DEF BookTypeOK
  <2>5. /\ total' \in Nat /\ longForm' \in BOOLEAN
        /\ phase' \in {"planning", "writing", "complete"}
        /\ completed' \in Nat /\ inProgress' \in Nat
        /\ plans' \subseteq Chapters /\ units' \in [Chapters -> 0..Units]
    BY DEF BookTypeOK
  <2> QED BY <2>1, <2>3, <2>4, <2>5 DEF BookTypeOK
<1>2. CallInv'
  BY DEF CallInv, IdleCall, NothingWritten
<1>3. BegunInv'
  BY DEF BegunInv, NothingWritten, NextChapter
<1>4. SkeletonInv'
  BY DEF SkeletonInv, NextChapter, Skeletons, Skeleton, ArcStart
<1> QED BY <1>1, <1>2, <1>3, <1>4

\* What the arcs that are still skeletons leave room for
LEMMA ReachOfBook ==
  ASSUME BookTypeOK, SkeletonInv, longForm, ~ahead
  PROVE  /\ Within(Len(layered.entries))
         /\ \A i \in Skeletons(layered) : Within(layered.ends[i])
         /\ layered.ends # <<>> /\ layered.ends[1] > 0
BY DEF SkeletonInv, Within

LEMMA WithinMore ==
  ASSUME BookTypeOK, NEW m \in Nat, NEW n \in Nat, Within(m), m <= n
  PROVE  Within(n)
BY DEF Within, BookTypeOK, Chapters

\* Nothing that is begun lies behind what is written, in planning or in the
\* middle of the first save
LEMMA NothingWithin ==
  ASSUME NothingWritten, NEW n \in Nat
  PROVE  Within(n)
BY DEF NothingWritten, Within

\* What an architect's saves have in common: nothing is written meanwhile
LEMMA ArchitectSaves ==
  ASSUME BookIInv, Architect, Remember,
         UNCHANGED <<longForm, total, phase, completed, inProgress, plans, units,
                     engine, next, confirming>>,
         NEW write \in {"flat", "total"}, NEW n \in Nat,
         NEW form \in {"kept", "long", "short"}, NEW ends \in BOOLEAN,
         Wrote(write, n, form, ends),
         form # "kept" => NothingWritten,
         form = "long" \/ write = "flat" => layered' # NoOutline,
         OutlineShape(layered'), flat' \in Seq(Texts)
  PROVE  BookTypeOK' /\ CallInv' /\ BegunInv'
<1> USE DEF BookIInv
<1>1. call' = [write |-> write, total |-> n, form |-> form, ends |-> ends, chapter |-> 0]
  BY DEF Wrote
<1>m. sent' = sent /\ ahead' = ahead
  BY NothingToRemember DEF Architect
<1>2. BookTypeOK'
  <2>1. call' \in [write : {"none", "flat", "total", "form", "clear", "start"},
                   total : Nat, form : {"kept", "long", "short"}, ends : BOOLEAN,
                   chapter : Nat]
    BY <1>1
  <2> QED BY <1>m, <2>1 DEF BookTypeOK
<1>3. CallInv'
  BY <1>1 DEF CallInv, NothingWritten, Architect
<1>4. BegunInv'
  BY <1>m DEF BegunInv, NothingWritten, NextChapter
<1> QED BY <1>2, <1>3, <1>4

\* A layered outline may be saved if its skeletons lie behind what is written
LEMMA LayeredSaved ==
  ASSUME BookIInv, Architect, Remember,
         NEW s, NEW form \in {"kept", "long"}, NEW ends \in BOOLEAN,
         SaveLayered(s, form, ends),
         form # "kept" => NothingWritten,
         OutlineShape(s), s.ends # <<>>, s.ends[1] > 0,
         longForm /\ ~ahead => /\ Within(Len(s.entries))
                               /\ \A i \in Skeletons(s) : Within(s.ends[i])
  PROVE  BookIInv'
<1> USE DEF BookIInv
<1>1. Capacity(s) \in Nat
  BY CapacityIsNat
<1>2. s # NoOutline
  BY DEF NoOutline
<1>3. /\ layered' = s /\ Wrote("flat", Capacity(s), form, ends) /\ flat' = flat
      /\ UNCHANGED <<longForm, total, phase, completed, inProgress, plans, units,
                     engine, next, confirming>>
  BY DEF SaveLayered, progress, drafts, control
<1>4. flat' \in Seq(Texts) /\ OutlineShape(layered')
  BY <1>3 DEF BookTypeOK
<1>5. BookTypeOK' /\ CallInv' /\ BegunInv'
  <2>1. layered' # NoOutline
    BY <1>2, <1>3
  <2> HIDE DEF BookIInv
  <2> QED BY <1>1, <1>3, <1>4, <2>1, ArchitectSaves
<1>6. SkeletonInv'
  <2>1. engine' # "writer" /\ ahead' = ahead
    BY <1>3, NothingToRemember DEF Architect
  <2>2. layered' # NoOutline => layered'.ends # <<>> /\ layered'.ends[1] > 0
    BY <1>3
  <2>3. ASSUME longForm', ~ahead'
        PROVE  /\ completed' <= Len(layered'.entries)
               /\ \A ch \in Chapters : units'[ch] > 0 => ch <= Len(layered'.entries)
    BY <1>3, <2>1, <2>3 DEF Within
  <2>4. ASSUME longForm', ~ahead', NEW i \in Skeletons(layered')
        PROVE  /\ completed' <= layered'.ends[i]
               /\ \A ch \in Chapters : units'[ch] > 0 => ch <= layered'.ends[i]
    BY <1>3, <2>1, <2>4 DEF Within
  <2>5. layered' # NoOutline
    BY <1>2, <1>3
  <2> QED BY <2>1, <2>2, <2>3, <2>4, <2>5 DEF SkeletonInv, Skeletons
<1> QED BY <1>5, <1>6

\* Every chapter list of an arc may be replaced behind what is written
LEMMA SpliceSaved ==
  ASSUME BookIInv, Architect, Remember,
         NEW i \in DOMAIN layered.ends, NEW keep \in Nat,
         ArcStart(layered, i) <= keep, keep <= layered.ends[i],
         NEW new \in Payloads, keep - ArcStart(layered, i) + Len(new) > 0,
         longForm /\ ~ahead => Within(keep), NEW ends \in BOOLEAN,
         SaveLayered(Splice(layered, i, keep, new), "kept", ends)
  PROVE  BookIInv'
<1> DEFINE s == Splice(layered, i, keep, new)
<1>1. BookTypeOK /\ SkeletonInv /\ OutlineShape(layered)
  BY DEF BookIInv, BookTypeOK
<1>2. new \in Seq(Texts) /\ Len(new) \in Nat
  BY BoundsAssumption, LenProperties
<1>3. /\ OutlineShape(s)
      /\ s.ends # <<>>
      /\ DOMAIN s.ends = DOMAIN layered.ends
      /\ Len(s.entries) = keep + Len(new) + (Len(layered.entries) - layered.ends[i])
      /\ \A j \in DOMAIN layered.ends :
           s.ends[j] = IF j < i THEN layered.ends[j]
                       ELSE keep + Len(new) + (layered.ends[j] - layered.ends[i])
  BY <1>1, <1>2, Spliced
<1>4. SaveLayered(s, "kept", ends)
  OBVIOUS
<1> HIDE DEF s
<1>5. /\ Len(layered.entries) \in Nat /\ Len(layered.ends) \in Nat
      /\ DOMAIN layered.ends = 1 .. Len(layered.ends)
      /\ \A j \in DOMAIN layered.ends :
           layered.ends[j] \in Nat /\ layered.ends[j] <= Len(layered.entries)
  BY <1>1, OutlineFacts
<1>6. i \in Nat /\ 1 \in DOMAIN layered.ends /\ layered # NoOutline
  <2>1. layered.ends # <<>>
    BY <1>5, EmptySeq
  <2> QED BY <1>5, <2>1 DEF NoOutline
<1>7. s.ends[1] > 0
  <2>1. layered.ends[1] > 0 /\ layered.ends[1] \in Nat
    BY <1>1, <1>5, <1>6 DEF SkeletonInv
  <2>2. CASE 1 < i
    BY <1>3, <1>6, <2>1, <2>2
  <2>3. CASE i = 1
    <3>1. keep + Len(new) > 0
      BY <1>2, <2>3 DEF ArcStart
    <3>2. s.ends[1] = keep + Len(new) + (layered.ends[1] - layered.ends[1])
      BY <1>3, <1>6, <2>3
    <3> QED BY <1>2, <2>1, <3>1, <3>2
  <2> QED BY <1>5, <2>2, <2>3
<1>8. ASSUME longForm, ~ahead
      PROVE  /\ Within(Len(s.entries))
             /\ \A j \in Skeletons(s) : Within(s.ends[j])
  <2>1. Within(keep)
    BY <1>8
  <2>2. Len(s.entries) \in Nat /\ keep <= Len(s.entries)
    BY <1>2, <1>3, <1>5
  <2>3. ASSUME NEW j \in Skeletons(s)
        PROVE  Within(s.ends[j])
    <3>1. j \in DOMAIN layered.ends /\ Skeleton(s, j) /\ j \in Nat
      BY <1>3, <1>5 DEF Skeletons
    <3>2. CASE j < i
      <4>1. s.ends[j] = layered.ends[j] /\ ArcStart(s, j) = ArcStart(layered, j)
        <5>1. s.ends[j] = layered.ends[j]
          BY <1>3, <3>1, <3>2
        <5>2. j # 1 => j - 1 \in DOMAIN layered.ends /\ j - 1 < i
          BY <1>5, <1>6, <3>1, <3>2
        <5>3. j # 1 => s.ends[j - 1] = layered.ends[j - 1]
          BY <1>3, <5>2
        <5> QED BY <5>1, <5>3 DEF ArcStart
      <4>2. j \in Skeletons(layered)
        BY <3>1, <4>1 DEF Skeleton, Skeletons
      <4> QED BY <1>1, <1>8, <4>1, <4>2, ReachOfBook
    <3>3. CASE j >= i
      <4>1. s.ends[j] = keep + Len(new) + (layered.ends[j] - layered.ends[i])
        BY <1>3, <1>6, <3>1, <3>3
      <4>2. layered.ends[i] <= layered.ends[j]
        BY <1>1, <3>1, <3>3 DEF OutlineShape
      <4>3. s.ends[j] \in Nat /\ keep <= s.ends[j]
        BY <1>2, <1>5, <3>1, <4>1, <4>2
      <4> QED BY <1>1, <2>1, <4>3, WithinMore
    <3> QED BY <1>6, <3>1, <3>2, <3>3
  <2> QED BY <1>1, <2>1, <2>2, <2>3, WithinMore
<1> QED BY <1>3, <1>4, <1>7, <1>8, LayeredSaved

LEMMA ExpandArcStep ==
  ASSUME BookIInv, Remember, NEW i, NEW new \in Payloads, ExpandArc(i, new)
  PROVE  BookIInv'
<1>1. BookTypeOK /\ SkeletonInv /\ OutlineShape(layered)
  BY DEF BookIInv, BookTypeOK
<1>2. /\ i \in DOMAIN layered.ends /\ i \in Skeletons(layered) /\ Skeleton(layered, i)
      /\ Architect /\ new # <<>>
      /\ SaveLayered(Splice(layered, i, layered.ends[i], new), "kept", TRUE)
  BY DEF ExpandArc, Expanded, Skeletons
<1>3. /\ layered.ends[i] \in Nat /\ ArcStart(layered, i) \in Nat
      /\ ArcStart(layered, i) <= layered.ends[i]
      /\ layered.ends[i] <= layered.ends[i]
  BY <1>1, <1>2, OutlineFacts
<1>4. Len(new) \in Nat /\ Len(new) > 0
  BY <1>2, BoundsAssumption, LenProperties, EmptySeq
<1>5. longForm /\ ~ahead => Within(layered.ends[i])
  BY <1>1, <1>2, ReachOfBook
<1>6. layered.ends[i] - ArcStart(layered, i) + Len(new) > 0
  BY <1>3, <1>4
<1> QED BY <1>2, <1>3, <1>5, <1>6, SpliceSaved

LEMMA ReviseLayeredStep ==
  ASSUME BookIInv, Remember, NEW from \in Chapters, NEW new \in Payloads,
         ReviseLayered(from, new)
  PROVE  BookIInv'
<1>1. BookTypeOK /\ BegunInv /\ OutlineShape(layered)
  BY DEF BookIInv, BookTypeOK
<1>2. PICK i \in DOMAIN layered.ends :
        /\ Revised(layered, from, i)
        /\ from - 1 - ArcStart(layered, i) + Len(new) > 0
        /\ SaveLayered(Splice(layered, i, from - 1, new), "kept", FALSE)
  BY DEF ReviseLayered
<1>3. Architect /\ from > completed /\ from > inProgress
  BY DEF ReviseLayered, Revisable
<1>4. from \in Nat /\ from > 0
  BY DEF Chapters
<1>5. from - 1 \in Nat /\ ArcStart(layered, i) <= from - 1 /\ from - 1 <= layered.ends[i]
  BY <1>1, <1>2, <1>4, RevisionCuts
<1>6. ~ahead => Within(from - 1)
  BY <1>1, <1>3, <1>4 DEF Within, BegunInv, BookTypeOK, Chapters
<1> QED BY <1>2, <1>3, <1>5, <1>6, SpliceSaved

LEMMA AppendVolumeStep ==
  ASSUME BookIInv, Remember, NEW new \in Payloads, NEW more \in BOOLEAN, NEW fin \in BOOLEAN,
         AppendVolume(new, more, fin)
  PROVE  BookIInv'
<1> DEFINE s == Appended(layered, new, more, fin)
<1>1. BookTypeOK /\ SkeletonInv /\ OutlineShape(layered)
  BY DEF BookIInv, BookTypeOK
<1>2. Architect /\ layered # NoOutline /\ SaveLayered(s, "kept", FALSE)
  BY DEF AppendVolume
<1>3. new \in Seq(Texts) /\ Len(new) \in Nat
  BY BoundsAssumption, LenProperties
<1>4. /\ OutlineShape(s)
      /\ s.ends # <<>>
      /\ Len(s.entries) = Len(layered.entries) + Len(new)
      /\ DOMAIN layered.ends \subseteq DOMAIN s.ends
      /\ \A j \in DOMAIN s.ends :
           s.ends[j] = IF j \in DOMAIN layered.ends THEN layered.ends[j] ELSE Len(s.entries)
  BY <1>1, <1>3, VolumeAppended
<1> HIDE DEF s
<1>5. /\ Len(layered.entries) \in Nat /\ Len(layered.ends) \in Nat
      /\ DOMAIN layered.ends = 1 .. Len(layered.ends)
      /\ \A j \in DOMAIN layered.ends :
           layered.ends[j] \in Nat /\ layered.ends[j] <= Len(layered.entries)
  BY <1>1, OutlineFacts
<1>6. layered.ends # <<>> /\ layered.ends[1] > 0 /\ 1 \in DOMAIN layered.ends
  <2>1. layered.ends # <<>> /\ layered.ends[1] > 0
    BY <1>1, <1>2 DEF SkeletonInv
  <2> QED BY <1>5, <2>1, EmptySeq
<1>7. s.ends[1] > 0
  BY <1>4, <1>6
<1>8. DOMAIN s.ends = 1 .. Len(s.ends) /\ Len(s.ends) \in Nat
  BY <1>4, OutlineFacts
<1>9. ASSUME longForm, ~ahead
      PROVE  /\ Within(Len(s.entries))
             /\ \A j \in Skeletons(s) : Within(s.ends[j])
  <2>1. Within(Len(layered.entries))
    BY <1>1, <1>9, ReachOfBook
  <2>2. Within(Len(s.entries))
    BY <1>1, <1>3, <1>4, <1>5, <2>1, WithinMore
  <2>3. ASSUME NEW j \in Skeletons(s)
        PROVE  Within(s.ends[j])
    <3>1. j \in DOMAIN s.ends /\ Skeleton(s, j) /\ j \in Nat /\ j >= 1
      BY <1>8 DEF Skeletons
    <3>2. CASE j \in DOMAIN layered.ends
      <4>1. s.ends[j] = layered.ends[j]
        BY <1>4, <3>1, <3>2
      <4>2. j # 1 => j - 1 \in DOMAIN layered.ends
        BY <1>5, <3>1, <3>2
      <4>3. j # 1 => s.ends[j - 1] = layered.ends[j - 1]
        BY <1>4, <4>2
      <4>4. j \in Skeletons(layered)
        BY <3>1, <3>2, <4>1, <4>3 DEF Skeleton, Skeletons, ArcStart
      <4> QED BY <1>1, <1>9, <4>1, <4>4, ReachOfBook
    <3>3. CASE j \notin DOMAIN layered.ends
      BY <1>4, <2>2, <3>1, <3>3
    <3> QED BY <3>2, <3>3
  <2> QED BY <2>2, <2>3
<1> QED BY <1>2, <1>4, <1>7, <1>9, LayeredSaved

LEMMA RepeatVolumeStep ==
  ASSUME BookIInv, Remember, RepeatVolume
  PROVE  BookIInv'
<1>1. BookTypeOK /\ SkeletonInv /\ OutlineShape(layered)
  BY DEF BookIInv, BookTypeOK
<1>2. Architect /\ layered # NoOutline /\ SaveLayered(layered, "kept", FALSE)
  BY DEF RepeatVolume
<1>3. layered.ends # <<>> /\ layered.ends[1] > 0
  BY <1>1, <1>2 DEF SkeletonInv
<1>4. longForm /\ ~ahead =>
        /\ Within(Len(layered.entries))
        /\ \A i \in Skeletons(layered) : Within(layered.ends[i])
  BY <1>1, ReachOfBook
<1> QED BY <1>1, <1>2, <1>3, <1>4, LayeredSaved

LEMMA SaveLayeredOutlineStep ==
  ASSUME BookIInv, Remember, NEW o \in Openings, SaveLayeredOutline(o)
  PROVE  BookIInv'
<1>1. NothingWritten
  BY DEF SaveLayeredOutline, BookIInv, BegunInv
<1>2. Architect /\ o.ends # <<>> /\ SaveLayered(o, "long", FALSE)
  BY DEF SaveLayeredOutline
<1>3. OutlineShape(o) /\ o.ends[1] > 0
  BY <1>2, OpeningsAssumption
<1>4. Len(o.entries) \in Nat /\ \A i \in DOMAIN o.ends : o.ends[i] \in Nat
  BY <1>3, OutlineFacts
<1>5. /\ Within(Len(o.entries))
      /\ \A i \in Skeletons(o) : Within(o.ends[i])
  BY <1>1, <1>4, NothingWithin DEF Skeletons
<1> QED BY <1>1, <1>2, <1>3, <1>5, LayeredSaved

\* A flat outline
LEMMA FlatSaved ==
  ASSUME BookIInv, Remember, Architect, NEW entries \in Seq(Texts),
         NEW form \in {"kept", "short"}, SaveFlat(entries, form),
         form # "kept" => NothingWritten
  PROVE  BookIInv'
<1>1. Len(entries) \in Nat
  BY LenProperties
<1>2. /\ layered' = layered /\ Wrote("total", Len(entries), form, FALSE)
      /\ flat' = entries
      /\ UNCHANGED <<longForm, total, phase, completed, inProgress, plans, units,
                     engine, next, confirming>>
  BY DEF SaveFlat, progress, drafts, control
<1>3. flat' \in Seq(Texts) /\ OutlineShape(layered')
  BY <1>2 DEF BookIInv, BookTypeOK
<1>4. BookTypeOK' /\ CallInv' /\ BegunInv'
  BY <1>1, <1>2, <1>3, ArchitectSaves
<1>m. sent' = sent /\ ahead' = ahead
  BY <1>2, NothingToRemember DEF Architect, BookIInv
<1>5. SkeletonInv'
  BY <1>2, <1>m DEF BookIInv, SkeletonInv, NextChapter, Skeletons, Skeleton, ArcStart
<1> QED BY <1>4, <1>5 DEF BookIInv

LEMMA SaveOutlineStep ==
  ASSUME BookIInv, Remember, NEW o \in Openings, SaveOutline(o)
  PROVE  BookIInv'
<1>1. NothingWritten
  BY DEF SaveOutline, BookIInv, BegunInv
<1>2. Architect /\ SaveFlat(o.entries, "short")
  BY DEF SaveOutline
<1>3. o.entries \in Seq(Texts)
  BY OpeningsAssumption DEF OutlineShape
<1> QED BY <1>1, <1>2, <1>3, FlatSaved

LEMMA RevisedFlatIsSeq ==
  ASSUME BookTypeOK, NEW from \in Chapters, NEW new \in Payloads,
         ReviseFlat(from, new)
  PROVE  SubSeq(flat, 1, from - 1) \o new \in Seq(Texts)
<1>1. flat \in Seq(Texts) /\ new \in Seq(Texts) /\ from <= Len(flat) + 1
  BY BoundsAssumption DEF BookTypeOK, ReviseFlat
<1>2. PICK a : a = SubSeq(flat, 1, from - 1)
  OBVIOUS
<1>3. a \in Seq(Texts)
  <2>1. /\ Len(flat) \in Nat /\ DOMAIN flat = 1 .. Len(flat)
        /\ \A ch \in 1 .. Len(flat) : flat[ch] \in Texts
    BY <1>1, LenProperties, ElementOfSeq
  <2>2. from - 1 \in Int /\ 1 \in Int /\ \A ch \in 1 .. from - 1 : flat[ch] \in Texts
    BY <1>1, <2>1 DEF Chapters
  <2>3. SubSeq(flat, 1, from - 1) \in Seq(Texts)
    BY <2>2, SubSeqProperties
  <2> QED BY <1>2, <2>3
<1>4. a \o new \in Seq(Texts)
  BY <1>1, <1>3, ConcatProperties
<1> QED BY <1>2, <1>4

LEMMA ReviseFlatStep ==
  ASSUME BookIInv, Remember, NEW from \in Chapters, NEW new \in Payloads,
         ReviseFlat(from, new)
  PROVE  BookIInv'
<1>1. Architect /\ SaveFlat(SubSeq(flat, 1, from - 1) \o new, "kept")
  BY DEF ReviseFlat
<1>2. SubSeq(flat, 1, from - 1) \o new \in Seq(Texts)
  BY RevisedFlatIsSeq DEF BookIInv
<1> QED BY <1>1, <1>2, FlatSaved

\* The writes that follow a call's first
LEMMA CallWriteStep ==
  ASSUME BookIInv, Remember, CallWrites
  PROVE  BookIInv'
<1> USE DEF BookIInv
<1> DEFINE CallShape ==
      [write : {"none", "flat", "total", "form", "clear", "start"}, total : Nat,
       form : {"kept", "long", "short"}, ends : BOOLEAN, chapter : Nat]
<1>1. call \in CallShape /\ IdleCall \in CallShape
  BY DEF BookTypeOK, IdleCall
<1>2. CASE WriteFlat
  <2>1. call' \in CallShape /\ flat' \in Seq(Texts)
    BY <1>1, <1>2 DEF WriteFlat, BookTypeOK, OutlineShape
  <2>2. /\ UNCHANGED <<layered, total, longForm, phase, completed, inProgress, plans,
                       units, engine, next, confirming>>
        /\ call' = [call EXCEPT !.write = "total"] /\ call.write = "flat"
    BY <1>2 DEF WriteFlat, progress, drafts, control
  <2>m. sent' = sent /\ ahead' = ahead
    BY <2>2, NothingToRemember DEF CallInv
  <2>3. BookTypeOK'
    BY <2>1, <2>2, <2>m DEF BookTypeOK
  <2>4. CallInv'
    BY <1>1, <2>2 DEF CallInv, NothingWritten
  <2>5. BegunInv'
    BY <2>2, <2>m DEF BegunInv, NothingWritten, NextChapter
  <2>6. SkeletonInv'
    BY <2>2, <2>m DEF SkeletonInv, NextChapter, Skeletons, Skeleton, ArcStart
  <2> QED BY <2>3, <2>4, <2>5, <2>6
<1>3. CASE WriteTotal
  <2>1. /\ UNCHANGED <<layered, flat, longForm, phase, completed, inProgress, plans,
                       units, next, confirming>>
        /\ total' = call.total /\ call.write = "total" /\ engine = "architect"
        /\ \/ call' = IdleCall /\ engine' \in {"loop", "architect"}
           \/ /\ call' = [call EXCEPT !.write = "form"] /\ call.form # "kept"
              /\ engine' = "architect"
    BY <1>3 DEF WriteTotal, Done, foundation, drafts, CallInv
  <2>2. call' \in CallShape /\ total' \in Nat
    BY <1>1, <2>1
  <2>m. sent' = sent /\ ahead' = ahead
    BY <2>1, NothingToRemember DEF CallInv
  <2>3. BookTypeOK'
    BY <2>1, <2>2, <2>m DEF BookTypeOK
  <2>4. CallInv'
    BY <1>1, <2>1 DEF CallInv, NothingWritten, IdleCall
  <2>5. BegunInv'
    BY <2>1, <2>m DEF BegunInv, NothingWritten, NextChapter
  <2>6. SkeletonInv'
    BY <2>1, <2>m DEF SkeletonInv, NextChapter, Skeletons, Skeleton, ArcStart
  <2> QED BY <2>3, <2>4, <2>5, <2>6
<1>4. CASE WriteForm
  <2>1. /\ UNCHANGED <<layered, flat, total, phase, completed, inProgress, plans,
                       units, next, confirming>>
        /\ longForm' = (call.form = "long") /\ call.write = "form"
        /\ engine = "architect" /\ call.form # "kept" /\ NothingWritten
        /\ \/ call' = IdleCall /\ engine' \in {"loop", "architect"} /\ call.form = "long"
           \/ /\ call' = [call EXCEPT !.write = "clear"] /\ ~longForm'
              /\ engine' = "architect"
    BY <1>4 DEF WriteForm, Done, foundation, drafts, CallInv
  <2>2. call' \in CallShape /\ longForm' \in BOOLEAN
    BY <1>1, <2>1
  <2>m. sent' = sent /\ ahead' = ahead
    BY <2>1, NothingToRemember DEF CallInv
  <2>3. BookTypeOK'
    BY <2>1, <2>2, <2>m DEF BookTypeOK
  <2>4. CallInv'
    BY <1>1, <2>1 DEF CallInv, NothingWritten, IdleCall
  <2>5. BegunInv'
    BY <2>1, <2>m DEF BegunInv, NothingWritten, NextChapter
  <2>6. SkeletonInv'
    <3>1. longForm' => layered # NoOutline
      BY <2>1 DEF CallInv
    <3>2. /\ Len(layered.entries) \in Nat
          /\ \A i \in DOMAIN layered.ends : layered.ends[i] \in Nat
      BY OutlineFacts, <2>m DEF BookTypeOK
    <3>3. completed = 0 /\ \A ch \in Chapters : ~(units[ch] > 0)
      BY <2>1 DEF NothingWritten
    <3>4. layered # NoOutline => layered.ends # <<>> /\ layered.ends[1] > 0
      BY DEF SkeletonInv
    <3> QED BY <2>1, <3>1, <3>2, <3>3, <3>4, <2>m DEF SkeletonInv, Skeletons
  <2> QED BY <2>3, <2>4, <2>5, <2>6
<1>5. CASE ClearLayered
  <2>1. /\ UNCHANGED <<flat, total, longForm, phase, completed, inProgress, plans,
                       units, next, confirming>>
        /\ layered' = NoOutline /\ engine = "architect" /\ ~longForm
        /\ call' = IdleCall /\ engine' \in {"loop", "architect"}
    BY <1>5 DEF ClearLayered, Done, progress, drafts, CallInv
  <2>2. OutlineShape(layered')
    <3>1. <<>> \in Seq(Texts) /\ <<>> \in Seq(Nat) /\ DOMAIN <<>> = {}
      BY EmptySeq
    <3> QED BY <2>1, <3>1 DEF OutlineShape, NoOutline
  <2>m. sent' = sent /\ ahead' = ahead
    BY <2>1, NothingToRemember DEF CallInv
  <2>3. BookTypeOK'
    BY <1>1, <2>1, <2>2, <2>m DEF BookTypeOK
  <2>4. CallInv'
    BY <2>1 DEF CallInv, IdleCall
  <2>5. BegunInv'
    BY <2>1, <2>m DEF BegunInv, NothingWritten, NextChapter
  <2>6. SkeletonInv'
    BY <2>1, <2>m DEF SkeletonInv
  <2> QED BY <2>3, <2>4, <2>5, <2>6
<1>6. CASE StartChapter
  <2>1. /\ UNCHANGED <<layered, flat, total, longForm, phase, completed, plans,
                       units, next, confirming>>
        /\ inProgress' = call.chapter /\ engine = "planner" /\ call.chapter > completed
        /\ call' = IdleCall /\ engine' \in {"loop", "planner"}
    BY <1>6 DEF StartChapter, Done, foundation, drafts, CallInv
  <2>m. sent' = sent /\ ahead' = ahead
    BY <2>1, NothingToRemember DEF CallInv
  <2>2. BookTypeOK'
    BY <1>1, <2>1, <2>m DEF BookTypeOK
  <2>3. CallInv'
    BY <2>1 DEF CallInv, IdleCall
  <2>4. BegunInv'
    <3>1. call.chapter \in Nat /\ completed \in Nat /\ NextChapter <= call.chapter
      BY <1>1, <2>1 DEF BookTypeOK, NextChapter
    <3> QED BY <2>1, <2>m, <3>1 DEF BegunInv, NothingWritten, NextChapter
  <2>5. SkeletonInv'
    BY <2>1, <2>m DEF SkeletonInv, NextChapter, Skeletons, Skeleton, ArcStart
  <2> QED BY <2>2, <2>3, <2>4, <2>5
<1> QED BY <1>2, <1>3, <1>4, <1>5, <1>6 DEF CallWrites

LEMMA PlanChapterStep ==
  ASSUME BookIInv, Remember, NEW ch \in Chapters, PlanChapter(ch)
  PROVE  BookIInv'
<1> USE DEF BookIInv
<1>1. /\ UNCHANGED <<layered, flat, total, longForm, phase, completed, inProgress,
                     units, engine, next, confirming>>
      /\ plans' = plans \cup {ch} /\ engine = "planner" /\ ch > completed
      /\ call' = [write |-> "start", total |-> 0, form |-> "kept", ends |-> TRUE,
                  chapter |-> ch]
  BY DEF PlanChapter, foundation, progress, control, IdleCall
<1>2. ch \in Nat /\ sent' = sent /\ ahead' = ahead
  BY <1>1, BoundsAssumption, NothingToRemember DEF Chapters
<1>3. BookTypeOK'
  BY <1>1, <1>2 DEF BookTypeOK
<1>4. CallInv'
  BY <1>1 DEF CallInv
<1>5. BegunInv'
  BY <1>1, <1>2 DEF BegunInv, NothingWritten, NextChapter
<1>6. SkeletonInv'
  BY <1>1, <1>2 DEF SkeletonInv, NextChapter, Skeletons, Skeleton, ArcStart
<1> QED BY <1>3, <1>4, <1>5, <1>6

LEMMA WriteUnitStep ==
  ASSUME BookIInv, Remember, WriteUnit
  PROVE  BookIInv'
<1> USE DEF BookIInv
<1>1. /\ completed \in Nat /\ inProgress \in Nat /\ engine = "writer" /\ call = IdleCall
      /\ sent \in BOOLEAN /\ ahead \in BOOLEAN
  BY DEF WriteUnit, BookTypeOK, Idle
<1>2. WriterChapter \in Nat /\ NextChapter \in Nat /\ NextChapter > completed
  BY <1>1 DEF WriterChapter, NextChapter
<1>3. /\ UNCHANGED <<layered, flat, total, longForm, phase, completed, plans,
                     call, next, confirming>>
      /\ units' = [units EXCEPT ![WriterChapter] = @ + 1]
      /\ inProgress' = WriterChapter /\ engine' = "loop"
      /\ WriterChapter \in plans /\ units[WriterChapter] < Units
      /\ InOutline(WriterChapter) /\ phase = "writing"
  BY DEF WriteUnit, foundation
<1>4. WriterChapter \in Chapters /\ units \in [Chapters -> 0 .. Units]
  BY <1>3 DEF BookTypeOK
<1>5. units[WriterChapter] \in 0 .. Units /\ Units \in Nat
  BY <1>4, BoundsAssumption
<1>m. sent' = sent /\ ahead' = (ahead \/ (sent /\ ~InTurn(WriterChapter)))
  <2>1. units'[WriterChapter] # units[WriterChapter]
    BY <1>3, <1>4, <1>5
  <2> QED BY <1>1, <1>3, <2>1 DEF Remember
<1>t. ASSUME ~ahead'
      PROVE  /\ ~ahead /\ WriterChapter = NextChapter
             /\ longForm => \A i \in Skeletons(layered) : NextChapter <= layered.ends[i]
  <2>1. ~ahead /\ (sent => InTurn(WriterChapter))
    BY <1>m, <1>t
  <2>2. CASE sent
    BY <2>1, <2>2 DEF InTurn
  <2>3. CASE ~sent
    BY <1>1, <2>1, <2>3 DEF BegunInv, SkeletonInv, WriterChapter, NextChapter
  <2> QED BY <2>1, <2>2, <2>3
<1>6. BookTypeOK'
  <2>1. units' \in [Chapters -> 0 .. Units]
    BY <1>3, <1>4, <1>5
  <2> QED BY <1>1, <1>2, <1>3, <1>m, <2>1 DEF BookTypeOK
<1>7. \A ch \in Chapters : ch # WriterChapter => units'[ch] = units[ch]
  BY <1>3, <1>4
<1>8. CallInv'
  BY <1>1, <1>3 DEF CallInv, IdleCall
<1>9. BegunInv'
  <2>1. NextChapter' = NextChapter /\ phase' # "planning"
    BY <1>3 DEF NextChapter
  <2>2. ASSUME ~ahead', NEW ch \in Chapters, units'[ch] > 0
        PROVE  ch <= completed' \/ (ch = NextChapter' /\ ch <= inProgress')
    <3>1. CASE ch = WriterChapter
      BY <1>2, <1>3, <1>t, <2>1, <2>2, <3>1
    <3>2. CASE ch # WriterChapter
      BY <1>3, <1>7, <1>t, <2>1, <2>2, <3>2 DEF BegunInv
    <3> QED BY <3>1, <3>2
  <2> QED BY <1>3, <2>1, <2>2 DEF BegunInv
<1>10. SkeletonInv'
  <2>1. layered' # NoOutline => layered'.ends # <<>> /\ layered'.ends[1] > 0
    BY <1>3 DEF SkeletonInv
  <2>2. ASSUME longForm
        PROVE  layered # NoOutline
    BY <2>2 DEF SkeletonInv
  <2>3. ASSUME longForm, ~ahead'
        PROVE  /\ completed <= Len(layered.entries)
               /\ \A ch \in Chapters : units'[ch] > 0 => ch <= Len(layered.entries)
    BY <1>3, <1>7, <1>t, <2>3 DEF SkeletonInv, InOutline
  <2>4. ASSUME longForm, ~ahead', NEW i \in Skeletons(layered)
        PROVE  /\ completed <= layered.ends[i]
               /\ \A ch \in Chapters : units'[ch] > 0 => ch <= layered.ends[i]
    <3>1. NextChapter <= layered.ends[i]
      BY <1>t, <2>4
    <3> QED BY <1>7, <1>t, <2>4, <3>1 DEF SkeletonInv
  <2>5. Skeletons(layered') = Skeletons(layered)
    BY <1>3
  <2> QED BY <1>3, <2>1, <2>2, <2>3, <2>4, <2>5 DEF SkeletonInv
<1> QED BY <1>6, <1>8, <1>9, <1>10

\* Whom the router sends, and when
LEMMA RouteFacts ==
  ASSUME phase \in {"planning", "writing", "complete"}
  PROVE  /\ Route = "writer" =>
              phase = "writing" /\ ~Awaiting /\ ~OutlineWorkDue /\ NextChapter \in plans
         /\ Route = "planner" =>
              phase = "writing" /\ ~Awaiting /\ ~OutlineWorkDue /\ NextChapter \notin plans
         /\ Route = "commit" => phase = "writing" /\ UnitsWritten
BY DEF Route, RouteOfWriting

\* Where no outline work is due, the next chapter lies before every skeleton
LEMMA NextBeforeSkeletons ==
  ASSUME BookIInv, longForm, ~ahead, ~OutlineWorkDue, NEW i \in Skeletons(layered)
  PROVE  NextChapter <= layered.ends[i]
<1>1. /\ OutlineShape(layered) /\ completed \in Nat /\ i \in DOMAIN layered.ends
      /\ completed <= layered.ends[i] /\ layered.ends # <<>> /\ layered.ends[1] > 0
  BY DEF BookIInv, BookTypeOK, SkeletonInv, Skeletons
<1>2. /\ Len(layered.ends) \in Nat /\ DOMAIN layered.ends = 1 .. Len(layered.ends)
      /\ \A j \in DOMAIN layered.ends : layered.ends[j] \in Nat
      /\ 1 \in DOMAIN layered.ends
  BY <1>1, OutlineFacts, EmptySeq
<1>3. SUFFICES ASSUME layered.ends[i] = completed
               PROVE  FALSE
  BY <1>1, <1>2 DEF NextChapter
<1>4. layered.ends[1] <= layered.ends[i]
  <2>1. 1 <= i
    BY <1>1, <1>2
  <2> QED BY <1>1, <1>2, <2>1 DEF OutlineShape
<1>5. layered.ends[i] > 0 /\ completed > 0
  BY <1>1, <1>2, <1>3, <1>4
<1>6. PICK k \in DOMAIN layered.ends :
        k <= i /\ layered.ends[k] = layered.ends[i] /\ ~Skeleton(layered, k)
  BY <1>1, <1>5, FirstOfEnd
<1>7. k # i
  BY <1>6 DEF Skeletons
<1>8. k + 1 \in DOMAIN layered.ends /\ k <= k + 1 /\ k + 1 <= i /\ k + 1 # 1 /\ (k + 1) - 1 = k
  BY <1>1, <1>2, <1>6, <1>7
<1>9. layered.ends[k] <= layered.ends[k + 1] /\ layered.ends[k + 1] <= layered.ends[i]
  BY <1>1, <1>6, <1>8 DEF OutlineShape
<1>10. layered.ends[k + 1] = layered.ends[k]
  <2>1. /\ layered.ends[k] \in Nat /\ layered.ends[k + 1] \in Nat
        /\ layered.ends[k + 1] <= layered.ends[k]
    BY <1>2, <1>6, <1>8, <1>9
  <2> QED BY <1>9, <2>1
<1>11. k + 1 \in Skeletons(layered)
  BY <1>8, <1>10 DEF Skeletons, Skeleton, ArcStart
<1>12. ExpansionDue
  BY <1>3, <1>5, <1>6, <1>11 DEF ExpansionDue, ArcWritten
<1> QED BY <1>12 DEF OutlineWorkDue

LEMMA DispatchRoutedStep ==
  ASSUME BookIInv, Remember, DispatchRouted
  PROVE  BookIInv'
<1> USE DEF BookIInv
<1>1. /\ UNCHANGED <<layered, flat, total, longForm, phase, completed, plans, units,
                     call, next, confirming>>
      /\ engine = "loop" /\ engine' = Route
      /\ Route \in {"architect", "planner", "writer"}
      /\ inProgress' = IF Route = "writer" THEN NextChapter ELSE inProgress
  BY DEF DispatchRouted, foundation, drafts
<1>2. /\ completed \in Nat /\ inProgress \in Nat /\ call = IdleCall
      /\ sent \in BOOLEAN /\ ahead \in BOOLEAN
  BY <1>1 DEF BookTypeOK, CallInv
<1>3. NextChapter \in Nat /\ NextChapter' = NextChapter /\ NextChapter > completed
  BY <1>1, <1>2 DEF NextChapter
<1>m. sent' \in BOOLEAN /\ ahead' = ahead
  BY <1>1, <1>2 DEF Remember
<1>4. BookTypeOK'
  BY <1>1, <1>2, <1>3, <1>m DEF BookTypeOK
<1>5. CallInv'
  BY <1>1, <1>2 DEF CallInv, IdleCall
<1>6. BegunInv'
  <2>1. ASSUME ~ahead', NEW ch \in Chapters, units'[ch] > 0
        PROVE  ch <= completed' \/ (ch = NextChapter' /\ ch <= inProgress')
    BY <1>1, <1>3, <1>m, <2>1 DEF BegunInv
  <2>2. engine' = "writer" => inProgress' = NextChapter'
    BY <1>1, <1>3
  <2>3. phase' = "planning" => NothingWritten'
    BY <1>1 DEF BegunInv, NothingWritten
  <2> QED BY <2>1, <2>2, <2>3 DEF BegunInv
<1>7. SkeletonInv'
  <2>1. Skeletons(layered') = Skeletons(layered)
    BY <1>1
  <2>2. ASSUME longForm, ~ahead, NEW i \in Skeletons(layered), Route = "writer"
        PROVE  NextChapter <= layered.ends[i]
    <3>1. ~OutlineWorkDue
      BY <2>2, RouteFacts DEF BookTypeOK
    <3> HIDE DEF BookIInv
    <3> QED BY <2>2, <3>1, NextBeforeSkeletons
  <2> QED BY <1>1, <1>3, <1>m, <2>1, <2>2 DEF SkeletonInv
<1> QED BY <1>4, <1>5, <1>6, <1>7

LEMMA CommitChapterStep ==
  ASSUME BookIInv, Remember, CommitChapter
  PROVE  BookIInv'
<1> USE DEF BookIInv
<1>1. /\ UNCHANGED <<layered, flat, total, longForm, plans, units, call, next,
                     confirming, engine>>
      /\ engine = "loop" /\ completed' = NextChapter /\ inProgress' = 0
      /\ phase' \in {"complete", phase} /\ Route = "commit" /\ InOutline(NextChapter)
  BY DEF CommitChapter, foundation, drafts, control
<1>2. completed \in Nat /\ NextChapter \in Nat /\ call = IdleCall
  BY <1>1 DEF BookTypeOK, CallInv, NextChapter
<1>3. phase = "writing" /\ NextChapter \in plans /\ units[NextChapter] = Units
  BY <1>1, RouteFacts DEF UnitsWritten, BookTypeOK
<1>4. NextChapter \in Chapters /\ units[NextChapter] > 0
  BY <1>3, BoundsAssumption DEF BookTypeOK
<1>m. sent' = sent /\ ahead' = ahead
  BY <1>1, NothingToRemember
<1>5. BookTypeOK'
  BY <1>1, <1>2, <1>3, <1>m DEF BookTypeOK
<1>6. CallInv'
  BY <1>1, <1>2 DEF CallInv, IdleCall
<1>7. ~ahead => \A ch \in Chapters : units[ch] > 0 => ch <= NextChapter
  BY <1>2 DEF BegunInv, NextChapter, Chapters
<1>8. BegunInv'
  BY <1>1, <1>3, <1>7, <1>m DEF BegunInv
<1>9. SkeletonInv'
  <2>1. longForm /\ ~ahead =>
          /\ NextChapter <= Len(layered.entries)
          /\ \A ch \in Chapters : units[ch] > 0 => ch <= Len(layered.entries)
    BY <1>4 DEF SkeletonInv
  <2>2. longForm /\ ~ahead => \A i \in Skeletons(layered) :
          /\ NextChapter <= layered.ends[i]
          /\ \A ch \in Chapters : units[ch] > 0 => ch <= layered.ends[i]
    BY <1>4 DEF SkeletonInv
  <2>3. Skeletons(layered') = Skeletons(layered)
    BY <1>1
  <2>4. /\ layered' # NoOutline => layered'.ends # <<>> /\ layered'.ends[1] > 0
        /\ longForm' => layered' # NoOutline
    BY <1>1 DEF SkeletonInv
  <2> QED BY <1>1, <1>m, <2>1, <2>2, <2>3, <2>4 DEF SkeletonInv
<1> QED BY <1>5, <1>6, <1>8, <1>9

\* The rest changes neither outline nor chapters, except for the phase
LEMMA PhaseStep ==
  ASSUME BookIInv, Remember, CompleteBook \/ EnterWriting \/ Reopen
  PROVE  BookIInv'
<1> USE DEF BookIInv
<1>1. /\ UNCHANGED <<layered, flat, total, longForm, completed, inProgress, plans,
                     units, call, next>>
      /\ phase' \in {phase, "writing", "complete"}
      /\ confirming' \in {"no", confirming}
      /\ engine' = engine \/ (engine' = "loop" /\ call = IdleCall)
  <2>1. engine = "stopped" => call = IdleCall
    BY DEF BookTypeOK, CallInv
  <2>2. CASE CompleteBook
    BY <2>2 DEF CompleteBook, foundation, drafts, Architect, Idle
  <2>3. CASE EnterWriting
    BY <2>1, <2>3 DEF EnterWriting, foundation, drafts
  <2>4. CASE Reopen
    BY <2>4 DEF Reopen, foundation, drafts
  <2> QED BY <2>2, <2>3, <2>4
<1>m. sent' = sent /\ ahead' = ahead
  BY <1>1, NothingToRemember
<1>2. BookTypeOK'
  BY <1>1, <1>m DEF BookTypeOK
<1>3. CallInv'
  BY <1>1 DEF CallInv, NothingWritten, IdleCall
<1>4. BegunInv'
  BY <1>1, <1>m DEF BegunInv, NothingWritten, NextChapter
<1>5. SkeletonInv'
  BY <1>1, <1>m DEF SkeletonInv, NextChapter, Skeletons, Skeleton, ArcStart
<1> QED BY <1>2, <1>3, <1>4, <1>5

LEMMA ElsewhereStep ==
  ASSUME BookIInv, Remember \/ UNCHANGED vars,
         \/ \E s \in Settings : SaveSettings(s)
         \/ \E c \in {"open", "closed"} : UpdateCompass(c)
         \/ AuditReady \/ AuditRejects
         \/ TakeNext \/ StopAtBoundary \/ TurnEnds
         \/ Pause \/ Resume \/ Confirm \/ StoreConfirmation \/ Feedback
         \/ \E worker \in Dispatched : Message(worker)
         \/ Crash
         \/ UNCHANGED vars
  PROVE  BookIInv'
<1> USE DEF foundation, progress, drafts, control, Files
<1>1. /\ engine \in {"stopped", "loop"} => call = IdleCall
      /\ sent \in BOOLEAN /\ ahead \in BOOLEAN
      /\ next \in Dispatched \cup {"architect", None}
      /\ confirming \in {"no", "checked", "stored"}
  BY DEF BookIInv, BookTypeOK, CallInv
<1>2. /\ UNCHANGED <<layered, flat, total, longForm, phase, completed, inProgress,
                     plans, units>>
      /\ \/ call' = IdleCall
         \/ call' = call /\ (call = IdleCall \/ engine' = engine)
      /\ \/ engine' \in {engine, "stopped", "loop", "architect"}
         \/ engine = "loop" /\ next # None /\ engine' \in {"planner", "writer"}
      /\ next' \in Dispatched \cup {"architect", None}
      /\ confirming' \in {"no", "checked", "stored"}
  <2>1. CASE \/ \E s \in Settings : SaveSettings(s)
             \/ \E c \in {"open", "closed"} : UpdateCompass(c)
    BY <1>1, <2>1 DEF SaveSettings, UpdateCompass
  <2>2. CASE AuditReady \/ AuditRejects
    BY <1>1, <2>2 DEF AuditReady, AuditRejects, Architect, Idle
  <2>3. CASE TakeNext
    <3>1. next \in {"architect", "planner", "writer"}
      BY <1>1, <2>3, BoundsAssumption DEF TakeNext
    <3> QED BY <1>1, <2>3, <3>1 DEF TakeNext, Checked
  <2>4. CASE StopAtBoundary \/ TurnEnds
    BY <1>1, <2>4 DEF StopAtBoundary, TurnEnds, Idle
  <2>5. CASE Pause \/ Resume
    BY <1>1, <2>5 DEF Pause, Resume, Idle
  <2>6. CASE Confirm \/ StoreConfirmation
    BY <1>1, <2>6 DEF Confirm, StoreConfirmation
  <2>7. CASE Feedback \/ \E worker \in Dispatched : Message(worker)
    BY <1>1, <2>7 DEF Feedback, Message
  <2>8. CASE Crash
    BY <1>1, <2>8 DEF Crash
  <2>9. CASE UNCHANGED vars
    BY <1>1, <2>9 DEF vars, codeVars
  <2> QED BY <2>1, <2>2, <2>3, <2>4, <2>5, <2>6, <2>7, <2>8, <2>9
<1>3. /\ sent' \in BOOLEAN /\ ahead' = ahead
      /\ engine' = "writer" => sent' \/ (engine = "writer" /\ sent' = sent)
  <2>1. CASE Remember
    BY <1>1, <1>2, <2>1 DEF Remember
  <2>2. CASE UNCHANGED vars
    BY <1>1, <2>2 DEF vars, codeVars
  <2> QED BY <2>1, <2>2
<1>4. engine' \in {"stopped", "loop", "architect", "planner", "writer"}
  BY <1>2 DEF BookIInv, BookTypeOK
<1> QED BY <1>2, <1>3, <1>4, Elsewhere

LEMMA InitialBook == BookInit => BookIInv
<1> SUFFICES ASSUME BookInit PROVE BookIInv
  OBVIOUS
<1>1. <<>> \in Seq(Texts) /\ <<>> \in Seq(Nat) /\ DOMAIN <<>> = {}
  BY EmptySeq
<1>2. OutlineShape(layered)
  BY <1>1 DEF OutlineShape, NoOutline, BookInit
<1>3. units \in [Chapters -> 0 .. Units]
  BY BoundsAssumption DEF BookInit
<1>4. BookTypeOK
  BY <1>1, <1>2, <1>3 DEF BookTypeOK, BookInit, IdleCall
<1>5. CallInv /\ SkeletonInv
  BY DEF BookInit, CallInv, SkeletonInv, IdleCall
<1>6. BegunInv
  BY DEF BookInit, BegunInv, NothingWritten
<1> QED BY <1>4, <1>5, <1>6 DEF BookIInv

LEMMA BookStep == BookIInv /\ [BookNext]_vars => BookIInv'
<1> SUFFICES ASSUME BookIInv, [BookNext]_vars
             PROVE  BookIInv'
  OBVIOUS
<1>1. CASE ArchitectCalls /\ Remember
  <2>1. CASE \E i \in 1 .. MaxArcs, new \in Payloads : ExpandArc(i, new)
    BY <1>1, <2>1, ExpandArcStep
  <2>2. CASE \E new \in Payloads, more, fin \in BOOLEAN : AppendVolume(new, more, fin)
    BY <1>1, <2>2, AppendVolumeStep
  <2>3. CASE \E from \in Chapters, new \in Payloads : ReviseLayered(from, new)
    BY <1>1, <2>3, ReviseLayeredStep
  <2>4. CASE \E from \in Chapters, new \in Payloads : ReviseFlat(from, new)
    BY <1>1, <2>4, ReviseFlatStep
  <2>5. CASE (\E o \in Openings : SaveLayeredOutline(o)) \/ RepeatVolume
    BY <1>1, <2>5, SaveLayeredOutlineStep, RepeatVolumeStep
  <2>6. CASE \E o \in Openings : SaveOutline(o)
    BY <1>1, <2>6, SaveOutlineStep
  <2>7. CASE CompleteBook
    BY <1>1, <2>7, PhaseStep
  <2>8. CASE \/ \E s \in Settings : SaveSettings(s)
             \/ \E c \in {"open", "closed"} : UpdateCompass(c)
             \/ AuditReady \/ AuditRejects
    BY <1>1, <2>8, ElsewhereStep
  <2> QED BY <1>1, <2>1, <2>2, <2>3, <2>4, <2>5, <2>6, <2>7, <2>8 DEF ArchitectCalls
<1>2. CASE CallWrites /\ Remember
  BY <1>2, CallWriteStep
<1>3. CASE OtherCalls /\ Remember
  BY <1>3, PlanChapterStep, WriteUnitStep DEF OtherCalls
<1>4. CASE EngineSteps /\ Remember
  BY <1>4, DispatchRoutedStep, CommitChapterStep, ElsewhereStep DEF EngineSteps
<1>5. CASE UserSteps /\ Remember
  BY <1>5, PhaseStep, ElsewhereStep DEF UserSteps
<1>6. CASE Crash /\ Remember
  BY <1>6, ElsewhereStep
<1>7. CASE UNCHANGED vars
  BY <1>7, ElsewhereStep
<1> QED BY <1>1, <1>2, <1>3, <1>4, <1>5, <1>6, <1>7 DEF BookNext, CodeStep

\* Whatever the architect calls, wherever the process dies: skeletons lie behind
\* all that is written and about to be written, a chapter with units is the
\* marked one or completed, and only a book without chapters changes its form.
THEOREM BookInductive == BookSpec => []BookIInv
<1>1. BookInit => BookIInv
  BY InitialBook
<1>2. BookIInv /\ [BookNext]_vars => BookIInv'
  BY BookStep
<1> QED BY <1>1, <1>2, PTL DEF BookSpec

--------------------------------------------------------------------------------
(* Written chapters keep their entries. *)

EntriesKept ==
  \A ch \in Chapters :
    Written(ch) /\ ch \in DOMAIN Entries =>
      ch \in DOMAIN Entries' /\ Entries'[ch] = Entries[ch]

LEMMA WrittenWithin ==
  ASSUME NEW n, Within(n), NEW ch \in Chapters, Written(ch), BookTypeOK, n \in Nat
  PROVE  ch \in 1 .. n
BY DEF Within, Written, Chapters, BookTypeOK

\* New entries that agree with the old ones up to n
LEMMA PrefixKept ==
  ASSUME BookTypeOK, NEW n \in Nat, Within(n),
         1 .. n \subseteq DOMAIN Entries',
         \A ch \in 1 .. n : Entries'[ch] = Entries[ch]
  PROVE  EntriesKept
BY WrittenWithin DEF EntriesKept

LEMMA SpliceKeeps ==
  ASSUME BookTypeOK, NEW i \in DOMAIN layered.ends, NEW keep \in Nat,
         ArcStart(layered, i) <= keep, keep <= layered.ends[i],
         NEW new \in Payloads, longForm => Within(keep),
         layered' = Splice(layered, i, keep, new), UNCHANGED <<longForm, flat>>
  PROVE  EntriesKept
<1>1. CASE ~longForm
  BY <1>1 DEF EntriesKept, Entries
<1>2. CASE longForm
  <2>1. OutlineShape(layered) /\ new \in Seq(Texts)
    BY BoundsAssumption DEF BookTypeOK
  <2>2. /\ OutlineShape(layered')
        /\ Len(layered'.entries) = keep + Len(new) + (Len(layered.entries) - layered.ends[i])
        /\ \A ch \in 1 .. keep : layered'.entries[ch] = layered.entries[ch]
    BY <2>1, Spliced
  <2>3. /\ Len(new) \in Nat /\ Len(layered.entries) \in Nat
        /\ layered.ends[i] \in Nat /\ layered.ends[i] <= Len(layered.entries)
        /\ DOMAIN layered'.entries = 1 .. Len(layered'.entries)
    BY <2>1, <2>2, OutlineFacts, LenProperties
  <2>4. 1 .. keep \subseteq DOMAIN layered'.entries
    BY <2>2, <2>3
  <2>5. Entries = layered.entries /\ Entries' = layered'.entries
    BY <1>2 DEF Entries
  <2> QED BY <1>2, <2>2, <2>4, <2>5, PrefixKept
<1> QED BY <1>1, <1>2 DEF BookTypeOK

LEMMA NothingLost ==
  ASSUME BookTypeOK, NothingWritten
  PROVE  EntriesKept
BY DEF EntriesKept, NothingWritten, Written, Chapters

LEMMA ArchitectKeeps ==
  ASSUME BookIInv, ~ahead, ArchitectCalls
  PROVE  EntriesKept
<1> USE DEF SaveLayered, SaveFlat, progress
<1>1. BookTypeOK /\ OutlineShape(layered) /\ BegunInv /\ SkeletonInv
  BY DEF BookIInv, BookTypeOK
<1>2. ASSUME NEW i \in 1 .. MaxArcs, NEW new \in Payloads, ExpandArc(i, new)
      PROVE  EntriesKept
  <2>1. /\ i \in DOMAIN layered.ends /\ i \in Skeletons(layered)
        /\ layered' = Splice(layered, i, layered.ends[i], new)
        /\ UNCHANGED <<longForm, flat>>
    BY <1>2 DEF ExpandArc, Expanded, Skeletons
  <2>2. /\ layered.ends[i] \in Nat /\ ArcStart(layered, i) <= layered.ends[i]
        /\ layered.ends[i] <= layered.ends[i]
    BY <1>1, <2>1, OutlineFacts
  <2>3. longForm => Within(layered.ends[i])
    BY <1>1, <2>1, ReachOfBook
  <2> QED BY <1>1, <2>1, <2>2, <2>3, SpliceKeeps
<1>3. ASSUME NEW from \in Chapters, NEW new \in Payloads, ReviseLayered(from, new)
      PROVE  EntriesKept
  <2>1. PICK i \in DOMAIN layered.ends :
          /\ Revised(layered, from, i)
          /\ layered' = Splice(layered, i, from - 1, new)
          /\ UNCHANGED <<longForm, flat>>
    BY <1>3 DEF ReviseLayered
  <2>2. from > completed /\ from > inProgress /\ from \in Nat /\ from > 0
    BY <1>3 DEF ReviseLayered, Revisable, Chapters
  <2>3. from - 1 \in Nat /\ ArcStart(layered, i) <= from - 1 /\ from - 1 <= layered.ends[i]
    BY <1>1, <2>1, <2>2, RevisionCuts
  <2>4. Within(from - 1)
    BY <1>1, <2>2 DEF Within, BegunInv, BookTypeOK, Chapters
  <2> QED BY <1>1, <2>1, <2>3, <2>4, SpliceKeeps
<1>4. ASSUME NEW new \in Payloads, NEW more \in BOOLEAN, NEW fin \in BOOLEAN,
             AppendVolume(new, more, fin)
      PROVE  EntriesKept
  <2>1. layered' = Appended(layered, new, more, fin) /\ UNCHANGED <<longForm, flat>>
    BY <1>4 DEF AppendVolume
  <2>2. new \in Seq(Texts) /\ Len(new) \in Nat /\ Len(layered.entries) \in Nat
        /\ DOMAIN layered.entries = 1 .. Len(layered.entries)
    BY <1>1, BoundsAssumption, LenProperties, OutlineFacts
  <2>3. /\ OutlineShape(layered')
        /\ Len(layered'.entries) = Len(layered.entries) + Len(new)
        /\ \A ch \in 1 .. Len(layered.entries) : layered'.entries[ch] = layered.entries[ch]
    BY <1>1, <2>1, <2>2, VolumeAppended
  <2>4. DOMAIN layered'.entries = 1 .. Len(layered'.entries)
    BY <2>3, OutlineFacts
  <2>5. DOMAIN layered.entries \subseteq DOMAIN layered'.entries
    BY <2>2, <2>3, <2>4
  <2> QED BY <2>1, <2>2, <2>3, <2>5 DEF EntriesKept, Entries
<1>5. ASSUME NEW from \in Chapters, NEW new \in Payloads, ReviseFlat(from, new)
      PROVE  EntriesKept
  <2>1. /\ flat' = SubSeq(flat, 1, from - 1) \o new /\ ~longForm
        /\ UNCHANGED <<longForm, layered>>
        /\ from <= Len(flat) + 1 /\ from > completed /\ from > inProgress
    BY <1>5 DEF ReviseFlat, Revisable
  <2>2. from \in Nat /\ from > 0 /\ new \in Seq(Texts) /\ flat \in Seq(Texts)
        /\ from - 1 \in Nat
    BY <1>1, BoundsAssumption DEF Chapters, BookTypeOK
  <2>a. from > completed /\ from > inProgress /\ ~ahead
    BY <2>1
  <2>3. Within(from - 1)
    BY <1>1, <2>2, <2>a DEF Within, BegunInv, BookTypeOK, Chapters
  <2>4. PICK a : a = SubSeq(flat, 1, from - 1)
    OBVIOUS
  <2>5. /\ a \in Seq(Texts) /\ Len(a) = from - 1
        /\ \A ch \in 1 .. from - 1 : a[ch] = flat[ch]
    <3>1. /\ Len(flat) \in Nat /\ DOMAIN flat = 1 .. Len(flat)
          /\ \A ch \in 1 .. Len(flat) : flat[ch] \in Texts
      BY <2>2, LenProperties, ElementOfSeq
    <3>2. from - 1 \in Int /\ 1 \in Int /\ \A ch \in 1 .. from - 1 : flat[ch] \in Texts
      BY <2>1, <2>2, <3>1
    <3>3. /\ SubSeq(flat, 1, from - 1) \in Seq(Texts)
          /\ Len(SubSeq(flat, 1, from - 1)) = IF 1 <= from - 1 THEN (from - 1) - 1 + 1 ELSE 0
          /\ \A ch \in 1 .. (from - 1) - 1 + 1 :
               SubSeq(flat, 1, from - 1)[ch] = flat[1 + ch - 1]
      BY <3>2, SubSeqProperties
    <3>4. \A ch \in 1 .. from - 1 : 1 + ch - 1 = ch /\ ch \in 1 .. (from - 1) - 1 + 1
      BY <2>2
    <3> QED BY <2>2, <2>4, <3>3, <3>4
  <2>6. /\ a \o new \in Seq(Texts) /\ Len(a \o new) = Len(a) + Len(new)
        /\ \A ch \in 1 .. Len(a) + Len(new) :
             (a \o new)[ch] = IF ch <= Len(a) THEN a[ch] ELSE new[ch - Len(a)]
    BY <2>2, <2>5, ConcatProperties
  <2>7. Len(new) \in Nat /\ DOMAIN (a \o new) = 1 .. Len(a \o new)
    BY <2>2, <2>6, LenProperties
  <2>8. 1 .. from - 1 \subseteq DOMAIN (a \o new)
    BY <2>2, <2>5, <2>6, <2>7
  <2>9. \A ch \in 1 .. from - 1 : (a \o new)[ch] = flat[ch]
    BY <2>2, <2>5, <2>6, <2>7
  <2>10. Entries = flat /\ Entries' = a \o new
    BY <2>1, <2>4 DEF Entries
  <2> QED BY <1>1, <2>2, <2>3, <2>8, <2>9, <2>10, PrefixKept
<1>6. CASE (\E o \in Openings : SaveLayeredOutline(o)) \/ (\E o \in Openings : SaveOutline(o))
  <2>1. NothingWritten
    BY <1>1, <1>6 DEF SaveLayeredOutline, SaveOutline, BegunInv
  <2> QED BY <1>1, <2>1, NothingLost
<1>7. CASE \/ \E s \in Settings : SaveSettings(s)
           \/ \E c \in {"open", "closed"} : UpdateCompass(c)
           \/ RepeatVolume \/ AuditReady \/ AuditRejects \/ CompleteBook
  <2>1. UNCHANGED <<layered, flat, longForm>>
    BY <1>7 DEF SaveSettings, UpdateCompass, RepeatVolume, AuditReady, AuditRejects,
                CompleteBook, foundation
  <2> QED BY <2>1 DEF EntriesKept, Entries
<1> QED BY <1>2, <1>3, <1>4, <1>5, <1>6, <1>7 DEF ArchitectCalls

LEMMA CallWriteKeeps ==
  ASSUME BookIInv, FormKnown, CallWrites
  PROVE  EntriesKept
<1> USE DEF BookIInv
<1>1. CASE WriteFlat
  <2>1. longForm
    BY <1>1 DEF WriteFlat, CallInv, FormKnown
  <2>2. UNCHANGED <<layered, longForm>>
    BY <1>1 DEF WriteFlat, progress
  <2> QED BY <2>1, <2>2 DEF EntriesKept, Entries
<1>2. CASE WriteTotal \/ StartChapter
  <2>1. UNCHANGED <<layered, flat, longForm>>
    BY <1>2 DEF WriteTotal, StartChapter, foundation
  <2> QED BY <2>1 DEF EntriesKept, Entries
<1>3. CASE WriteForm \/ ClearLayered
  <2>1. NothingWritten
    BY <1>3 DEF WriteForm, ClearLayered, CallInv
  <2> QED BY <2>1, NothingLost
<1> QED BY <1>1, <1>2, <1>3 DEF CallWrites

\* Nobody else touches the outline
LEMMA OthersKeepOutline ==
  ASSUME OtherCalls \/ EngineSteps \/ UserSteps \/ Crash \/ UNCHANGED vars
  PROVE  UNCHANGED <<settings, compass, layered, flat, longForm, total>>
<1> USE DEF foundation, progress, Files
<1>1. CASE OtherCalls
  BY <1>1 DEF OtherCalls, PlanChapter, WriteUnit
<1>2. CASE EngineSteps
  BY <1>2 DEF EngineSteps, TakeNext, DispatchRouted, StopAtBoundary, CommitChapter, TurnEnds
<1>3. CASE UserSteps
  BY <1>3 DEF UserSteps, Pause, Resume, Confirm, StoreConfirmation, EnterWriting, Feedback,
              Reopen, Message
<1>4. CASE Crash \/ UNCHANGED vars
  BY <1>4 DEF Crash, vars, codeVars
<1> QED BY <1>1, <1>2, <1>3, <1>4

\* A chapter keeps the number and the entry it was written from, whatever outline
\* tools run in whatever order, through revisions, expansions, new volumes and
\* process deaths between their writes, until a writer that the arbiter sent
\* writes a chapter out of its turn.
THEOREM WrittenKept == BookSpec => WrittenEntriesKept
<1>1. ASSUME BookIInv, [BookNext]_vars
      PROVE  [FormKnown /\ FormKnown' /\ ~ahead => EntriesKept]_vars
  <2>1. CASE OtherCalls \/ EngineSteps \/ UserSteps \/ Crash \/ UNCHANGED vars
    <3>1. UNCHANGED <<layered, flat, longForm>>
      BY <2>1, OthersKeepOutline
    <3> QED BY <3>1 DEF EntriesKept, Entries
  <2> QED BY <1>1, <2>1, ArchitectKeeps, CallWriteKeeps DEF BookNext, CodeStep
<1>2. BookIInv /\ [BookNext]_vars
        => [FormKnown /\ FormKnown' /\ ~ahead =>
              \A ch \in Chapters :
                Written(ch) /\ ch \in DOMAIN Entries =>
                  ch \in DOMAIN Entries' /\ Entries'[ch] = Entries[ch]]_vars
  BY <1>1 DEF EntriesKept
<1> QED BY <1>2, BookInductive, PTL DEF BookSpec, WrittenEntriesKept

--------------------------------------------------------------------------------
(* Nothing is planned or written from an outline that is not confirmed. *)

\* A book that is written was confirmed once, so that the gate looks at it
GateInv ==
  /\ phase # "planning" => conf # {}
  /\ confirming = "stored" => conf # {}
  /\ ForwardWorkConfirmed

\* Steps after which the gate stands as before
LEMMA GateKept ==
  ASSUME GateInv, Remember \/ UNCHANGED sent,
         UNCHANGED <<settings, compass, layered, flat, conf>>,
         phase' = phase \/ conf # {} \/ phase' = "planning",
         confirming' = "stored" => confirming = "stored",
         engine' \in {"planner", "writer"} => engine \in {"planner", "writer"}
  PROVE  GateInv'
BY DEF GateInv, ForwardWorkConfirmed, Confirmed, Fingerprint, ArtifactMissing, Remember

\* Where the architect works nothing is asked of the gate
LEMMA GateOpen ==
  ASSUME GateInv, UNCHANGED <<conf, phase, confirming>>,
         engine' \notin {"planner", "writer"}
  PROVE  GateInv'
BY DEF GateInv, ForwardWorkConfirmed

LEMMA GateStep ==
  ASSUME BookIInv, GateInv, [BookNext]_vars
  PROVE  GateInv'
<1> USE DEF foundation, progress, gates, drafts, control, Files
<1>1. BookTypeOK /\ CallInv
  BY DEF BookIInv
<1>2. CASE ArchitectCalls /\ Remember
  <2>1. CASE CompleteBook
    <3>1. /\ UNCHANGED <<settings, compass, layered, flat, conf, confirming>>
          /\ engine' = "loop" /\ phase = "writing"
      BY <2>1 DEF CompleteBook, Completable
    <3>2. conf # {}
      BY <3>1 DEF GateInv
    <3> QED BY <1>2, <3>1, <3>2, GateKept
  <2>2. CASE ~CompleteBook
    <3>1. UNCHANGED <<conf, phase, confirming>> /\ engine' \notin {"planner", "writer"}
      BY <1>2, <2>2 DEF ArchitectCalls, SaveSettings, UpdateCompass, SaveLayeredOutline,
           SaveOutline, ExpandArc, AppendVolume, RepeatVolume, ReviseLayered, ReviseFlat,
           SaveLayered, SaveFlat, AuditReady, AuditRejects, Architect
    <3> QED BY <3>1, GateOpen
  <2> QED BY <2>1, <2>2
<1>3. CASE CallWrites /\ Remember
  <2>1. CASE StartChapter
    <3>1. /\ UNCHANGED <<settings, compass, layered, flat, conf, phase, confirming>>
          /\ engine' \in {engine, "loop"}
      BY <2>1 DEF StartChapter, Done
    <3> QED BY <1>3, <3>1, GateKept
  <2>2. CASE WriteFlat \/ WriteTotal \/ WriteForm \/ ClearLayered
    <3>1. engine = "architect"
      BY <1>1, <2>2 DEF WriteFlat, WriteTotal, WriteForm, ClearLayered, CallInv
    <3>2. UNCHANGED <<conf, phase, confirming>> /\ engine' \in {engine, "loop"}
      BY <2>2 DEF WriteFlat, WriteTotal, WriteForm, ClearLayered, Done
    <3> QED BY <3>1, <3>2, GateOpen
  <2> QED BY <1>3, <2>1, <2>2 DEF CallWrites
<1>4. CASE OtherCalls /\ Remember
  <2>1. /\ UNCHANGED <<settings, compass, layered, flat, conf, phase, confirming>>
        /\ engine' \in {engine, "loop"}
    BY <1>4 DEF OtherCalls, PlanChapter, WriteUnit
  <2> QED BY <1>4, <2>1, GateKept
<1>5. CASE EngineSteps /\ Remember
  <2>1. CASE DispatchRouted
    <3>1. /\ UNCHANGED <<settings, compass, layered, flat, conf, phase, confirming>>
          /\ engine' = Route
      BY <2>1 DEF DispatchRouted
    <3>2. CASE Route \in {"planner", "writer"}
      <4>1. phase = "writing" /\ ~Awaiting
        BY <1>1, <3>2, RouteFacts DEF BookTypeOK
      <4>2. conf # {}
        BY <4>1 DEF GateInv
      <4>3. Confirmed \/ ArtifactMissing
        BY <4>1, <4>2 DEF Awaiting, FoundationMissing
      <4>4. Confirmed' \/ ArtifactMissing'
        BY <3>1, <4>3 DEF Confirmed, Fingerprint, ArtifactMissing
      <4> QED BY <3>1, <4>2, <4>4 DEF GateInv, ForwardWorkConfirmed
    <3>3. CASE Route \notin {"planner", "writer"}
      BY <1>5, <3>1, <3>3, GateKept
    <3> QED BY <3>2, <3>3
  <2>2. CASE TakeNext
    <3>1. /\ UNCHANGED <<settings, compass, layered, flat, conf, phase, confirming>>
          /\ engine = "loop" /\ next # None
      BY <2>2 DEF TakeNext
    <3>2. engine' \in {"planner", "writer"} => sent'
      BY <1>5, <3>1 DEF Remember
    <3>3. CASE engine' \in {"planner", "writer"}
      BY <3>1, <3>2, <3>3 DEF GateInv, ForwardWorkConfirmed
    <3>4. CASE engine' \notin {"planner", "writer"}
      BY <1>5, <3>1, <3>4, GateKept
    <3> QED BY <3>3, <3>4
  <2>3. CASE StopAtBoundary \/ TurnEnds
    <3>1. /\ UNCHANGED <<settings, compass, layered, flat, conf, phase, confirming>>
          /\ engine' \notin {"planner", "writer"}
      BY <2>3 DEF StopAtBoundary, TurnEnds
    <3> QED BY <1>5, <3>1, GateKept
  <2>4. CASE CommitChapter
    <3>1. /\ UNCHANGED <<settings, compass, layered, flat, conf, confirming, engine>>
          /\ Route = "commit"
      BY <2>4 DEF CommitChapter
    <3>2. conf # {}
      BY <1>1, <3>1, RouteFacts DEF GateInv, BookTypeOK
    <3> QED BY <1>5, <3>1, <3>2, GateKept
  <2> QED BY <1>5, <2>1, <2>2, <2>3, <2>4 DEF EngineSteps
<1>6. CASE UserSteps /\ Remember
  <2>1. CASE StoreConfirmation
    <3>1. /\ UNCHANGED <<settings, compass, layered, flat, phase, engine>>
          /\ \/ confirming' = "no" /\ conf' = conf
             \/ conf' = {Fingerprint}
      BY <2>1 DEF StoreConfirmation
    <3>2. CASE confirming' = "no" /\ conf' = conf
      BY <1>6, <3>1, <3>2, GateKept
    <3>3. CASE conf' = {Fingerprint}
      <4>1. Confirmed' /\ conf' # {}
        BY <3>1, <3>3 DEF Confirmed, Fingerprint
      <4> QED BY <4>1 DEF GateInv, ForwardWorkConfirmed
    <3> QED BY <3>1, <3>2, <3>3
  <2>2. CASE EnterWriting
    <3>1. /\ UNCHANGED <<settings, compass, layered, flat, conf>>
          /\ confirming = "stored" /\ confirming' = "no"
          /\ engine' \in {engine, "loop"}
      BY <2>2 DEF EnterWriting
    <3> QED BY <1>6, <3>1, GateKept DEF GateInv
  <2>3. CASE Reopen
    <3>1. /\ UNCHANGED <<settings, compass, layered, flat, conf, engine, confirming>>
          /\ phase = "complete"
      BY <2>3 DEF Reopen
    <3> QED BY <1>6, <3>1, GateKept DEF GateInv
  <2>4. CASE Pause \/ Resume \/ Confirm \/ Feedback \/ \E worker \in Dispatched : Message(worker)
    <3>1. /\ UNCHANGED <<settings, compass, layered, flat, conf, phase>>
          /\ engine' \in {engine, "loop", "stopped"}
          /\ confirming' \in {confirming, "checked"}
      BY <2>4 DEF Pause, Resume, Confirm, Feedback, Message
    <3> QED BY <1>6, <3>1, GateKept
  <2> QED BY <1>6, <2>1, <2>2, <2>3, <2>4 DEF UserSteps
<1>7. CASE (Crash /\ Remember) \/ UNCHANGED vars
  <2>1. /\ UNCHANGED <<settings, compass, layered, flat, conf, phase>>
        /\ Remember \/ UNCHANGED sent
        /\ engine' \in {engine, "stopped"} /\ confirming' \in {confirming, "no"}
    BY <1>7 DEF Crash, vars, codeVars
  <2> QED BY <2>1, GateKept
<1> QED BY <1>2, <1>3, <1>4, <1>5, <1>6, <1>7 DEF BookNext, CodeStep

\* No planner and no writer works from an outline that the user has not confirmed
\* in this form, unless a file of it is missing or the arbiter sent the worker past
\* the router; wherever the process died.
THEOREM WorkConfirmed == BookSpec => []ForwardWorkConfirmed
<1>1. BookInit => GateInv
  BY DEF BookInit, GateInv, ForwardWorkConfirmed
<1>2. BookIInv /\ GateInv /\ [BookNext]_vars => GateInv'
  BY GateStep
<1>3. GateInv => ForwardWorkConfirmed
  BY DEF GateInv
<1> QED BY <1>1, <1>2, <1>3, BookInductive, PTL DEF BookSpec

--------------------------------------------------------------------------------
(* The views agree while no process dies, and a complete book is written. *)

LongViews(n) == layered # NoOutline /\ flat = layered.entries /\ n = Capacity(layered)
FlatViews(n) == n = Len(flat)

\* What holds between any two writes of a call
ViewInv ==
  /\ crashes \in Nat
  /\ crashes = 0 =>
      /\ call.write \in {"none", "start"} =>
           /\ FormKnown
           /\ IF longForm THEN LongViews(total) ELSE FlatViews(total)
      /\ call.write = "flat" =>
           /\ call.total = Capacity(layered) /\ call.form # "short"
           /\ call.form = "kept" => longForm
      /\ call.write = "total" =>
           IF call.form = "long" \/ (call.form = "kept" /\ longForm)
           THEN LongViews(call.total)
           ELSE FlatViews(call.total) /\ (call.form = "kept" => layered = NoOutline)
      /\ call.write = "form" =>
           IF call.form = "long" THEN LongViews(total) ELSE FlatViews(total)
      /\ call.write = "clear" => FlatViews(total)

\* Steps that touch none of the views
LEMMA ViewsKept ==
  ASSUME ViewInv, UNCHANGED <<layered, flat, total, longForm>>,
         \/ call' = call
         \/ /\ call.write \in {"none", "start"}
            /\ call'.write \in {"none", "start"},
         crashes' = crashes
  PROVE  ViewInv'
BY DEF ViewInv, FormKnown, LongViews, FlatViews

\* The first write of a call
LEMMA ViewsOfLayered ==
  ASSUME ViewInv, Architect,
         NEW s, NEW form \in {"kept", "long"}, NEW ends \in BOOLEAN,
         SaveLayered(s, form, ends),
         form = "kept" => layered # NoOutline
  PROVE  ViewInv'
<1>1. call.write = "none"
  BY DEF Architect, Idle, IdleCall
<1>2. /\ layered' = s /\ UNCHANGED <<crashes, longForm>>
      /\ call' = [write |-> "flat", total |-> Capacity(s), form |-> form,
                  ends |-> ends, chapter |-> 0]
  BY DEF SaveLayered, Wrote, progress, control
<1>3. crashes = 0 /\ form = "kept" => longForm
  BY <1>1 DEF ViewInv, FormKnown
<1>4. /\ call'.write = "flat" /\ call'.total = Capacity(layered')
      /\ call'.form # "short" /\ (crashes = 0 /\ call'.form = "kept" => longForm')
  BY <1>2, <1>3
<1> QED BY <1>2, <1>4 DEF ViewInv

LEMMA ViewsOfFlat ==
  ASSUME ViewInv, Architect, NEW entries, NEW form \in {"kept", "short"},
         SaveFlat(entries, form),
         form = "kept" => ~longForm
  PROVE  ViewInv'
<1>1. call.write = "none"
  BY DEF Architect, Idle, IdleCall
<1>2. /\ flat' = entries /\ UNCHANGED <<layered, crashes, longForm>>
      /\ call' = [write |-> "total", total |-> Len(entries), form |-> form,
                  ends |-> FALSE, chapter |-> 0]
  BY DEF SaveFlat, Wrote, progress, control
<1>3. crashes = 0 /\ form = "kept" => layered' = NoOutline
  BY <1>1, <1>2 DEF ViewInv, FormKnown
<1>4. /\ call'.write = "total" /\ call'.total = Len(flat')
      /\ ~(call'.form = "long" \/ (call'.form = "kept" /\ longForm'))
      /\ crashes = 0 /\ call'.form = "kept" => layered' = NoOutline
  BY <1>2, <1>3
<1> QED BY <1>2, <1>4 DEF ViewInv, FlatViews

LEMMA ViewStep ==
  ASSUME BookIInv, ViewInv, [BookNext]_vars
  PROVE  ViewInv'
<1> USE DEF foundation, progress, gates, drafts, control, Files
<1>1. BookTypeOK /\ CallInv
  BY DEF BookIInv
<1>2. CASE ArchitectCalls
  <2>1. ASSUME NEW i \in 1 .. MaxArcs, NEW new \in Payloads, ExpandArc(i, new)
        PROVE  ViewInv'
    <3>1. layered # NoOutline
      <4>1. DOMAIN layered.ends # {}
        BY <2>1 DEF ExpandArc, Skeletons
      <4> QED BY <4>1, EmptySeq DEF NoOutline
    <3>2. Architect /\ SaveLayered(Expanded(layered, i, new), "kept", TRUE)
      BY <2>1 DEF ExpandArc
    <3> QED BY <3>1, <3>2, ViewsOfLayered
  <2>2. ASSUME NEW new \in Payloads, NEW more \in BOOLEAN, NEW fin \in BOOLEAN,
               AppendVolume(new, more, fin)
        PROVE  ViewInv'
    <3>1. /\ Architect /\ layered # NoOutline
          /\ SaveLayered(Appended(layered, new, more, fin), "kept", FALSE)
      BY <2>2 DEF AppendVolume
    <3> QED BY <3>1, ViewsOfLayered
  <2>3. CASE RepeatVolume
    <3>1. Architect /\ layered # NoOutline /\ SaveLayered(layered, "kept", FALSE)
      BY <2>3 DEF RepeatVolume
    <3> QED BY <3>1, ViewsOfLayered
  <2>4. ASSUME NEW from \in Chapters, NEW new \in Payloads, ReviseLayered(from, new)
        PROVE  ViewInv'
    <3>1. PICK i \in DOMAIN layered.ends :
            SaveLayered(Splice(layered, i, from - 1, new), "kept", FALSE)
      BY <2>4 DEF ReviseLayered
    <3>2. Architect /\ layered # NoOutline
      <4>1. DOMAIN layered.ends # {}
        BY <3>1
      <4> QED BY <2>4, <4>1, EmptySeq DEF NoOutline, ReviseLayered
    <3> QED BY <3>1, <3>2, ViewsOfLayered
  <2>5. ASSUME NEW o \in Openings, SaveLayeredOutline(o)
        PROVE  ViewInv'
    <3>1. Architect /\ SaveLayered(o, "long", FALSE)
      BY <2>5 DEF SaveLayeredOutline
    <3> QED BY <3>1, ViewsOfLayered
  <2>6. ASSUME NEW o \in Openings, SaveOutline(o)
        PROVE  ViewInv'
    <3>1. Architect /\ SaveFlat(o.entries, "short")
      BY <2>6 DEF SaveOutline
    <3> QED BY <3>1, ViewsOfFlat
  <2>7. ASSUME NEW from \in Chapters, NEW new \in Payloads, ReviseFlat(from, new)
        PROVE  ViewInv'
    <3>1. /\ Architect /\ ~longForm
          /\ SaveFlat(SubSeq(flat, 1, from - 1) \o new, "kept")
      BY <2>7 DEF ReviseFlat
    <3> QED BY <3>1, ViewsOfFlat
  <2>8. CASE \/ \E s \in Settings : SaveSettings(s)
             \/ \E c \in {"open", "closed"} : UpdateCompass(c)
             \/ AuditReady \/ AuditRejects \/ CompleteBook
    <3>1. UNCHANGED <<layered, flat, total, longForm, call, crashes>>
      BY <2>8 DEF SaveSettings, UpdateCompass, AuditReady, AuditRejects, CompleteBook
    <3> QED BY <3>1, ViewsKept
  <2> QED BY <1>2, <2>1, <2>2, <2>3, <2>4, <2>5, <2>6, <2>7, <2>8 DEF ArchitectCalls
<1>3. CASE WriteFlat
  <2>1. /\ UNCHANGED <<layered, total, longForm, crashes>> /\ flat' = layered.entries
        /\ call.write = "flat"
        /\ call'.write = "total" /\ call'.total = call.total /\ call'.form = call.form
        /\ layered # NoOutline
    BY <1>1, <1>3 DEF WriteFlat, BookTypeOK, CallInv
  <2>2. call.form \in {"kept", "long", "short"}
    BY <1>1 DEF BookTypeOK
  <2> QED BY <2>1, <2>2 DEF ViewInv, LongViews
<1>4. CASE WriteTotal
  <2>1. /\ UNCHANGED <<layered, flat, longForm, crashes>> /\ total' = call.total
        /\ call.write = "total"
        /\ \/ call.form = "kept" /\ call' = IdleCall
           \/ /\ call.form # "kept"
              /\ call'.write = "form" /\ call'.form = call.form
    BY <1>1, <1>4 DEF WriteTotal, Done, BookTypeOK
  <2>2. call.form = "kept" /\ crashes = 0 =>
          FormKnown /\ IF longForm THEN LongViews(total') ELSE FlatViews(total')
    BY <1>1, <2>1 DEF ViewInv, FormKnown, LongViews, BookTypeOK
  <2>3. call.form # "kept" /\ crashes = 0 =>
          IF call.form = "long" THEN LongViews(total') ELSE FlatViews(total')
    BY <2>1 DEF ViewInv
  <2>4. CASE call.form = "kept"
    <3>1. call'.write = "none" /\ crashes' = crashes
      BY <2>1, <2>4 DEF IdleCall
    <3>2. crashes = 0 =>
            FormKnown' /\ IF longForm' THEN LongViews(total)' ELSE FlatViews(total)'
      BY <2>1, <2>2, <2>4 DEF FormKnown, LongViews, FlatViews
    <3> QED BY <3>1, <3>2 DEF ViewInv
  <2>5. CASE call.form # "kept"
    <3>1. call'.write = "form" /\ crashes' = crashes /\ call'.form = call.form
      BY <2>1, <2>5
    <3>2. crashes = 0 =>
            IF call.form = "long" THEN LongViews(total)' ELSE FlatViews(total)'
      BY <2>1, <2>3, <2>5 DEF LongViews, FlatViews
    <3> QED BY <3>1, <3>2 DEF ViewInv
  <2> QED BY <2>4, <2>5
<1>5. CASE WriteForm
  <2>1. /\ UNCHANGED <<layered, flat, total, crashes>> /\ longForm' = (call.form = "long")
        /\ call.write = "form"
        /\ \/ call.form = "long" /\ call' = IdleCall
           \/ call.form # "long" /\ call'.write = "clear"
    BY <1>1, <1>5 DEF WriteForm, Done, BookTypeOK
  <2>2. CASE call.form = "long" /\ call' = IdleCall
    <3>1. call'.write = "none" /\ crashes' = crashes /\ longForm'
      BY <2>1, <2>2 DEF IdleCall
    <3>2. crashes = 0 => FormKnown' /\ LongViews(total)'
      BY <2>1, <2>2 DEF ViewInv, FormKnown, LongViews
    <3> QED BY <3>1, <3>2 DEF ViewInv
  <2>3. CASE call.form # "long" /\ call'.write = "clear"
    <3>1. crashes = 0 => FlatViews(total)'
      BY <2>1, <2>3 DEF ViewInv, FlatViews
    <3> QED BY <2>1, <2>3, <3>1 DEF ViewInv
  <2> QED BY <2>1, <2>2, <2>3
<1>6. CASE ClearLayered
  <2>1. /\ UNCHANGED <<flat, total, longForm, crashes>> /\ layered' = NoOutline
        /\ call.write = "clear" /\ call' = IdleCall /\ ~longForm
    BY <1>1, <1>6 DEF ClearLayered, Done, CallInv
  <2> QED BY <2>1 DEF ViewInv, FormKnown, FlatViews, IdleCall
<1>7. CASE StartChapter \/ OtherCalls
  <2>1. /\ UNCHANGED <<layered, flat, total, longForm, crashes>>
        /\ call.write \in {"none", "start"} /\ call'.write \in {"none", "start"}
    <3>1. CASE StartChapter
      BY <3>1 DEF StartChapter, Done, IdleCall
    <3>2. CASE \E ch \in Chapters : PlanChapter(ch)
      BY <3>2 DEF PlanChapter, Idle, IdleCall
    <3>3. CASE WriteUnit
      BY <3>3 DEF WriteUnit, Idle, IdleCall
    <3> QED BY <1>7, <3>1, <3>2, <3>3 DEF OtherCalls
  <2> QED BY <2>1, ViewsKept
<1>8. CASE EngineSteps
  <2>1. UNCHANGED <<layered, flat, total, longForm, call, crashes>>
    BY <1>8 DEF EngineSteps, TakeNext, DispatchRouted, StopAtBoundary, CommitChapter, TurnEnds
  <2> QED BY <2>1, ViewsKept
<1>9. CASE UserSteps
  <2>1. UNCHANGED <<layered, flat, total, longForm, call, crashes>>
    BY <1>9 DEF UserSteps, Pause, Resume, Confirm, StoreConfirmation, EnterWriting, Feedback,
                Reopen, Message
  <2> QED BY <2>1, ViewsKept
<1>10. CASE Crash
  <2>1. crashes' \in Nat /\ crashes' # 0
    BY <1>10 DEF Crash, ViewInv
  <2> QED BY <2>1 DEF ViewInv
<1>11. CASE UNCHANGED vars
  <2>1. UNCHANGED <<layered, flat, total, longForm, call, crashes>>
    BY <1>11 DEF vars, codeVars
  <2> QED BY <2>1, ViewsKept
<1> QED BY <1>2, <1>3, <1>4, <1>5, <1>6, <1>7, <1>8, <1>9, <1>10, <1>11
        DEF BookNext, CodeStep, CallWrites

\* Between two calls the flat view and the total are those of the outline, as long
\* as no process died.
THEOREM Views == BookSpec => []ViewsAgree
<1>1. BookInit => ViewInv
  BY EmptySeq DEF BookInit, ViewInv, FormKnown, FlatViews, IdleCall
<1>2. BookIInv /\ ViewInv /\ [BookNext]_vars => ViewInv'
  BY ViewStep
<1>3. ViewInv => ViewsAgree
  BY DEF ViewInv, ViewsAgree, Idle, IdleCall, LongViews, FlatViews
<1> QED BY <1>1, <1>2, <1>3, BookInductive, PTL DEF BookSpec

LEMMA CompletionOfWhole ==
  ASSUME BookIInv, ViewInv, [BookNext]_vars,
         crashes = 0, phase # "complete", phase' = "complete"
  PROVE  completed' >= Len(Entries)
<1> USE DEF foundation, progress, gates, drafts, control, Files
<1>1. BookTypeOK /\ CallInv
  BY DEF BookIInv
<1>2. completed \in Nat /\ total \in Nat /\ Len(flat) \in Nat /\ Len(layered.entries) \in Nat
  <2>1. flat \in Seq(Texts) /\ OutlineShape(layered)
    BY <1>1 DEF BookTypeOK
  <2> QED BY <1>1, <2>1, LenProperties, OutlineFacts DEF BookTypeOK
<1>3. call.write = "none" => /\ longForm => flat = layered.entries
                             /\ ~longForm => total = Len(flat)
  BY DEF ViewInv, LongViews, FlatViews
<1>4. CASE CompleteBook
  <2>1. call.write = "none" /\ completed' = completed /\ Completable
    BY <1>4 DEF CompleteBook, Architect, Idle, IdleCall
  <2> QED BY <1>2, <1>3, <2>1 DEF Completable, NextChapter, Entries
<1>5. CASE CommitChapter
  <2>1. completed' = NextChapter /\ TRUE \in Finishes(NextChapter)
    BY <1>5 DEF CommitChapter, Finishes, Structurally
  <2>2. call.write = "none"
    BY <1>1, <1>5 DEF CommitChapter, CallInv, BookTypeOK
  <2>3. NextChapter \in Nat
    BY <1>2 DEF NextChapter
  <2>4. CASE longForm
    <3>1. Structurally(NextChapter)
      BY <2>1, <2>4 DEF Finishes
    <3> QED BY <1>2, <2>1, <2>3, <2>4, <3>1 DEF Structurally, Entries
  <2>5. CASE ~longForm
    BY <1>2, <1>3, <2>1, <2>2, <2>3, <2>5 DEF Finishes, Entries
  <2> QED BY <1>1, <2>4, <2>5 DEF BookTypeOK
<1>6. ~CompleteBook /\ ~CommitChapter => phase' # "complete"
  <2>1. ~CompleteBook /\ ArchitectCalls => phase' = phase
    BY DEF ArchitectCalls, SaveSettings, UpdateCompass, SaveLayeredOutline,
           SaveOutline, ExpandArc, AppendVolume, RepeatVolume, ReviseLayered, ReviseFlat,
           SaveLayered, SaveFlat, AuditReady, AuditRejects
  <2>2. CallWrites => phase' = phase
    BY DEF CallWrites, WriteFlat, WriteTotal, WriteForm, ClearLayered, StartChapter
  <2>3. OtherCalls => phase' = phase
    BY DEF OtherCalls, PlanChapter, WriteUnit
  <2>4. EngineSteps /\ ~CommitChapter => phase' = phase
    BY DEF EngineSteps, TakeNext, DispatchRouted, StopAtBoundary, TurnEnds
  <2>5. UserSteps => phase' \in {phase, "writing"}
    BY DEF UserSteps, Pause, Resume, Confirm, StoreConfirmation, EnterWriting, Feedback,
           Reopen, Message
  <2>6. Crash \/ UNCHANGED vars => phase' = phase
    BY DEF Crash, vars, codeVars
  <2> QED BY <2>1, <2>2, <2>3, <2>4, <2>5, <2>6 DEF BookNext, CodeStep
<1> QED BY <1>4, <1>5, <1>6

\* Neither the last commit nor complete_book ends a book of which a chapter of the
\* outline is unwritten, as long as no process died.
THEOREM WholeBookWritten == BookSpec => CompletedWhenWritten
<1>1. BookInit => ViewInv
  BY EmptySeq DEF BookInit, ViewInv, FormKnown, FlatViews, IdleCall
<1>2. BookIInv /\ ViewInv /\ [BookNext]_vars => ViewInv'
  BY ViewStep
<1>3. BookIInv /\ ViewInv /\ [BookNext]_vars
        => [crashes = 0 /\ phase # "complete" /\ phase' = "complete"
              => completed' >= Len(Entries)]_vars
  BY CompletionOfWhole
<1> QED BY <1>1, <1>2, <1>3, BookInductive, PTL DEF BookSpec, CompletedWhenWritten
================================================================================
