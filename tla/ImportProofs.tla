------------------------------ MODULE ImportProofs ------------------------------
(***************************************************************************)
(* Proofs about Import: what is analysed, confirmed, published and held,   *)
(* for every source, every answer and every number of restarts.            *)
(***************************************************************************)
EXTENDS Import, FiniteSetTheorems, WellFoundedInduction, TLAPS

USE NoneAssumption, SplitsAssumption, AnswersAssumption, RequestsAssumption,
    WindowsAssumption, BooksAssumption, UpgradesAssumption

LEMMA LeastNumber ==
  ASSUME NEW T, T \subseteq Nat, T # {}
  PROVE  \E x \in T : \A y \in T : x <= y
<1> DEFINE R == OpToRel(<, Nat)
<1>1. IsWellFoundedOn(R, Nat)
  BY NatLessThanWellFounded
<1>2. PICK x \in T : \A y \in T : ~ (<<y, x>> \in R)
  <2> HIDE DEF R
  <2> QED
    BY <1>1, WFMin
<1>3. \A y \in T : ~(y < x)
  BY <1>2 DEF OpToRel
<1> QED
  BY <1>3

\* A set of numbers that is closed below is counted by its largest
LEMMA PrefixIsInterval ==
  ASSUME NEW n \in Nat, NEW S, S \subseteq 1..n,
         \A i \in S : \A j \in 1..i : j \in S
  PROVE  Cardinality(S) \in 0..n /\ S = 1..Cardinality(S)
<1>1. CASE S = 1..n
  <2>1. Cardinality(S) = n
    BY <1>1, FS_Interval
  <2> QED
    BY <1>1, <2>1
<1>2. CASE S # 1..n
  <2>1. PICK k \in (1..n) \ S : \A j \in (1..n) \ S : k <= j
    <3>1. (1..n) \ S # {} /\ (1..n) \ S \subseteq Nat
      <4>1. \A i \in 1..n : i \in Nat
        OBVIOUS
      <4> QED
        BY <1>2, <4>1, Zenon
    <3> QED
      BY <3>1, LeastNumber
  <2>2. S = 1..(k - 1)
    <3>1. \A i \in S : i < k
      BY <2>1
    <3>2. \A i \in 1..(k - 1) : i \in S
      BY <2>1
    <3>3. \A i \in S : i \in 1..(k - 1)
      BY <2>1, <3>1
    <3> QED
      BY <3>2, <3>3, Zenon
  <2>3. Cardinality(1..(k - 1)) = k - 1
    BY <2>1, FS_Interval
  <2> QED
    BY <2>1, <2>2, <2>3
<1> QED
  BY <1>1, <1>2

LEMMA SplitLength ==
  ASSUME FormsInv, seg # None
  PROVE  /\ Total \in 1..MaxChapters
         /\ seg.chapters \in Seq(Texts)
         /\ \A i \in 1..Total : seg.chapters[i] \in Texts /\ i \in Numbers
<1>1. seg.chapters \in Splits
  BY DEF FormsInv, Segmentations
<1>2. seg.chapters \in Seq(Texts) /\ Len(seg.chapters) \in 1..MaxChapters
  BY <1>1
<1> QED
  BY <1>2 DEF Total, Numbers

\* What is counted as analysed is a beginning of the split
LEMMA AnalyzedIsPrefix ==
  ASSUME FormsInv, seg # None
  PROVE  /\ AnalyzedChapters \in 0..Total
         /\ \A i \in 1..AnalyzedChapters : Fresh(i)
         /\ \A n \in 1..Total : (\A i \in 1..n : Fresh(i)) => n <= AnalyzedChapters
<1> DEFINE S == {n \in 1..Total : \A i \in 1..n : Fresh(i)}
<1>1. Total \in Nat
  BY SplitLength
<1>2. S \subseteq 1..Total
  OBVIOUS
<1>3. \A i \in S : \A j \in 1..i : j \in S
  BY <1>1
<1>4. Cardinality(S) \in 0..Total /\ S = 1..Cardinality(S)
  <2> HIDE DEF S
  <2> QED
    BY <1>1, <1>2, <1>3, PrefixIsInterval
<1>5. AnalyzedChapters = Cardinality(S)
  BY DEF AnalyzedChapters
<1>6. \A i \in 1..AnalyzedChapters : Fresh(i)
  BY <1>1, <1>4, <1>5
<1>7. \A n \in 1..Total : (\A i \in 1..n : Fresh(i)) => n <= AnalyzedChapters
  BY <1>1, <1>4, <1>5
<1> QED
  BY <1>4, <1>5, <1>6, <1>7

(***************************************************************************)
(* What steps leave alone.                                                 *)
(***************************************************************************)
LEMMA AnalyzedFrame ==
  ASSUME UNCHANGED <<seg, ana, version>>
  PROVE  /\ AnalyzedChapters' = AnalyzedChapters
         /\ \A i : Fresh(i)' = Fresh(i)
<1>1. \A i : Fresh(i)' = Fresh(i)
  BY DEF Fresh, ChapterIdentity
<1>2. {n \in 1..Total : \A i \in 1..n : Fresh(i)}' =
        {n \in 1..Total : \A i \in 1..n : Fresh(i)}
  BY <1>1 DEF Total
<1> QED
  BY <1>1, <1>2 DEF AnalyzedChapters

LEMMA StagesFrame ==
  ASSUME StagesInv, UNCHANGED <<ws, seg, conf, ana, syn, run, version>>
  PROVE  StagesInv'
  BY AnalyzedFrame DEF StagesInv, Among, Total

\* Files that are removed, or keep what they were made from
LEMMA LedgerKept ==
  ASSUME LedgerInv,
         \A i \in Numbers :
           \/ ana'[i] = None
           \/ /\ ana[i] # None /\ ana'[i].of = ana[i].of
              /\ ana'[i].ledger = ana[i].ledger /\ ana'[i].light = ana[i].light
  PROVE  LedgerInv'
<1> SUFFICES ASSUME NEW s \in Splits, NEW n \in 1..Len(s),
                    ana'[n] # None,
                    \A i \in 1..n : /\ ana'[i] # None
                                    /\ ana'[i].of = <<ana'[n].of[1], ana'[n].of[2], i, s[i]>>
             PROVE  ana'[n].ledger = [j \in 1..(n - 1) |-> ana'[j].light]
  BY DEF LedgerInv
<1>0. n \in Numbers /\ \A i \in 1..n : i \in Numbers
  <2>1. Len(s) \in 1..MaxChapters
    OBVIOUS
  <2> QED
    BY <2>1 DEF Numbers
<1>1. \A i \in 1..n : /\ ana[i] # None /\ ana'[i].light = ana[i].light
                      /\ ana[i].of = <<ana[n].of[1], ana[n].of[2], i, s[i]>>
  BY <1>0
<1>2. ana[n] # None /\ ana'[n].ledger = ana[n].ledger
  BY <1>0
<1>3. ana[n].ledger = [j \in 1..(n - 1) |-> ana[j].light]
  BY SMTT(30), <1>1, <1>2 DEF LedgerInv
<1>4. \A j \in 1..(n - 1) : ana'[j].light = ana[j].light
  <2>1. Len(s) \in Nat
    OBVIOUS
  <2> QED
    BY <1>1, <2>1
<1> QED
  BY <1>2, <1>3, <1>4

LEMMA LedgerFrame ==
  ASSUME LedgerInv, ana' = ana
  PROVE  LedgerInv'
<1>1. \A i \in Numbers : ana'[i] = None \/ ana[i] # None
  OBVIOUS
<1> QED
  BY <1>1, LedgerKept

\* Outside the stages that need something nothing is needed
LEMMA Elsewhere ==
  ASSUME StagesInv, seg' = seg, ws' = ws \/ ws' # None,
         ~Among({"segment", "confirm", "analyze", "light", "done"} \cup Analysed)'
  PROVE  StagesInv'
<1>1. /\ ~Among({"confirm", "analyze", "light"} \cup Analysed)'
      /\ ~Among({"analyze", "light"} \cup Analysed)'
      /\ ~Among({"light"})' /\ ~Among(Analysed)' /\ ~Among({"publish"} \cup Publishing)'
  BY DEF Among, Analysed
<1>2. seg' # None => ws' # None
  BY DEF StagesInv
<1> QED
  BY <1>1, <1>2, Zenon DEF StagesInv

\* A request that is accepted, or refused
LEMMA RequestInv ==
  ASSUME ImportIInv, NEW o \in Options, StartImport(o),
         asked # {} \/ o.cont => asked' # {}
  PROVE  ImportIInv'
<1> USE DEF ImportIInv
<1>1. UNCHANGED <<workspace, store, engine, version>> /\ run = None
  BY DEF StartImport
<1>2. run' = [pc |-> "top", opts |-> o, seen |-> None] \/ run' = None
  BY DEF StartImport
<1>3. session' = [state |-> session'.state, cont |-> session.cont \/ o.cont]
  BY DEF StartImport
<1>4. \A pcs : "top" \notin pcs => ~Among(pcs)'
  BY <1>2 DEF Among
<1>5. /\ UNCHANGED <<ws, guide, seg, conf, ana, syn, res>>
      /\ UNCHANGED <<premise, layered, flat, phase, book, hold>>
  BY <1>1 DEF workspace, store
<1>0. /\ session'.cont \in BOOLEAN
      /\ session'.cont => session.cont \/ o.cont
  BY <1>3 DEF FormsInv, Options
<1>6. FormsInv'
  <2>2. run' # None => /\ run' = [pc |-> run'.pc, opts |-> run'.opts, seen |-> run'.seen]
                       /\ run'.opts \in Options
    BY <1>2
  <2> QED
    BY <1>0, <1>1, <1>3, <1>5, <2>2 DEF FormsInv
<1>7. StagesInv'
  <2>1. ~Among({"segment", "confirm", "analyze", "light", "done"} \cup Analysed)'
    <3>1. "top" \notin {"segment", "confirm", "analyze", "light", "done"} \cup Analysed
      BY DEF Analysed, Publishing
    <3> QED
      BY <1>4, <3>1
  <2> QED
    BY <1>5, <2>1, Elsewhere
<1>8. LedgerInv'
  BY <1>5, LedgerFrame
<1>9. FoundationInv'
  <2>1. ~Among(Publishing)' /\ ~Among({"premise phase", "layered"})' /\ ~Among({"flat"})'
    <3>1. "top" \notin Publishing
      BY DEF Publishing
    <3> QED
      BY <1>4, <3>1
  <2> QED
    BY <1>5, <2>1 DEF FoundationInv
<1>10. CommittedInv'
  <2>1. /\ ~Among(Publishing \ {"premise phase", "chapters"})'
        /\ ~Among({"hold", "chapters"})' /\ ~Among({"chapters"})'
    <3>1. "top" \notin Publishing \ {"premise phase", "chapters"}
      BY DEF Publishing
    <3> QED
      BY <1>4, <3>1
  <2> QED
    BY <1>5, <2>1 DEF CommittedInv
<1>11. AskedInv'
  <2>1. session'.cont => asked' # {}
    BY <1>0 DEF AskedInv
  <2>2. run' # None /\ run'.opts.cont => asked' # {}
    BY <1>2
  <2>3. asked # {} => asked' # {}
    OBVIOUS
  <2>4. ~Among({"start"})' /\ ~Among({"chapters"})'
    BY <1>4
  <2>5. /\ session'.cont \/ engine' \/ Among({"start"})' => asked' # {}
        /\ ws' # None /\ ws'.cont => asked' # {}
        /\ book' # <<>> \/ Among({"chapters"})' => hold' # None \/ asked' # {}
    BY <1>1, <1>5, <2>1, <2>3, <2>4, Zenon DEF AskedInv
  <2> QED
    BY <2>2, <2>5 DEF AskedInv
<1> QED
  BY <1>6, <1>7, <1>8, <1>9, <1>10, <1>11

LEMMA StartInv ==
  ASSUME ImportIInv, NEW o \in Requests, Start(o)
  PROVE  ImportIInv'
<1>1. o \in Options /\ StartImport(o)
  BY DEF Start
<1>2. asked # {} \/ o.cont => asked' # {}
  BY DEF Start
<1> QED
  BY <1>1, <1>2, RequestInv

LEMMA ConfirmInv ==
  ASSUME ImportIInv, Confirm
  PROVE  ImportIInv'
<1> DEFINE o == [Plain EXCEPT !.accept = TRUE, !.cont = session.cont]
<1>1. o \in Options /\ o.cont = session.cont
  BY DEF Plain, Options, ImportIInv, FormsInv
<1>2. StartImport(o) /\ asked' = asked
  BY DEF Confirm
<1>3. asked # {} \/ o.cont => asked' # {}
  BY <1>1, <1>2 DEF ImportIInv, AskedInv
<1> HIDE DEF o
<1> QED
  BY <1>1, <1>2, <1>3, RequestInv

LEMMA ResegmentInv ==
  ASSUME ImportIInv, NEW g \in Guides \cup {None}, Resegment(g)
  PROVE  ImportIInv'
<1> DEFINE o == [Plain EXCEPT !.guide = g, !.reset = (g = None), !.cont = session.cont]
<1>1. o \in Options /\ o.cont = session.cont
  BY DEF Plain, Options, ImportIInv, FormsInv
<1>2. StartImport(o) /\ asked' = asked
  BY DEF Resegment
<1>3. asked # {} \/ o.cont => asked' # {}
  BY <1>1, <1>2 DEF ImportIInv, AskedInv
<1> HIDE DEF o
<1> QED
  BY <1>1, <1>2, <1>3, RequestInv

LEMMA ResolveInv ==
  ASSUME ImportIInv, NEW c \in Choices, Resolve(c)
  PROVE  ImportIInv'
<1> DEFINE o == [Plain EXCEPT !.story = c, !.cont = session.cont]
<1>1. o \in Options /\ o.cont = session.cont
  BY DEF Plain, Options, ImportIInv, FormsInv
<1>2. StartImport(o) /\ asked' = asked
  BY DEF Resolve
<1>3. asked # {} \/ o.cont => asked' # {}
  BY <1>1, <1>2 DEF ImportIInv, AskedInv
<1> HIDE DEF o
<1> QED
  BY <1>1, <1>2, <1>3, RequestInv

(***************************************************************************)
(* The steps of the runner.                                                *)
(***************************************************************************)
LEMMA RunGoes ==
  ASSUME FormsInv, run # None, NEW pc, Goto(pc)
  PROVE  run' = [pc |-> pc, opts |-> run.opts, seen |-> run.seen] /\ run.opts \in Options
  BY DEF FormsInv, Goto

LEMMA RunEndsIn ==
  ASSUME FormsInv, NEW s, End(s)
  PROVE  run' = None /\ session' = [state |-> s, cont |-> session.cont]
  BY DEF FormsInv, End

\* What the facts say of the stage that is next
LEMMA NextIsReady ==
  ASSUME ImportIInv, NEW a, a = NextAction(CollectFacts)
  PROVE  /\ a \in {"done", "ingest", "segment", "confirm", "analyze", "deep", "synthesize",
                   "story", "publish"}
         /\ a # "ingest" => ws # None
         /\ a \notin {"done", "ingest", "segment"} => seg # None
         /\ a \in {"analyze", "deep", "synthesize", "story", "publish"} => conf = seg
         /\ a \in {"deep", "synthesize", "story", "publish"} =>
              \A i \in 1..Total : Fresh(i)
         /\ a = "publish" => syn # None
<1> DEFINE f == CollectFacts
           segmented == ws # None /\ seg # None /\ seg.of = SegIdentity
           confirmed == segmented /\ conf = seg
           analyzed == IF confirmed THEN AnalyzedChapters ELSE 0
           deep == confirmed /\ analyzed = Total /\ DeepDue = {}
           synthesized == deep /\ syn # None /\ syn.of = SynIdentity
<1>1. /\ f.ready = (ws # None) /\ f.segmented = segmented /\ f.confirmed = confirmed
      /\ f.analyzed = analyzed /\ f.deep = deep /\ f.synthesized = synthesized
      /\ f.published = IsPublished /\ f.expected = (IF segmented THEN Total ELSE 0)
  BY DEF CollectFacts
<1>2. f.published => ws # None /\ seg # None
  BY <1>1 DEF IsPublished, ImportIInv, StagesInv
<1>3. f.segmented => seg # None /\ ws # None /\ f.expected = Total
  BY <1>1
<1>4. f.confirmed => f.segmented /\ conf = seg /\ f.analyzed = AnalyzedChapters
  BY <1>1
<1>5. f.confirmed => f.analyzed \in Nat /\ f.expected \in Nat /\ f.analyzed <= f.expected
  BY <1>3, <1>4, AnalyzedIsPrefix, SplitLength DEF ImportIInv
<1>6. f.confirmed /\ f.analyzed >= f.expected => \A i \in 1..Total : Fresh(i)
  <2> SUFFICES ASSUME f.confirmed, f.analyzed >= f.expected
               PROVE  \A i \in 1..Total : Fresh(i)
    OBVIOUS
  <2>1. AnalyzedChapters = Total
    <3>1. f.analyzed = AnalyzedChapters /\ f.expected = Total
      BY <1>3, <1>4
    <3> QED
      BY <1>5, <3>1
  <2> QED
    BY <1>3, <1>4, <2>1, AnalyzedIsPrefix DEF ImportIInv
<1>7. f.deep => f.confirmed /\ f.analyzed >= f.expected
  <2>1. f.deep => f.confirmed /\ f.analyzed = f.expected
    BY <1>1, <1>3, <1>4
  <2> QED
    BY <1>5, <2>1
<1>8. f.synthesized => f.deep /\ syn # None
  BY <1>1
<1>9. a = NextAction(f)
  BY DEF f
<1> HIDE DEF f, segmented, confirmed, analyzed, deep, synthesized
<1>10. CASE f.published
  BY <1>2, <1>9, <1>10 DEF NextAction
<1>11. CASE ~f.published /\ ~f.confirmed
  BY <1>3, <1>4, <1>7, <1>8, <1>9, <1>11, <1>1 DEF NextAction
<1>12. CASE ~f.published /\ f.confirmed
  BY <1>3, <1>4, <1>5, <1>6, <1>7, <1>8, <1>9, <1>12, <1>1 DEF NextAction
<1> QED
  BY <1>10, <1>11, <1>12

LEMMA ApplyOptionsInv ==
  ASSUME ImportIInv, ApplyOptions
  PROVE  ImportIInv'
<1> USE DEF ImportIInv
<1>1. run # None /\ UNCHANGED <<seg, conf, ana, syn, res, store, engine, version, asked>>
  BY DEF ApplyOptions, At
<1>2. UNCHANGED <<premise, layered, flat, phase, book, hold>>
  BY <1>1 DEF store
<1>3. \/ run' = None /\ session' = [state |-> "stopped", cont |-> session.cont]
      \/ /\ run' = [pc |-> "decide", opts |-> run.opts, seen |-> run.seen]
         /\ run.opts \in Options /\ session' = session
  BY <1>1, RunGoes, RunEndsIn DEF ApplyOptions
<1>4. \/ ws' = ws
      \/ ws # None /\ run.opts.deep \in Windows /\ ws' = [ws EXCEPT !.deep = run.opts.deep]
  <2>1. run.opts \in Options
    BY <1>1 DEF FormsInv
  <2>2. run.opts.deep # None => run.opts.deep \in Windows
    BY <2>1 DEF Options
  <2> QED
    BY <2>2 DEF ApplyOptions
<1>5. \/ ws' = ws
      \/ ws # None /\ ws' \in Workspaces /\ ws' # None /\ ws'.cont = ws.cont
  <2>1. ASSUME ws # None, run.opts.deep \in Windows, ws' = [ws EXCEPT !.deep = run.opts.deep]
        PROVE  ws' \in Workspaces /\ ws'.cont = ws.cont
    <3>1. ws \in Workspaces
      BY <2>1 DEF FormsInv
    <3> QED
      BY <2>1, <3>1 DEF Workspaces
  <2>2. None \notin Workspaces
    OBVIOUS
  <2> QED
    BY <1>4, <2>1, <2>2
<1>6. guide' \in {None} \cup Guides
  <2>1. run.opts.guide \in {None} \cup Guides
    BY <1>1 DEF FormsInv, Options
  <2> QED
    BY <2>1 DEF FormsInv, ApplyOptions
<1>7. \A pcs : "decide" \notin pcs => ~Among(pcs)'
  BY <1>3 DEF Among
<1>8. FormsInv'
  BY <1>1, <1>2, <1>3, <1>5, <1>6 DEF FormsInv
<1>9. StagesInv'
  <2>1. ~Among({"segment", "confirm", "analyze", "light", "done"} \cup Analysed)'
    <3>1. "decide" \notin {"segment", "confirm", "analyze", "light", "done"} \cup Analysed
      BY DEF Analysed, Publishing
    <3> QED
      BY <1>7, <3>1
  <2> QED
    BY <1>1, <1>5, <2>1, Elsewhere
<1>10. LedgerInv'
  BY <1>1, LedgerFrame
<1>11. FoundationInv' /\ CommittedInv'
  <2>1. "decide" \notin Publishing
    BY DEF Publishing
  <2>2. /\ ~Among(Publishing)' /\ ~Among({"premise phase", "layered"})' /\ ~Among({"flat"})'
        /\ ~Among(Publishing \ {"premise phase", "chapters"})'
        /\ ~Among({"hold", "chapters"})' /\ ~Among({"chapters"})'
    BY <1>7, <2>1
  <2> QED
    BY <1>2, <2>2 DEF FoundationInv, CommittedInv
<1>12. AskedInv'
  <2>1. ~Among({"start"})' /\ ~Among({"chapters"})'
    BY <1>7
  <2>2. session'.cont = session.cont
    BY <1>3
  <2>3. run' # None => run'.opts.cont = run.opts.cont
    BY <1>3
  <2>4. ws' # None => ws # None /\ ws'.cont = ws.cont
    BY <1>5
  <2> QED
    BY <1>1, <1>2, <2>1, <2>2, <2>3, <2>4 DEF AskedInv
<1> QED
  BY <1>8, <1>9, <1>10, <1>11, <1>12

LEMMA DecideInv ==
  ASSUME ImportIInv, Decide
  PROVE  ImportIInv'
<1> USE DEF ImportIInv
<1> DEFINE a == NextAction(CollectFacts)
<1>1. /\ run # None /\ UNCHANGED <<workspace, store, engine, version, asked>>
      /\ UNCHANGED <<ws, guide, seg, conf, ana, syn, res>>
      /\ UNCHANGED <<premise, layered, flat, phase, book, hold>>
  BY DEF Decide, At, workspace, store
<1>2. \/ run' = None /\ session' = [state |-> "stopped", cont |-> session.cont]
      \/ /\ run' = [pc |-> a, opts |-> run.opts, seen |-> CollectFacts]
         /\ run.opts \in Options /\ session' = session
  <2>1. run = [pc |-> run.pc, opts |-> run.opts, seen |-> run.seen] /\ run.opts \in Options
    BY <1>1 DEF FormsInv
  <2> QED
    BY <2>1, RunEndsIn DEF Decide
<1>3. /\ a \in {"done", "ingest", "segment", "confirm", "analyze", "deep", "synthesize",
                "story", "publish"}
      /\ a # "ingest" => ws # None
      /\ a \notin {"done", "ingest", "segment"} => seg # None
      /\ a \in {"analyze", "deep", "synthesize", "story", "publish"} => conf = seg
      /\ a \in {"deep", "synthesize", "story", "publish"} => \A i \in 1..Total : Fresh(i)
      /\ a = "publish" => syn # None
  BY NextIsReady
<1> HIDE DEF a
<1>4. \A pcs : a \notin pcs => ~Among(pcs)'
  BY <1>2 DEF Among
<1>5. FormsInv'
  BY <1>1, <1>2 DEF FormsInv
<1>6. StagesInv'
  <2>1. run' # None => run'.pc = a
    BY <1>2
  <2>2. \A pcs : Among(pcs)' => a \in pcs
    BY <1>4
  <2>3. /\ Among({"segment", "confirm", "analyze", "light", "done"} \cup Analysed)' => a # "ingest"
        /\ Among({"confirm", "analyze", "light"} \cup Analysed)' =>
             a \notin {"done", "ingest", "segment"}
        /\ Among({"analyze", "light"} \cup Analysed)' =>
             a \in {"analyze", "deep", "synthesize", "story", "publish"}
        /\ ~Among({"light"})'
        /\ Among(Analysed)' => a \in {"deep", "synthesize", "story", "publish"}
        /\ Among({"publish"} \cup Publishing)' => a = "publish"
    BY <1>3, <2>2 DEF Analysed, Publishing
  <2>4. Total' = Total /\ \A i : Fresh(i)' = Fresh(i)
    BY <1>1, AnalyzedFrame DEF Total
  <2> QED
    BY <1>1, <1>3, <2>3, <2>4 DEF StagesInv
<1>7. LedgerInv'
  BY <1>1, LedgerFrame
<1>8. /\ ~Among(Publishing)' /\ ~Among({"premise phase", "layered"})' /\ ~Among({"flat"})'
      /\ ~Among(Publishing \ {"premise phase", "chapters"})'
      /\ ~Among({"hold", "chapters"})' /\ ~Among({"chapters"})' /\ ~Among({"start"})'
  <2>1. a \notin Publishing /\ a # "start"
    BY <1>3 DEF Publishing
  <2> QED
    BY <1>4, <2>1 DEF Publishing
<1>9. FoundationInv' /\ CommittedInv'
  BY <1>1, <1>8 DEF FoundationInv, CommittedInv
<1>10. AskedInv'
  <2>1. session'.cont = session.cont /\ (run' # None => run'.opts.cont = run.opts.cont)
    BY <1>2
  <2> QED
    BY <1>1, <1>8, <2>1 DEF AskedInv
<1> QED
  BY <1>5, <1>6, <1>7, <1>9, <1>10

LEMMA IngestInv ==
  ASSUME ImportIInv, Ingest
  PROVE  ImportIInv'
<1> USE DEF ImportIInv
<1>1. /\ run # None /\ run.opts \in Options
      /\ UNCHANGED <<guide, seg, conf, ana, syn, res, engine, version, asked>>
      /\ UNCHANGED <<premise, layered, flat, phase, book, hold>>
  BY DEF Ingest, At, store, FormsInv
<1>2. \/ /\ run' = None /\ session' = [state |-> "stopped", cont |-> session.cont]
         /\ ws' = ws
      \/ /\ run' = [pc |-> "top", opts |-> run.opts, seen |-> run.seen] /\ session' = session
         /\ ws' = [story |-> run.opts.story, cont |-> run.opts.cont,
                   deep |-> IF run.opts.deep = None THEN Default ELSE run.opts.deep]
  BY <1>1, RunGoes, RunEndsIn DEF Ingest
<1>3. ws' = ws \/ (ws' \in Workspaces /\ ws' # None /\ ws'.cont = run.opts.cont)
  BY <1>1, <1>2 DEF Workspaces, Options
<1>4. \A pcs : "top" \notin pcs => ~Among(pcs)'
  BY <1>2 DEF Among
<1>5. FormsInv'
  BY <1>1, <1>2, <1>3 DEF FormsInv
<1>6. StagesInv'
  <2>1. ~Among({"segment", "confirm", "analyze", "light", "done"} \cup Analysed)'
    <3>1. "top" \notin {"segment", "confirm", "analyze", "light", "done"} \cup Analysed
      BY DEF Analysed, Publishing
    <3> QED
      BY <1>4, <3>1
  <2> QED
    BY <1>1, <1>3, <2>1, Elsewhere
<1>7. LedgerInv'
  BY <1>1, LedgerFrame
<1>8. /\ ~Among(Publishing)' /\ ~Among({"premise phase", "layered"})' /\ ~Among({"flat"})'
      /\ ~Among(Publishing \ {"premise phase", "chapters"})'
      /\ ~Among({"hold", "chapters"})' /\ ~Among({"chapters"})' /\ ~Among({"start"})'
  <2>1. "top" \notin Publishing
    BY DEF Publishing
  <2> QED
    BY <1>4, <2>1
<1>9. FoundationInv' /\ CommittedInv'
  BY <1>1, <1>8 DEF FoundationInv, CommittedInv
<1>10. AskedInv'
  <2>1. session'.cont = session.cont /\ (run' # None => run'.opts.cont = run.opts.cont)
    BY <1>2
  <2>2. ws' # None /\ ws'.cont => asked # {}
    BY <1>1, <1>3 DEF AskedInv
  <2> QED
    BY <1>1, <1>8, <2>1, <2>2 DEF AskedInv
<1> QED
  BY <1>5, <1>6, <1>7, <1>9, <1>10

LEMMA SegmentInv ==
  ASSUME ImportIInv, Segment
  PROVE  ImportIInv'
<1> USE DEF ImportIInv, Among, Publishing, Analysed, At, Goto, End, workspace, store, host
<1>1. FormsInv'
  <2>1. seg' \in Segmentations
    BY DEF Segment, SegIdentity, Segmentations, FormsInv, Stages
  <2> QED
    BY <2>1 DEF FormsInv, Segment
<1>2. StagesInv'
  BY DEF StagesInv, FormsInv, Segment, Total, Fresh, ChapterIdentity
<1>3. LedgerInv'
  BY LedgerFrame DEF Segment
<1>4. FoundationInv'
  BY DEF FoundationInv, FormsInv, Segment, Volumes, StoryChoice, Total, ResolutionFresh
<1>5. CommittedInv'
  BY DEF CommittedInv, FormsInv, Segment, Total
<1>6. AskedInv'
  BY DEF AskedInv, FormsInv, Segment
<1> QED
  BY <1>1, <1>2, <1>3, <1>4, <1>5, <1>6

LEMMA ConfirmSegmentationInv ==
  ASSUME ImportIInv, ConfirmSegmentation
  PROVE  ImportIInv'
<1> USE DEF ImportIInv, Among, Publishing, Analysed, At, Goto, End, workspace, store, host
<1>1. FormsInv'
  BY DEF FormsInv, ConfirmSegmentation, Options, Ranks
<1>2. StagesInv'
  BY ZenonT(30), SMTT(30) DEF StagesInv, FormsInv, ConfirmSegmentation, Total, Fresh, ChapterIdentity
<1>3. LedgerInv'
  BY LedgerFrame DEF ConfirmSegmentation
<1>4. FoundationInv'
  BY DEF FoundationInv, FormsInv, ConfirmSegmentation, Volumes, StoryChoice, Total, ResolutionFresh
<1>5. CommittedInv'
  BY ZenonT(30), SMTT(30) DEF CommittedInv, FormsInv, ConfirmSegmentation, Total
<1>6. AskedInv'
  BY DEF AskedInv, FormsInv, ConfirmSegmentation
<1> QED
  BY <1>1, <1>2, <1>3, <1>4, <1>5, <1>6

LEMMA DiscardAnalysisInv ==
  ASSUME ImportIInv, DiscardAnalysis
  PROVE  ImportIInv'
<1> USE DEF ImportIInv, Among, Publishing, Analysed, At, Goto, End, workspace, store, host
<1>1. FormsInv'
  BY ZenonT(30), SMTT(30) DEF FormsInv, DiscardAnalysis, Options, Ranks
<1>2. StagesInv'
  <2> DEFINE stale == {i \in Numbers : i > AnalyzedChapters /\ i <= Total /\ ana[i] # None}
  <2>1. run # None /\ run.pc = "analyze" /\ ws # None /\ seg # None /\ conf = seg
    BY DEF DiscardAnalysis, StagesInv
  <2>2. UNCHANGED <<ws, seg, conf, syn, version>>
    BY DEF DiscardAnalysis
  <2>3. CASE stale = {}
    <3>1. (run' # None => run'.pc = "light") /\ ana' = ana
      BY <2>1, <2>3 DEF DiscardAnalysis, FormsInv
    <3>2. \A i \in 1..Total : i > AnalyzedChapters => ana[i] = None
      BY <2>1, <2>3, SplitLength
    <3>3. (\A i \in 1..Total : i > AnalyzedChapters => ana[i] = None)'
      BY <2>2, <3>1, <3>2, AnalyzedFrame DEF Total
    <3> QED
      BY <2>1, <2>2, <3>1, <3>3 DEF StagesInv
  <2>4. CASE stale # {}
    <3>1. run' = run
      BY <2>4 DEF DiscardAnalysis
    <3> QED
      BY <2>1, <2>2, <3>1 DEF StagesInv
  <2> QED
    BY <2>3, <2>4
<1>3. LedgerInv'
  <2>1. \E c : ana' = ana \/ ana' = [ana EXCEPT ![c] = None]
    BY DEF DiscardAnalysis
  <2>2. \A i \in Numbers :
          ana'[i] = None \/ (ana[i] # None /\ ana'[i] = ana[i])
    BY <2>1 DEF FormsInv
  <2> QED
    BY <2>2, LedgerKept
<1>4. FoundationInv'
  BY DEF FoundationInv, FormsInv, DiscardAnalysis, Volumes, StoryChoice, Total, ResolutionFresh
<1>5. CommittedInv'
  BY DEF CommittedInv, FormsInv, DiscardAnalysis, Total
<1>6. AskedInv'
  BY DEF AskedInv, FormsInv, DiscardAnalysis
<1> QED
  BY <1>1, <1>2, <1>3, <1>4, <1>5, <1>6

LEMMA AnalyzeNextInv ==
  ASSUME ImportIInv, AnalyzeNext
  PROVE  ImportIInv'
<1> USE DEF ImportIInv
<1>0. PICK i : i = AnalyzedChapters + 1
  OBVIOUS
<1>1. /\ run # None /\ run.pc = "light" /\ ws # None /\ seg # None /\ conf = seg
      /\ \A k \in 1..Total : k > AnalyzedChapters => ana[k] = None
  BY DEF AnalyzeNext, At, StagesInv, Among
<1>2. /\ UNCHANGED <<ws, guide, seg, conf, syn, res, session, engine, version, asked>>
      /\ UNCHANGED <<premise, layered, flat, phase, book, hold>>
  BY DEF AnalyzeNext, store, host
<1>3. /\ AnalyzedChapters \in 0..Total /\ \A k \in 1..AnalyzedChapters : Fresh(k)
      /\ Total \in 1..MaxChapters /\ \A k \in 1..Total : seg.chapters[k] \in Texts /\ k \in Numbers
  BY <1>1, AnalyzedIsPrefix, SplitLength
<1>4. \/ run' = run
      \/ run' = [pc |-> "top", opts |-> run.opts, seen |-> run.seen] /\ run.opts \in Options
  BY <1>1, RunGoes DEF AnalyzeNext
<1>5. FoundationInv' /\ CommittedInv' /\ AskedInv'
  <2>1. run'.opts = run.opts /\ run'.pc \in {"light", "top"}
    BY <1>1, <1>4
  <2>2. /\ ~Among(Publishing)' /\ ~Among({"premise phase", "layered"})' /\ ~Among({"flat"})'
        /\ ~Among(Publishing \ {"premise phase", "chapters"})'
        /\ ~Among({"hold", "chapters"})' /\ ~Among({"chapters"})' /\ ~Among({"start"})'
    BY <2>1 DEF Among, Publishing
  <2> QED
    BY <1>1, <1>2, <2>1, <2>2 DEF FoundationInv, CommittedInv, AskedInv
<1>6. CASE i > Total
  <2>1. ana' = ana /\ Goto("top")
    BY <1>0, <1>6 DEF AnalyzeNext
  <2>2. run' = [pc |-> "top", opts |-> run.opts, seen |-> run.seen] /\ run.opts \in Options
    BY <1>1, <2>1, RunGoes
  <2>3. FormsInv'
    BY <1>2, <2>1, <2>2 DEF FormsInv
  <2>4. ~Among({"segment", "confirm", "analyze", "light", "done"} \cup Analysed)'
    BY <2>2 DEF Among, Analysed, Publishing
  <2>5. StagesInv' /\ LedgerInv'
    BY <1>2, <2>1, <2>4, Elsewhere, LedgerFrame
  <2> QED
    BY <1>5, <2>3, <2>5
<1>7. CASE ~(i > Total)
  <2>1. PICK r \in Reports :
          ana' = [ana EXCEPT ![i] =
                    [of |-> ChapterIdentity(i), light |-> <<seg.chapters[i], r>>, world |-> None,
                     deep |-> None, ledger |-> [j \in 1..(i - 1) |-> ana[j].light]]]
    BY <1>0, <1>7 DEF AnalyzeNext
  <2>2. run' = run
    BY <1>0, <1>7 DEF AnalyzeNext
  <2>3. i \in 1..Total /\ i \in Numbers /\ i - 1 = AnalyzedChapters /\ i \in Nat
    BY <1>0, <1>3, <1>7
  <2> DEFINE rec == [of |-> ChapterIdentity(i), light |-> <<seg.chapters[i], r>>, world |-> None,
                     deep |-> None, ledger |-> [j \in 1..(i - 1) |-> ana[j].light]]
  <2>4. rec \in Analyses
    <3>1. ChapterIdentity(i) \in (({None} \cup Guides) \X Nat) \X Nat \X Nat \X Texts
      <4>1. seg.of \in ({None} \cup Guides) \X Nat
        BY <1>1 DEF FormsInv, Segmentations
      <4>2. version["analyze"] \in Nat
        BY DEF FormsInv, Stages
      <4>3. seg.chapters[i] \in Texts
        BY <1>3, <2>3
      <4> QED
        BY <2>3, <4>1, <4>2, <4>3 DEF ChapterIdentity
    <3>2. <<seg.chapters[i], r>> \in Facts
      BY <1>3, <2>3 DEF Facts
    <3>3. [j \in 1..(i - 1) |-> ana[j].light] \in Seq(Facts)
      <4>1. \A j \in 1..(i - 1) : ana[j].light \in Facts
        <5>1. \A j \in 1..(i - 1) : j \in Numbers /\ ana[j] # None
          BY <1>3, <2>3 DEF Fresh
        <5>2. \A j \in 1..(i - 1) : ana[j] \in Analyses
          BY <5>1 DEF FormsInv
        <5> QED
          BY <5>2 DEF Analyses
      <4> QED
        BY <1>3, <2>3, <4>1
    <3> QED
      BY <3>1, <3>2, <3>3 DEF Analyses
  <2>5. rec # None /\ rec.of = ChapterIdentity(i) /\ rec.light[1] = rec.of[4]
    BY <2>4 DEF ChapterIdentity
  <2>6. /\ ana' \in [Numbers -> {None} \cup Analyses]
        /\ ana'[i] = rec /\ \A k \in Numbers \ {i} : ana'[k] = ana[k]
    <3> HIDE DEF rec
    <3>1. ana' = [ana EXCEPT ![i] = rec]
      BY <2>1 DEF rec
    <3> QED
      BY <2>3, <2>4, <3>1 DEF FormsInv
  <2>7. rec.ledger = [j \in 1..(i - 1) |-> ana[j].light]
    OBVIOUS
  <2> HIDE DEF rec
  <2>8. FormsInv'
    <3>1. \A k \in Numbers : ana'[k] # None => ana'[k].light[1] = ana'[k].of[4]
      BY <2>5, <2>6 DEF FormsInv
    <3> QED
      BY <1>2, <2>2, <2>6, <3>1 DEF FormsInv
  <2>9. Total' = Total /\ \A k : ChapterIdentity(k)' = ChapterIdentity(k)
    BY <1>2 DEF Total, ChapterIdentity
  <2>10. \A k \in 1..i : Fresh(k)'
    <3>1. \A k \in 1..i : k = i \/ (k \in 1..AnalyzedChapters /\ k \in Numbers \ {i})
      BY <1>3, <2>3
    <3>2. \A k \in 1..AnalyzedChapters : k \in Numbers \ {i} => Fresh(k)'
      BY <1>3, <2>6, <2>9 DEF Fresh
    <3>3. Fresh(i)'
      BY <2>5, <2>6, <2>9 DEF Fresh
    <3> QED
      BY <3>1, <3>2, <3>3
  <2>11. AnalyzedChapters' \in Nat /\ i <= AnalyzedChapters'
    <3> DEFINE S == {n \in 1..Total : \A k \in 1..n : Fresh(k)'}
    <3>1. S \subseteq 1..Total /\ i \in S /\ \A m \in S : \A j \in 1..m : j \in S
      BY <1>3, <2>3, <2>10
    <3>2. Cardinality(S) \in 0..Total /\ S = 1..Cardinality(S)
      <4>1. Total \in Nat
        BY <1>3
      <4> HIDE DEF S
      <4> QED
        BY <3>1, <4>1, PrefixIsInterval
    <3>3. AnalyzedChapters' = Cardinality(S)
      BY <2>9 DEF AnalyzedChapters
    <3> QED
      BY <3>1, <3>2, <3>3
  <2>12. \A k \in 1..Total : k > AnalyzedChapters' => ana'[k] = None
    BY SMTT(30), <1>1, <1>3, <2>3, <2>6, <2>11
  <2>13. StagesInv'
    <3>1. run' # None /\ run'.pc = "light"
      BY <1>1, <2>2
    <3> QED
      BY <1>1, <1>2, <2>9, <2>12, <3>1 DEF StagesInv, Among, Analysed, Publishing
  <2>14. LedgerInv'
    <3> SUFFICES ASSUME NEW s \in Splits, NEW n \in 1..Len(s),
                        ana'[n] # None,
                        \A k \in 1..n :
                          /\ ana'[k] # None
                          /\ ana'[k].of = <<ana'[n].of[1], ana'[n].of[2], k, s[k]>>
                 PROVE  ana'[n].ledger = [j \in 1..(n - 1) |-> ana'[j].light]
      BY DEF LedgerInv
    <3>1. Len(s) \in 1..MaxChapters /\ n \in Nat /\ \A k \in 1..n : k \in Numbers
      <4>1. Len(s) \in 1..MaxChapters
        OBVIOUS
      <4> QED
        BY <4>1 DEF Numbers
    <3>2. CASE n < i
      <4>1. \A k \in 1..n : ana'[k] = ana[k]
        BY <2>3, <2>6, <3>1, <3>2
      <4>2. ana'[n] = ana[n]
        BY <3>1, <4>1
      <4>5. /\ ana[n] # None
            /\ \A k \in 1..n : /\ ana[k] # None
                              /\ ana[k].of = <<ana[n].of[1], ana[n].of[2], k, s[k]>>
        BY <4>1, <4>2
      <4>3. ana[n].ledger = [j \in 1..(n - 1) |-> ana[j].light]
        BY <4>5 DEF LedgerInv
      <4>4. \A j \in 1..(n - 1) : ana'[j] = ana[j]
        BY <3>1, <4>1
      <4> QED
        BY <4>2, <4>3, <4>4
    <3>3. CASE n = i
      <4>1. \A j \in 1..(i - 1) : ana'[j] = ana[j]
        BY <2>3, <2>6, <3>1, <3>3
      <4> QED
        BY ZenonT(30), <2>6, <2>7, <3>3, <4>1
    <3>4. CASE n > i
      <4>1. n > Total
        <5>1. ana'[n] = ana[n]
          BY <2>3, <2>6, <3>1, <3>4
        <5> QED
          BY <1>1, <1>3, <2>3, <3>1, <3>4, <5>1
      <4>2. i = Total
        <5> SUFFICES ASSUME i # Total
                     PROVE  FALSE
          OBVIOUS
        <5>1. i + 1 \in 1..Total /\ i + 1 \in 1..n /\ i + 1 > AnalyzedChapters /\ i + 1 # i
          BY <1>3, <2>3, <3>1, <3>4
        <5>2. ana[i + 1] = None /\ ana'[i + 1] = ana[i + 1]
          BY <1>1, <1>3, <2>6, <5>1
        <5> QED
          BY <5>1, <5>2
      <4>3. \A k \in 1..Total : seg.chapters[k] = s[k]
        <5> SUFFICES ASSUME NEW k \in 1..Total
                     PROVE  seg.chapters[k] = s[k]
          OBVIOUS
        <5>1. Fresh(k)' /\ k \in 1..n
          BY <1>3, <2>10, <3>1, <4>1, <4>2
        <5>2. ana'[k].of = <<seg.of, version["analyze"], k, seg.chapters[k]>>
          BY <1>2, <5>1 DEF Fresh, ChapterIdentity
        <5>3. ana'[k].of = <<ana'[n].of[1], ana'[n].of[2], k, s[k]>>
          BY <5>1
        <5> QED
          BY <5>2, <5>3
      <4>4. seg.chapters \in Splits /\ Len(seg.chapters) < Len(s)
        BY <1>1, <1>3, <3>1, <4>1 DEF FormsInv, Segmentations, Total
      <4>5. \E k \in 1..Len(seg.chapters) : seg.chapters[k] # s[k]
        BY <4>4
      <4> QED
        BY <4>3, <4>5 DEF Total
    <3> QED
      BY <2>3, <3>1, <3>2, <3>3, <3>4
  <2> QED
    BY <1>5, <2>8, <2>13, <2>14
<1> QED
  BY <1>6, <1>7

LEMMA AnalyzeDeepNextInv ==
  ASSUME ImportIInv, AnalyzeDeepNext
  PROVE  ImportIInv'
<1> USE DEF ImportIInv
<1>1. /\ run # None /\ run.pc = "deep" /\ ws # None /\ seg # None /\ conf = seg
      /\ \A k \in 1..Total : Fresh(k)
  BY DEF AnalyzeDeepNext, At, StagesInv, Among, Analysed
<1>2. /\ UNCHANGED <<ws, guide, seg, conf, syn, res, session, engine, version, asked>>
      /\ UNCHANGED <<premise, layered, flat, phase, book, hold>>
  BY DEF AnalyzeDeepNext, store, host
<1>3. \/ run' = run
      \/ run' = [pc |-> "top", opts |-> run.opts, seen |-> run.seen] /\ run.opts \in Options
  BY <1>1, RunGoes DEF AnalyzeDeepNext
<1>4. FoundationInv' /\ CommittedInv' /\ AskedInv'
  <2>1. run'.opts = run.opts /\ run'.pc \in {"deep", "top"}
    BY <1>1, <1>3
  <2>2. /\ ~Among(Publishing)' /\ ~Among({"premise phase", "layered"})' /\ ~Among({"flat"})'
        /\ ~Among(Publishing \ {"premise phase", "chapters"})'
        /\ ~Among({"hold", "chapters"})' /\ ~Among({"chapters"})' /\ ~Among({"start"})'
    BY <2>1 DEF Among, Publishing
  <2> QED
    BY <1>1, <1>2, <2>1, <2>2 DEF FoundationInv, CommittedInv, AskedInv
<1>5. \/ ana' = ana
      \/ \E k \in Numbers, w \in Worlds \cup {None} :
           /\ ana[k] # None
           /\ ana' = [ana EXCEPT ![k].deep = version["deep"],
                                 ![k].world = IF w = None THEN @ ELSE w]
  <2> SUFFICES ASSUME DeepDue # {}
               PROVE  \E k \in Numbers, w \in Worlds \cup {None} :
                        /\ ana[k] # None
                        /\ ana' = [ana EXCEPT ![k].deep = version["deep"],
                                              ![k].world = IF w = None THEN @ ELSE w]
    BY DEF AnalyzeDeepNext
  <2>1. Total \in Nat /\ \A k \in 1..Total : k \in Numbers
    BY <1>1, SplitLength
  <2>2. WindowStart \in Nat /\ WindowStart >= 1
    <3>1. ws.deep \in Nat
      BY <1>1 DEF FormsInv, Workspaces
    <3> QED
      BY <2>1, <3>1 DEF WindowStart
  <2>3. \A k \in DeepDue : k \in 1..Total
    BY <2>1, <2>2 DEF DeepDue
  <2> DEFINE k == CHOOSE n \in DeepDue : \A m \in DeepDue : n <= m
  <2>4. k \in DeepDue
    <3>1. \A m \in DeepDue : m \in Nat
      BY <2>1, <2>3
    <3>2. \E n \in DeepDue : \A m \in DeepDue : n <= m
      BY <3>1, LeastNumber
    <3> QED
      BY <3>2
  <2>5. \E w \in Worlds \cup {None} :
          ana' = [ana EXCEPT ![k].deep = version["deep"],
                             ![k].world = IF w = None THEN @ ELSE w]
    BY DEF AnalyzeDeepNext
  <2> HIDE DEF k
  <2>6. k \in Numbers /\ ana[k] # None
    BY <1>1, <2>1, <2>3, <2>4 DEF Fresh
  <2> QED
    BY <2>5, <2>6
<1>6. /\ ana' \in [Numbers -> {None} \cup Analyses]
      /\ \A k \in Numbers :
           \/ ana'[k] = ana[k]
           \/ /\ ana[k] # None /\ ana'[k] # None /\ ana'[k].of = ana[k].of
              /\ ana'[k].ledger = ana[k].ledger /\ ana'[k].light = ana[k].light
  <2>1. ana \in [Numbers -> {None} \cup Analyses]
    BY DEF FormsInv
  <2>2. CASE ana' = ana
    BY <2>1, <2>2
  <2>3. ASSUME NEW k \in Numbers, NEW w \in Worlds \cup {None}, ana[k] # None,
               ana' = [ana EXCEPT ![k].deep = version["deep"],
                                  ![k].world = IF w = None THEN @ ELSE w]
        PROVE  /\ ana' \in [Numbers -> {None} \cup Analyses]
               /\ \A j \in Numbers :
                    \/ ana'[j] = ana[j]
                    \/ /\ ana[j] # None /\ ana'[j] # None /\ ana'[j].of = ana[j].of
                       /\ ana'[j].ledger = ana[j].ledger /\ ana'[j].light = ana[j].light
    <3> DEFINE rec == [ana[k] EXCEPT !.deep = version["deep"],
                                     !.world = IF w = None THEN @ ELSE w]
    <3>1. ana[k] \in Analyses
      BY <2>1, <2>3
    <3>2. version["deep"] \in Nat
      BY DEF FormsInv, Stages
    <3>3. /\ rec \in Analyses /\ rec.of = ana[k].of
          /\ rec.ledger = ana[k].ledger /\ rec.light = ana[k].light
      BY <3>1, <3>2 DEF Analyses
    <3>4. ana' = [ana EXCEPT ![k] = rec]
      BY <2>1, <2>3, <3>1 DEF Analyses
    <3> HIDE DEF rec
    <3>5. rec # None
      BY <3>3
    <3> QED
      BY ZenonT(30), <2>1, <2>3, <3>3, <3>4, <3>5
  <2> QED
    BY <1>5, <2>2, <2>3
<1>7. FormsInv'
  <2>1. run' # None => /\ run' = [pc |-> run'.pc, opts |-> run'.opts, seen |-> run'.seen]
                       /\ run'.opts \in Options
    BY <1>3 DEF FormsInv
  <2>2. \A k \in Numbers : ana'[k] # None => ana'[k].light[1] = ana'[k].of[4]
    BY <1>6 DEF FormsInv
  <2> QED
    BY <1>2, <1>6, <2>1, <2>2 DEF FormsInv
<1>8. StagesInv'
  <2>1. CASE run' = run
    <3>1. Total' = Total /\ \A k \in 1..Total : Fresh(k)'
      BY <1>1, <1>2, <1>6, SplitLength DEF Fresh, ChapterIdentity, Total
    <3> QED
      BY <1>1, <1>2, <2>1, <3>1 DEF StagesInv, Among, Analysed, Publishing
  <2>2. CASE run'.pc = "top"
    <3>1. ~Among({"segment", "confirm", "analyze", "light", "done"} \cup Analysed)'
      BY <2>2 DEF Among, Analysed, Publishing
    <3> QED
      BY <1>2, <3>1, Elsewhere
  <2> QED
    BY <1>3, <2>1, <2>2
<1>9. LedgerInv'
  BY <1>6, LedgerKept
<1> QED
  BY <1>4, <1>7, <1>8, <1>9

LEMMA SynthesizeInv ==
  ASSUME ImportIInv, Synthesize
  PROVE  ImportIInv'
<1> USE DEF ImportIInv, Among, Publishing, Analysed, At, Goto, End, workspace, store, host
<1>1. FormsInv'
  <2>1. syn'.premise # Own
    BY DEF Synthesize
  <2>2. UNCHANGED <<ws, guide, seg, conf, ana, res, store, host>>
    BY DEF Synthesize
  <2>3. run' = [run EXCEPT !.pc = "top"] /\ run # None
    BY DEF Synthesize
  <2> QED
    BY <2>1, <2>2, <2>3 DEF FormsInv
<1>2. StagesInv'
  BY DEF StagesInv, FormsInv, Synthesize, Total, Fresh, ChapterIdentity
<1>3. LedgerInv'
  BY LedgerFrame DEF Synthesize
<1>4. FoundationInv'
  BY DEF FoundationInv, FormsInv, Synthesize, Volumes, StoryChoice, Total, ResolutionFresh
<1>5. CommittedInv'
  BY DEF CommittedInv, FormsInv, Synthesize, Total
<1>6. AskedInv'
  BY DEF AskedInv, FormsInv, Synthesize
<1> QED
  BY <1>1, <1>2, <1>3, <1>4, <1>5, <1>6

LEMMA ResolveStoryStatusInv ==
  ASSUME ImportIInv, ResolveStoryStatus
  PROVE  ImportIInv'
<1> USE DEF ImportIInv, Among, Publishing, Analysed, At, Goto, End, workspace, store, host
<1>1. FormsInv'
  BY ZenonT(30), SMTT(30) DEF FormsInv, ResolveStoryStatus, Options, Ranks
<1>2. StagesInv'
  BY ZenonT(30), SMTT(30) DEF StagesInv, FormsInv, ResolveStoryStatus, Total, Fresh, ChapterIdentity
<1>3. LedgerInv'
  BY LedgerFrame DEF ResolveStoryStatus
<1>4. FoundationInv'
  BY DEF FoundationInv, FormsInv, ResolveStoryStatus, Volumes, StoryChoice, Total, ResolutionFresh
<1>5. CommittedInv'
  BY DEF CommittedInv, FormsInv, ResolveStoryStatus, Total
<1>6. AskedInv'
  BY DEF AskedInv, FormsInv, ResolveStoryStatus
<1> QED
  BY <1>1, <1>2, <1>3, <1>4, <1>5, <1>6

LEMMA PublishPremiseInv ==
  ASSUME ImportIInv, PublishPremise
  PROVE  ImportIInv'
<1> USE DEF ImportIInv, Among, Publishing, Analysed, At, Goto, End, workspace, store, host
<1>1. FormsInv'
  BY ZenonT(30), SMTT(30) DEF FormsInv, PublishPremise, Options, Ranks
<1>2. StagesInv'
  BY DEF StagesInv, FormsInv, PublishPremise, Total, Fresh, ChapterIdentity
<1>3. LedgerInv'
  BY LedgerFrame DEF PublishPremise
<1>4. FoundationInv'
  <2>1. run # None /\ run.pc = "publish" /\ syn # None /\ syn.premise # Own
    BY DEF PublishPremise, StagesInv, FormsInv
  <2>2. CASE Conflicts
    <3>1. run' = None /\ premise' = premise /\ UNCHANGED <<flat, layered>>
      BY <2>2 DEF PublishPremise
    <3> QED
      BY <3>1 DEF FoundationInv
  <2>3. CASE ~Conflicts
    <3>1. /\ premise' = syn.premise /\ UNCHANGED <<ws, seg, ana, syn, res, flat, layered>>
          /\ Goto("premise phase")
      BY <2>3 DEF PublishPremise
    <3>2. run' = [pc |-> "premise phase", opts |-> run.opts, seen |-> run.seen]
      BY <2>1, <3>1, RunGoes
    <3>3. Volumes' = Volumes
      BY <3>1, <3>2 DEF Volumes, StoryChoice, ResolutionFresh, Total
    <3>4. layered = None \/ layered = Volumes
      BY <2>3 DEF Conflicts
    <3>5. flat \in OwnOutlines \/ (layered # None /\ flat = layered.entries)
      BY <2>1, <2>3 DEF Conflicts, FoundationInv
    <3>6. /\ \/ premise' = Own \/ flat' \in OwnOutlines
             \/ layered' # None /\ flat' = layered'.entries
          /\ premise' = syn'.premise /\ (layered' = None \/ layered' = Volumes')
          /\ ~Among({"flat"})'
      BY <3>1, <3>2, <3>3, <3>4, <3>5
    <3> QED
      BY <3>6 DEF FoundationInv
  <2> QED
    BY <2>2, <2>3
<1>5. CommittedInv'
  BY DEF CommittedInv, FormsInv, PublishPremise, Total
<1>6. AskedInv'
  BY DEF AskedInv, FormsInv, PublishPremise
<1> QED
  BY <1>1, <1>2, <1>3, <1>4, <1>5, <1>6

LEMMA PublishPremisePhaseInv ==
  ASSUME ImportIInv, PublishPremisePhase
  PROVE  ImportIInv'
<1> USE DEF ImportIInv, Among, Publishing, Analysed, At, Goto, End, workspace, store, host
<1>1. FormsInv'
  BY ZenonT(30), SMTT(30) DEF FormsInv, PublishPremisePhase, UpdatePhase, Ranks, Options, Ranks
<1>2. StagesInv'
  BY DEF StagesInv, FormsInv, PublishPremisePhase, UpdatePhase, Ranks, Total, Fresh, ChapterIdentity
<1>3. LedgerInv'
  BY LedgerFrame DEF PublishPremisePhase, UpdatePhase, Ranks
<1>4. FoundationInv'
  BY DEF FoundationInv, FormsInv, PublishPremisePhase, UpdatePhase, Ranks, Volumes, StoryChoice, Total, ResolutionFresh
<1>5. CommittedInv'
  <2>1. phase = "writing" => Ranks[phase] > Ranks["premise"]
    BY DEF Ranks
  <2>2. CASE Ranks[phase] > Ranks["premise"]
    BY <2>2 DEF PublishPremisePhase, UpdatePhase, CommittedInv
  <2>3. CASE ~(Ranks[phase] > Ranks["premise"])
    <3>1. book = <<>>
      BY <2>1, <2>3 DEF CommittedInv
    <3>2. book' = book /\ Goto("layered") /\ run # None
      BY <2>3 DEF PublishPremisePhase, UpdatePhase
    <3>3. run' # None => run'.pc = "layered"
      BY <3>2 DEF FormsInv
    <3> QED
      BY <3>1, <3>2, <3>3 DEF CommittedInv
  <2> QED
    BY <2>2, <2>3
<1>6. AskedInv'
  BY DEF AskedInv, FormsInv, PublishPremisePhase, UpdatePhase, Ranks
<1> QED
  BY <1>1, <1>2, <1>3, <1>4, <1>5, <1>6

LEMMA PublishLayeredInv ==
  ASSUME ImportIInv, PublishLayered
  PROVE  ImportIInv'
<1> USE DEF ImportIInv, Among, Publishing, Analysed, At, Goto, End, workspace, store, host
<1>1. FormsInv'
  BY DEF FormsInv, PublishLayered, Options, Ranks
<1>2. StagesInv'
  BY DEF StagesInv, FormsInv, PublishLayered, Total, Fresh, ChapterIdentity
<1>3. LedgerInv'
  BY LedgerFrame DEF PublishLayered
<1>4. FoundationInv'
  <2>1. /\ run # None /\ run.pc = "layered" /\ premise = syn.premise /\ syn.premise # Own
        /\ (layered = None \/ layered = Volumes) /\ seg # None /\ \A i \in 1..Total : Fresh(i)
    BY DEF PublishLayered, StagesInv, FormsInv, FoundationInv
  <2>2. Volumes # None
    <3>1. \A i \in 1..Total : ana[i].light \in Facts
      <4>1. \A i \in 1..Total : i \in Numbers /\ ana[i] # None
        BY <2>1, SplitLength DEF Fresh
      <4>2. \A i \in 1..Total : ana[i] \in Analyses
        BY <4>1 DEF FormsInv
      <4> QED
        BY <4>2 DEF Analyses
    <3>2. [i \in 1..Total |-> ana[i].light] \in Seq(Facts)
      BY <2>1, <3>1, SplitLength
    <3>3. Volumes \in Outlines
      BY <3>2 DEF Volumes, Outlines
    <3> QED
      BY <3>3
  <2>3. layered' = Volumes /\ UNCHANGED <<premise, flat, syn>> /\ Goto("flat")
    BY DEF PublishLayered
  <2>4. run' # None => run'.pc = "flat"
    BY <2>1, <2>3 DEF FormsInv
  <2>5. flat \in OwnOutlines \/ flat = Volumes.entries
    BY <2>1 DEF FoundationInv
  <2> QED
    BY <2>1, <2>2, <2>3, <2>4, <2>5 DEF FoundationInv
<1>5. CommittedInv'
  BY DEF CommittedInv, FormsInv, PublishLayered, Total
<1>6. AskedInv'
  BY DEF AskedInv, FormsInv, PublishLayered
<1> QED
  BY <1>1, <1>2, <1>3, <1>4, <1>5, <1>6

LEMMA PublishFlatInv ==
  ASSUME ImportIInv, PublishFlat
  PROVE  ImportIInv'
<1> USE DEF ImportIInv, Among, Publishing, Analysed, At, Goto, End, workspace, store, host
<1>1. FormsInv'
  BY DEF FormsInv, PublishFlat, Options, Ranks
<1>2. StagesInv'
  BY DEF StagesInv, FormsInv, PublishFlat, Total, Fresh, ChapterIdentity
<1>3. LedgerInv'
  BY LedgerFrame DEF PublishFlat
<1>4. FoundationInv'
  BY DEF FoundationInv, FormsInv, PublishFlat, Volumes, StoryChoice, Total, ResolutionFresh
<1>5. CommittedInv'
  BY DEF CommittedInv, FormsInv, PublishFlat, Total
<1>6. AskedInv'
  BY DEF AskedInv, FormsInv, PublishFlat
<1> QED
  BY <1>1, <1>2, <1>3, <1>4, <1>5, <1>6

LEMMA PublishOutlinePhaseInv ==
  ASSUME ImportIInv, PublishOutlinePhase
  PROVE  ImportIInv'
<1> USE DEF ImportIInv, Among, Publishing, Analysed, At, Goto, End, workspace, store, host
<1>1. FormsInv'
  BY ZenonT(30), SMTT(30) DEF FormsInv, PublishOutlinePhase, UpdatePhase, Ranks, Options, Ranks
<1>2. StagesInv'
  BY DEF StagesInv, FormsInv, PublishOutlinePhase, UpdatePhase, Ranks, Total, Fresh, ChapterIdentity
<1>3. LedgerInv'
  BY LedgerFrame DEF PublishOutlinePhase, UpdatePhase, Ranks
<1>4. FoundationInv'
  BY DEF FoundationInv, FormsInv, PublishOutlinePhase, UpdatePhase, Ranks, Volumes, StoryChoice, Total, ResolutionFresh
<1>5. CommittedInv'
  BY DEF CommittedInv, FormsInv, PublishOutlinePhase, UpdatePhase, Ranks, Total
<1>6. AskedInv'
  BY DEF AskedInv, FormsInv, PublishOutlinePhase, UpdatePhase, Ranks
<1> QED
  BY <1>1, <1>2, <1>3, <1>4, <1>5, <1>6

LEMMA PublishWritingPhaseInv ==
  ASSUME ImportIInv, PublishWritingPhase
  PROVE  ImportIInv'
<1> USE DEF ImportIInv, Among, Publishing, Analysed, At, Goto, End, workspace, store, host
<1>1. FormsInv'
  BY DEF FormsInv, PublishWritingPhase, Options, Ranks
<1>2. StagesInv'
  BY DEF StagesInv, FormsInv, PublishWritingPhase, Total, Fresh, ChapterIdentity
<1>3. LedgerInv'
  BY LedgerFrame DEF PublishWritingPhase
<1>4. FoundationInv'
  BY DEF FoundationInv, FormsInv, PublishWritingPhase, Volumes, StoryChoice, Total, ResolutionFresh
<1>5. CommittedInv'
  BY DEF CommittedInv, FormsInv, PublishWritingPhase, Total
<1>6. AskedInv'
  BY DEF AskedInv, FormsInv, PublishWritingPhase
<1> QED
  BY <1>1, <1>2, <1>3, <1>4, <1>5, <1>6

LEMMA SetCompletionHoldInv ==
  ASSUME ImportIInv, SetCompletionHold
  PROVE  ImportIInv'
<1> USE DEF ImportIInv, Among, Publishing, Analysed, At, Goto, End, workspace, store, host
<1>1. FormsInv'
  BY ZenonT(30), SMTT(30) DEF FormsInv, SetCompletionHold, Options, Ranks
<1>2. StagesInv'
  BY DEF StagesInv, FormsInv, SetCompletionHold, Total, Fresh, ChapterIdentity
<1>3. LedgerInv'
  BY LedgerFrame DEF SetCompletionHold
<1>4. FoundationInv'
  BY DEF FoundationInv, FormsInv, SetCompletionHold, Volumes, StoryChoice, Total, ResolutionFresh
<1>5. CommittedInv'
  BY DEF CommittedInv, FormsInv, SetCompletionHold, Total
<1>6. AskedInv'
  <2>1. run # None /\ run.pc = "hold" /\ ws # None
    BY DEF SetCompletionHold, StagesInv
  <2>2. UNCHANGED <<ws, book, engine, asked>> /\ session'.cont = session.cont
    BY RunEndsIn DEF SetCompletionHold
  <2>3. run' # None => run'.opts = run.opts /\ run'.pc = "chapters"
    BY <2>1, RunGoes DEF SetCompletionHold
  <2>4. hold' # None \/ asked # {}
    <3>1. CASE run.opts.cont \/ ws.cont
      BY <2>1, <3>1 DEF AskedInv
    <3>2. CASE ~(run.opts.cont \/ ws.cont)
      BY <3>2 DEF SetCompletionHold
    <3> QED
      BY <3>1, <3>2
  <2> QED
    BY <2>1, <2>2, <2>3, <2>4 DEF AskedInv
<1> QED
  BY <1>1, <1>2, <1>3, <1>4, <1>5, <1>6

LEMMA PublishChapterInv ==
  ASSUME ImportIInv, PublishChapter
  PROVE  ImportIInv'
<1> USE DEF ImportIInv
<1> DEFINE i == Len(book) + 1
<1>1. /\ run # None /\ run.pc = "chapters" /\ ws # None /\ seg # None /\ conf = seg
      /\ syn # None /\ \A k \in 1..Total : Fresh(k)
      /\ phase = "writing" /\ Len(book) <= Total
      /\ \A k \in DOMAIN book : /\ book[k].text = seg.chapters[k]
                               /\ book[k].facts[1] = seg.chapters[k]
      /\ hold # None \/ asked # {}
  BY DEF PublishChapter, At, StagesInv, CommittedInv, AskedInv, Among, Analysed, Publishing
<1>2. /\ UNCHANGED <<ws, guide, seg, conf, ana, syn, res, session, engine, version, asked>>
      /\ UNCHANGED <<premise, layered, flat, phase, hold>>
  BY DEF PublishChapter, workspace, host
<1>3. /\ Total \in 1..MaxChapters /\ \A k \in 1..Total : seg.chapters[k] \in Texts /\ k \in Numbers
      /\ book \in Seq([text: Texts, facts: Facts])
  BY <1>1, SplitLength DEF FormsInv
<1>4. \/ run' = run /\ i <= Total
         /\ book' = Append(book, [text |-> seg.chapters[i], facts |-> ana[i].light])
      \/ /\ run' = [pc |-> "top", opts |-> run.opts, seen |-> run.seen] /\ run.opts \in Options
         /\ book' = book
  BY <1>1, <1>3, RunGoes DEF PublishChapter
<1>5. i <= Total => /\ [text |-> seg.chapters[i], facts |-> ana[i].light] \in [text: Texts, facts: Facts]
                    /\ ana[i].light[1] = seg.chapters[i]
  <2> SUFFICES ASSUME i <= Total
               PROVE  /\ [text |-> seg.chapters[i], facts |-> ana[i].light]
                           \in [text: Texts, facts: Facts]
                      /\ ana[i].light[1] = seg.chapters[i]
    OBVIOUS
  <2>1. i \in 1..Total
    BY <1>3
  <2> HIDE DEF i
  <2>2. i \in Numbers /\ ana[i] # None /\ ana[i].of = ChapterIdentity(i)
    BY <1>1, <1>3, <2>1 DEF Fresh
  <2>3. ana[i] \in Analyses /\ ana[i].light[1] = ana[i].of[4]
    BY <2>2 DEF FormsInv
  <2>4. ana[i].of[4] = seg.chapters[i]
    BY <2>2 DEF ChapterIdentity
  <2> QED
    BY <1>3, <2>1, <2>3, <2>4 DEF Analyses
<1>6. book' \in Seq([text: Texts, facts: Facts])
  <2> DEFINE c == [text |-> seg.chapters[i], facts |-> ana[i].light]
             C == [text: Texts, facts: Facts]
  <2>1. i <= Total => c \in C
    BY <1>5
  <2>2. book' = book \/ (i <= Total /\ book' = Append(book, c))
    BY <1>4
  <2>3. book \in Seq(C)
    BY <1>3
  <2> HIDE DEF i, c, C
  <2>4. book' \in Seq(C)
    BY <2>1, <2>2, <2>3
  <2> QED
    BY <2>4 DEF C
<1>7. FormsInv'
  BY <1>2, <1>4, <1>6 DEF FormsInv
<1>8. run'.opts = run.opts /\ run'.pc \in {"chapters", "top"}
  BY <1>1, <1>4
<1>9. StagesInv'
  <2>1. CASE run' = run
    BY <1>2, <2>1, StagesFrame
  <2>2. CASE run'.pc = "top"
    <3>1. ~Among({"segment", "confirm", "analyze", "light", "done"} \cup Analysed)'
      BY <2>2 DEF Among, Analysed, Publishing
    <3> QED
      BY <1>2, <3>1, Elsewhere
  <2> QED
    BY <1>4, <2>1, <2>2
<1>10. LedgerInv'
  BY <1>2, LedgerFrame
<1>11. FoundationInv'
  <2>1. ~Among({"premise phase", "layered"})' /\ ~Among({"flat"})'
    BY <1>8 DEF Among
  <2>2. premise = syn.premise
    BY <1>1 DEF FoundationInv, Among, Publishing
  <2> QED
    BY <1>2, <2>1, <2>2 DEF FoundationInv
<1>12. CommittedInv'
  <2>5. ~Among(Publishing \ {"premise phase", "chapters"})'
    BY <1>8 DEF Among, Publishing
  <2>6. Among({"chapters"})' => run' = run
    BY <1>4 DEF Among
  <2>1. /\ ~Among(Publishing \ {"premise phase", "chapters"})'
        /\ Among({"chapters"})' => run' = run
    BY <2>5, <2>6
  <2>2. ASSUME run' = run, run'.pc = "chapters"
        PROVE  /\ Len(book') <= Total
               /\ \A k \in DOMAIN book' : /\ book'[k].text = seg.chapters[k]
                                         /\ book'[k].facts[1] = seg.chapters[k]
    <3> DEFINE c == [text |-> seg.chapters[i], facts |-> ana[i].light]
    <3>1. i <= Total /\ book' = Append(book, c)
      BY <1>4, <2>2
    <3>2. c.text = seg.chapters[i] /\ c.facts[1] = seg.chapters[i]
      BY <1>5, <3>1
    <3> HIDE DEF c
    <3>3. Len(book') = i /\ book'[i] = c /\ \A k \in 1..Len(book) : book'[k] = book[k]
      BY <1>3, <3>1
    <3>4. DOMAIN book' = 1..i /\ DOMAIN book = 1..Len(book) /\ Len(book) \in Nat
      BY <1>3, <3>1
    <3> QED
      BY <1>1, <3>1, <3>2, <3>3, <3>4
  <2>3. Total' = Total
    BY <1>2 DEF Total
  <2>4. Among({"chapters"})' => run' = run /\ run'.pc = "chapters"
    BY <2>1 DEF Among
  <2> QED
    BY <1>1, <1>2, <2>1, <2>2, <2>3, <2>4 DEF CommittedInv
<1>13. AskedInv'
  <2>1. ~Among({"start"})'
    BY <1>8 DEF Among
  <2> QED
    BY <1>1, <1>2, <1>8, <2>1 DEF AskedInv
<1> QED
  BY <1>7, <1>9, <1>10, <1>11, <1>12, <1>13

LEMMA ContinueAfterImportInv ==
  ASSUME ImportIInv, ContinueAfterImport
  PROVE  ImportIInv'
<1> USE DEF ImportIInv
<1>1. /\ run # None /\ ws # None /\ run.opts \in Options
      /\ UNCHANGED <<guide, seg, conf, ana, syn, res, engine, version, asked>>
      /\ UNCHANGED <<premise, layered, flat, phase, book, hold>>
  BY DEF ContinueAfterImport, At, StagesInv, Among, store, FormsInv
<1>2. \/ /\ run' = None /\ session' = [state |-> "done", cont |-> session.cont]
         /\ ws' = ws
      \/ /\ run' = [pc |-> "start", opts |-> run.opts, seen |-> run.seen] /\ session' = session
         /\ ws' = [ws EXCEPT !.cont = FALSE] /\ (run.opts.cont \/ ws.cont)
  BY <1>1, RunGoes, RunEndsIn DEF ContinueAfterImport
<1>3. ws' = ws \/ (ws' \in Workspaces /\ ws' # None /\ ws'.cont = FALSE)
  <2>1. ws \in Workspaces
    BY <1>1 DEF FormsInv
  <2>2. [ws EXCEPT !.cont = FALSE] \in Workspaces /\ [ws EXCEPT !.cont = FALSE].cont = FALSE
    BY <2>1 DEF Workspaces
  <2>3. None \notin Workspaces
    OBVIOUS
  <2> QED
    BY <1>2, <2>2, <2>3
<1>4. FormsInv'
  BY <1>1, <1>2, <1>3 DEF FormsInv
<1>5. \A pcs : "start" \notin pcs => ~Among(pcs)'
  BY <1>2 DEF Among
<1>6. StagesInv'
  <2>1. ~Among({"segment", "confirm", "analyze", "light", "done"} \cup Analysed)'
    <3>1. "start" \notin {"segment", "confirm", "analyze", "light", "done"} \cup Analysed
      BY DEF Analysed, Publishing
    <3> QED
      BY <1>5, <3>1
  <2> QED
    BY <1>1, <1>3, <2>1, Elsewhere
<1>7. LedgerInv'
  BY <1>1, LedgerFrame
<1>8. FoundationInv' /\ CommittedInv'
  <2>1. /\ ~Among(Publishing)' /\ ~Among({"premise phase", "layered"})' /\ ~Among({"flat"})'
        /\ ~Among(Publishing \ {"premise phase", "chapters"})'
        /\ ~Among({"hold", "chapters"})' /\ ~Among({"chapters"})'
    BY <1>5 DEF Publishing
  <2> QED
    BY <1>1, <2>1 DEF FoundationInv, CommittedInv
<1>9. AskedInv'
  <2>1. ~Among({"chapters"})'
    BY <1>5
  <2>2. /\ session'.cont = session.cont /\ (run' # None => run'.opts.cont = run.opts.cont)
        /\ run' # None => run.opts.cont \/ ws.cont
    BY <1>2
  <2>3. Among({"start"})' => asked # {}
    BY <1>1, <2>2 DEF Among, AskedInv
  <2>4. ws'.cont => ws.cont
    BY <1>3
  <2> QED
    BY <1>1, <2>1, <2>2, <2>3, <2>4 DEF AskedInv
<1> QED
  BY <1>4, <1>6, <1>7, <1>8, <1>9

LEMMA StartEngineInv ==
  ASSUME ImportIInv, StartEngine
  PROVE  ImportIInv'
<1> USE DEF ImportIInv, Among, Publishing, Analysed, At, Goto, End, workspace, store, host
<1>1. FormsInv'
  BY DEF FormsInv, StartEngine, Options, Ranks
<1>2. StagesInv'
  BY DEF StagesInv, FormsInv, StartEngine, Total, Fresh, ChapterIdentity
<1>3. LedgerInv'
  BY LedgerFrame DEF StartEngine
<1>4. FoundationInv'
  BY DEF FoundationInv, FormsInv, StartEngine, Volumes, StoryChoice, Total, ResolutionFresh
<1>5. CommittedInv'
  BY DEF CommittedInv, FormsInv, StartEngine, Total
<1>6. AskedInv'
  BY DEF AskedInv, FormsInv, StartEngine
<1> QED
  BY <1>1, <1>2, <1>3, <1>4, <1>5, <1>6

LEMMA InterruptInv ==
  ASSUME ImportIInv, Interrupt
  PROVE  ImportIInv'
<1> USE DEF ImportIInv, Among, Publishing, Analysed, At, Goto, End, workspace, store, host
<1>1. FormsInv'
  BY DEF FormsInv, Interrupt, Options, Ranks
<1>2. StagesInv'
  BY DEF StagesInv, FormsInv, Interrupt, Total, Fresh, ChapterIdentity
<1>3. LedgerInv'
  BY LedgerFrame DEF Interrupt
<1>4. FoundationInv'
  BY DEF FoundationInv, FormsInv, Interrupt, Volumes, StoryChoice, Total, ResolutionFresh
<1>5. CommittedInv'
  BY DEF CommittedInv, FormsInv, Interrupt, Total
<1>6. AskedInv'
  BY DEF AskedInv, FormsInv, Interrupt
<1> QED
  BY <1>1, <1>2, <1>3, <1>4, <1>5, <1>6

LEMMA RestartInv ==
  ASSUME ImportIInv, NEW v \in [Stages -> 0..MaxUpgrades], Restart(v)
  PROVE  ImportIInv'
<1> USE DEF ImportIInv
<1>1. /\ run' = None /\ version' = v /\ session' = [state |-> "idle", cont |-> FALSE]
      /\ UNCHANGED <<guide, seg, conf, ana, syn, res, asked>>
      /\ UNCHANGED <<premise, layered, flat, phase, book, hold>>
  BY DEF Restart, store
<1>2. engine' => ws # None /\ ws.cont
  BY DEF Restart
<1>3. ws' = ws \/ (ws' \in Workspaces /\ ws' # None /\ ws'.cont = FALSE)
  <2>1. CASE ~engine'
    BY <2>1 DEF Restart
  <2>2. CASE engine'
    <3>1. ws \in Workspaces
      BY <1>2, <2>2 DEF FormsInv
    <3>2. ws' = [ws EXCEPT !.cont = FALSE]
      BY <2>2 DEF Restart
    <3>3. ws' \in Workspaces /\ ws'.cont = FALSE
      BY <3>1, <3>2 DEF Workspaces
    <3> QED
      BY <3>3
  <2> QED
    BY <2>1, <2>2
<1>4. version' \in [Stages -> Nat]
  <2>1. v \in [Stages -> 0..MaxUpgrades] /\ \A n \in 0..MaxUpgrades : n \in Nat
    OBVIOUS
  <2> QED
    BY <1>1, <2>1
<1>5. FormsInv'
  BY <1>1, <1>3, <1>4 DEF FormsInv
<1>6. \A pcs : ~Among(pcs)'
  BY <1>1 DEF Among
<1>7. StagesInv'
  BY <1>1, <1>3, <1>6, Elsewhere
<1>8. LedgerInv'
  BY <1>1, LedgerFrame
<1>9. FoundationInv' /\ CommittedInv'
  BY <1>1, <1>6 DEF FoundationInv, CommittedInv
<1>10. AskedInv'
  <2>1. engine' => asked # {}
    BY <1>2 DEF AskedInv
  <2>2. ws' # None /\ ws'.cont => asked # {}
    BY <1>3 DEF AskedInv
  <2> QED
    BY <1>1, <1>6, <2>1, <2>2 DEF AskedInv
<1> QED
  BY <1>5, <1>7, <1>8, <1>9, <1>10

LEMMA PauseEngineInv ==
  ASSUME ImportIInv, PauseEngine
  PROVE  ImportIInv'
<1> USE DEF ImportIInv, Among, Publishing, Analysed, At, Goto, End, workspace, store, host
<1>1. FormsInv'
  BY DEF FormsInv, PauseEngine, Options, Ranks
<1>2. StagesInv'
  BY StagesFrame DEF PauseEngine
<1>3. LedgerInv'
  BY LedgerFrame DEF PauseEngine
<1>4. FoundationInv'
  BY DEF FoundationInv, FormsInv, PauseEngine, Volumes, StoryChoice, Total, ResolutionFresh
<1>5. CommittedInv'
  BY DEF CommittedInv, FormsInv, PauseEngine, Total
<1>6. AskedInv'
  BY DEF AskedInv, FormsInv, PauseEngine
<1> QED
  BY <1>1, <1>2, <1>3, <1>4, <1>5, <1>6

LEMMA StutterInv ==
  ASSUME ImportIInv, UNCHANGED vars
  PROVE  ImportIInv'
<1> USE DEF ImportIInv, Among, Publishing, Analysed, At, Goto, End, workspace, store, host
<1>1. FormsInv'
  BY DEF FormsInv, vars, Options, Ranks
<1>2. StagesInv'
  BY StagesFrame DEF vars
<1>3. LedgerInv'
  BY LedgerFrame DEF vars
<1>4. FoundationInv'
  BY DEF FoundationInv, FormsInv, vars, Volumes, StoryChoice, Total, ResolutionFresh
<1>5. CommittedInv'
  BY DEF CommittedInv, FormsInv, vars, Total
<1>6. AskedInv'
  BY DEF AskedInv, FormsInv, vars
<1> QED
  BY <1>1, <1>2, <1>3, <1>4, <1>5, <1>6

(***************************************************************************)
(* The invariant, and what it shows.                                       *)
(***************************************************************************)
LEMMA InitInv ==
  ASSUME Init
  PROVE  ImportIInv
<1>1. /\ run = None /\ seg = None /\ ws = None /\ syn = None /\ guide = None /\ book = <<>>
      /\ session = [state |-> "idle", cont |-> FALSE] /\ engine = FALSE
      /\ version = [s \in Stages |-> 0] /\ ana = [i \in Numbers |-> None]
  BY DEF Init
<1>2. PICK b \in Books : premise = b.premise /\ layered = b.layered /\ flat = b.flat /\ phase = b.phase
  BY DEF Init
<1>3. /\ flat \in OwnOutlines
      /\ phase \in {"init", "premise", "outline", "writing"}
  BY <1>2
<1>4. \A pcs : ~Among(pcs)
  BY <1>1 DEF Among
<1>5. FormsInv
  BY <1>1, <1>3 DEF FormsInv, Ranks
<1>6. StagesInv
  BY <1>1, <1>4 DEF StagesInv
<1>7. LedgerInv
  <2> SUFFICES ASSUME NEW s \in Splits, NEW n \in 1..Len(s)
               PROVE  ana[n] = None
    BY DEF LedgerInv
  <2>1. Len(s) \in 1..MaxChapters
    OBVIOUS
  <2> QED
    BY <1>1, <2>1 DEF Numbers
<1>8. FoundationInv /\ CommittedInv
  BY <1>1, <1>3, <1>4 DEF FoundationInv, CommittedInv
<1>9. AskedInv
  BY <1>1, <1>4 DEF AskedInv
<1> QED
  BY <1>5, <1>6, <1>7, <1>8, <1>9 DEF ImportIInv

LEMMA NextInv ==
  ASSUME ImportIInv, [Next]_vars
  PROVE  ImportIInv'
<1>1. ASSUME NEW o \in Requests, Start(o)
      PROVE  ImportIInv'
  BY <1>1, StartInv
<1>2. CASE Confirm
  BY <1>2, ConfirmInv
<1>3. ASSUME NEW g \in Guides \cup {None}, Resegment(g)
      PROVE  ImportIInv'
  BY <1>3, ResegmentInv
<1>4. ASSUME NEW c \in Choices, Resolve(c)
      PROVE  ImportIInv'
  BY <1>4, ResolveInv
<1>5. CASE Step
  <2>1. CASE ApplyOptions \/ Decide
    BY <2>1, ApplyOptionsInv, DecideInv
  <2>2. CASE Ingest \/ Segment \/ ConfirmSegmentation
    BY <2>2, IngestInv, SegmentInv, ConfirmSegmentationInv
  <2>3. CASE DiscardAnalysis \/ AnalyzeNext \/ AnalyzeDeepNext
    BY <2>3, DiscardAnalysisInv, AnalyzeNextInv, AnalyzeDeepNextInv
  <2>4. CASE Synthesize \/ ResolveStoryStatus
    BY <2>4, SynthesizeInv, ResolveStoryStatusInv
  <2>5. CASE PublishPremise \/ PublishPremisePhase \/ PublishLayered \/ PublishFlat
    BY <2>5, PublishPremiseInv, PublishPremisePhaseInv, PublishLayeredInv, PublishFlatInv
  <2>6. CASE PublishOutlinePhase \/ PublishWritingPhase
    BY <2>6, PublishOutlinePhaseInv, PublishWritingPhaseInv
  <2>7. CASE SetCompletionHold \/ PublishChapter
    BY <2>7, SetCompletionHoldInv, PublishChapterInv
  <2>8. CASE ContinueAfterImport \/ StartEngine
    BY <2>8, ContinueAfterImportInv, StartEngineInv
  <2> QED
    BY <1>5, <2>1, <2>2, <2>3, <2>4, <2>5, <2>6, <2>7, <2>8 DEF Step
<1>6. CASE Interrupt
  BY <1>6, InterruptInv
<1>7. ASSUME NEW v \in [Stages -> 0..MaxUpgrades], Restart(v)
      PROVE  ImportIInv'
  BY <1>7, RestartInv
<1>8. CASE PauseEngine
  BY <1>8, PauseEngineInv
<1>9. CASE UNCHANGED vars
  BY <1>9, StutterInv
<1> QED
  BY <1>1, <1>2, <1>3, <1>4, <1>5, <1>6, <1>7, <1>8, <1>9 DEF Next

\* The strengthening holds at every moment of an import, however often the
\* process dies and whatever prompts the next one brings.
THEOREM ImportInductive == Spec => []ImportIInv
<1>1. Init => ImportIInv
  BY InitInv
<1>2. ImportIInv /\ [Next]_vars => ImportIInv'
  BY NextInv
<1> QED
  BY <1>1, <1>2, PTL DEF Spec

\* Every chapter that counts as analysed was analysed with the ledger of the
\* chapters before it as it is now (discardAnalysesAfter).
THEOREM InOrder == Spec => []AnalysedInOrder
<1>1. ImportIInv => AnalysedInOrder
  <2> SUFFICES ASSUME ImportIInv, seg # None, NEW i \in 1..AnalyzedChapters
               PROVE  ana[i].ledger = [j \in 1..(i - 1) |-> ana[j].light]
    BY DEF AnalysedInOrder
  <2>1. /\ AnalyzedChapters \in 0..Total /\ \A k \in 1..AnalyzedChapters : Fresh(k)
        /\ Total \in Nat /\ seg.chapters \in Splits
    BY AnalyzedIsPrefix, SplitLength DEF ImportIInv, FormsInv, Segmentations
  <2>2. i \in 1..Len(seg.chapters) /\ \A k \in 1..i : Fresh(k)
    BY <2>1 DEF Total
  <2>3. /\ ana[i] # None
        /\ \A k \in 1..i : /\ ana[k] # None
                           /\ ana[k].of = <<ana[i].of[1], ana[i].of[2], k, seg.chapters[k]>>
    BY <2>1, <2>2 DEF Fresh, ChapterIdentity
  <2> QED
    BY <2>1, <2>2, <2>3 DEF ImportIInv, LedgerInv
<1> QED
  BY <1>1, ImportInductive, PTL

\* No request, no restart and no failure leaves a finished import without its
\* hold, or an engine at work, that nobody asked for (setCompletionHold).
THEOREM Held == Spec => []HeldUnlessAsked
<1>1. ImportIInv => HeldUnlessAsked
  <2> SUFFICES ASSUME ImportIInv, IsPublished, hold = None
               PROVE  asked # {}
    BY DEF HeldUnlessAsked, ImportIInv, AskedInv
  <2>1. seg # None /\ Len(book) >= Total
    BY DEF IsPublished
  <2>2. Total >= 1
    BY <2>1, SplitLength DEF ImportIInv
  <2>3. book # <<>>
    BY <2>1, <2>2, SplitLength DEF ImportIInv
  <2> QED
    BY <2>3 DEF ImportIInv, AskedInv
<1> QED
  BY <1>1, ImportInductive, PTL

\* A chapter is committed only from the split the user confirmed, with facts
\* that were made from its text (Runner.stepConfirm, publishChapter).
THEOREM OnlyConfirmed == Spec => OnlyConfirmedIsPublished
<1>1. ImportIInv /\ ImportIInv' /\ [Next]_vars =>
        [book' # book =>
          /\ conf = seg
          /\ \A i \in DOMAIN book' : /\ book'[i].text = conf.chapters[i]
                                    /\ book'[i].facts[1] = conf.chapters[i]]_vars
  <2> SUFFICES ASSUME ImportIInv, ImportIInv', Next, book' # book
               PROVE  /\ conf = seg
                      /\ \A i \in DOMAIN book' : /\ book'[i].text = conf.chapters[i]
                                                /\ book'[i].facts[1] = conf.chapters[i]
    OBVIOUS
  <2>1. PublishChapter
    BY DEF Next, Start, Confirm, Resegment, Resolve, StartImport, Step, ApplyOptions, Decide,
           Ingest, Segment, ConfirmSegmentation, DiscardAnalysis, AnalyzeNext,
           AnalyzeDeepNext, Synthesize, ResolveStoryStatus, PublishPremise,
           PublishPremisePhase, PublishLayered, PublishFlat, PublishOutlinePhase,
           PublishWritingPhase, SetCompletionHold, ContinueAfterImport, StartEngine,
           Interrupt, Restart, PauseEngine, store
  <2>2. conf = seg /\ seg' = seg /\ run' = run /\ run # None /\ run.pc = "chapters"
    BY <2>1 DEF PublishChapter, At, workspace, ImportIInv, StagesInv, Among, Analysed, Publishing
  <2>3. Among({"chapters"})'
    BY <2>2 DEF Among
  <2> QED
    BY <2>2, <2>3 DEF ImportIInv, CommittedInv
<1> QED
  BY <1>1, ImportInductive, PTL DEF Spec, OnlyConfirmedIsPublished

\* A premise, an outline and its flat view that are there are never replaced,
\* by the first import or by any that follows (checkFoundationConflicts), but for
\* the flat outline of a book that had no premise, which nothing compares.
THEOREM FoundationKept == Spec => FoundationIsKept
<1>1. ImportIInv /\ [Next]_vars =>
        [/\ premise # None => premise' = premise
         /\ layered # None => layered' = layered
         /\ flat # <<>> => flat' = flat \/ Unprotected]_vars
  <2> SUFFICES ASSUME ImportIInv, Next
               PROVE  /\ premise # None => premise' = premise
                      /\ layered # None => layered' = layered
                      /\ flat # <<>> => flat' = flat \/ Unprotected
    OBVIOUS
  <2>1. \/ PublishPremise \/ PublishLayered \/ PublishFlat
        \/ UNCHANGED <<premise, layered, flat>>
    BY DEF Next, Start, Confirm, Resegment, Resolve, StartImport, Step, ApplyOptions, Decide,
           Ingest, Segment, ConfirmSegmentation, DiscardAnalysis, AnalyzeNext,
           AnalyzeDeepNext, Synthesize, ResolveStoryStatus,
           PublishPremisePhase, PublishOutlinePhase, PublishChapter,
           PublishWritingPhase, SetCompletionHold, ContinueAfterImport, StartEngine,
           Interrupt, Restart, PauseEngine, store
  <2>2. CASE PublishPremise
    BY <2>2 DEF PublishPremise, Conflicts
  <2>3. CASE PublishLayered
    <3>1. layered = None \/ layered = Volumes
      BY <2>3 DEF PublishLayered, At, Among, ImportIInv, FoundationInv
    <3> QED
      BY <2>3, <3>1 DEF PublishLayered
  <2>4. CASE PublishFlat
    <3>1. premise = syn.premise /\ syn.premise # Own
      BY <2>4 DEF PublishFlat, At, Among, Publishing, ImportIInv, FoundationInv, StagesInv, FormsInv
    <3>2. flat = layered.entries \/ Unprotected
      BY <3>1 DEF ImportIInv, FoundationInv, Unprotected
    <3> QED
      BY <2>4, <3>2 DEF PublishFlat
  <2> QED
    BY <2>1, <2>2, <2>3, <2>4
<1> QED
  BY <1>1, ImportInductive, PTL DEF Spec, FoundationIsKept
===============================================================================
