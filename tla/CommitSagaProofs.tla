--------------------------- MODULE CommitSagaProofs ---------------------------
(***************************************************************************)
(* Proofs about CommitSaga for every number of chapters and every set of   *)
(* texts, payloads and outlines: the inductive invariant IInv, the safety  *)
(* properties it implies, and the refinement of AtomicCommit.              *)
(*                                                                         *)
(* One lemma per action of Next shows that the action preserves IInv, one  *)
(* step per conjunct; NextInv puts them together.                          *)
(*                                                                         *)
(* The last part is about the engine of AutoCommit, which breaks IInv: it  *)
(* has chapters drafted while a record is pending.  AutoIInv is what is    *)
(* left of it there, and enough to say when a commit can be refused.       *)
(***************************************************************************)
EXTENDS AutoCommit, TLAPS

USE ChaptersAssumption, NoneAssumption, TouchesAssumption, OutlinesAssumption

(* Saving the record of a fresh commit: the chapter is the next one, none of its
   files exists yet, and its draft is protected. *)
LEMMA BeginCommitInv ==
  ASSUME IInv, NEW ch \in Chapters, NEW p \in Payload, BeginCommit(ch, p)
  PROVE  IInv'
<1> USE DEF IInv, BeginCommit, SaveStarted, Enter, Idle, ChapterWorkAllowed
<1>1. TypeOK'
  BY DEF TypeOK, Call, Labels, NoCall, PendingCommit, NoPending, Stages,
     Progress
<1>2. CallFollowsRecord'
  BY DEF CallFollowsRecord, TypeOK, Call, NoCall, PendingCommit, NoPending,
     FactStores
<1>3. RecordOfCompleted'
  BY DEF RecordOfCompleted, CallFollowsRecord, TypeOK, Call, NoCall,
     PendingCommit, NoPending, Progress
<1>4. RecordIsApplied'
  BY DEF RecordIsApplied, CallFollowsRecord, TypeOK, Call, NoCall,
     PendingCommit, NoPending, FactStores
<1>5. FactsOfRecord'
  <2>1. \A s \in FactStores : facts[s][ch] = {}
    BY DEF UnfinishedIsUntouched, NoPending
  <2>2. pending'.chapter = ch /\ pending'.stage = "started" /\ call'.pc = "final"
        /\ facts' = facts
    OBVIOUS
  <2> QED
    BY <2>1, <2>2 DEF FactsOfRecord, DoneBefore
<1>6. CheckpointOfRecord'
  BY DEF CheckpointOfRecord, CallFollowsRecord, RecordIsApplied, TypeOK, Call,
     NoCall, PendingCommit, NoPending
<1>7. UnfinishedIsUntouched'
  BY DEF UnfinishedIsUntouched, CallFollowsRecord, RecordOfCompleted, TypeOK,
     Call, NoCall, PendingCommit, NoPending, Progress
<1>8. DraftIsNext' /\ RecordHasDraft' /\ CompletedInOutline'
  BY DEF DraftIsNext, RecordHasDraft, CompletedInOutline, RecoverFirst,
     CallFollowsRecord, RecordOfCompleted, NextChapter, LatestCompleted, TypeOK,
     Call, NoCall, PendingCommit, NoPending, Progress
<1>9. HasLatest' /\ NoGaps'
  BY DEF HasLatest, NoGaps
<1>10. QueueMatchesFlow'
  BY DEF QueueMatchesFlow, TypeOK, Progress
<1>11. FinishedIsCertified'
  BY DEF FinishedIsCertified, Finished, CallFollowsRecord, RecordOfCompleted,
     RecordIsApplied, CheckpointOfRecord, TypeOK, Call, NoCall, PendingCommit,
     NoPending, Progress
<1> QED
  BY <1>1, <1>2, <1>3, <1>4, <1>5, <1>6, <1>7, <1>8, <1>9, <1>10, <1>11

(* Saving the record of a rewrite: the chapter is completed and was certified. *)
LEMMA BeginRewriteInv ==
  ASSUME IInv, NEW ch \in Chapters, NEW p \in Payload, BeginRewrite(ch, p)
  PROVE  IInv'
<1> USE DEF IInv, BeginRewrite, RewriteChanges, SaveStarted, Enter, Idle
<1>1. TypeOK'
  BY DEF TypeOK, Call, Labels, NoCall, PendingCommit, NoPending, Stages,
     Progress
<1>2. CallFollowsRecord'
  BY DEF CallFollowsRecord, TypeOK, Call, NoCall, PendingCommit, NoPending,
     FactStores
<1>3. RecordOfCompleted'
  BY DEF RecordOfCompleted, CallFollowsRecord, TypeOK, Call, NoCall,
     PendingCommit, NoPending, Progress
<1>4. RecordIsApplied'
  BY DEF RecordIsApplied, CallFollowsRecord, TypeOK, Call, NoCall,
     PendingCommit, NoPending, FactStores
<1>5. FactsOfRecord'
  BY DEF FactsOfRecord, CallFollowsRecord, TypeOK, Call, NoCall, PendingCommit,
     NoPending, DoneBefore, DeltaOf
<1>6. CheckpointOfRecord'
  BY DEF CheckpointOfRecord, CallFollowsRecord, RecordIsApplied, TypeOK, Call,
     NoCall, PendingCommit, NoPending
<1>7. UnfinishedIsUntouched'
  BY DEF UnfinishedIsUntouched, CallFollowsRecord, RecordOfCompleted, TypeOK,
     Call, NoCall, PendingCommit, NoPending, Progress
<1>8. DraftIsNext' /\ RecordHasDraft' /\ CompletedInOutline'
  BY DEF DraftIsNext, RecordHasDraft, CompletedInOutline, RecoverFirst,
     CallFollowsRecord, RecordOfCompleted, NextChapter, LatestCompleted, TypeOK,
     Call, NoCall, PendingCommit, NoPending, Progress
<1>9. HasLatest' /\ NoGaps'
  BY DEF HasLatest, NoGaps
<1>10. QueueMatchesFlow'
  BY DEF QueueMatchesFlow, TypeOK, Progress
<1>11. FinishedIsCertified'
  BY DEF FinishedIsCertified, Finished, CallFollowsRecord, RecordOfCompleted,
     RecordIsApplied, CheckpointOfRecord, TypeOK, Call, NoCall, PendingCommit,
     NoPending, Progress
<1> QED
  BY <1>1, <1>2, <1>3, <1>4, <1>5, <1>6, <1>7, <1>8, <1>9, <1>10, <1>11

(* Entering the saga again at the stage of the record writes nothing. *)
LEMMA ResumeInv ==
  ASSUME IInv, NEW ch \in Chapters, NEW p \in Payload, Resume(ch, p)
  PROVE  IInv'
<1> USE DEF IInv
<1>1. pending \in PendingCommit /\ pending # NoPending /\ call.pc = "idle"
  BY DEF Resume, Idle, TypeOK
<1>2. UNCHANGED files
  BY DEF Resume
<1>3. call' = [pc |-> ResumeLabel[pending.stage], chapter |-> pending.chapter,
               rewrite |-> pending.rewrite, text |-> pending.text,
               payload |-> pending.payload]
  BY DEF Resume, Enter
<1>4. \/ pending.stage = "started" /\ call'.pc = "final"
      \/ pending.stage = "state_applied" /\ call'.pc = "mark"
      \/ pending.stage = "progress_marked" /\ call'.pc = "checkpoint"
      \/ pending.stage = "signal_saved" /\ call'.pc = "clear_in_progress"
  BY <1>1, <1>3 DEF PendingCommit, Stages, ResumeLabel
<1>5. call' \in Call
  BY <1>1, <1>3, <1>4 DEF PendingCommit, Call, Labels
<1>6. TypeOK'
  BY <1>2, <1>5 DEF TypeOK, files
<1>7. CallFollowsRecord'
  BY <1>1, <1>2, <1>3, <1>4 DEF CallFollowsRecord, files, FactStores
<1>8. RecordOfCompleted'
  BY <1>1, <1>2, <1>3, <1>4 DEF RecordOfCompleted, files
<1>9. RecordIsApplied'
  BY <1>1, <1>2, <1>3, <1>4 DEF RecordIsApplied, files, FactStores
<1>10. FactsOfRecord'
  BY <1>1, <1>2, <1>3, <1>4 DEF FactsOfRecord, files, DoneBefore
<1>11. CheckpointOfRecord'
  BY <1>1, <1>2, <1>3, <1>4 DEF CheckpointOfRecord, files
<1>12. UnfinishedIsUntouched'
  BY <1>2 DEF UnfinishedIsUntouched, files
<1>13. DraftIsNext' /\ RecordHasDraft' /\ CompletedInOutline'
  BY <1>2 DEF DraftIsNext, RecordHasDraft, CompletedInOutline, RecoverFirst,
              NextChapter, LatestCompleted, files
<1>14. HasLatest' /\ NoGaps' /\ QueueMatchesFlow' /\ FinishedIsCertified'
  BY <1>2 DEF HasLatest, NoGaps, QueueMatchesFlow, FinishedIsCertified,
              Finished, files
<1> QED
  BY <1>6, <1>7, <1>8, <1>9, <1>10, <1>11, <1>12, <1>13, <1>14

(* Writing the frozen text touches the chapter of the record only. *)
LEMMA SaveFinalInv ==
  ASSUME IInv, SaveFinal
  PROVE  IInv'
<1> USE DEF IInv, SaveFinal, At, Goto, Idle
<1>1. TypeOK'
  BY DEF TypeOK, Call, Labels, NoCall, PendingCommit, NoPending, Stages,
     Progress
<1>2. CallFollowsRecord'
  BY DEF CallFollowsRecord, TypeOK, Call, NoCall, PendingCommit, NoPending,
     FactStores
<1>3. RecordOfCompleted'
  BY DEF RecordOfCompleted, CallFollowsRecord, TypeOK, Call, NoCall,
     PendingCommit, NoPending, Progress
<1>4. RecordIsApplied'
  BY DEF RecordIsApplied, CallFollowsRecord, TypeOK, Call, NoCall,
     PendingCommit, NoPending, FactStores
<1>5. FactsOfRecord'
  BY DEF FactsOfRecord, CallFollowsRecord, TypeOK, Call, NoCall, PendingCommit,
     NoPending, DoneBefore, DeltaOf
<1>6. CheckpointOfRecord'
  BY DEF CheckpointOfRecord, CallFollowsRecord, RecordIsApplied, TypeOK, Call,
     NoCall, PendingCommit, NoPending
<1>7. UnfinishedIsUntouched'
  BY DEF UnfinishedIsUntouched, CallFollowsRecord, RecordOfCompleted, TypeOK,
     Call, NoCall, PendingCommit, NoPending, Progress
<1>8. DraftIsNext' /\ RecordHasDraft' /\ CompletedInOutline'
  BY DEF DraftIsNext, RecordHasDraft, CompletedInOutline, RecoverFirst,
     NextChapter, LatestCompleted
<1>9. HasLatest' /\ NoGaps'
  BY DEF HasLatest, NoGaps
<1>10. QueueMatchesFlow'
  BY DEF QueueMatchesFlow, TypeOK, Progress
<1>11. FinishedIsCertified'
  BY DEF FinishedIsCertified, Finished, CallFollowsRecord, RecordOfCompleted,
     RecordIsApplied, CheckpointOfRecord, TypeOK, Call, NoCall, PendingCommit,
     NoPending, Progress
<1> QED
  BY <1>1, <1>2, <1>3, <1>4, <1>5, <1>6, <1>7, <1>8, <1>9, <1>10, <1>11

(* Writing the frozen metadata touches the chapter of the record only. *)
LEMMA SaveSummaryInv ==
  ASSUME IInv, SaveSummary
  PROVE  IInv'
<1> USE DEF IInv, SaveSummary, At, Goto, Idle
<1>1. TypeOK'
  BY DEF TypeOK, Call, Labels, NoCall, FactStores
<1>2. CallFollowsRecord'
  BY DEF CallFollowsRecord, TypeOK, Call, NoCall, PendingCommit, NoPending,
     FactStores
<1>3. RecordOfCompleted'
  BY DEF RecordOfCompleted, CallFollowsRecord, TypeOK, Call, NoCall,
     PendingCommit, NoPending, Progress
<1>4. RecordIsApplied'
  BY DEF RecordIsApplied, CallFollowsRecord, TypeOK, Call, NoCall,
     PendingCommit, NoPending, FactStores
<1>5. FactsOfRecord'
  BY DEF FactsOfRecord, CallFollowsRecord, TypeOK, Call, NoCall, PendingCommit,
     NoPending, DoneBefore, DeltaOf
<1>6. CheckpointOfRecord'
  BY DEF CheckpointOfRecord, CallFollowsRecord, RecordIsApplied, TypeOK, Call,
     NoCall, PendingCommit, NoPending
<1>7. UnfinishedIsUntouched'
  BY DEF UnfinishedIsUntouched, CallFollowsRecord, RecordOfCompleted, TypeOK,
     Call, NoCall, PendingCommit, NoPending, Progress
<1>8. DraftIsNext' /\ RecordHasDraft' /\ CompletedInOutline'
  BY DEF DraftIsNext, RecordHasDraft, CompletedInOutline, RecoverFirst,
     NextChapter, LatestCompleted
<1>9. HasLatest' /\ NoGaps'
  BY DEF HasLatest, NoGaps
<1>10. QueueMatchesFlow'
  BY DEF QueueMatchesFlow, TypeOK, Progress
<1>11. FinishedIsCertified'
  BY DEF FinishedIsCertified, Finished, CallFollowsRecord, RecordOfCompleted,
     RecordIsApplied, CheckpointOfRecord, TypeOK, Call, NoCall, PendingCommit,
     NoPending, Progress
<1> QED
  BY <1>1, <1>2, <1>3, <1>4, <1>5, <1>6, <1>7, <1>8, <1>9, <1>10, <1>11

(* Adding the records of one store: a store written by an interrupted attempt
   holds the same payload, so writing it again changes nothing. *)
LEMMA ApplyDeltaInv ==
  ASSUME IInv, ApplyDelta
  PROVE  IInv'
<1> USE DEF IInv
<1>1. PICK s \in FactStores :
        /\ call.pc = s
        /\ facts' = IF s \in Touches[call.payload]
                      THEN [facts EXCEPT ![s][call.chapter] =
                              @ \cup {call.payload}]
                      ELSE facts
        /\ call' = [call EXCEPT !.pc = AfterDelta[s]]
        /\ UNCHANGED <<pending, progress, outline, draft, final, summary,
                       checkpoints>>
  BY DEF ApplyDelta, At, Goto
<1>2. \/ s = "timeline" /\ AfterDelta[s] = "foreshadow"
      \/ s = "foreshadow" /\ AfterDelta[s] = "relationships"
      \/ s = "relationships" /\ AfterDelta[s] = "state_changes"
      \/ s = "state_changes" /\ AfterDelta[s] = "applied"
  BY DEF FactStores, AfterDelta
<1>3. call.pc # "idle"
  BY <1>1, <1>2
<1>4. /\ pending \in PendingCommit /\ pending # NoPending
      /\ pending.stage = "started" /\ ~pending.rewrite
      /\ call \in Call /\ call.chapter = pending.chapter
      /\ call.payload = pending.payload
      /\ call.rewrite = pending.rewrite /\ call.text = pending.text
  BY <1>1, <1>3 DEF CallFollowsRecord, Idle, TypeOK, NoCall
<1>5. /\ call'.pc = AfterDelta[s] /\ call'.chapter = call.chapter
      /\ call'.rewrite = call.rewrite /\ call'.text = call.text
      /\ call'.payload = call.payload /\ call' \in Call
  BY <1>1, <1>2, <1>4 DEF Call, Labels, FactStores
<1>6. pending.chapter \in Chapters /\ pending.payload \in Payload
  BY <1>4 DEF PendingCommit
<1>7. facts \in [FactStores -> [Chapters -> SUBSET Payload]]
  BY DEF TypeOK
<1>8. facts' \in [FactStores -> [Chapters -> SUBSET Payload]]
  BY <1>1, <1>4, <1>6, <1>7
<1>9. \A x \in FactStores : \A c \in Chapters :
        x # s \/ c # pending.chapter => facts'[x][c] = facts[x][c]
  BY <1>1, <1>4, <1>6, <1>7
<1>10. facts'[s][pending.chapter] =
         IF s \in Touches[pending.payload]
           THEN facts[s][pending.chapter] \cup {pending.payload}
           ELSE facts[s][pending.chapter]
  BY <1>1, <1>4, <1>6, <1>7
<1>11. \A x \in FactStores : DeltaOf(pending.payload)[x] =
         IF x \in Touches[pending.payload] THEN {pending.payload} ELSE {}
  BY DEF DeltaOf
<1>12. TypeOK'
  BY <1>1, <1>5, <1>8 DEF TypeOK
<1>13. CallFollowsRecord'
  BY <1>1, <1>2, <1>4, <1>5 DEF CallFollowsRecord, FactStores
<1>14. RecordOfCompleted'
  BY <1>1, <1>2, <1>4, <1>5 DEF RecordOfCompleted
<1>15. RecordIsApplied'
  BY <1>1, <1>2, <1>4, <1>5 DEF RecordIsApplied, FactStores
<1>16. facts'[s][pending.chapter] = DeltaOf(pending.payload)[s]
  BY ZenonT(30), <1>4, <1>10, <1>11 DEF FactsOfRecord
<1>17. \A x \in FactStores :
         /\ facts'[x][pending.chapter] \subseteq DeltaOf(pending.payload)[x]
         /\ x \in DoneBefore(AfterDelta[s]) =>
              facts'[x][pending.chapter] = DeltaOf(pending.payload)[x]
  <2> SUFFICES ASSUME NEW x \in FactStores
               PROVE  /\ facts'[x][pending.chapter]
                           \subseteq DeltaOf(pending.payload)[x]
                      /\ x \in DoneBefore(AfterDelta[s]) =>
                           facts'[x][pending.chapter] =
                             DeltaOf(pending.payload)[x]
    OBVIOUS
  <2>1. CASE x = s
    BY <1>16, <2>1
  <2>2. CASE x # s
    <3>1. facts'[x][pending.chapter] = facts[x][pending.chapter]
      BY <1>6, <1>9, <2>2
    <3>2. x \in DoneBefore(AfterDelta[s]) => x \in DoneBefore(s)
      BY <1>2, <2>2 DEF DoneBefore, FactStores
    <3>3. call.pc = s
      BY <1>1
    <3> QED
      BY <1>4, <3>1, <3>2, <3>3 DEF FactsOfRecord
  <2> QED
    BY <2>1, <2>2
<1>18. FactsOfRecord'
  <2>1. pending' = pending /\ call'.pc = AfterDelta[s]
    BY <1>1, <1>5
  <2> QED
    BY <1>4, <1>17, <2>1 DEF FactsOfRecord, DeltaOf
<1>19. CheckpointOfRecord'
  BY <1>1, <1>2, <1>4, <1>5 DEF CheckpointOfRecord
<1>20. UnfinishedIsUntouched'
  BY <1>1, <1>4, <1>9 DEF UnfinishedIsUntouched
<1>21. DraftIsNext' /\ RecordHasDraft' /\ CompletedInOutline'
  BY <1>1 DEF DraftIsNext, RecordHasDraft, CompletedInOutline, RecoverFirst,
              NextChapter, LatestCompleted
<1>22. HasLatest' /\ NoGaps' /\ QueueMatchesFlow' /\ FinishedIsCertified'
  BY <1>1 DEF HasLatest, NoGaps, QueueMatchesFlow, FinishedIsCertified,
              Finished
<1> QED
  BY <1>12, <1>13, <1>14, <1>15, <1>18, <1>19, <1>20, <1>21, <1>22

(* The record says state_applied once text, metadata and every store are written. *)
LEMMA SaveAppliedInv ==
  ASSUME IInv, SaveApplied
  PROVE  IInv'
<1> USE DEF IInv, SaveApplied, At, Goto, Idle
<1>1. TypeOK'
  BY DEF TypeOK, CallFollowsRecord, Call, Labels, NoCall, PendingCommit,
     NoPending, Stages
<1>2. CallFollowsRecord'
  BY DEF CallFollowsRecord, TypeOK, Call, NoCall, PendingCommit, NoPending,
     FactStores
<1>3. RecordOfCompleted'
  BY DEF RecordOfCompleted, CallFollowsRecord, TypeOK, Call, NoCall,
     PendingCommit, NoPending, Progress
<1>4. RecordIsApplied'
  BY DEF RecordIsApplied, CallFollowsRecord, TypeOK, Call, NoCall,
     PendingCommit, NoPending, FactStores
<1>5. FactsOfRecord'
  BY DEF FactsOfRecord, CallFollowsRecord, DoneBefore, FactStores, TypeOK,
     PendingCommit, NoPending
<1>6. CheckpointOfRecord'
  BY DEF CheckpointOfRecord, CallFollowsRecord, RecordIsApplied, TypeOK, Call,
     NoCall, PendingCommit, NoPending
<1>7. UnfinishedIsUntouched'
  BY DEF UnfinishedIsUntouched, CallFollowsRecord, RecordOfCompleted, TypeOK,
     Call, NoCall, PendingCommit, NoPending, Progress
<1>8. DraftIsNext' /\ RecordHasDraft' /\ CompletedInOutline'
  <2>1. /\ UNCHANGED <<progress, outline, draft>> /\ pending # NoPending
        /\ pending' # NoPending /\ pending'.chapter = pending.chapter
    BY DEF CallFollowsRecord, TypeOK, PendingCommit, NoPending
  <2> HIDE DEF IInv, SaveApplied
  <2>2. DraftIsNext /\ RecordHasDraft /\ CompletedInOutline
    BY DEF IInv
  <2>3. NextChapter' = NextChapter
    BY <2>1 DEF NextChapter, LatestCompleted
  <2> QED
    BY <2>1, <2>2, <2>3 DEF DraftIsNext, RecordHasDraft, CompletedInOutline, RecoverFirst
<1>9. HasLatest' /\ NoGaps'
  BY DEF HasLatest, NoGaps
<1>10. QueueMatchesFlow'
  BY DEF QueueMatchesFlow, TypeOK, Progress
<1>11. FinishedIsCertified'
  BY DEF FinishedIsCertified, Finished, CallFollowsRecord, RecordOfCompleted,
     RecordIsApplied, CheckpointOfRecord, TypeOK, Call, NoCall, PendingCommit,
     NoPending, Progress
<1> QED
  BY <1>1, <1>2, <1>3, <1>4, <1>5, <1>6, <1>7, <1>8, <1>9, <1>10, <1>11

(* LatestCompleted is the largest completed chapter, 0 when there is none. *)
LEMMA LatestIsMax ==
  ASSUME TypeOK, HasLatest
  PROVE  /\ LatestCompleted \in Nat
         /\ \A c \in progress.completed : c <= LatestCompleted
         /\ progress.completed # {} => LatestCompleted \in progress.completed
         /\ progress.completed = {} => LatestCompleted = 0
<1>1. progress.completed \subseteq Chapters
  BY DEF TypeOK, Progress
<1> QED
  BY <1>1 DEF LatestCompleted, HasLatest

(* Completing the chapter of a fresh commit: its draft shows that it is the next
   one, so the completed chapters stay without gaps. *)
LEMMA MarkChapterInv ==
  ASSUME IInv, MarkChapter
  PROVE  IInv'
<1> USE DEF IInv
<1>0. call.pc = "mark"
  BY DEF MarkChapter, At
<1>1. /\ pending \in PendingCommit /\ pending # NoPending
      /\ pending.stage = "state_applied" /\ call.pc = "mark"
      /\ call \in Call /\ call.chapter = pending.chapter
      /\ call.rewrite = pending.rewrite /\ pending.chapter \in Chapters
  BY <1>0 DEF CallFollowsRecord, Idle, TypeOK, NoCall, PendingCommit
<1>2. UNCHANGED <<pending, outline, draft, final, summary, facts, checkpoints>>
  BY DEF MarkChapter
<1>3. call' \in Call /\ call'.chapter = call.chapter
      /\ call'.rewrite = call.rewrite /\ call'.text = call.text
      /\ call'.payload = call.payload
  BY <1>1 DEF MarkChapter, Goto, Call, Labels
<1>4. call'.pc = "complete" /\ ~pending.rewrite
  BY <1>1 DEF MarkChapter, Goto, Call
<1>5. progress \in Progress
  BY DEF TypeOK
<1>6. /\ progress' \in Progress
      /\ progress'.completed = progress.completed \cup {pending.chapter}
      /\ progress'.phase = progress.phase /\ progress'.flow = progress.flow
      /\ progress'.queue = progress.queue
      /\ progress' = progress \/ pending.chapter \notin progress.completed
  <2>1. CASE progress' = progress /\ call.chapter \in progress.completed
    BY <1>1, <1>5, <2>1
  <2>2. CASE /\ progress' = Completing(call.chapter)
             /\ call.chapter \notin progress.completed
    BY <1>1, <1>5, <2>2 DEF Completing, Progress
  <2> QED
    BY <2>1, <2>2 DEF MarkChapter
<1>7. pending.chapter \in progress'.completed
  BY <1>6
<1>8. TypeOK'
  BY <1>2, <1>3, <1>6 DEF TypeOK
<1>9. CallFollowsRecord'
  BY <1>1, <1>2, <1>3, <1>4 DEF CallFollowsRecord, FactStores, Idle
<1>10. RecordOfCompleted' /\ RecordHasDraft'
  BY <1>2, <1>7 DEF RecordOfCompleted, RecordHasDraft
<1>11. RecordIsApplied'
  BY <1>1, <1>2, <1>4 DEF RecordIsApplied, FactStores
<1>12. FactsOfRecord'
  BY <1>1, <1>2, <1>4 DEF FactsOfRecord, DoneBefore
<1>13. CheckpointOfRecord'
  BY <1>1, <1>2, <1>4 DEF CheckpointOfRecord
<1>14. UnfinishedIsUntouched'
  BY <1>2, <1>6 DEF UnfinishedIsUntouched
<1>15. DraftIsNext'
  BY <1>1, <1>2, <1>6 DEF DraftIsNext, RecoverFirst
<1>16. pending.chapter \notin progress.completed =>
         pending.chapter = LatestCompleted + 1
         /\ pending.chapter <= outline.chapters
  BY <1>1 DEF RecordHasDraft, DraftIsNext, NextChapter
<1>17. CompletedInOutline'
  BY <1>2, <1>6, <1>16 DEF CompletedInOutline
<1>18. HasLatest' /\ NoGaps'
  <2>1. CASE progress' = progress
    BY <2>1 DEF HasLatest, NoGaps
  <2>2. CASE pending.chapter \notin progress.completed
    <3>1. /\ pending.chapter = LatestCompleted + 1
          /\ \A c \in progress.completed : c <= LatestCompleted
          /\ progress.completed # {} =>
               LatestCompleted \in progress.completed
          /\ progress.completed = {} => LatestCompleted = 0
          /\ LatestCompleted \in Nat
      BY <1>16, <2>2, LatestIsMax
    <3>2. progress.completed \subseteq Chapters
      BY DEF TypeOK, Progress
    <3>3. \A c \in progress'.completed : c <= pending.chapter
      <4> SUFFICES ASSUME NEW c \in progress'.completed
                   PROVE  c <= pending.chapter
        OBVIOUS
      <4>1. CASE c \in progress.completed
        <5>1. c \in Nat /\ c <= LatestCompleted
          BY <3>1, <3>2, <4>1
        <5> HIDE DEF IInv
        <5> QED
          BY <3>1, <5>1
      <4>2. CASE c = pending.chapter
        BY <3>1, <4>2
      <4> QED
        BY <1>6, <4>1, <4>2
    <3>4. \A c \in Chapters : c <= pending.chapter =>
            c \in progress'.completed
      BY <1>6, <3>1, <3>2 DEF NoGaps
    <3>5. NoGaps'
      BY <1>6, <3>4 DEF NoGaps
    <3> QED
      BY <1>7, <3>3, <3>5 DEF HasLatest
  <2> QED
    BY <1>6, <2>1, <2>2
<1>19. QueueMatchesFlow'
  BY <1>6 DEF QueueMatchesFlow
<1>20. FinishedIsCertified'
  BY <1>2, <1>6 DEF FinishedIsCertified, Finished
<1> QED
  BY <1>8, <1>9, <1>10, <1>11, <1>12, <1>13, <1>14, <1>15, <1>17, <1>18,
     <1>19, <1>20

(* Marking a rewritten chapter completed again adds no chapter. *)
LEMMA MarkRewrittenInv ==
  ASSUME IInv, MarkRewritten
  PROVE  IInv'
<1> USE DEF IInv
<1>0. call.pc = "mark"
  BY DEF MarkRewritten, At
<1>1. /\ pending \in PendingCommit /\ pending # NoPending
      /\ pending.stage = "state_applied" /\ call.pc = "mark"
      /\ call \in Call /\ call.chapter = pending.chapter
      /\ call.rewrite = pending.rewrite /\ pending.chapter \in Chapters
  BY <1>0 DEF CallFollowsRecord, Idle, TypeOK, NoCall, PendingCommit
<1>2. UNCHANGED <<pending, outline, draft, final, summary, facts, checkpoints>>
  BY DEF MarkRewritten
<1>3. call' \in Call /\ call'.chapter = call.chapter
      /\ call'.rewrite = call.rewrite /\ call'.text = call.text
      /\ call'.payload = call.payload
  BY <1>1 DEF MarkRewritten, Goto, Call, Labels
<1>4. call'.pc \in {"drain", "complete"} /\ pending.rewrite
  BY <1>1 DEF MarkRewritten, Goto, Call
<1>5. progress \in Progress /\ pending.chapter \in progress.completed
  BY <1>1, <1>4 DEF TypeOK, RecordOfCompleted
<1>6. /\ progress' \in Progress
      /\ progress'.completed = progress.completed
      /\ progress'.phase = progress.phase /\ progress'.flow = progress.flow
      /\ progress'.queue = progress.queue
  <2>1. CASE progress' = progress
    BY <1>5, <2>1
  <2>2. CASE progress' = Completing(call.chapter)
    <3>1. progress.completed \cup {call.chapter} = progress.completed
      BY <1>1, <1>5
    <3> QED
      BY <1>1, <1>5, <2>2, <3>1 DEF Completing, Progress
  <2> QED
    BY <2>1, <2>2 DEF MarkRewritten
<1>7. \A c \in Chapters \ progress.completed : draft[c] = None
  BY <1>1, <1>5 DEF DraftIsNext, RecoverFirst
<1>8. TypeOK'
  BY <1>2, <1>3, <1>6 DEF TypeOK
<1>9. CallFollowsRecord'
  BY <1>1, <1>2, <1>3, <1>4 DEF CallFollowsRecord, FactStores, Idle
<1>10. RecordOfCompleted' /\ RecordHasDraft'
  BY <1>2, <1>5, <1>6 DEF RecordOfCompleted, RecordHasDraft
<1>11. RecordIsApplied'
  BY <1>1, <1>2, <1>4 DEF RecordIsApplied, FactStores
<1>12. FactsOfRecord'
  BY <1>1, <1>2, <1>4 DEF FactsOfRecord, DoneBefore
<1>13. CheckpointOfRecord'
  BY <1>1, <1>2, <1>4 DEF CheckpointOfRecord
<1>14. UnfinishedIsUntouched'
  BY <1>2, <1>6 DEF UnfinishedIsUntouched
<1>15. DraftIsNext' /\ CompletedInOutline'
  BY <1>2, <1>6, <1>7 DEF DraftIsNext, CompletedInOutline
<1>16. HasLatest' /\ NoGaps' /\ QueueMatchesFlow'
  BY <1>6 DEF HasLatest, NoGaps, QueueMatchesFlow
<1>17. FinishedIsCertified'
  BY <1>2, <1>6 DEF FinishedIsCertified, Finished
<1> QED
  BY <1>8, <1>9, <1>10, <1>11, <1>12, <1>13, <1>14, <1>15, <1>16, <1>17

(* Taking the rewritten chapter off the queue. *)
LEMMA DrainQueueInv ==
  ASSUME IInv, DrainQueue
  PROVE  IInv'
<1> USE DEF IInv, DrainQueue, At, Goto, Idle
<1>1. TypeOK'
  <2>1. call \in Call /\ call.chapter \in Chapters
    BY DEF TypeOK, NoCall, Call
  <2>2. call' \in Call
    BY <2>1 DEF Call, Labels
  <2>3. progress' \in Progress
    BY <2>1 DEF TypeOK, Progress
  <2> QED
    BY <2>2, <2>3 DEF TypeOK
<1>2. CallFollowsRecord'
  BY DEF CallFollowsRecord, TypeOK, Call, NoCall, PendingCommit, NoPending,
     FactStores
<1>3. RecordOfCompleted'
  BY DEF RecordOfCompleted, CallFollowsRecord, TypeOK, Call, NoCall,
     PendingCommit, NoPending, Progress
<1>4. RecordIsApplied'
  BY DEF RecordIsApplied, CallFollowsRecord, TypeOK, Call, NoCall,
     PendingCommit, NoPending, FactStores
<1>5. FactsOfRecord'
  BY DEF FactsOfRecord, CallFollowsRecord, TypeOK, Call, NoCall, PendingCommit,
     NoPending, DoneBefore, DeltaOf
<1>6. CheckpointOfRecord'
  BY DEF CheckpointOfRecord, CallFollowsRecord, RecordIsApplied, TypeOK, Call,
     NoCall, PendingCommit, NoPending
<1>7. UnfinishedIsUntouched'
  BY DEF UnfinishedIsUntouched, CallFollowsRecord, RecordOfCompleted, TypeOK,
     Call, NoCall, PendingCommit, NoPending, Progress
<1>8. DraftIsNext' /\ RecordHasDraft' /\ CompletedInOutline'
  BY DEF DraftIsNext, RecordHasDraft, CompletedInOutline, RecoverFirst,
     CallFollowsRecord, RecordOfCompleted, NextChapter, LatestCompleted, TypeOK,
     Call, NoCall, PendingCommit, NoPending, Progress
<1>9. HasLatest' /\ NoGaps'
  BY DEF HasLatest, NoGaps
<1>10. QueueMatchesFlow'
  BY DEF QueueMatchesFlow, TypeOK, Progress
<1>11. FinishedIsCertified'
  BY DEF FinishedIsCertified, Finished, CallFollowsRecord, RecordOfCompleted,
     RecordIsApplied, CheckpointOfRecord, TypeOK, Call, NoCall, PendingCommit,
     NoPending, Progress
<1> QED
  BY <1>1, <1>2, <1>3, <1>4, <1>5, <1>6, <1>7, <1>8, <1>9, <1>10, <1>11

(* Completing the book leaves no unfinished draft behind. *)
LEMMA ApplyCompletionInv ==
  ASSUME IInv, ApplyCompletion
  PROVE  IInv'
<1> USE DEF IInv, ApplyCompletion, At, Goto, Idle, MarkedComplete
<1>1. TypeOK'
  <2>1. call \in Call /\ call.chapter \in Chapters
    BY DEF TypeOK, NoCall, Call
  <2>2. call' \in Call
    BY <2>1 DEF Call, Labels
  <2>3. progress' \in Progress
    BY <2>1 DEF TypeOK, Progress
  <2> QED
    BY <2>2, <2>3 DEF TypeOK
<1>2. CallFollowsRecord'
  BY DEF CallFollowsRecord, TypeOK, Call, NoCall, PendingCommit, NoPending,
     FactStores
<1>3. RecordOfCompleted'
  BY DEF RecordOfCompleted, CallFollowsRecord, TypeOK, Call, NoCall,
     PendingCommit, NoPending, Progress
<1>4. RecordIsApplied'
  BY DEF RecordIsApplied, CallFollowsRecord, TypeOK, Call, NoCall,
     PendingCommit, NoPending, FactStores
<1>5. FactsOfRecord'
  BY DEF FactsOfRecord, CallFollowsRecord, TypeOK, Call, NoCall, PendingCommit,
     NoPending, DoneBefore, DeltaOf
<1>6. CheckpointOfRecord'
  BY DEF CheckpointOfRecord, CallFollowsRecord, RecordIsApplied, TypeOK, Call,
     NoCall, PendingCommit, NoPending
<1>7. UnfinishedIsUntouched'
  BY DEF UnfinishedIsUntouched, CallFollowsRecord, RecordOfCompleted, TypeOK,
     Call, NoCall, PendingCommit, NoPending, Progress
<1>8. DraftIsNext' /\ RecordHasDraft' /\ CompletedInOutline'
  BY DEF DraftIsNext, RecordHasDraft, CompletedInOutline, RecoverFirst,
     CallFollowsRecord, RecordOfCompleted, NextChapter, LatestCompleted, TypeOK,
     Call, NoCall, PendingCommit, NoPending, Progress
<1>9. HasLatest' /\ NoGaps'
  BY DEF HasLatest, NoGaps
<1>10. QueueMatchesFlow'
  BY DEF QueueMatchesFlow, TypeOK, Progress
<1>11. FinishedIsCertified'
  BY DEF FinishedIsCertified, Finished, CallFollowsRecord, RecordOfCompleted,
     RecordIsApplied, CheckpointOfRecord, TypeOK, Call, NoCall, PendingCommit,
     NoPending, Progress
<1> QED
  BY <1>1, <1>2, <1>3, <1>4, <1>5, <1>6, <1>7, <1>8, <1>9, <1>10, <1>11

(* The record says progress_marked once its chapter is completed. *)
LEMMA SaveMarkedInv ==
  ASSUME IInv, SaveMarked
  PROVE  IInv'
<1> USE DEF IInv, SaveMarked, At, Goto, Idle
<1>1. TypeOK'
  BY DEF TypeOK, CallFollowsRecord, Call, Labels, NoCall, PendingCommit,
     NoPending, Stages
<1>2. CallFollowsRecord'
  BY DEF CallFollowsRecord, TypeOK, Call, NoCall, PendingCommit, NoPending,
     FactStores
<1>3. RecordOfCompleted'
  BY DEF RecordOfCompleted, CallFollowsRecord, TypeOK, Call, NoCall,
     PendingCommit, NoPending, Progress
<1>4. RecordIsApplied'
  BY DEF RecordIsApplied, CallFollowsRecord, TypeOK, Call, NoCall,
     PendingCommit, NoPending, FactStores
<1>5. FactsOfRecord'
  BY DEF FactsOfRecord, CallFollowsRecord, TypeOK, Call, NoCall, PendingCommit,
     NoPending, DoneBefore, DeltaOf
<1>6. CheckpointOfRecord'
  BY DEF CheckpointOfRecord, CallFollowsRecord, RecordIsApplied, TypeOK, Call,
     NoCall, PendingCommit, NoPending
<1>7. UnfinishedIsUntouched'
  BY DEF UnfinishedIsUntouched, CallFollowsRecord, RecordOfCompleted, TypeOK,
     Call, NoCall, PendingCommit, NoPending, Progress
<1>8. DraftIsNext' /\ RecordHasDraft' /\ CompletedInOutline'
  BY DEF DraftIsNext, RecordHasDraft, CompletedInOutline, RecoverFirst,
     CallFollowsRecord, RecordOfCompleted, NextChapter, LatestCompleted, TypeOK,
     Call, NoCall, PendingCommit, NoPending, Progress
<1>9. HasLatest' /\ NoGaps'
  BY DEF HasLatest, NoGaps
<1>10. QueueMatchesFlow'
  BY DEF QueueMatchesFlow, TypeOK, Progress
<1>11. FinishedIsCertified'
  BY DEF FinishedIsCertified, Finished, CallFollowsRecord, RecordOfCompleted,
     RecordIsApplied, CheckpointOfRecord, TypeOK, Call, NoCall, PendingCommit,
     NoPending, Progress
<1> QED
  BY <1>1, <1>2, <1>3, <1>4, <1>5, <1>6, <1>7, <1>8, <1>9, <1>10, <1>11

(* The digest taken from disk is that of the frozen text and metadata. *)
LEMMA AppendCheckpointInv ==
  ASSUME IInv, AppendCheckpoint
  PROVE  IInv'
<1> USE DEF IInv, AppendCheckpoint, At, Goto, Idle
<1>1. TypeOK'
  <2>1. call \in Call /\ pending # NoPending
        /\ call.chapter = pending.chapter /\ pending.stage = "progress_marked"
    BY DEF TypeOK, NoCall, CallFollowsRecord
  <2>2. call' \in Call
    BY <2>1 DEF Call, Labels
  <2>3. pending \in PendingCommit
    BY <2>1 DEF TypeOK
  <2>4. final[call.chapter] \in Text /\ summary[call.chapter] \in Payload
        /\ call.chapter \in Chapters
    BY <2>1, <2>3 DEF RecordIsApplied, PendingCommit
  <2>5. checkpoints' \subseteq Chapters \X Text \X Payload
    BY <2>4 DEF TypeOK
  <2> QED
    BY <2>2, <2>5 DEF TypeOK
<1>2. CallFollowsRecord'
  BY DEF CallFollowsRecord, TypeOK, Call, NoCall, PendingCommit, NoPending,
     FactStores
<1>3. RecordOfCompleted'
  BY DEF RecordOfCompleted, CallFollowsRecord, TypeOK, Call, NoCall,
     PendingCommit, NoPending, Progress
<1>4. RecordIsApplied'
  BY DEF RecordIsApplied, CallFollowsRecord, TypeOK, Call, NoCall,
     PendingCommit, NoPending, FactStores
<1>5. FactsOfRecord'
  BY DEF FactsOfRecord, CallFollowsRecord, TypeOK, Call, NoCall, PendingCommit,
     NoPending, DoneBefore, DeltaOf
<1>6. CheckpointOfRecord'
  BY DEF CheckpointOfRecord, CallFollowsRecord, RecordIsApplied, TypeOK, Call,
     NoCall, PendingCommit, NoPending
<1>7. UnfinishedIsUntouched'
  BY DEF UnfinishedIsUntouched, CallFollowsRecord, RecordOfCompleted, TypeOK,
     Call, NoCall, PendingCommit, NoPending, Progress
<1>8. DraftIsNext' /\ RecordHasDraft' /\ CompletedInOutline'
  BY DEF DraftIsNext, RecordHasDraft, CompletedInOutline, RecoverFirst,
     CallFollowsRecord, RecordOfCompleted, NextChapter, LatestCompleted, TypeOK,
     Call, NoCall, PendingCommit, NoPending, Progress
<1>9. HasLatest' /\ NoGaps'
  BY DEF HasLatest, NoGaps
<1>10. QueueMatchesFlow'
  BY DEF QueueMatchesFlow, TypeOK, Progress
<1>11. FinishedIsCertified'
  BY DEF FinishedIsCertified, Finished, CallFollowsRecord, RecordOfCompleted,
     RecordIsApplied, CheckpointOfRecord, TypeOK, Call, NoCall, PendingCommit,
     NoPending, Progress
<1> QED
  BY <1>1, <1>2, <1>3, <1>4, <1>5, <1>6, <1>7, <1>8, <1>9, <1>10, <1>11

(* The record says signal_saved once the checkpoint exists. *)
LEMMA SaveSignalInv ==
  ASSUME IInv, SaveSignal
  PROVE  IInv'
<1> USE DEF IInv, SaveSignal, At, Goto, Idle
<1>1. TypeOK'
  BY DEF TypeOK, CallFollowsRecord, Call, Labels, NoCall, PendingCommit,
     NoPending, Stages
<1>2. CallFollowsRecord'
  BY DEF CallFollowsRecord, TypeOK, Call, NoCall, PendingCommit, NoPending,
     FactStores
<1>3. RecordOfCompleted'
  BY DEF RecordOfCompleted, CallFollowsRecord, TypeOK, Call, NoCall,
     PendingCommit, NoPending, Progress
<1>4. RecordIsApplied'
  BY DEF RecordIsApplied, CallFollowsRecord, TypeOK, Call, NoCall,
     PendingCommit, NoPending, FactStores
<1>5. FactsOfRecord'
  BY DEF FactsOfRecord, CallFollowsRecord, TypeOK, Call, NoCall, PendingCommit,
     NoPending, DoneBefore, DeltaOf
<1>6. CheckpointOfRecord'
  BY DEF CheckpointOfRecord, CallFollowsRecord, RecordIsApplied, TypeOK, Call,
     NoCall, PendingCommit, NoPending
<1>7. UnfinishedIsUntouched'
  BY DEF UnfinishedIsUntouched, CallFollowsRecord, RecordOfCompleted, TypeOK,
     Call, NoCall, PendingCommit, NoPending, Progress
<1>8. DraftIsNext' /\ RecordHasDraft' /\ CompletedInOutline'
  BY DEF DraftIsNext, RecordHasDraft, CompletedInOutline, RecoverFirst,
     CallFollowsRecord, RecordOfCompleted, NextChapter, LatestCompleted, TypeOK,
     Call, NoCall, PendingCommit, NoPending, Progress
<1>9. HasLatest' /\ NoGaps'
  BY DEF HasLatest, NoGaps
<1>10. QueueMatchesFlow'
  BY DEF QueueMatchesFlow, TypeOK, Progress
<1>11. FinishedIsCertified'
  BY DEF FinishedIsCertified, Finished, CallFollowsRecord, RecordOfCompleted,
     RecordIsApplied, CheckpointOfRecord, TypeOK, Call, NoCall, PendingCommit,
     NoPending, Progress
<1> QED
  BY <1>1, <1>2, <1>3, <1>4, <1>5, <1>6, <1>7, <1>8, <1>9, <1>10, <1>11

(* Releasing the protection of the committed chapter. *)
LEMMA ClearInProgressInv ==
  ASSUME IInv, ClearInProgress
  PROVE  IInv'
<1> USE DEF IInv, ClearInProgress, At, Goto, Idle
<1>1. TypeOK'
  <2>1. call \in Call /\ call.chapter \in Chapters
    BY DEF TypeOK, NoCall, Call
  <2>2. call' \in Call
    BY <2>1 DEF Call, Labels
  <2>3. progress' \in Progress
    BY <2>1 DEF TypeOK, Progress
  <2> QED
    BY <2>2, <2>3 DEF TypeOK
<1>2. CallFollowsRecord'
  BY DEF CallFollowsRecord, TypeOK, Call, NoCall, PendingCommit, NoPending,
     FactStores
<1>3. RecordOfCompleted'
  BY DEF RecordOfCompleted, CallFollowsRecord, TypeOK, Call, NoCall,
     PendingCommit, NoPending, Progress
<1>4. RecordIsApplied'
  BY DEF RecordIsApplied, CallFollowsRecord, TypeOK, Call, NoCall,
     PendingCommit, NoPending, FactStores
<1>5. FactsOfRecord'
  BY DEF FactsOfRecord, CallFollowsRecord, TypeOK, Call, NoCall, PendingCommit,
     NoPending, DoneBefore, DeltaOf
<1>6. CheckpointOfRecord'
  BY DEF CheckpointOfRecord, CallFollowsRecord, RecordIsApplied, TypeOK, Call,
     NoCall, PendingCommit, NoPending
<1>7. UnfinishedIsUntouched'
  BY DEF UnfinishedIsUntouched, CallFollowsRecord, RecordOfCompleted, TypeOK,
     Call, NoCall, PendingCommit, NoPending, Progress
<1>8. DraftIsNext' /\ RecordHasDraft' /\ CompletedInOutline'
  BY ZenonT(30), SMTT(30) DEF DraftIsNext, RecordHasDraft, CompletedInOutline, RecoverFirst,
     CallFollowsRecord, RecordOfCompleted, NextChapter, LatestCompleted, TypeOK,
     Call, NoCall, PendingCommit, NoPending, Progress
<1>9. HasLatest' /\ NoGaps'
  BY DEF HasLatest, NoGaps
<1>10. QueueMatchesFlow'
  BY DEF QueueMatchesFlow, TypeOK, Progress
<1>11. FinishedIsCertified'
  BY DEF FinishedIsCertified, Finished, CallFollowsRecord, RecordOfCompleted,
     RecordIsApplied, CheckpointOfRecord, TypeOK, Call, NoCall, PendingCommit,
     NoPending, Progress
<1> QED
  BY <1>1, <1>2, <1>3, <1>4, <1>5, <1>6, <1>7, <1>8, <1>9, <1>10, <1>11

(* Removing the record: the checkpoint now certifies the finished chapter. *)
LEMMA ClearPendingInv ==
  ASSUME IInv, ClearPending
  PROVE  IInv'
<1> USE DEF IInv, ClearPending, At, Goto, Idle
<1>1. TypeOK'
  BY DEF TypeOK, Call, Labels, NoCall, PendingCommit, NoPending, Stages,
     Progress
<1>2. CallFollowsRecord'
  BY DEF CallFollowsRecord, TypeOK, Call, NoCall, PendingCommit, NoPending,
     FactStores
<1>3. RecordOfCompleted'
  BY DEF RecordOfCompleted, CallFollowsRecord, TypeOK, Call, NoCall,
     PendingCommit, NoPending, Progress
<1>4. RecordIsApplied'
  BY DEF RecordIsApplied, CallFollowsRecord, TypeOK, Call, NoCall,
     PendingCommit, NoPending, FactStores
<1>5. FactsOfRecord'
  BY DEF FactsOfRecord, CallFollowsRecord, TypeOK, Call, NoCall, PendingCommit,
     NoPending, DoneBefore, DeltaOf
<1>6. CheckpointOfRecord'
  BY DEF CheckpointOfRecord, CallFollowsRecord, RecordIsApplied, TypeOK, Call,
     NoCall, PendingCommit, NoPending
<1>7. UnfinishedIsUntouched'
  BY DEF UnfinishedIsUntouched, CallFollowsRecord, RecordOfCompleted, TypeOK,
     Call, NoCall, PendingCommit, NoPending, Progress
<1>8. DraftIsNext' /\ RecordHasDraft' /\ CompletedInOutline'
  BY DEF DraftIsNext, RecordHasDraft, CompletedInOutline, RecoverFirst,
     CallFollowsRecord, RecordOfCompleted, NextChapter, LatestCompleted, TypeOK,
     Call, NoCall, PendingCommit, NoPending, Progress
<1>9. HasLatest' /\ NoGaps'
  BY DEF HasLatest, NoGaps
<1>10. QueueMatchesFlow'
  BY DEF QueueMatchesFlow, TypeOK, Progress
<1>11. FinishedIsCertified'
  BY DEF FinishedIsCertified, Finished, CallFollowsRecord, RecordOfCompleted,
     RecordIsApplied, CheckpointOfRecord, TypeOK, Call, NoCall, PendingCommit,
     NoPending, Progress
<1> QED
  BY <1>1, <1>2, <1>3, <1>4, <1>5, <1>6, <1>7, <1>8, <1>9, <1>10, <1>11

(* Losing the running call keeps what the record says about the files. *)
LEMMA InterruptInv ==
  ASSUME IInv, Interrupt
  PROVE  IInv'
<1> USE DEF IInv, Interrupt, Idle, files
<1>1. TypeOK'
  BY DEF TypeOK, Call, Labels, NoCall, PendingCommit, NoPending, Stages,
     Progress
<1>2. CallFollowsRecord'
  BY DEF CallFollowsRecord, TypeOK, Call, NoCall, PendingCommit, NoPending,
     FactStores
<1>3. RecordOfCompleted'
  BY DEF RecordOfCompleted, CallFollowsRecord, TypeOK, Call, NoCall,
     PendingCommit, NoPending, Progress
<1>4. RecordIsApplied'
  BY DEF RecordIsApplied, CallFollowsRecord, TypeOK, Call, NoCall,
     PendingCommit, NoPending, FactStores
<1>5. FactsOfRecord'
  BY DEF FactsOfRecord, CallFollowsRecord, TypeOK, Call, NoCall, PendingCommit,
     NoPending, DoneBefore, DeltaOf
<1>6. CheckpointOfRecord'
  BY DEF CheckpointOfRecord, CallFollowsRecord, RecordIsApplied, TypeOK, Call,
     NoCall, PendingCommit, NoPending
<1>7. UnfinishedIsUntouched'
  BY DEF UnfinishedIsUntouched, CallFollowsRecord, RecordOfCompleted, TypeOK,
     Call, NoCall, PendingCommit, NoPending, Progress
<1>8. DraftIsNext' /\ RecordHasDraft' /\ CompletedInOutline'
  BY DEF DraftIsNext, RecordHasDraft, CompletedInOutline, RecoverFirst,
     NextChapter, LatestCompleted
<1>9. HasLatest' /\ NoGaps'
  BY DEF HasLatest, NoGaps
<1>10. QueueMatchesFlow'
  BY DEF QueueMatchesFlow, TypeOK, Progress
<1>11. FinishedIsCertified'
  BY DEF FinishedIsCertified, Finished, CallFollowsRecord, RecordOfCompleted,
     RecordIsApplied, CheckpointOfRecord, TypeOK, Call, NoCall, PendingCommit,
     NoPending, Progress
<1> QED
  BY <1>1, <1>2, <1>3, <1>4, <1>5, <1>6, <1>7, <1>8, <1>9, <1>10, <1>11

(* Drafting: only the next chapter, or a queued and hence completed one. *)
LEMMA WriteDraftInv ==
  ASSUME IInv, NEW ch \in Chapters, NEW t \in Text, RecoverFirst(ch),
         WriteDraft(ch, t)
  PROVE  IInv'
<1> USE DEF IInv, WriteDraft, Idle, ChapterWorkAllowed, RecoverFirst
<1>1. TypeOK'
  BY DEF TypeOK, Call, Labels, NoCall, PendingCommit, NoPending, Stages,
     Progress
<1>2. CallFollowsRecord'
  BY DEF CallFollowsRecord, TypeOK, Call, NoCall, PendingCommit, NoPending,
     FactStores
<1>3. RecordOfCompleted'
  BY DEF RecordOfCompleted, CallFollowsRecord, TypeOK, Call, NoCall,
     PendingCommit, NoPending, Progress
<1>4. RecordIsApplied'
  BY DEF RecordIsApplied, CallFollowsRecord, TypeOK, Call, NoCall,
     PendingCommit, NoPending, FactStores
<1>5. FactsOfRecord'
  BY DEF FactsOfRecord, CallFollowsRecord, TypeOK, Call, NoCall, PendingCommit,
     NoPending, DoneBefore, DeltaOf
<1>6. CheckpointOfRecord'
  BY DEF CheckpointOfRecord, CallFollowsRecord, RecordIsApplied, TypeOK, Call,
     NoCall, PendingCommit, NoPending
<1>7. UnfinishedIsUntouched'
  BY DEF UnfinishedIsUntouched, CallFollowsRecord, RecordOfCompleted, TypeOK,
     Call, NoCall, PendingCommit, NoPending, Progress
<1>8. DraftIsNext' /\ RecordHasDraft' /\ CompletedInOutline'
  <2>1. progress \in Progress /\ progress' \in Progress
        /\ progress'.completed = progress.completed
        /\ progress'.phase = progress.phase /\ progress'.queue = progress.queue
    BY <1>1 DEF TypeOK, Progress
  <2>2. progress'.inProgress = ch /\ progress.phase = "writing"
        /\ UNCHANGED <<pending, outline>>
    BY DEF TypeOK, Progress
  <2>3. LatestCompleted' = LatestCompleted /\ NextChapter' = NextChapter
    BY <2>1 DEF LatestCompleted, NextChapter
  <2>4. \A c \in Chapters : c # ch => draft'[c] = draft[c]
    BY DEF TypeOK
  <2>4a. draft'[ch] = t /\ t # None
    BY DEF TypeOK
  <2>5. ch \notin progress.completed => ch = NextChapter /\ progress.queue = {}
                                         /\ ch <= outline.chapters
    BY DEF QueueMatchesFlow, TypeOK, Progress
  <2>6. ch \in progress.completed => progress.queue # {}
    <3> SUFFICES ASSUME ch \in progress.completed PROVE ch \in progress.queue
      OBVIOUS
    <3>1. ch # NextChapter
      BY LatestIsMax DEF NextChapter
    <3> QED
      BY <3>1
  <2>7. DraftIsNext'
    <3> SUFFICES ASSUME NEW c \in Chapters, c \notin progress.completed,
                        draft'[c] # None
                 PROVE  /\ ch = c /\ c = NextChapter /\ c <= outline.chapters
                        /\ progress.queue = {} /\ RecoverFirst(c)
      BY <2>1, <2>2, <2>3 DEF DraftIsNext, RecoverFirst
    <3>1. CASE c = ch
      BY <2>5, <3>1
    <3>2. CASE c # ch
      <4>1. c = NextChapter /\ progress.queue = {}
        BY <2>4, <3>2 DEF DraftIsNext
      <4> QED
        BY <2>5, <2>6, <3>2, <4>1
    <3> QED
      BY <3>1, <3>2
  <2>8. RecordHasDraft'
    BY <2>1, <2>2, <2>4, <2>4a DEF RecordHasDraft, TypeOK, PendingCommit,
       NoPending
  <2>9. CompletedInOutline'
    BY <2>1, <2>2 DEF CompletedInOutline
  <2> QED
    BY <2>7, <2>8, <2>9
<1>9. HasLatest' /\ NoGaps'
  BY DEF HasLatest, NoGaps
<1>10. QueueMatchesFlow'
  BY DEF QueueMatchesFlow, TypeOK, Progress
<1>11. FinishedIsCertified'
  BY DEF FinishedIsCertified, Finished, CallFollowsRecord, RecordOfCompleted,
     RecordIsApplied, CheckpointOfRecord, TypeOK, Call, NoCall, PendingCommit,
     NoPending, Progress
<1> QED
  BY <1>1, <1>2, <1>3, <1>4, <1>5, <1>6, <1>7, <1>8, <1>9, <1>10, <1>11

(* Rebuilding the draft of the next chapter keeps its protection. *)
LEMMA RebuildDraftInv ==
  ASSUME IInv, NEW ch \in Chapters, NEW t \in Text, RecoverFirst(ch),
         RebuildDraft(ch, t)
  PROVE  IInv'
<1> USE DEF IInv, RebuildDraft, Idle, RecoverFirst
<1>1. TypeOK'
  BY DEF TypeOK, Call, Labels, NoCall, PendingCommit, NoPending, Stages,
     Progress
<1>2. CallFollowsRecord'
  BY DEF CallFollowsRecord, TypeOK, Call, NoCall, PendingCommit, NoPending,
     FactStores
<1>3. RecordOfCompleted'
  BY DEF RecordOfCompleted, CallFollowsRecord, TypeOK, Call, NoCall,
     PendingCommit, NoPending, Progress
<1>4. RecordIsApplied'
  BY DEF RecordIsApplied, CallFollowsRecord, TypeOK, Call, NoCall,
     PendingCommit, NoPending, FactStores
<1>5. FactsOfRecord'
  BY DEF FactsOfRecord, CallFollowsRecord, TypeOK, Call, NoCall, PendingCommit,
     NoPending, DoneBefore, DeltaOf
<1>6. CheckpointOfRecord'
  BY DEF CheckpointOfRecord, CallFollowsRecord, RecordIsApplied, TypeOK, Call,
     NoCall, PendingCommit, NoPending
<1>7. UnfinishedIsUntouched'
  BY DEF UnfinishedIsUntouched, CallFollowsRecord, RecordOfCompleted, TypeOK,
     Call, NoCall, PendingCommit, NoPending, Progress
<1>8. DraftIsNext' /\ RecordHasDraft' /\ CompletedInOutline'
  <2>1. \A c \in Chapters : draft'[c] # None <=> draft[c] # None
    BY DEF TypeOK
  <2>2. UNCHANGED <<pending, progress, outline>>
    OBVIOUS
  <2>3. pending # NoPending => pending.chapter \in Chapters
    BY DEF TypeOK, PendingCommit
  <2>4. DraftIsNext'
    BY <2>1, <2>2 DEF DraftIsNext, RecoverFirst, NextChapter, LatestCompleted
  <2> QED
    BY <2>1, <2>2, <2>3, <2>4 DEF RecordHasDraft, CompletedInOutline
<1>9. HasLatest' /\ NoGaps'
  BY DEF HasLatest, NoGaps
<1>10. QueueMatchesFlow'
  BY DEF QueueMatchesFlow, TypeOK, Progress
<1>11. FinishedIsCertified'
  BY DEF FinishedIsCertified, Finished, CallFollowsRecord, RecordOfCompleted,
     RecordIsApplied, CheckpointOfRecord, TypeOK, Call, NoCall, PendingCommit,
     NoPending, Progress
<1> QED
  BY <1>1, <1>2, <1>3, <1>4, <1>5, <1>6, <1>7, <1>8, <1>9, <1>10, <1>11

(* Reopening a finished book queues completed chapters only. *)
LEMMA ReopenInv ==
  ASSUME IInv, NEW chs \in SUBSET Chapters, Reopen(chs)
  PROVE  IInv'
<1> USE DEF IInv, Reopen, Idle
<1>1. TypeOK'
  BY DEF TypeOK, Call, Labels, NoCall, PendingCommit, NoPending, Stages,
     Progress
<1>2. CallFollowsRecord'
  BY DEF CallFollowsRecord, TypeOK, Call, NoCall, PendingCommit, NoPending,
     FactStores
<1>3. RecordOfCompleted'
  BY DEF RecordOfCompleted, CallFollowsRecord, TypeOK, Call, NoCall,
     PendingCommit, NoPending, Progress
<1>4. RecordIsApplied'
  BY DEF RecordIsApplied, CallFollowsRecord, TypeOK, Call, NoCall,
     PendingCommit, NoPending, FactStores
<1>5. FactsOfRecord'
  BY DEF FactsOfRecord, CallFollowsRecord, TypeOK, Call, NoCall, PendingCommit,
     NoPending, DoneBefore, DeltaOf
<1>6. CheckpointOfRecord'
  BY DEF CheckpointOfRecord, CallFollowsRecord, RecordIsApplied, TypeOK, Call,
     NoCall, PendingCommit, NoPending
<1>7. UnfinishedIsUntouched'
  BY DEF UnfinishedIsUntouched, CallFollowsRecord, RecordOfCompleted, TypeOK,
     Call, NoCall, PendingCommit, NoPending, Progress
<1>8. DraftIsNext' /\ RecordHasDraft' /\ CompletedInOutline'
  BY DEF DraftIsNext, RecordHasDraft, CompletedInOutline, RecoverFirst,
     CallFollowsRecord, RecordOfCompleted, NextChapter, LatestCompleted, TypeOK,
     Call, NoCall, PendingCommit, NoPending, Progress
<1>9. HasLatest' /\ NoGaps'
  BY DEF HasLatest, NoGaps
<1>10. QueueMatchesFlow'
  BY DEF QueueMatchesFlow, TypeOK, Progress
<1>11. FinishedIsCertified'
  BY DEF FinishedIsCertified, Finished, CallFollowsRecord, RecordOfCompleted,
     RecordIsApplied, CheckpointOfRecord, TypeOK, Call, NoCall, PendingCommit,
     NoPending, Progress
<1> QED
  BY <1>1, <1>2, <1>3, <1>4, <1>5, <1>6, <1>7, <1>8, <1>9, <1>10, <1>11

(* Reopening a finished book for new chapters. *)
LEMMA ReopenContinueInv ==
  ASSUME IInv, ReopenContinue
  PROVE  IInv'
<1> USE DEF IInv, ReopenContinue, Idle
<1>1. TypeOK'
  BY DEF TypeOK, Call, Labels, NoCall, PendingCommit, NoPending, Stages,
     Progress
<1>2. CallFollowsRecord'
  BY DEF CallFollowsRecord, TypeOK, Call, NoCall, PendingCommit, NoPending,
     FactStores
<1>3. RecordOfCompleted'
  BY DEF RecordOfCompleted, CallFollowsRecord, TypeOK, Call, NoCall,
     PendingCommit, NoPending, Progress
<1>4. RecordIsApplied'
  BY DEF RecordIsApplied, CallFollowsRecord, TypeOK, Call, NoCall,
     PendingCommit, NoPending, FactStores
<1>5. FactsOfRecord'
  BY DEF FactsOfRecord, CallFollowsRecord, TypeOK, Call, NoCall, PendingCommit,
     NoPending, DoneBefore, DeltaOf
<1>6. CheckpointOfRecord'
  BY DEF CheckpointOfRecord, CallFollowsRecord, RecordIsApplied, TypeOK, Call,
     NoCall, PendingCommit, NoPending
<1>7. UnfinishedIsUntouched'
  BY DEF UnfinishedIsUntouched, CallFollowsRecord, RecordOfCompleted, TypeOK,
     Call, NoCall, PendingCommit, NoPending, Progress
<1>8. DraftIsNext' /\ RecordHasDraft' /\ CompletedInOutline'
  BY DEF DraftIsNext, RecordHasDraft, CompletedInOutline, RecoverFirst,
     CallFollowsRecord, RecordOfCompleted, NextChapter, LatestCompleted, TypeOK,
     Call, NoCall, PendingCommit, NoPending, Progress
<1>9. HasLatest' /\ NoGaps'
  BY DEF HasLatest, NoGaps
<1>10. QueueMatchesFlow'
  BY DEF QueueMatchesFlow, TypeOK, Progress
<1>11. FinishedIsCertified'
  BY DEF FinishedIsCertified, Finished, CallFollowsRecord, RecordOfCompleted,
     RecordIsApplied, CheckpointOfRecord, TypeOK, Call, NoCall, PendingCommit,
     NoPending, Progress
<1> QED
  BY <1>1, <1>2, <1>3, <1>4, <1>5, <1>6, <1>7, <1>8, <1>9, <1>10, <1>11

(* complete_book: every outlined chapter is completed, so no draft is left. *)
LEMMA CompleteBookInv ==
  ASSUME IInv, CompleteBook
  PROVE  IInv'
<1> USE DEF IInv, CompleteBook, MarkedComplete, Idle
<1>1. TypeOK'
  BY DEF TypeOK, Call, Labels, NoCall, PendingCommit, NoPending, Stages,
     Progress
<1>2. CallFollowsRecord'
  BY DEF CallFollowsRecord, TypeOK, Call, NoCall, PendingCommit, NoPending,
     FactStores
<1>3. RecordOfCompleted'
  BY DEF RecordOfCompleted, CallFollowsRecord, TypeOK, Call, NoCall,
     PendingCommit, NoPending, Progress
<1>4. RecordIsApplied'
  BY DEF RecordIsApplied, CallFollowsRecord, TypeOK, Call, NoCall,
     PendingCommit, NoPending, FactStores
<1>5. FactsOfRecord'
  BY DEF FactsOfRecord, CallFollowsRecord, TypeOK, Call, NoCall, PendingCommit,
     NoPending, DoneBefore, DeltaOf
<1>6. CheckpointOfRecord'
  BY DEF CheckpointOfRecord, CallFollowsRecord, RecordIsApplied, TypeOK, Call,
     NoCall, PendingCommit, NoPending
<1>7. UnfinishedIsUntouched'
  BY DEF UnfinishedIsUntouched, CallFollowsRecord, RecordOfCompleted, TypeOK,
     Call, NoCall, PendingCommit, NoPending, Progress
<1>8. DraftIsNext' /\ RecordHasDraft' /\ CompletedInOutline'
  BY DEF DraftIsNext, RecordHasDraft, CompletedInOutline, RecoverFirst,
     CallFollowsRecord, RecordOfCompleted, NextChapter, LatestCompleted, TypeOK,
     Call, NoCall, PendingCommit, NoPending, Progress
<1>9. HasLatest' /\ NoGaps'
  BY DEF HasLatest, NoGaps
<1>10. QueueMatchesFlow'
  BY DEF QueueMatchesFlow, TypeOK, Progress
<1>11. FinishedIsCertified'
  BY DEF FinishedIsCertified, Finished, CallFollowsRecord, RecordOfCompleted,
     RecordIsApplied, CheckpointOfRecord, TypeOK, Call, NoCall, PendingCommit,
     NoPending, Progress
<1> QED
  BY <1>1, <1>2, <1>3, <1>4, <1>5, <1>6, <1>7, <1>8, <1>9, <1>10, <1>11

(* Outline changes keep the completed and the protected chapters. *)
LEMMA ReviseOutlineInv ==
  ASSUME IInv, NEW o \in Outlines, ReviseOutline(o)
  PROVE  IInv'
<1> USE DEF IInv, ReviseOutline, Idle
<1>1. TypeOK'
  BY DEF TypeOK, Call, Labels, NoCall, PendingCommit, NoPending, Stages,
     Progress
<1>2. CallFollowsRecord'
  BY DEF CallFollowsRecord, TypeOK, Call, NoCall, PendingCommit, NoPending,
     FactStores
<1>3. RecordOfCompleted'
  BY DEF RecordOfCompleted, CallFollowsRecord, TypeOK, Call, NoCall,
     PendingCommit, NoPending, Progress
<1>4. RecordIsApplied'
  BY DEF RecordIsApplied, CallFollowsRecord, TypeOK, Call, NoCall,
     PendingCommit, NoPending, FactStores
<1>5. FactsOfRecord'
  BY DEF FactsOfRecord, CallFollowsRecord, TypeOK, Call, NoCall, PendingCommit,
     NoPending, DoneBefore, DeltaOf
<1>6. CheckpointOfRecord'
  BY DEF CheckpointOfRecord, CallFollowsRecord, RecordIsApplied, TypeOK, Call,
     NoCall, PendingCommit, NoPending
<1>7. UnfinishedIsUntouched'
  BY DEF UnfinishedIsUntouched, CallFollowsRecord, RecordOfCompleted, TypeOK,
     Call, NoCall, PendingCommit, NoPending, Progress
<1>8. DraftIsNext' /\ RecordHasDraft' /\ CompletedInOutline'
  <2>1. UNCHANGED <<pending, progress, draft>> /\ outline' = o
    OBVIOUS
  <2>2. \A c \in progress.completed \cup {progress.inProgress} : c <= o.chapters
    OBVIOUS
  <2>3. DraftIsNext'
    <3>1. NextChapter' = NextChapter
      BY <2>1 DEF NextChapter, LatestCompleted
    <3> QED
      BY <2>1, <2>2, <3>1 DEF DraftIsNext, RecoverFirst
  <2> QED
    BY <2>1, <2>2, <2>3 DEF RecordHasDraft, CompletedInOutline
<1>9. HasLatest' /\ NoGaps'
  BY DEF HasLatest, NoGaps
<1>10. QueueMatchesFlow'
  BY DEF QueueMatchesFlow, TypeOK, Progress
<1>11. FinishedIsCertified'
  BY DEF FinishedIsCertified, Finished, CallFollowsRecord, RecordOfCompleted,
     RecordIsApplied, CheckpointOfRecord, TypeOK, Call, NoCall, PendingCommit,
     NoPending, Progress
<1> QED
  BY <1>1, <1>2, <1>3, <1>4, <1>5, <1>6, <1>7, <1>8, <1>9, <1>10, <1>11

(* Nothing happens. *)
LEMMA StutterInv ==
  ASSUME IInv, UNCHANGED vars
  PROVE  IInv'
<1> USE DEF IInv, vars, Idle
<1>1. TypeOK'
  BY DEF TypeOK, Call, Labels, NoCall, PendingCommit, NoPending, Stages,
     Progress
<1>2. CallFollowsRecord'
  BY DEF CallFollowsRecord, TypeOK, Call, NoCall, PendingCommit, NoPending,
     FactStores
<1>3. RecordOfCompleted'
  BY DEF RecordOfCompleted, CallFollowsRecord, TypeOK, Call, NoCall,
     PendingCommit, NoPending, Progress
<1>4. RecordIsApplied'
  BY DEF RecordIsApplied, CallFollowsRecord, TypeOK, Call, NoCall,
     PendingCommit, NoPending, FactStores
<1>5. FactsOfRecord'
  BY DEF FactsOfRecord, CallFollowsRecord, TypeOK, Call, NoCall, PendingCommit,
     NoPending, DoneBefore, DeltaOf
<1>6. CheckpointOfRecord'
  BY DEF CheckpointOfRecord, CallFollowsRecord, RecordIsApplied, TypeOK, Call,
     NoCall, PendingCommit, NoPending
<1>7. UnfinishedIsUntouched'
  BY DEF UnfinishedIsUntouched, CallFollowsRecord, RecordOfCompleted, TypeOK,
     Call, NoCall, PendingCommit, NoPending, Progress
<1>8. DraftIsNext' /\ RecordHasDraft' /\ CompletedInOutline'
  BY DEF DraftIsNext, RecordHasDraft, CompletedInOutline, RecoverFirst,
     NextChapter, LatestCompleted
<1>9. HasLatest' /\ NoGaps'
  BY DEF HasLatest, NoGaps
<1>10. QueueMatchesFlow'
  BY DEF QueueMatchesFlow, TypeOK, Progress
<1>11. FinishedIsCertified'
  BY DEF FinishedIsCertified, Finished, CallFollowsRecord, RecordOfCompleted,
     RecordIsApplied, CheckpointOfRecord, TypeOK, Call, NoCall, PendingCommit,
     NoPending, Progress
<1> QED
  BY <1>1, <1>2, <1>3, <1>4, <1>5, <1>6, <1>7, <1>8, <1>9, <1>10, <1>11

--------------------------------------------------------------------------------
(* The invariant holds initially and every step preserves it. *)

(* The initial state. *)
LEMMA InitInv ==
  ASSUME Init
  PROVE  IInv
<1>1. TypeOK
  BY DEF Init, TypeOK, NoPending, NoCall, Progress
<1>2. CallFollowsRecord /\ RecordOfCompleted /\ RecordIsApplied
      /\ FactsOfRecord /\ CheckpointOfRecord /\ RecordHasDraft
  BY DEF Init, Idle, NoCall, CallFollowsRecord, RecordOfCompleted,
         RecordIsApplied, FactsOfRecord, CheckpointOfRecord, RecordHasDraft
<1>3. UnfinishedIsUntouched
  BY DEF Init, UnfinishedIsUntouched
<1>4. DraftIsNext /\ CompletedInOutline /\ HasLatest /\ NoGaps
  BY DEF Init, DraftIsNext, CompletedInOutline, HasLatest, NoGaps
<1>5. QueueMatchesFlow /\ FinishedIsCertified
  BY DEF Init, QueueMatchesFlow, FinishedIsCertified, Finished
<1> QED
  BY <1>1, <1>2, <1>3, <1>4, <1>5 DEF IInv

(* Every step preserves the invariant. *)
LEMMA NextInv ==
  ASSUME IInv, [Next]_vars
  PROVE  IInv'
<1>1. CASE \E ch \in Chapters, p \in Payload : Execute(ch, p)
  BY <1>1, BeginCommitInv, BeginRewriteInv, ResumeInv DEF Execute
<1>2. CASE Saga
  BY <1>2, SaveFinalInv, SaveSummaryInv, ApplyDeltaInv, SaveAppliedInv,
     MarkChapterInv, MarkRewrittenInv, DrainQueueInv, ApplyCompletionInv,
     SaveMarkedInv, AppendCheckpointInv, SaveSignalInv, ClearInProgressInv,
     ClearPendingInv DEF Saga
<1>3. CASE Interrupt
  BY <1>3, InterruptInv
<1>4. CASE Environment
  <2>1. CASE \E ch \in Chapters, t \in Text :
               RecoverFirst(ch) /\ (WriteDraft(ch, t) \/ RebuildDraft(ch, t))
    BY <2>1, WriteDraftInv, RebuildDraftInv
  <2>2. CASE \E chs \in SUBSET Chapters : Reopen(chs)
    BY <2>2, ReopenInv
  <2>3. CASE ReopenContinue
    BY <2>3, ReopenContinueInv
  <2>4. CASE CompleteBook
    BY <2>4, CompleteBookInv
  <2>5. CASE \E o \in Outlines : ReviseOutline(o)
    BY <2>5, ReviseOutlineInv
  <2> QED
    BY <1>4, <2>1, <2>2, <2>3, <2>4, <2>5 DEF Environment
<1>5. CASE UNCHANGED vars
  BY <1>5, StutterInv
<1> QED
  BY <1>1, <1>2, <1>3, <1>4, <1>5 DEF Next

(* The strengthening holds in every reachable state, whatever the number of   *)
(* chapters, texts, payloads and outlines.                                     *)
THEOREM Invariance == Spec => []IInv
<1>1. Init => IInv
  BY InitInv
<1>2. IInv /\ [Next]_vars => IInv'
  BY NextInv
<1> QED
  BY <1>1, <1>2, PTL DEF Spec

(* Type correctness of the saga's files and of the running call. *)
THEOREM TypeCorrectness == Spec => []TypeOK
<1>1. IInv => TypeOK
  BY DEF IInv
<1> QED
  BY <1>1, Invariance, PTL

(* Every finished chapter carries a commit checkpoint of exactly the text and *)
(* metadata on disk, whatever interrupted its commits and rewrites.            *)
THEOREM FinishedCertified == Spec => []FinishedIsCertified
<1>1. IInv => FinishedIsCertified
  BY DEF IInv
<1> QED
  BY <1>1, Invariance, PTL

(* A pending commit can always be worked off by calling the tool again for its *)
(* chapter: the checks of the recovery path never reject it.                    *)
THEOREM RecoveryNeverRefused == Spec => []RecoveryIsNeverRefused
<1>1. IInv => RecoveryIsNeverRefused
  <2> SUFFICES ASSUME IInv, Idle, pending # NoPending
               PROVE  Resumable
    BY DEF RecoveryIsNeverRefused
  <2>1. pending \in PendingCommit /\ pending.chapter \in Chapters
    BY DEF IInv, TypeOK, PendingCommit
  <2>2. \/ pending.rewrite
        \/ pending.stage \in {"progress_marked", "signal_saved"}
        => pending.chapter \in progress.completed
    BY DEF IInv, RecordOfCompleted
  <2>3. pending.chapter <= outline.chapters
    <3>1. CASE pending.chapter \in progress.completed
      BY <3>1 DEF IInv, CompletedInOutline
    <3>2. CASE pending.chapter \notin progress.completed
      BY <2>1, <3>2 DEF IInv, RecordHasDraft, DraftIsNext
    <3> QED
      BY <3>1, <3>2
  <2> QED
    BY <2>2, <2>3 DEF Resumable, InOutline
<1> QED
  BY <1>1, Invariance, PTL

(* MarkChapterComplete's phase check never strands a half-applied commit. *)
THEOREM MarkingNeverRefused == Spec => []MarkingIsNeverRefused
<1>1. IInv => MarkingIsNeverRefused
  <2> SUFFICES ASSUME IInv, call.pc = "mark",
                      call.chapter \notin progress.completed
               PROVE  progress.phase = "writing"
    BY DEF MarkingIsNeverRefused, At
  <2>1. pending # NoPending /\ call.chapter = pending.chapter
    BY DEF IInv, CallFollowsRecord, Idle
  <2>2. pending.chapter \in Chapters
    BY <2>1 DEF IInv, TypeOK, PendingCommit
  <2> QED
    BY <2>1, <2>2 DEF IInv, RecordHasDraft, DraftIsNext
<1> QED
  BY <1>1, Invariance, PTL

(* The rewrite queue names completed chapters only and comes and goes with the *)
(* rewriting flow.                                                              *)
THEOREM QueueAndFlow == Spec => []QueueMatchesFlow
<1>1. IInv => QueueMatchesFlow
  BY DEF IInv
<1> QED
  BY <1>1, Invariance, PTL

(* Chapters are completed in order and without gaps. *)
THEOREM ChaptersInOrder == Spec => []NoGaps
<1>1. IInv => NoGaps
  BY DEF IInv
<1> QED
  BY <1>1, Invariance, PTL

--------------------------------------------------------------------------------
(* The saga implements the atomic commit. *)

book == <<BookText, BookMeta, BookWorld>>

(* The abstract book depends on the record, the chapters, the summaries and the
   world state only. *)
LEMMA BookUnchanged ==
  ASSUME UNCHANGED <<pending, final, summary, facts>>
  PROVE  UNCHANGED book
BY DEF book, BookText, BookMeta, BookWorld, InCommit, DeltaOf

OpenInBook ==
  BookOpen \subseteq Chapters /\ \A ch \in BookOpen : BookText[ch] # None

(* A chapter is opened for rewriting only once it is in the book. *)
LEMMA OpenIsInBook == IInv => OpenInBook
<1> SUFFICES ASSUME IInv PROVE OpenInBook
  OBVIOUS
<1>1. BookOpen \subseteq progress.completed
  BY DEF IInv, QueueMatchesFlow, BookOpen
<1>2. progress.completed \subseteq Chapters
  BY DEF IInv, TypeOK, Progress
<1>3. \A ch \in BookOpen : BookText[ch] # None
  <2> SUFFICES ASSUME NEW ch \in BookOpen
               PROVE  BookText[ch] # None
    OBVIOUS
  <2>1. ch \in progress.completed /\ ch \in Chapters
    BY <1>1, <1>2
  <2>2. CASE pending.chapter = ch
    <3>1. pending \in PendingCommit
      BY <2>1, <2>2 DEF IInv, TypeOK, NoPending
    <3> QED
      BY <2>1, <2>2, <3>1 DEF PendingCommit, BookText, InCommit
  <2>3. CASE pending.chapter # ch
    <3>1. <<ch, final[ch], summary[ch]>> \in checkpoints
      BY <2>1, <2>3 DEF IInv, FinishedIsCertified, Finished
    <3>2. final[ch] \in Text
      BY <3>1 DEF IInv, TypeOK
    <3> QED
      BY <2>1, <2>3, <3>2 DEF BookText, InCommit
  <2> QED
    BY <2>2, <2>3
<1> QED
  BY <1>1, <1>2, <1>3 DEF OpenInBook

(* A step that leaves the book alone at most opens other written chapters. *)
LEMMA BookUnchangedIsOpen ==
  ASSUME IInv', UNCHANGED book
  PROVE  Atomic!Next
<1>1. OpenInBook'
  BY OpenIsInBook, PTL
<1>2. Atomic!Open(BookOpen')
  BY <1>1 DEF OpenInBook, Atomic!Open, book
<1> QED
  BY <1>1, <1>2 DEF OpenInBook, Atomic!Next

(* Saving the record of a fresh commit is the atomic commit. *)
LEMMA BeginCommitIsCommit ==
  ASSUME IInv, NEW ch \in Chapters, NEW p \in Payload, BeginCommit(ch, p)
  PROVE  Atomic!Commit(ch, draft[ch], p)
<1>1. /\ pending = NoPending /\ ch \notin progress.completed
      /\ pending' = [chapter |-> ch, stage |-> "started", rewrite |-> FALSE,
                     text |-> draft[ch], payload |-> p]
      /\ UNCHANGED <<final, summary, facts>>
  BY DEF BeginCommit, SaveStarted
<1>2. \A c \in Chapters : pending.chapter # c
  BY <1>1 DEF NoPending
<1>3. final[ch] = None
  BY <1>1, <1>2 DEF IInv, UnfinishedIsUntouched
<1>4. /\ BookText = [c \in Chapters |-> final[c]]
      /\ BookMeta = [c \in Chapters |-> summary[c]]
      /\ BookWorld = [c \in Chapters |-> [s \in FactStores |-> facts[s][c]]]
  BY <1>2 DEF BookText, BookMeta, BookWorld, InCommit
<1>5. BookText' = [BookText EXCEPT ![ch] = draft[ch]]
  BY <1>1, <1>4 DEF BookText, InCommit
<1>6. BookMeta' = [BookMeta EXCEPT ![ch] = p]
  BY <1>1, <1>4 DEF BookMeta, InCommit
<1>7. BookWorld' = [BookWorld EXCEPT ![ch] = Atomic!Delta(p)]
  BY ZenonT(30), <1>1, <1>4 DEF BookWorld, InCommit, DeltaOf, Atomic!Delta
<1>8. UNCHANGED BookOpen
  BY <1>1 DEF BeginCommit, BookOpen, NoPending
<1> QED
  BY <1>3, <1>4, <1>5, <1>6, <1>7, <1>8 DEF Atomic!Commit

(* Saving the record of a rewrite is the atomic rewrite. *)
LEMMA BeginRewriteIsRewrite ==
  ASSUME IInv, NEW ch \in Chapters, NEW p \in Payload, BeginRewrite(ch, p)
  PROVE  Atomic!Rewrite(ch, draft[ch], p)
<1>1. /\ pending = NoPending /\ ch \in progress.completed
      /\ draft[ch] # final[ch] \/ p # summary[ch]
      /\ pending' = [chapter |-> ch, stage |-> "started", rewrite |-> TRUE,
                     text |-> draft[ch], payload |-> p]
      /\ UNCHANGED <<final, summary, facts>>
  BY DEF BeginRewrite, RewriteChanges, SaveStarted
<1>2. \A c \in Chapters : pending.chapter # c
  BY <1>1 DEF NoPending
<1>3. final[ch] \in Text
  <2>1. <<ch, final[ch], summary[ch]>> \in checkpoints
    BY <1>1, <1>2 DEF IInv, FinishedIsCertified, Finished
  <2> QED
    BY <2>1 DEF IInv, TypeOK
<1>4. /\ BookText = [c \in Chapters |-> final[c]]
      /\ BookMeta = [c \in Chapters |-> summary[c]]
      /\ BookWorld = [c \in Chapters |-> [s \in FactStores |-> facts[s][c]]]
  BY <1>2 DEF BookText, BookMeta, BookWorld, InCommit
<1>5. BookText' = [BookText EXCEPT ![ch] = draft[ch]]
  BY <1>1, <1>4 DEF BookText, InCommit
<1>6. BookMeta' = [BookMeta EXCEPT ![ch] = p]
  BY <1>1, <1>4 DEF BookMeta, InCommit
<1>7. UNCHANGED BookWorld
  BY <1>1, <1>4 DEF BookWorld, InCommit
<1>8. <<draft[ch], p>> # <<BookText[ch], BookMeta[ch]>>
  BY <1>1, <1>4
<1>9. ch \in BookOpen /\ BookOpen' = BookOpen \ {ch}
  BY <1>1 DEF BeginRewrite, BookOpen, NoPending
<1> QED
  BY <1>3, <1>4, <1>5, <1>6, <1>7, <1>8, <1>9 DEF Atomic!Rewrite

(* A write of the saga touches the chapter of its record only, whose entry in  *)
(* the abstract book is the record.                                             *)
LEMMA SagaIsInvisible ==
  ASSUME IInv, Saga
  PROVE  UNCHANGED book
<1>1. call.pc # "idle"
  BY DEF Saga, SaveFinal, SaveSummary, ApplyDelta, SaveApplied, MarkChapter,
         MarkRewritten, DrainQueue, ApplyCompletion, SaveMarked,
         AppendCheckpoint, SaveSignal, ClearInProgress, ClearPending, At,
         FactStores
<1>2. /\ pending \in PendingCommit /\ pending # NoPending
      /\ call.chapter = pending.chapter /\ pending.chapter \in Chapters
      /\ call.pc \in FactStores => ~pending.rewrite
  BY <1>1 DEF IInv, CallFollowsRecord, Idle, TypeOK, PendingCommit
<1>3. CASE SaveFinal
  <2>1. \A c \in Chapters : c # pending.chapter => final'[c] = final[c]
    BY <1>2, <1>3 DEF SaveFinal, IInv, TypeOK
  <2>2. UNCHANGED <<pending, summary, facts>>
    BY <1>3 DEF SaveFinal
  <2> QED
    BY <2>1, <2>2 DEF book, BookText, BookMeta, BookWorld, InCommit, DeltaOf
<1>4. CASE SaveSummary
  <2>1. \A c \in Chapters : c # pending.chapter => summary'[c] = summary[c]
    BY <1>2, <1>4 DEF SaveSummary, IInv, TypeOK
  <2>2. UNCHANGED <<pending, final, facts>>
    BY <1>4 DEF SaveSummary
  <2> QED
    BY <2>1, <2>2 DEF book, BookText, BookMeta, BookWorld, InCommit, DeltaOf
<1>5. CASE ApplyDelta
  <2>1. \A s \in FactStores, c \in Chapters :
          c # pending.chapter => facts'[s][c] = facts[s][c]
    BY <1>2, <1>5 DEF ApplyDelta, IInv, TypeOK
  <2>2. UNCHANGED <<pending, final, summary>> /\ ~pending.rewrite
    BY <1>2, <1>5 DEF ApplyDelta, At
  <2>3. UNCHANGED BookWorld
    BY <2>1, <2>2 DEF BookWorld, InCommit, DeltaOf
  <2> QED
    BY <2>2, <2>3 DEF book, BookText, BookMeta, InCommit
<1>6. CASE SaveApplied \/ SaveMarked \/ SaveSignal
  <2>1. /\ pending'.chapter = pending.chapter /\ pending'.text = pending.text
        /\ pending'.payload = pending.payload
        /\ pending'.rewrite = pending.rewrite
        /\ UNCHANGED <<final, summary, facts>>
    BY <1>2, <1>6 DEF SaveApplied, SaveMarked, SaveSignal, PendingCommit
  <2> QED
    BY <2>1 DEF book, BookText, BookMeta, BookWorld, InCommit, DeltaOf
<1>7. CASE ClearPending
  <2>1. /\ pending' = NoPending /\ UNCHANGED <<final, summary, facts>>
        /\ call.pc = "clear_pending"
    BY <1>7 DEF ClearPending, At
  <2>2. pending.stage = "signal_saved"
    BY <1>1, <2>1 DEF IInv, CallFollowsRecord, Idle
  <2>3. final[pending.chapter] = pending.text
        /\ summary[pending.chapter] = pending.payload
    BY <1>2, <2>2 DEF IInv, RecordIsApplied
  <2>4. ~pending.rewrite =>
          DeltaOf(pending.payload) =
            [s \in FactStores |-> facts[s][pending.chapter]]
    <3>1. ~pending.rewrite => \A s \in FactStores :
            facts[s][pending.chapter] = DeltaOf(pending.payload)[s]
      BY <1>2, <2>2 DEF IInv, FactsOfRecord
    <3> QED
      BY <3>1 DEF DeltaOf
  <2>5. \A c \in Chapters : pending'.chapter # c
    BY <2>1 DEF NoPending
  <2>6. UNCHANGED BookText /\ UNCHANGED BookMeta
    BY <2>1, <2>3, <2>5 DEF BookText, BookMeta, InCommit
  <2>7. UNCHANGED BookWorld
    BY <2>1, <2>4, <2>5 DEF BookWorld, InCommit
  <2> QED
    BY <2>6, <2>7 DEF book
<1>8. CASE \/ MarkChapter \/ MarkRewritten \/ DrainQueue \/ ApplyCompletion
           \/ AppendCheckpoint \/ ClearInProgress
  <2>1. UNCHANGED <<pending, final, summary, facts>>
    BY <1>8 DEF MarkChapter, MarkRewritten, DrainQueue, ApplyCompletion,
                AppendCheckpoint, ClearInProgress
  <2> QED
    BY <2>1, BookUnchanged
<1> QED
  BY <1>3, <1>4, <1>5, <1>6, <1>7, <1>8 DEF Saga

(* Every step of the saga is an atomic commit, an atomic rewrite, or invisible. *)
LEMMA StepRefines ==
  ASSUME IInv, [Next]_vars
  PROVE  [Atomic!Next]_(Atomic!vars)
<1>1. IInv'
  BY NextInv
<1>2. ASSUME UNCHANGED book
      PROVE  Atomic!Next
  BY <1>1, <1>2, BookUnchangedIsOpen
<1>3. CASE \E ch \in Chapters, p \in Payload : Execute(ch, p)
  <2>1. PICK ch \in Chapters, p \in Payload : Execute(ch, p)
    BY <1>3
  <2>2. CASE BeginCommit(ch, p)
    <3>1. draft[ch] \in Text
      BY <2>2 DEF BeginCommit, IInv, TypeOK
    <3> QED
      BY <2>2, <3>1, BeginCommitIsCommit DEF Atomic!Next
  <2>3. CASE BeginRewrite(ch, p)
    <3>1. draft[ch] \in Text
      BY <2>3 DEF BeginRewrite, RewriteChanges, IInv, TypeOK
    <3> QED
      BY <2>3, <3>1, BeginRewriteIsRewrite DEF Atomic!Next
  <2>4. CASE Resume(ch, p)
    BY <1>2, <2>4, BookUnchanged DEF Resume, files
  <2> QED
    BY <2>1, <2>2, <2>3, <2>4 DEF Execute
<1>4. CASE Saga
  BY <1>2, <1>4, SagaIsInvisible
<1>5. CASE Interrupt
  BY <1>2, <1>5, BookUnchanged DEF Interrupt, files
<1>6. CASE Environment
  <2>1. UNCHANGED <<pending, final, summary, facts>>
    BY <1>6 DEF Environment, WriteDraft, RebuildDraft, Reopen, ReopenContinue,
                CompleteBook, ReviseOutline
  <2> QED
    BY <1>2, <2>1, BookUnchanged
<1>7. CASE UNCHANGED vars
  BY <1>2, <1>7, BookUnchanged DEF vars
<1> QED
  BY <1>3, <1>4, <1>5, <1>6, <1>7 DEF Next

(* Whatever dies or fails between its writes, and whatever is drafted, planned *)
(* or reopened between its calls, the saga is an atomic commit of one text,     *)
(* with the metadata and the facts generated for that text.                     *)
THEOREM Refinement == Spec => ImplementsAtomicCommit
<1>1. Init => Atomic!Init
  <2> SUFFICES ASSUME Init PROVE Atomic!Init
    OBVIOUS
  <2>1. \A c \in Chapters : ~InCommit(c)
    BY DEF Init, InCommit, NoPending
  <2>2. BookText = [c \in Chapters |-> None]
        /\ BookMeta = [c \in Chapters |-> None]
    BY <2>1 DEF Init, BookText, BookMeta
  <2>3. BookWorld = [c \in Chapters |-> Atomic!NoFacts]
    BY <2>1 DEF Init, BookWorld, Atomic!NoFacts
  <2>4. BookOpen = {}
    BY DEF Init, BookOpen
  <2> QED
    BY <2>2, <2>3, <2>4 DEF Atomic!Init
<1>2. IInv /\ [Next]_vars => [Atomic!Next]_(Atomic!vars)
  BY StepRefines
<1> QED
  BY <1>1, <1>2, Invariance, PTL DEF Spec, Atomic!Spec, ImplementsAtomicCommit

--------------------------------------------------------------------------------
(***************************************************************************)
(* The engine of AutoCommit.                                               *)
(***************************************************************************)

(* A step that completes no chapter and saves no record of another one. *)
LEMMA AutoFrame ==
  ASSUME AutoIInv,
         progress' \in Progress, progress'.completed = progress.completed,
         QueueMatchesFlow', outline' \in Outlines,
         draft' \in [Chapters -> Text \cup {None}],
         pending' \in PendingCommit \cup {NoPending}, call' \in Call \cup {NoCall},
         CallFollowsRecord', RecordOfCompleted',
         pending' # NoPending =>
           pending # NoPending /\ pending'.chapter = pending.chapter
  PROVE  AutoIInv'
<1>1. NextChapter' = NextChapter
  BY DEF NextChapter, LatestCompleted
<1>2. HasLatest'
  BY DEF AutoIInv, HasLatest
<1>3. RecordIsNext'
  BY <1>1 DEF AutoIInv, RecordIsNext
<1> QED
  BY <1>2, <1>3 DEF AutoIInv

(* Between two calls, while nothing but the progress and the outline change. *)
LEMMA AutoAround ==
  ASSUME AutoIInv, Idle, UNCHANGED <<pending, call>>,
         progress' \in Progress, progress'.completed = progress.completed,
         QueueMatchesFlow', outline' \in Outlines,
         draft' \in [Chapters -> Text \cup {None}]
  PROVE  AutoIInv'
<1>1. CallFollowsRecord' /\ RecordOfCompleted'
  BY DEF AutoIInv, CallFollowsRecord, RecordOfCompleted, Idle
<1> QED
  BY <1>1, AutoFrame DEF AutoIInv

(* What the operations between two calls do to the progress. *)
LEMMA AutoProgress ==
  ASSUME AutoIInv
  PROVE  /\ \A ch \in Chapters \cup {0} :
              LET p == [progress EXCEPT !.inProgress = ch] IN
              /\ p \in Progress /\ p.completed = progress.completed
              /\ p.queue = progress.queue /\ p.flow = progress.flow
         /\ MarkedComplete \in Progress
         /\ MarkedComplete.completed = progress.completed
         /\ MarkedComplete.queue = progress.queue
         /\ MarkedComplete.flow = progress.flow
BY DEF AutoIInv, Progress, MarkedComplete

LEMMA AutoBetween ==
  ASSUME AutoIInv,
         \/ \E ch \in Chapters, t \in Text : WriterFinishesUnits(ch, t)
         \/ \E ch \in Chapters : WriterCannotRewrite(ch)
         \/ AutoCommitRefused \/ ArchitectDecides \/ Continue \/ UserReopens
         \/ UNCHANGED autoVars
  PROVE  AutoIInv'
<1>1. CASE \E ch \in Chapters : WriterCannotRewrite(ch)
  <2>1. PICK ch \in Chapters : WriterCannotRewrite(ch)
    BY <1>1
  <2>2. /\ Idle /\ UNCHANGED <<pending, outline, draft, call>>
        /\ progress' = [progress EXCEPT !.inProgress = ch]
    BY <2>1 DEF WriterCannotRewrite, Running
  <2> QED
    BY <2>2, AutoProgress, AutoAround DEF AutoIInv, QueueMatchesFlow
<1>2. CASE \E ch \in Chapters, t \in Text : WriterFinishesUnits(ch, t)
  <2>1. PICK ch \in Chapters, t \in Text : WriterFinishesUnits(ch, t)
    BY <1>2
  <2>2. /\ Idle /\ UNCHANGED <<pending, outline, call>>
        /\ progress' = [progress EXCEPT !.inProgress = ch]
        /\ draft' \in [Chapters -> Text \cup {None}]
    BY <2>1 DEF WriterFinishesUnits, WriteDraft, AutoIInv
  <2> QED
    BY <2>2, AutoProgress, AutoAround DEF AutoIInv, QueueMatchesFlow
<1>3. CASE AutoCommitRefused \/ Continue \/ UNCHANGED autoVars
  <2>1. UNCHANGED <<pending, progress, outline, draft, call>>
    BY <1>3 DEF AutoCommitRefused, Continue, autoVars, vars
  <2>2. CallFollowsRecord' /\ RecordOfCompleted' /\ QueueMatchesFlow'
    BY <2>1 DEF AutoIInv, CallFollowsRecord, RecordOfCompleted, QueueMatchesFlow, Idle
  <2> QED
    BY <2>1, <2>2, AutoFrame DEF AutoIInv
<1>4. CASE ArchitectDecides
  <2>1. CASE CompleteBook
    <3>1. Idle /\ UNCHANGED <<pending, outline, draft, call>> /\ progress' = MarkedComplete
      BY <2>1 DEF CompleteBook
    <3> QED
      BY <3>1, AutoProgress, AutoAround DEF AutoIInv, QueueMatchesFlow
  <2>2. CASE \E o \in Outlines : ReviseOutline(o)
    <3>1. Idle /\ UNCHANGED <<pending, progress, draft, call>> /\ outline' \in Outlines
      BY <2>2 DEF ReviseOutline
    <3> QED
      BY <3>1, AutoAround DEF AutoIInv, QueueMatchesFlow
  <2> QED
    BY <1>4, <2>1, <2>2 DEF ArchitectDecides
<1>5. CASE UserReopens
  <2>1. PICK chs \in SUBSET Chapters : Reopen(chs)
    BY <1>5 DEF UserReopens
  <2>2. /\ Idle /\ UNCHANGED <<pending, outline, draft, call>>
        /\ progress' \in Progress /\ progress'.completed = progress.completed
        /\ progress'.queue = chs /\ progress'.flow = "rewriting"
        /\ chs # {} /\ chs \subseteq progress.completed
    BY <2>1 DEF Reopen, AutoIInv, Progress
  <2> QED
    BY <2>2, AutoAround DEF AutoIInv, QueueMatchesFlow
<1> QED
  BY <1>1, <1>2, <1>3, <1>4, <1>5

(* While a call runs its record is there and names the same chapter. *)
LEMMA AutoCalling ==
  ASSUME AutoIInv, ~Idle
  PROVE  /\ pending \in PendingCommit /\ pending # NoPending
         /\ call \in Call /\ call.chapter = pending.chapter
         /\ pending.chapter \in Chapters
         /\ \A pc \in Labels :
              /\ [call EXCEPT !.pc = pc] \in Call
              /\ [call EXCEPT !.pc = pc].pc = pc
              /\ [call EXCEPT !.pc = pc].chapter = call.chapter
              /\ [call EXCEPT !.pc = pc].rewrite = call.rewrite
              /\ [call EXCEPT !.pc = pc].text = call.text
              /\ [call EXCEPT !.pc = pc].payload = call.payload
         /\ \A st \in Stages :
              LET p == [pending EXCEPT !.stage = st] IN
              /\ p \in PendingCommit /\ p # NoPending /\ p.stage = st
              /\ p.chapter = pending.chapter /\ p.rewrite = pending.rewrite
              /\ p.text = pending.text /\ p.payload = pending.payload
<1>1. pending \in PendingCommit /\ pending # NoPending
  BY DEF AutoIInv, CallFollowsRecord
<1>2. call \in Call /\ call.chapter = pending.chapter
  BY DEF AutoIInv, CallFollowsRecord, Idle, NoCall
<1>3. pending.chapter \in Chapters
  BY <1>1 DEF PendingCommit
<1>4. ASSUME NEW pc \in Labels
      PROVE  /\ [call EXCEPT !.pc = pc] \in Call
             /\ [call EXCEPT !.pc = pc].pc = pc
             /\ [call EXCEPT !.pc = pc].chapter = call.chapter
             /\ [call EXCEPT !.pc = pc].rewrite = call.rewrite
             /\ [call EXCEPT !.pc = pc].text = call.text
             /\ [call EXCEPT !.pc = pc].payload = call.payload
  BY <1>2 DEF Call
<1>5. ASSUME NEW st \in Stages
      PROVE  LET p == [pending EXCEPT !.stage = st] IN
             /\ p \in PendingCommit /\ p # NoPending /\ p.stage = st
             /\ p.chapter = pending.chapter /\ p.rewrite = pending.rewrite
             /\ p.text = pending.text /\ p.payload = pending.payload
  BY <1>1, <1>3 DEF PendingCommit, NoPending
<1> QED
  BY <1>1, <1>2, <1>3, <1>4, <1>5

(* A write of the saga that moves the call to pc, the record to stage st, and
   completes no chapter. *)
LEMMA AutoWrite ==
  ASSUME AutoIInv, ~Idle, NEW pc \in Labels, NEW st \in Stages,
         call' = [call EXCEPT !.pc = pc], pending' = [pending EXCEPT !.stage = st],
         progress' \in Progress, progress'.completed = progress.completed,
         QueueMatchesFlow', UNCHANGED <<outline, draft>>,
         pc \in FactStores \cup {"final", "summary", "applied"} => st = "started",
         pc \in {"mark", "drain", "complete", "marked"} => st = "state_applied",
         pc \in {"checkpoint", "saved"} => st = "progress_marked",
         pc \in {"clear_in_progress", "clear_pending"} => st = "signal_saved",
         pc \in FactStores => ~call.rewrite,
         \/ pending.rewrite
         \/ st \in {"progress_marked", "signal_saved"}
         \/ pc \in {"drain", "complete", "marked"}
         => pending.chapter \in progress.completed
  PROVE  AutoIInv'
<1>1. /\ pending' \in PendingCommit /\ pending' # NoPending /\ pending'.stage = st
      /\ pending'.chapter = pending.chapter /\ pending'.rewrite = pending.rewrite
      /\ pending'.text = pending.text /\ pending'.payload = pending.payload
      /\ call' \in Call /\ call'.pc = pc /\ call'.chapter = call.chapter
      /\ call'.rewrite = call.rewrite /\ call'.text = call.text
      /\ call'.payload = call.payload /\ pending # NoPending
  BY AutoCalling
<1>2. CallFollowsRecord'
  BY <1>1 DEF AutoIInv, CallFollowsRecord
<1>3. RecordOfCompleted'
  BY <1>1 DEF RecordOfCompleted
<1> QED
  BY <1>1, <1>2, <1>3, AutoFrame DEF AutoIInv

(* Writes that leave the record and the progress alone. *)
LEMMA AutoFiles ==
  ASSUME AutoIInv, SaveFinal \/ SaveSummary \/ ApplyDelta \/ AppendCheckpoint
  PROVE  AutoIInv'
<1>1. PICK pc \in Labels :
        /\ call' = [call EXCEPT !.pc = pc]
        /\ UNCHANGED <<pending, progress, outline, draft>>
        /\ \/ call.pc = "final" /\ pc = "summary"
           \/ call.pc = "summary" /\ call.rewrite /\ pc = "applied"
           \/ call.pc = "summary" /\ ~call.rewrite /\ pc = "timeline"
           \/ call.pc \in FactStores /\ pc \in FactStores \cup {"applied"}
           \/ call.pc = "checkpoint" /\ pc = "saved"
  <2>1. CASE SaveFinal
    BY <2>1 DEF SaveFinal, At, Goto, Labels
  <2>2. CASE SaveSummary
    BY <2>2 DEF SaveSummary, At, Goto, Labels, FactStores
  <2>3. CASE ApplyDelta
    <3>1. \A s \in FactStores : AfterDelta[s] \in FactStores \cup {"applied"}
      BY DEF AfterDelta, FactStores
    <3> QED
      BY <2>3, <3>1 DEF ApplyDelta, At, Goto, Labels
  <2>4. CASE AppendCheckpoint
    BY <2>4 DEF AppendCheckpoint, At, Goto, Labels
  <2> QED
    BY <2>1, <2>2, <2>3, <2>4
<1>2. ~Idle
  BY <1>1 DEF Idle, FactStores
<1>3. /\ pending \in PendingCommit /\ pending # NoPending
      /\ pending' = [pending EXCEPT !.stage = pending.stage] /\ pending.stage \in Stages
  BY <1>1, <1>2, AutoCalling DEF PendingCommit
<1>4. /\ pending.stage = IF pc = "saved" THEN "progress_marked" ELSE "started"
      /\ pc \in FactStores => ~call.rewrite
      /\ pending.rewrite \/ pending.stage \in {"progress_marked", "signal_saved"}
           => pending.chapter \in progress.completed
  BY <1>1, <1>2, <1>3 DEF AutoIInv, CallFollowsRecord, RecordOfCompleted, FactStores
<1>5. /\ pc \in FactStores \cup {"summary", "applied", "saved"}
      /\ progress' \in Progress /\ QueueMatchesFlow'
  BY <1>1 DEF AutoIInv, QueueMatchesFlow, FactStores
<1> QED
  BY <1>1, <1>2, <1>3, <1>4, <1>5, AutoWrite DEF FactStores

(* Writes of the record. *)
LEMMA AutoRecord ==
  ASSUME AutoIInv, SaveApplied \/ SaveMarked \/ SaveSignal
  PROVE  AutoIInv'
<1>1. PICK pc \in Labels, st \in Stages :
        /\ call' = [call EXCEPT !.pc = pc]
        /\ pending' = [pending EXCEPT !.stage = st]
        /\ UNCHANGED <<progress, outline, draft>>
        /\ \/ call.pc = "applied" /\ pc = "mark" /\ st = "state_applied"
           \/ call.pc = "marked" /\ pc = "checkpoint" /\ st = "progress_marked"
           \/ call.pc = "saved" /\ pc = "clear_in_progress" /\ st = "signal_saved"
  BY DEF SaveApplied, SaveMarked, SaveSignal, At, Goto, Labels, Stages
<1>2. ~Idle
  BY <1>1 DEF Idle
<1>3. \/ pending.rewrite
      \/ st \in {"progress_marked", "signal_saved"}
      => pending.chapter \in progress.completed
  BY <1>1, <1>2 DEF AutoIInv, CallFollowsRecord, RecordOfCompleted
<1>4. progress' \in Progress /\ QueueMatchesFlow'
  BY <1>1 DEF AutoIInv, QueueMatchesFlow
<1> QED
  BY <1>1, <1>2, <1>3, <1>4, AutoWrite DEF FactStores

(* Writes of the progress that complete no chapter. *)
LEMMA AutoMarks ==
  ASSUME AutoIInv, MarkRewritten \/ DrainQueue \/ ApplyCompletion \/ ClearInProgress
  PROVE  AutoIInv'
<1>1. PICK pc \in Labels :
        /\ call' = [call EXCEPT !.pc = pc] /\ UNCHANGED <<pending, outline, draft>>
        /\ \/ /\ call.pc = "mark" /\ call.rewrite /\ pc \in {"drain", "complete"}
              /\ progress' \in {progress, Completing(call.chapter)}
           \/ /\ call.pc = "drain" /\ pc = "complete"
              /\ LET rest == progress.queue \ {call.chapter} IN
                 progress' = [progress EXCEPT !.queue = rest,
                                !.flow = IF rest = {} THEN "writing" ELSE @]
           \/ /\ call.pc = "complete" /\ pc = "marked"
              /\ progress' \in {progress, MarkedComplete}
           \/ /\ call.pc = "clear_in_progress" /\ pc = "clear_pending"
              /\ progress' = [progress EXCEPT !.inProgress = 0]
  <2>1. CASE MarkRewritten
    BY <2>1 DEF MarkRewritten, At, Goto, Labels
  <2>2. CASE DrainQueue
    BY <2>2 DEF DrainQueue, At, Goto, Labels
  <2>3. CASE ApplyCompletion
    BY <2>3 DEF ApplyCompletion, At, Goto, Labels
  <2>4. CASE ClearInProgress
    BY <2>4 DEF ClearInProgress, At, Goto, Labels
  <2> QED
    BY <2>1, <2>2, <2>3, <2>4
<1>2. ~Idle
  BY <1>1 DEF Idle
<1>3. /\ pending \in PendingCommit /\ pending # NoPending
      /\ pending' = [pending EXCEPT !.stage = pending.stage] /\ pending.stage \in Stages
      /\ call.chapter = pending.chapter /\ pending.chapter \in Chapters
  BY <1>1, <1>2, AutoCalling DEF PendingCommit
<1>4. \/ call.pc = "mark" /\ call.rewrite /\ pc \in {"drain", "complete"}
      \/ call.pc \in {"drain", "complete"} /\ pc \in {"complete", "marked"}
      \/ call.pc = "clear_in_progress" /\ pc = "clear_pending"
  BY <1>1
<1>5. /\ \/ pc \in {"drain", "complete", "marked"} /\ pending.stage = "state_applied"
         \/ pc = "clear_pending" /\ pending.stage = "signal_saved"
      /\ pending.chapter \in progress.completed
  BY <1>2, <1>3, <1>4 DEF AutoIInv, CallFollowsRecord, RecordOfCompleted
<1>6. /\ progress' \in Progress /\ progress'.completed = progress.completed
      /\ QueueMatchesFlow'
  <2>1. progress \in Progress /\ QueueMatchesFlow
    BY DEF AutoIInv
  <2>2. CASE progress' = progress
    BY <2>1, <2>2 DEF QueueMatchesFlow
  <2>3. CASE progress' = Completing(call.chapter)
    <3>1. progress.completed \cup {call.chapter} = progress.completed
      BY <1>3, <1>5
    <3> QED
      BY <2>1, <2>3, <3>1 DEF QueueMatchesFlow, Completing, Progress
  <2>4. CASE progress' = [progress EXCEPT
                            !.queue = progress.queue \ {call.chapter},
                            !.flow = IF progress.queue \ {call.chapter} = {}
                                       THEN "writing" ELSE @]
    <3>1. /\ progress' \in Progress /\ progress'.completed = progress.completed
          /\ progress'.queue = progress.queue \ {call.chapter}
          /\ progress'.flow = IF progress.queue \ {call.chapter} = {}
                                THEN "writing" ELSE progress.flow
      BY <2>1, <2>4 DEF Progress
    <3> QED
      BY <2>1, <3>1 DEF QueueMatchesFlow
  <2>5. CASE progress' = MarkedComplete
    BY <2>1, <2>5, AutoProgress DEF QueueMatchesFlow
  <2>6. CASE progress' = [progress EXCEPT !.inProgress = 0]
    BY <2>1, <2>6, AutoProgress DEF QueueMatchesFlow
  <2> QED
    BY <1>1, <2>2, <2>3, <2>4, <2>5, <2>6
<1> QED
  BY <1>1, <1>2, <1>3, <1>5, <1>6, AutoWrite DEF FactStores

LEMMA AutoLatest ==
  ASSUME AutoIInv
  PROVE  /\ LatestCompleted \in Nat
         /\ \A c \in progress.completed : c <= LatestCompleted
         /\ progress.completed # {} => LatestCompleted \in progress.completed
<1>1. progress.completed \subseteq Chapters
  BY DEF AutoIInv, Progress
<1> QED
  BY <1>1 DEF AutoIInv, LatestCompleted, HasLatest

(* The chapter of the record is completed: it was the next one, so its number is the
   largest. *)
LEMMA AutoMarkChapter ==
  ASSUME AutoIInv, MarkChapter
  PROVE  AutoIInv'
<1>1. /\ call.pc = "mark" /\ ~call.rewrite /\ UNCHANGED <<pending, outline, draft>>
      /\ call' = [call EXCEPT !.pc = "complete"] /\ "complete" \in Labels /\ ~Idle
  BY DEF MarkChapter, At, Goto, Labels, Idle
<1>2. /\ pending \in PendingCommit /\ pending # NoPending
      /\ call.chapter = pending.chapter /\ pending.chapter \in Chapters
      /\ call' \in Call /\ call'.pc = "complete" /\ call'.chapter = call.chapter
      /\ call'.rewrite = call.rewrite /\ call'.text = call.text
      /\ call'.payload = call.payload
  BY <1>1, AutoCalling
<1>3. progress \in Progress
  BY DEF AutoIInv
<1>4. /\ progress' \in Progress
      /\ progress'.completed = progress.completed \cup {pending.chapter}
      /\ progress'.queue = progress.queue /\ progress'.flow = progress.flow
  <2>1. CASE progress' = Completing(call.chapter)
    BY <1>2, <1>3, <2>1 DEF Completing, Progress
  <2>2. CASE call.chapter \in progress.completed /\ progress' = progress
    BY <1>2, <1>3, <2>2
  <2> QED
    BY <2>1, <2>2 DEF MarkChapter
<1>5. QueueMatchesFlow' /\ CallFollowsRecord' /\ RecordOfCompleted' /\ RecordIsNext'
  <2>1. QueueMatchesFlow'
    BY <1>4 DEF AutoIInv, QueueMatchesFlow
  <2>2. CallFollowsRecord'
    BY <1>1, <1>2 DEF AutoIInv, CallFollowsRecord, FactStores
  <2>3. RecordOfCompleted' /\ RecordIsNext'
    BY <1>1, <1>4 DEF RecordOfCompleted, RecordIsNext
  <2> QED
    BY <2>1, <2>2, <2>3
<1>6. HasLatest'
  <2>1. CASE pending.chapter \in progress.completed
    BY <1>4, <2>1 DEF AutoIInv, HasLatest
  <2>2. CASE pending.chapter \notin progress.completed
    <3>1. pending.chapter = LatestCompleted + 1
      BY <1>2, <2>2 DEF AutoIInv, RecordIsNext, NextChapter
    <3>2. LatestCompleted \in Nat /\ \A c \in progress.completed : c <= LatestCompleted
      BY AutoLatest
    <3>3. progress.completed \subseteq Nat
      BY <1>3 DEF Progress
    <3>4. \A c \in progress'.completed : c <= pending.chapter
      BY <1>4, <3>1, <3>2, <3>3
    <3> QED
      BY <1>4, <3>4 DEF HasLatest
  <2> QED
    BY <2>1, <2>2
<1> QED
  BY <1>1, <1>2, <1>4, <1>5, <1>6 DEF AutoIInv

(* The record is removed, or the call is interrupted. *)
LEMMA AutoEnds ==
  ASSUME AutoIInv, ClearPending \/ Interrupt
  PROVE  AutoIInv'
<1>1. /\ call' = NoCall /\ UNCHANGED <<progress, outline, draft>>
      /\ pending' = NoPending \/ pending' = pending
  BY DEF ClearPending, Interrupt, files
<1>2. CallFollowsRecord' /\ RecordOfCompleted' /\ QueueMatchesFlow'
  BY <1>1 DEF AutoIInv, CallFollowsRecord, RecordOfCompleted, QueueMatchesFlow, Idle, NoCall
<1> QED
  BY <1>1, <1>2, AutoFrame DEF AutoIInv

(* The automatic commit takes up the next chapter, or its record. *)
LEMMA AutoStarts ==
  ASSUME AutoIInv, AutoCommitStarts
  PROVE  AutoIInv'
<1> DEFINE ch == NextChapter
<1>1. ch \in Chapters /\ AutoPayload \in Payload /\ Idle
  BY AutoPayloadAssumption DEF AutoCommitStarts, CommitDue, Running
<1>2. CASE BeginCommit(ch, AutoPayload)
  <2> DEFINE rec == [chapter |-> ch, stage |-> "started", rewrite |-> FALSE,
                     text |-> draft[ch], payload |-> AutoPayload]
             new == [pc |-> "final", chapter |-> ch, rewrite |-> FALSE,
                     text |-> draft[ch], payload |-> AutoPayload]
  <2>1. /\ pending' = rec /\ call' = new
        /\ UNCHANGED <<progress, outline, draft>> /\ ch \notin progress.completed
        /\ draft[ch] # None
    BY <1>2 DEF BeginCommit, SaveStarted, Enter
  <2>2. draft[ch] \in Text
    BY <1>1, <2>1 DEF AutoIInv
  <2>3. rec \in PendingCommit /\ new \in Call
    BY <1>1, <2>2 DEF PendingCommit, Stages, Call, Labels
  <2>4. NextChapter' = ch
    BY <2>1 DEF NextChapter, LatestCompleted
  <2>5. CallFollowsRecord' /\ RecordOfCompleted' /\ RecordIsNext'
    <3> HIDE DEF ch
    <3>1. pending' # NoPending
      BY <1>1, <2>1 DEF NoPending
    <3> QED
      BY <2>1, <2>4, <3>1 DEF CallFollowsRecord, RecordOfCompleted, RecordIsNext, FactStores
  <2>6. QueueMatchesFlow' /\ HasLatest'
    BY <2>1 DEF AutoIInv, QueueMatchesFlow, HasLatest
  <2> QED
    BY <2>1, <2>3, <2>5, <2>6 DEF AutoIInv
<1>3. CASE Resume(ch, AutoPayload)
  <2>1. /\ pending \in PendingCommit /\ pending # NoPending /\ pending.chapter = ch
        /\ UNCHANGED <<pending, progress, outline, draft>>
        /\ call' = [pc |-> ResumeLabel[pending.stage], chapter |-> ch,
                    rewrite |-> pending.rewrite, text |-> pending.text,
                    payload |-> pending.payload]
    BY <1>3 DEF Resume, Enter, files, AutoIInv
  <2>2. \/ pending.stage = "started" /\ call'.pc = "final"
        \/ pending.stage = "state_applied" /\ call'.pc = "mark"
        \/ pending.stage = "progress_marked" /\ call'.pc = "checkpoint"
        \/ pending.stage = "signal_saved" /\ call'.pc = "clear_in_progress"
    BY <2>1 DEF PendingCommit, Stages, ResumeLabel
  <2>3. call' \in Call
    BY <1>1, <2>1, <2>2 DEF PendingCommit, Call, Labels
  <2>4. CallFollowsRecord' /\ RecordOfCompleted' /\ QueueMatchesFlow'
    <3> HIDE DEF ch
    <3> QED
      BY <2>1, <2>2
      DEF AutoIInv, CallFollowsRecord, RecordOfCompleted, QueueMatchesFlow, FactStores
  <2> QED
    BY <2>1, <2>3, <2>4, AutoFrame DEF AutoIInv
<1> QED
  BY <1>2, <1>3 DEF AutoCommitStarts

LEMMA AutoSteps ==
  ASSUME AutoIInv, [AutoNext \/ UserReopens]_autoVars
  PROVE  AutoIInv'
<1>1. CASE AutoCommitStep
  BY <1>1, AutoFiles, AutoRecord, AutoMarks, AutoMarkChapter, AutoEnds
  DEF AutoCommitStep, Saga
<1>2. CASE Crash
  <2>1. CASE Idle
    <3>1. UNCHANGED <<pending, progress, outline, draft, call>>
      BY <1>2, <2>1 DEF Crash, vars
    <3> QED
      BY <3>1 DEF AutoIInv, CallFollowsRecord, RecordOfCompleted, RecordIsNext,
                  QueueMatchesFlow, HasLatest, Idle, NextChapter, LatestCompleted
  <2>2. CASE ~Idle
    BY <1>2, <2>2, AutoEnds DEF Crash
  <2> QED
    BY <2>1, <2>2
<1> QED
  BY <1>1, <1>2, AutoStarts, AutoBetween DEF AutoNext

LEMMA AutoInitially == AutoInit => AutoIInv
BY DEF AutoInit, Init, AutoIInv, Progress, CallFollowsRecord, RecordOfCompleted,
       RecordIsNext, QueueMatchesFlow, HasLatest, Idle, NoCall, NoPending

(* A record that names the next chapter passes every check of the tool. *)
LEMMA AutoAccepted ==
  ASSUME AutoIInv
  PROVE  RefusedOnlyByStranded
<1> SUFFICES ASSUME CommitDue, Idle, ~Stranded
             PROVE  CommitAccepted
  BY DEF RefusedOnlyByStranded
<1>1. ~outline.layered
  BY FlatAssumption DEF AutoIInv
<1>2. CASE pending = NoPending
  <2>1. NextChapter \notin progress.completed
    BY AutoLatest DEF NextChapter
  <2>2. ChapterWorkAllowed(NextChapter)
    BY DEF CommitDue, ChapterWorkAllowed, AutoIInv, QueueMatchesFlow
  <2> QED
    BY <1>1, <1>2, <2>1, <2>2 DEF CommitAccepted, InOutline
<1>3. CASE pending # NoPending
  <2>1. pending.chapter \notin progress.completed
    BY <1>3 DEF Stranded
  <2> QED
    BY <1>1, <1>3, <2>1
    DEF AutoIInv, RecordIsNext, RecordOfCompleted, CommitAccepted, Resumable, InOutline
<1> QED
  BY <1>2, <1>3

\* However the engine is interrupted and continued and the book reopened, the
\* automatic commit of the next chapter of a flat book is refused only while the
\* record of a commit that died after marking its chapter complete is left
\* (engine.automaticCommitChapter, CommitChapterTool.Execute).
THEOREM OnlyStrandedRefuses == ReopenSpec => []RefusedOnlyByStranded
<1>1. AutoIInv /\ [AutoNext \/ UserReopens]_autoVars => AutoIInv'
  BY AutoSteps
<1>2. AutoIInv => RefusedOnlyByStranded
  BY AutoAccepted
<1> QED
  BY <1>1, <1>2, AutoInitially, PTL DEF ReopenSpec
================================================================================
