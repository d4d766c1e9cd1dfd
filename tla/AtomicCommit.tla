----------------------------- MODULE AtomicCommit -----------------------------
(***************************************************************************)
(* What a chapter commit promises: a chapter enters the book in ONE step,  *)
(* with a text, the metadata (title, summary, ...) generated for that very *)
(* text, and the world facts carried by that metadata.  A rewrite replaces *)
(* text and metadata together, never touches the world facts of the        *)
(* original commit, and happens at most once for each time the chapter is  *)
(* opened for rewriting.  No other step changes the book: crashes, retries *)
(* and drafts written in between are invisible here.                       *)
(***************************************************************************)
CONSTANTS
  Chapters,    \* chapter numbers
  Text,        \* chapter bodies
  Payload,     \* commit arguments: title, summary and the world-state deltas
  FactStores,  \* the world-state files a delta may touch
  Touches,     \* Touches[p]: the stores payload p carries records for
  None         \* "no file"

VARIABLES
  text,        \* chapters/NN.md
  meta,        \* summaries/NN.json
  world,       \* world[ch][s]: the payloads store s holds records of for ch
  open         \* chapters opened for rewriting

vars == <<text, meta, world, open>>

Delta(p) == [s \in FactStores |-> IF s \in Touches[p] THEN {p} ELSE {}]

NoFacts == [s \in FactStores |-> {}]

Init == /\ text  = [ch \in Chapters |-> None]
        /\ meta  = [ch \in Chapters |-> None]
        /\ world = [ch \in Chapters |-> NoFacts]
        /\ open  = {}

\* The first commit of a chapter.
Commit(ch, t, p) ==
  /\ text[ch] = None
  /\ text'  = [text  EXCEPT ![ch] = t]
  /\ meta'  = [meta  EXCEPT ![ch] = p]
  /\ world' = [world EXCEPT ![ch] = Delta(p)]
  /\ UNCHANGED open

\* A rewrite or polish of an open chapter: something must change, and the facts
\* of the original commit stay.
Rewrite(ch, t, p) ==
  /\ ch \in open
  /\ text[ch] # None
  /\ <<t, p>> # <<text[ch], meta[ch]>>
  /\ text' = [text EXCEPT ![ch] = t]
  /\ meta' = [meta EXCEPT ![ch] = p]
  /\ open' = open \ {ch}
  /\ UNCHANGED world

\* The user decides which committed chapters are to be rewritten.
Open(chs) ==
  /\ \A ch \in chs : text[ch] # None
  /\ open' = chs
  /\ UNCHANGED <<text, meta, world>>

Next == \/ \E ch \in Chapters, t \in Text, p \in Payload :
             Commit(ch, t, p) \/ Rewrite(ch, t, p)
        \/ \E chs \in SUBSET Chapters : Open(chs)

Spec == Init /\ [][Next]_vars
================================================================================
