--------------------------- MODULE DuplicateProofs ---------------------------
(***************************************************************************)
(* Proofs about DuplicateScan for any number of workers, collections, jobs  *)
(* and changes: the types, that a cached fingerprint was made of a file of  *)
(* its own collection, and that a pair is hidden only as it was judged.     *)
(*                                                                         *)
(* The first needs an argument about ids and one about time.  The id of a   *)
(* deleted collection comes back, but the row of an item never does: it     *)
(* goes with its collection, and a job gets its rows only when it is made.  *)
(* So as long as the row of a worker is there its collection is the one it  *)
(* looked at.  And contents are new each time they are written, so a file   *)
(* that is the same before and after was the same in between.               *)
(***************************************************************************)
EXTENDS DuplicateScan, TLAPS

USE DEF Collections, Jobs

-----------------------------------------------------------------------------
(* Types.                                                                    *)

LEMMA TypeInit == Init => TypeOK
  BY DuplicateBoundsAssumption DEF Init, TypeOK, File, Places, Contents, Decisions

(* Files and collections come and go. *)
LEMMA AroundKeepsTypes ==
  ASSUME TypeOK, NEW c \in Collections,
         Rewrite(c) \/ Relocate(c) \/ Leave(c) \/ HardDelete(c) \/ Ingest(c)
  PROVE  TypeOK'
<1> USE DuplicateBoundsAssumption DEF Change
<1>1. changes' \in 0 .. MaxChanges
  BY DEF TypeOK, Rewrite, Relocate, Leave, HardDelete, Ingest
<1>2. CASE Rewrite(c)
  <2>0. file[c] \in File
    BY <1>2 DEF TypeOK, Rewrite
  <2>1. [file[c] EXCEPT !.content = changes'] \in File
    <3>1. changes' \in Contents
      BY <1>1 DEF Contents
    <3> HIDE DEF Change, Collections
    <3> QED BY ONLY <2>0, <3>1 DEF File
  <2> QED BY <1>1, <1>2, <2>1 DEF TypeOK, Rewrite, Becomes, tables, people
<1>3. CASE Relocate(c)
  <2>0. file[c] \in File
    BY <1>3 DEF TypeOK, Relocate
  <2>1. [file[c] EXCEPT !.place = changes'] \in File
    <3>1. changes' \in Places
      BY <1>1 DEF Places
    <3> HIDE DEF Change, Collections
    <3> QED BY ONLY <2>0, <3>1 DEF File
  <2> QED BY <1>1, <1>3, <2>1 DEF TypeOK, Relocate, Becomes, tables, people
<1>4. CASE Leave(c)
  BY <1>1, <1>4 DEF TypeOK, Leave, tables, people
<1>5. CASE HardDelete(c)
  BY <1>1, <1>5 DEF TypeOK, HardDelete, Cascade
<1>6. CASE Ingest(c)
  <2>1. [place |-> changes', content |-> changes'] \in File
    BY <1>1 DEF File, Places, Contents
  <2> QED BY <1>1, <1>6, <2>1 DEF TypeOK, Ingest, Becomes, tables, people
<1> QED BY <1>2, <1>3, <1>4, <1>5, <1>6

(* A job ends, or stays what it is. *)
LEMMA FinalizedType ==
  ASSUME NEW j \in Jobs, NEW items, job[j] \in {"none", "running", "completed", "completed_with_errors"}
  PROVE  Finalized(j, items) \in {"none", "running", "completed", "completed_with_errors"}
  BY DEF Finalized

LEMMA AskedKeepsTypes == TypeOK /\ Asked => TypeOK'
<1> SUFFICES ASSUME TypeOK, Asked PROVE TypeOK'
  OBVIOUS
<1> USE DuplicateBoundsAssumption DEF Trouble
<1>1. CASE \E j \in Jobs : StartScan(j)
  BY <1>1 DEF TypeOK, StartScan, library, people
<1>2. CASE \E j \in Jobs : RetryFailures(j)
  BY <1>2 DEF TypeOK, RetryFailures, library, people
<1>3. CASE \E p \in Pairs : LoadCandidates(p)
  <2>1. PICK p \in Pairs : LoadCandidates(p)
    BY <1>3
  <2>2. PairNow(p) \in Judgement
    BY <2>1 DEF TypeOK, LoadCandidates, Compared, PairNow, Judgement, Pairs
  <2> QED BY <2>1, <2>2 DEF TypeOK, LoadCandidates, library, tables
<1>4. CASE \E d \in Decisions : Decide(d)
  <2>1. PICK d \in Decisions : Decide(d)
    BY <1>4
  <2>2. list \in Judgement /\ list' = Null
    BY <2>1 DEF TypeOK, Decide
  <2>3. <<list.pair, list.left.content, list.right.content>> \in Pairs \X Contents \X Contents
    BY <2>2 DEF Judgement, Fingerprint, File
  <2>4. judged' \in [Decisions -> SUBSET Judgement]
    BY <2>1, <2>2 DEF TypeOK, Decide
  <2>5. meant' \in [Decisions -> SUBSET (Pairs \X Contents \X Contents)]
    BY <2>1, <2>3 DEF TypeOK, Decide
  <2> QED BY <2>1, <2>2, <2>4, <2>5 DEF TypeOK, Decide, library, tables
<1> QED BY <1>1, <1>2, <1>3, <1>4 DEF Asked

LEMMA LiveKeepsTypes == TypeOK /\ Live => TypeOK'
<1> SUFFICES ASSUME TypeOK, Live PROVE TypeOK'
  OBVIOUS
<1> USE DuplicateBoundsAssumption DEF At
<1>1. CASE \E w \in Workers, j \in Jobs, c \in Collections : ClaimCached(w, j, c)
  BY <1>1, FinalizedType DEF TypeOK, ClaimCached, library, people
<1>2. CASE \E w \in Workers, j \in Jobs, c \in Collections : Claim(w, j, c)
  <2>1. PICK w \in Workers, j \in Jobs, c \in Collections : Claim(w, j, c)
    BY <1>2
  <2> DEFINE p == IF file[c] = Null THEN 0 ELSE file[c].place
             n == [at |-> "claimed", job |-> j, collection |-> c, place |-> p]
  <2>2. p \in Places
    BY DEF TypeOK, File, Places
  <2>3. n \in Request
    BY <2>2 DEF Request
  <2>4. worker' = [worker EXCEPT ![w] = n]
    BY <2>1 DEF Claim
  <2> HIDE DEF n
  <2> QED BY <2>1, <2>3, <2>4 DEF TypeOK, Claim, Claimed, library, people
<1>3. CASE \E w \in Workers : Identify(w)
  <2>1. PICK w \in Workers : Identify(w)
    BY <1>3
  <2>2. worker[w] \in Request
    BY <2>1 DEF TypeOK, Identify, Idle, Request, Hashing, Hashed, Answer
  <2> DEFINE c == worker[w].collection
             n == [at |-> "identified", job |-> worker[w].job, collection |-> c, before |-> file[c]]
             r == [at |-> "done", job |-> worker[w].job, collection |-> c, result |-> Null]
  <2>3. file[c] # Null => n \in Hashing
    BY <2>2 DEF TypeOK, Request, Hashing
  <2>4. r \in Answer
    BY <2>2 DEF Request, Answer
  <2>5. \/ worker' = [worker EXCEPT ![w] = n] /\ file[c] # Null
        \/ worker' = [worker EXCEPT ![w] = r]
    BY <2>1 DEF Identify, Reply, Stands
  <2>6. worker' \in [Workers -> {Idle} \cup Request \cup Hashing \cup Hashed \cup Answer]
    <3> HIDE DEF n, r, c
    <3> QED BY <2>3, <2>4, <2>5 DEF TypeOK
  <2> QED BY <2>1, <2>6 DEF TypeOK, Identify, library, tables, people
<1>4. CASE \E w \in Workers : Hash(w)
  <2>1. PICK w \in Workers : Hash(w)
    BY <1>4
  <2>2. worker[w] \in Hashing
    BY <2>1 DEF TypeOK, Hash, Idle, Request, Hashing, Hashed, Answer
  <2> DEFINE c == worker[w].collection
             n == [at |-> "hashed", job |-> worker[w].job, collection |-> c,
                   before |-> worker[w].before, content |-> file[c].content]
             r == [at |-> "done", job |-> worker[w].job, collection |-> c, result |-> Null]
  <2>3. file[c] # Null => n \in Hashed
    BY <2>2 DEF TypeOK, Hashing, Hashed, File
  <2>4. r \in Answer
    BY <2>2 DEF Hashing, Answer
  <2>5. \/ worker' = [worker EXCEPT ![w] = n] /\ file[c] # Null
        \/ worker' = [worker EXCEPT ![w] = r]
    BY <2>1 DEF Hash, Reply, Stands, TypeOK
  <2>6. worker' \in [Workers -> {Idle} \cup Request \cup Hashing \cup Hashed \cup Answer]
    <3> HIDE DEF n, r, c
    <3> QED BY <2>3, <2>4, <2>5 DEF TypeOK
  <2> QED BY <2>1, <2>6 DEF TypeOK, Hash, library, tables, people
<1>5. CASE \E w \in Workers : IdentifyAgain(w)
  <2>1. PICK w \in Workers : IdentifyAgain(w)
    BY <1>5
  <2>2. worker[w] \in Hashed
    BY <2>1 DEF TypeOK, IdentifyAgain, Idle, Request, Hashing, Hashed, Answer
  <2> DEFINE f == IF Unchanged(w)
                  THEN [source |-> worker[w].before, content |-> worker[w].content] ELSE Null
             n == [at |-> "done", job |-> worker[w].job, collection |-> worker[w].collection,
                   result |-> f]
  <2>3. f \in Fingerprint \cup {Null}
    BY <2>2 DEF Hashed, Fingerprint
  <2>4. n \in Answer
    <3> HIDE DEF f
    <3> QED BY <2>2, <2>3 DEF Hashed, Answer
  <2>5. worker' = [worker EXCEPT ![w] = n]
    BY <2>1 DEF IdentifyAgain, Reply
  <2>6. worker' \in [Workers -> {Idle} \cup Request \cup Hashing \cup Hashed \cup Answer]
    <3> HIDE DEF n
    <3> QED BY <2>4, <2>5 DEF TypeOK
  <2> QED BY <2>1, <2>6 DEF TypeOK, IdentifyAgain, library, tables, people
<1>6. CASE \E w \in Workers : Finish(w)
  <2>1. PICK w \in Workers : Finish(w)
    BY <1>6
  <2>2. worker[w] \in Answer
    BY <2>1 DEF TypeOK, Finish, Idle, Request, Hashing, Hashed, Answer
  <2>3. worker' \in [Workers -> {Idle} \cup Request \cup Hashing \cup Hashed \cup Answer]
    BY <2>1 DEF TypeOK, Finish
  <2>4. CASE Answers(w) = {}
    BY <2>1, <2>3, <2>4 DEF TypeOK, Finish, library, tables, people
  <2>5. CASE Answers(w) # {}
    <3>1. PICK i \in Answers(w) :
            /\ item' = [item EXCEPT ![i] = IF worker[w].result = Null THEN "failed" ELSE "processed"]
            /\ fingerprint' = IF worker[w].result = Null THEN fingerprint
                              ELSE [fingerprint EXCEPT ![worker[w].collection] = worker[w].result]
            /\ job' = [job EXCEPT ![i[1]] = Finalized(i[1], item')]
      BY <2>1, <2>5 DEF Finish
    <3>2. i \in Jobs \X Collections
      BY DEF Answers
    <3>3. item' \in [Jobs \X Collections -> {"none", "pending", "running", "processed", "failed"}]
      BY <3>1, <3>2 DEF TypeOK
    <3>4. fingerprint' \in [Collections -> Fingerprint \cup {Null}]
      BY <2>2, <3>1 DEF TypeOK, Answer
    <3>5. job' \in [Jobs -> {"none", "running", "completed", "completed_with_errors"}]
      BY <3>1, <3>2, FinalizedType DEF TypeOK
    <3> QED BY <2>1, <2>3, <3>3, <3>4, <3>5 DEF TypeOK, Finish, library, people
  <2> QED BY <2>4, <2>5
<1> QED BY <1>1, <1>2, <1>3, <1>4, <1>5, <1>6 DEF Live

LEMMA TroubledKeepsTypes == TypeOK /\ Troubled => TypeOK'
<1> SUFFICES ASSUME TypeOK, Troubled PROVE TypeOK'
  OBVIOUS
<1> USE DuplicateBoundsAssumption DEF Trouble
<1>1. CASE \E w \in Workers, j \in Jobs, c \in Collections : ClaimBreaks(w, j, c)
  BY <1>1 DEF TypeOK, ClaimBreaks, Claimed, library, people
<1>2. CASE \E w \in Workers : FinishBreaks(w)
  <2>1. PICK w \in Workers : FinishBreaks(w)
    BY <1>2
  <2>2. Answers(w) \subseteq Jobs \X Collections
    BY DEF Answers
  <2>3. lost' \subseteq Jobs \X Collections
    BY <2>1, <2>2 DEF TypeOK, FinishBreaks
  <2>4. worker' \in [Workers -> {Idle} \cup Request \cup Hashing \cup Hashed \cup Answer]
    BY <2>1 DEF TypeOK, FinishBreaks
  <2>5. troubles' \in 0 .. MaxTroubles
    BY <2>1 DEF TypeOK, FinishBreaks
  <2>6. UNCHANGED <<library, tables, people, up, changes>>
    BY <2>1 DEF FinishBreaks
  <2> QED BY <2>3, <2>4, <2>5, <2>6 DEF TypeOK, library, tables, people
<1>3. CASE Crash
  <2>1. worker' \in [Workers -> {Idle} \cup Request \cup Hashing \cup Hashed \cup Answer]
    BY <1>3 DEF Crash
  <2>2. troubles' \in 0 .. MaxTroubles
    BY <1>3 DEF TypeOK, Crash
  <2>3. up' \in BOOLEAN
    BY <1>3, Zenon DEF Crash
  <2>4. UNCHANGED <<library, tables, people, lost, changes>>
    BY <1>3 DEF Crash
  <2> QED BY <2>1, <2>2, <2>3, <2>4 DEF TypeOK, library, tables, people
<1>4. CASE Restart
  BY <1>4 DEF TypeOK, Restart, Recovered, library, people
<1> QED BY <1>1, <1>2, <1>3, <1>4 DEF Troubled

(* Every table, thread and observation keeps its type, for any bounds. *)
THEOREM DuplicateTypesCorrect == Spec => []TypeOK
<1>1. TypeOK /\ [Next]_vars => TypeOK'
  <2> SUFFICES ASSUME TypeOK, [Next]_vars PROVE TypeOK'
    OBVIOUS
  <2>1. CASE UNCHANGED vars
    BY <2>1 DEF TypeOK, vars, library, tables, people
  <2>2. CASE Around
    BY <2>2, AroundKeepsTypes DEF Around
  <2> QED BY <2>1, <2>2, AskedKeepsTypes, LiveKeepsTypes, TroubledKeepsTypes DEF Next
<1> QED BY <1>1, TypeInit, PTL DEF Spec

-----------------------------------------------------------------------------
(* Fingerprints.                                                             *)

FilesKnown ==
  \A c \in Collections : file[c] # Null => file[c] \in had[c] /\ file[c].content <= changes

(* the rows of a collection went with it *)
GoneHaveNoRows ==
  \A c \in Collections : status[c] = "none" => \A j \in Jobs : item[<<j, c>>] = "none"

JobsAreMade == \A w \in Workers : worker[w].at # "idle" => job[worker[w].job] # "none"

(* what a worker has in hand, as long as the row of its item is there *)
RowThere(w) == item[<<worker[w].job, worker[w].collection>>] # "none"

Own(c, f) == f.source \in had[c] /\ f.source.content = f.content

Sound(w) ==
  LET c == worker[w].collection IN
  /\ worker[w].at = "identified" =>
       /\ worker[w].before \in had[c]
       /\ file[c] # Null => worker[w].before.content <= file[c].content
  /\ worker[w].at = "hashed" =>
       /\ worker[w].before \in had[c]
       /\ worker[w].before.content <= worker[w].content
       /\ file[c] # Null => worker[w].content <= file[c].content
  /\ worker[w].at = "done" /\ worker[w].result # Null => Own(c, worker[w].result)

HandsSound == \A w \in Workers : worker[w].at # "idle" /\ RowThere(w) => Sound(w)

OwnInv == TypeOK /\ FilesKnown /\ GoneHaveNoRows /\ JobsAreMade /\ HandsSound /\ FingerprintIsOwn

LEMMA OwnInit == Init => OwnInv
<1> SUFFICES ASSUME Init PROVE OwnInv
  OBVIOUS
<1>1. TypeOK
  BY TypeInit
<1>2. FilesKnown /\ GoneHaveNoRows
  BY DEF Init, FilesKnown, GoneHaveNoRows
<1>3. JobsAreMade /\ HandsSound /\ FingerprintIsOwn
  BY DEF Init, JobsAreMade, HandsSound, FingerprintIsOwn, Idle
<1> QED BY <1>1, <1>2, <1>3 DEF OwnInv

(* The shape of what is in hand. *)
LEMMA HandShape ==
  ASSUME TypeOK, NEW w \in Workers
  PROVE  /\ worker[w].at = "claimed" <=> worker[w] \in Request
         /\ worker[w].at = "identified" <=> worker[w] \in Hashing
         /\ worker[w].at = "hashed" <=> worker[w] \in Hashed
         /\ worker[w].at = "done" <=> worker[w] \in Answer
         /\ worker[w].at = "idle" <=> worker[w] = Idle
         /\ worker[w] # Idle => worker[w].job \in Jobs /\ worker[w].collection \in Collections
BY DEF TypeOK, Idle, Request, Hashing, Hashed, Answer

LEMMA ContentsAreNumbers ==
  ASSUME NEW f \in File
  PROVE  f.content \in Nat
BY DuplicateBoundsAssumption DEF File, Contents

(* When no hand moves, no row appears and no file goes back, hands stay sound. *)
LEMMA SoundStays ==
  ASSUME TypeOK, TypeOK', HandsSound, UNCHANGED worker,
         NEW w \in Workers, worker[w].at # "idle", RowThere(w)',
         RowThere(w),
         NEW c, c = worker[w].collection,
         had[c] \subseteq had'[c],
         file'[c] # Null => file[c] # Null /\ file[c].content <= file'[c].content
  PROVE  Sound(w)'
<1>1. Sound(w)
  BY DEF HandsSound
<1>2. /\ c \in Collections
      /\ file[c] # Null => file[c].content \in Nat
      /\ file'[c] # Null => file'[c].content \in Nat
  BY HandShape, ContentsAreNumbers DEF TypeOK, Idle
<1>4. ASSUME worker[w].at = "identified"
      PROVE  /\ worker[w].before \in had'[c]
             /\ file'[c] # Null => worker[w].before.content <= file'[c].content
  <2>1. worker[w].before.content \in Nat
    BY <1>4, HandShape, ContentsAreNumbers DEF Hashing
  <2> QED BY <1>1, <1>2, <1>4, <2>1 DEF Sound
<1>5. ASSUME worker[w].at = "hashed"
      PROVE  /\ worker[w].before \in had'[c]
             /\ worker[w].before.content <= worker[w].content
             /\ file'[c] # Null => worker[w].content <= file'[c].content
  <2>1. worker[w].content \in Nat
    BY <1>5, HandShape, DuplicateBoundsAssumption DEF Hashed, Contents
  <2> QED BY <1>1, <1>2, <1>5, <2>1 DEF Sound
<1>6. worker[w].at = "done" /\ worker[w].result # Null =>
        worker[w].result.source \in had'[c] /\ worker[w].result.source.content = worker[w].result.content
  BY <1>1 DEF Sound, Own
<1> QED BY <1>4, <1>5, <1>6 DEF Sound, Own

LEMMA AroundKeepsOwn ==
  ASSUME OwnInv, NEW c \in Collections,
         Rewrite(c) \/ Relocate(c) \/ Leave(c) \/ HardDelete(c) \/ Ingest(c)
  PROVE  OwnInv'
<1> USE DEF OwnInv
<1>1. TypeOK'
  BY AroundKeepsTypes
<1>2. changes \in Nat /\ changes' = changes + 1
  BY DuplicateBoundsAssumption DEF TypeOK, Rewrite, Relocate, Leave, HardDelete, Ingest, Change
<1>3. UNCHANGED <<worker, job>>
  BY DEF Rewrite, Relocate, Leave, HardDelete, Ingest, tables
<1>4. \A d \in Collections : file[d] # Null => file[d].content \in Nat
  BY ContentsAreNumbers DEF TypeOK
<1>5. ASSUME NEW d \in Collections, d # c
      PROVE  file'[d] = file[d] /\ had'[d] = had[d] /\ status'[d] = status[d]
  BY <1>5 DEF TypeOK, Rewrite, Relocate, Leave, HardDelete, Ingest, Becomes
<1>6. ASSUME NEW j \in Jobs, NEW d \in Collections
      PROVE  item'[<<j, d>>] = IF HardDelete(c) /\ d = c THEN "none" ELSE item[<<j, d>>]
  BY DEF TypeOK, Rewrite, Relocate, Leave, HardDelete, Ingest, Cascade, tables
<1>7. /\ Ingest(c) => status[c] = "none"
      /\ ~Ingest(c) /\ ~HardDelete(c) =>
           /\ had[c] \subseteq had'[c]
           /\ file'[c] # Null => file[c] # Null /\ file[c].content <= file'[c].content
  <2>1. CASE Rewrite(c)
    <3>1. file[c] # Null /\ file'[c] = [file[c] EXCEPT !.content = changes']
      BY <2>1 DEF Rewrite, Becomes, TypeOK
    <3>2. file'[c].content = changes'
      BY <3>1 DEF TypeOK, File
    <3>3. had'[c] = had[c] \cup {file'[c]}
      BY <2>1 DEF Rewrite, Becomes, TypeOK
    <3> QED BY <3>1, <3>2, <3>3, <1>2, <1>4, <2>1 DEF FilesKnown, Ingest
  <2>2. CASE Relocate(c)
    <3>1. file[c] # Null /\ file'[c] = [file[c] EXCEPT !.place = changes']
      BY <2>2 DEF Relocate, Becomes, TypeOK
    <3>2. file'[c].content = file[c].content
      BY <3>1 DEF TypeOK, File
    <3>3. had'[c] = had[c] \cup {file'[c]}
      BY <2>2 DEF Relocate, Becomes, TypeOK
    <3> QED BY <3>1, <3>2, <3>3, <1>4, <2>2 DEF Ingest
  <2>3. CASE Leave(c)
    BY <2>3 DEF Leave, TypeOK, Ingest
  <2> QED BY <2>1, <2>2, <2>3 DEF Ingest
<1>8. FilesKnown'
  <2>1. ASSUME NEW d \in Collections, d # c, file'[d] # Null
        PROVE  file'[d] \in had'[d] /\ file'[d].content <= changes'
    BY <2>1, <1>2, <1>4, <1>5 DEF FilesKnown
  <2>2. ASSUME file'[c] # Null PROVE file'[c] \in had'[c]
    <3>1. CASE Rewrite(c)
      BY <3>1 DEF TypeOK, Rewrite, Becomes
    <3>2. CASE Relocate(c)
      BY <3>2 DEF TypeOK, Relocate, Becomes
    <3>3. CASE Leave(c) \/ HardDelete(c)
      BY <2>2, <3>3 DEF TypeOK, Leave, HardDelete
    <3>4. CASE Ingest(c)
      BY <3>4 DEF TypeOK, Ingest, Becomes
    <3> QED BY <3>1, <3>2, <3>3, <3>4
  <2>3. ASSUME file'[c] # Null PROVE file'[c].content <= changes'
    <3>1. CASE Rewrite(c)
      BY <1>2, <3>1 DEF TypeOK, Rewrite, Becomes, File
    <3>2. CASE Relocate(c)
      BY <1>2, <1>4, <3>2 DEF TypeOK, Relocate, Becomes, File, FilesKnown
    <3>3. CASE Leave(c) \/ HardDelete(c)
      BY <2>3, <3>3 DEF TypeOK, Leave, HardDelete
    <3>4. CASE Ingest(c)
      BY <1>2, <3>4 DEF TypeOK, Ingest, Becomes
    <3> QED BY <3>1, <3>2, <3>3, <3>4
  <2> QED BY <2>1, <2>2, <2>3 DEF FilesKnown
<1>9. GoneHaveNoRows'
  <2>1. ASSUME ~HardDelete(c), status'[c] = "none" PROVE status[c] = "none"
    BY <2>1 DEF TypeOK, Rewrite, Relocate, Leave, Ingest
  <2> QED BY <2>1, <1>5, <1>6 DEF GoneHaveNoRows
<1>10. JobsAreMade'
  BY <1>3 DEF JobsAreMade
<1>11. HandsSound'
  <2> SUFFICES ASSUME NEW w \in Workers, worker[w].at # "idle", RowThere(w)'
               PROVE  Sound(w)'
    BY <1>3 DEF HandsSound
  <2> DEFINE d == worker[w].collection
  <2>1. d \in Collections /\ worker[w].job \in Jobs
    BY HandShape DEF Idle
  <2>2. RowThere(w) /\ ~(HardDelete(c) /\ d = c)
    BY <1>3, <1>6, <2>1 DEF RowThere
  <2>3. d = c => ~Ingest(c)
    BY <1>7, <2>1, <2>2 DEF RowThere, GoneHaveNoRows
  <2>4. /\ had[d] \subseteq had'[d]
        /\ file'[d] # Null => file[d] # Null /\ file[d].content <= file'[d].content
    BY <1>4, <1>5, <1>7, <2>1, <2>2, <2>3
  <2> HIDE DEF d
  <2>5. d = worker[w].collection
    BY DEF d
  <2> QED BY <1>1, <1>3, <2>2, <2>4, <2>5, SoundStays
<1>12. FingerprintIsOwn'
  <2> SUFFICES ASSUME NEW d \in Collections, fingerprint'[d] # Null
               PROVE  Own(d, fingerprint[d])' /\ fingerprint'[d] = fingerprint[d]
    BY DEF FingerprintIsOwn, Own
  <2>1. fingerprint'[d] = fingerprint[d] /\ ~(HardDelete(c) /\ d = c)
    BY DEF TypeOK, Rewrite, Relocate, Leave, HardDelete, Ingest, Cascade, tables
  <2>2. had[d] \subseteq had'[d]
    <3>1. CASE d # c
      BY <1>5, <3>1
    <3>2. CASE Ingest(c)
      BY <3>2 DEF TypeOK, Ingest, Becomes
    <3> QED BY <1>7, <2>1, <3>1, <3>2
  <2> QED BY <2>1, <2>2 DEF Own, FingerprintIsOwn
<1> QED BY <1>1, <1>8, <1>9, <1>10, <1>11, <1>12

(* The files stay: what is asked, worked at and troubled leaves them alone. *)
LEMMA FilesStay ==
  ASSUME OwnInv, TypeOK', UNCHANGED library, changes' \in Nat, changes <= changes',
         \A j \in Jobs, d \in Collections :
           item'[<<j, d>>] # "none" => item[<<j, d>>] # "none" \/ status[d] # "none"
  PROVE  FilesKnown' /\ GoneHaveNoRows'
<1> USE DEF OwnInv, library
<1>1. FilesKnown'
  BY ContentsAreNumbers, DuplicateBoundsAssumption DEF FilesKnown, TypeOK
<1>2. GoneHaveNoRows'
  BY DEF GoneHaveNoRows
<1> QED BY <1>1, <1>2

LEMMA AskedKeepsOwn == OwnInv /\ Asked => OwnInv'
<1> SUFFICES ASSUME OwnInv, Asked PROVE OwnInv'
  OBVIOUS
<1> USE DEF OwnInv
<1>1. TypeOK'
  BY AskedKeepsTypes
<1>2. UNCHANGED <<library, fingerprint, worker, changes>>
  BY DEF Asked, StartScan, RetryFailures, LoadCandidates, Decide, people, tables
<1>3. \A j \in Jobs : job[j] # "none" => job'[j] # "none"
  BY DEF TypeOK, Asked, StartScan, RetryFailures, LoadCandidates, Decide, tables
<1>4. ASSUME NEW j \in Jobs, NEW d \in Collections, item'[<<j, d>>] # "none"
      PROVE  item[<<j, d>>] # "none" \/ (status[d] = "active" /\ job[j] = "none")
  <2>1. CASE \E k \in Jobs : StartScan(k)
    BY <1>4, <2>1 DEF TypeOK, StartScan
  <2>2. CASE \E k \in Jobs : RetryFailures(k)
    BY <1>4, <2>2 DEF TypeOK, RetryFailures
  <2>3. CASE (\E p \in Pairs : LoadCandidates(p)) \/ (\E e \in Decisions : Decide(e))
    BY <1>4, <2>3 DEF LoadCandidates, Decide, tables
  <2> QED BY <2>1, <2>2, <2>3 DEF Asked
<1>5. FilesKnown' /\ GoneHaveNoRows'
  <2>1. changes' \in Nat /\ changes <= changes'
    BY <1>2, DuplicateBoundsAssumption DEF TypeOK
  <2> QED BY <1>1, <1>2, <1>4, <2>1, FilesStay
<1>6. JobsAreMade'
  BY <1>2, <1>3, HandShape DEF JobsAreMade, Idle
<1>7. HandsSound'
  <2> SUFFICES ASSUME NEW w \in Workers, worker[w].at # "idle", RowThere(w)'
               PROVE  Sound(w)'
    BY <1>2 DEF HandsSound
  <2> DEFINE d == worker[w].collection
  <2>1. d \in Collections /\ worker[w].job \in Jobs /\ job[worker[w].job] # "none"
    BY HandShape DEF Idle, JobsAreMade
  <2>2. RowThere(w)
    BY <1>2, <1>4, <2>1 DEF RowThere
  <2>3. /\ had[d] \subseteq had'[d]
        /\ file'[d] # Null => file[d] # Null /\ file[d].content <= file'[d].content
    BY <1>2, <2>1, ContentsAreNumbers DEF TypeOK, library
  <2> HIDE DEF d
  <2>4. d = worker[w].collection
    BY DEF d
  <2> QED BY <1>1, <1>2, <2>2, <2>3, <2>4, SoundStays
<1>8. FingerprintIsOwn'
  BY <1>2 DEF FingerprintIsOwn, library
<1> QED BY <1>1, <1>5, <1>6, <1>7, <1>8

(* A worker takes a step of its own: its new hand is sound, the others stay. *)
LEMMA HandMoves ==
  ASSUME OwnInv, TypeOK', UNCHANGED library,
         NEW w \in Workers, NEW n,
         worker' = [worker EXCEPT ![w] = n],
         \A j \in Jobs, d \in Collections :
           item'[<<j, d>>] # "none" => item[<<j, d>>] # "none",
         \A j \in Jobs : job[j] # "none" => job'[j] # "none",
         n.at # "idle" => job[n.job] # "none" /\ n.job \in Jobs,
         n.at # "idle" /\ RowThere(w)' => Sound(w)'
  PROVE  JobsAreMade' /\ HandsSound'
<1> USE DEF OwnInv
<1>1. worker'[w] = n /\ \A v \in Workers \ {w} : worker'[v] = worker[v]
  BY DEF TypeOK
<1>2. JobsAreMade'
  BY <1>1, HandShape DEF JobsAreMade, Idle
<1>3. ASSUME NEW v \in Workers, v # w, worker'[v].at # "idle", RowThere(v)'
      PROVE  Sound(v)'
  <2>1. worker'[v] = worker[v]
    BY <1>1, <1>3
  <2>2. worker[v].job \in Jobs /\ worker[v].collection \in Collections
    BY <1>3, <2>1, HandShape DEF Idle
  <2>3. RowThere(v)
    BY <1>3, <2>1, <2>2 DEF RowThere
  <2>4. Sound(v)
    BY <1>3, <2>1, <2>3 DEF HandsSound
  <2> QED BY <2>1, <2>4 DEF Sound, Own, library
<1>4. HandsSound'
  BY <1>1, <1>3 DEF HandsSound
<1> QED BY <1>2, <1>4

(* What the steps of workers and of the service have in common. *)
LEMMA WorkFrame ==
  ASSUME OwnInv, Live \/ Troubled
  PROVE  /\ TypeOK'
         /\ UNCHANGED <<library, changes>>
         /\ \A j \in Jobs, d \in Collections :
              item'[<<j, d>>] # "none" => item[<<j, d>>] # "none"
         /\ FilesKnown' /\ GoneHaveNoRows'
<1> USE DEF OwnInv
<1>1. TypeOK'
  BY LiveKeepsTypes, TroubledKeepsTypes
<1>2. UNCHANGED <<library, changes>>
  BY DEF Live, ClaimCached, Claim, Identify, Hash, IdentifyAgain, Finish,
         Troubled, ClaimBreaks, FinishBreaks, Crash, Restart
<1>3. ASSUME NEW j \in Jobs, NEW d \in Collections, item'[<<j, d>>] # "none"
      PROVE  item[<<j, d>>] # "none"
  <2>1. CASE \E w \in Workers, k \in Jobs, c \in Collections :
               ClaimCached(w, k, c) \/ Claim(w, k, c) \/ ClaimBreaks(w, k, c)
    <3>1. PICK w \in Workers, k \in Jobs, c \in Collections :
            ClaimCached(w, k, c) \/ Claim(w, k, c) \/ ClaimBreaks(w, k, c)
      BY <2>1
    <3>2. item[<<k, c>>] = "pending"
      BY <3>1 DEF ClaimCached, Claim, ClaimBreaks, First, Claimable
    <3>3. \E s \in {"processed", "running"} : item' = [item EXCEPT ![<<k, c>>] = s]
      BY <3>1 DEF ClaimCached, Claim, ClaimBreaks, Claimed
    <3> QED BY <1>3, <3>2, <3>3 DEF TypeOK
  <2>2. CASE \E w \in Workers : Identify(w) \/ Hash(w) \/ IdentifyAgain(w) \/ FinishBreaks(w)
    BY <1>3, <2>2 DEF Identify, Hash, IdentifyAgain, FinishBreaks, tables
  <2>3. CASE \E w \in Workers : Finish(w)
    <3>1. PICK w \in Workers : Finish(w)
      BY <2>3
    <3>2. \/ UNCHANGED item
          \/ \E i \in Answers(w), s \in {"failed", "processed"} : item' = [item EXCEPT ![i] = s]
      BY <3>1 DEF Finish, tables
    <3>3. \A i \in Answers(w) : i \in Jobs \X Collections /\ item[i] # "none"
      BY DEF Answers
    <3> HIDE DEF Collections, Jobs
    <3> QED BY <1>3, <3>2, <3>3 DEF TypeOK
  <2>4. CASE Crash \/ Restart
    BY <1>3, <2>4 DEF TypeOK, Crash, Restart, Recovered, tables
  <2> QED BY <2>1, <2>2, <2>3, <2>4 DEF Live, Troubled
<1>4. FilesKnown' /\ GoneHaveNoRows'
  <2>1. changes' \in Nat /\ changes <= changes'
    BY <1>2, DuplicateBoundsAssumption DEF TypeOK
  <2> QED BY <1>1, <1>2, <1>3, <2>1, FilesStay
<1> QED BY <1>1, <1>2, <1>3, <1>4

(* Jobs do not become unmade. *)
LEMMA JobsStayMade ==
  ASSUME OwnInv, Live \/ Troubled
  PROVE  \A j \in Jobs : job[j] # "none" => job'[j] # "none"
<1> SUFFICES ASSUME NEW j \in Jobs, job[j] # "none" PROVE job'[j] # "none"
  OBVIOUS
<1> USE DEF OwnInv
<1>1. \A items : \A k \in Jobs : job[k] # "none" => Finalized(k, items) # "none"
  BY DEF Finalized
<1>2. CASE \E w \in Workers, k \in Jobs, c \in Collections : ClaimCached(w, k, c)
  BY <1>1, <1>2 DEF TypeOK, ClaimCached
<1>3. CASE \E w \in Workers : Finish(w)
  <2>1. PICK w \in Workers : Finish(w)
    BY <1>3
  <2>2. \/ UNCHANGED job
        \/ \E i \in Answers(w) : job' = [job EXCEPT ![i[1]] = Finalized(i[1], item')]
    BY <2>1 DEF Finish, tables
  <2>3. \A i \in Answers(w) : i[1] \in Jobs
    BY DEF Answers
  <2>4. job[j] # "none" /\ \A k \in Jobs : k = j => Finalized(k, item') # "none"
    BY <1>1
  <2> HIDE DEF Jobs, Collections
  <2> QED BY <2>2, <2>3, <2>4 DEF TypeOK
<1>4. CASE Restart
  BY <1>4 DEF TypeOK, Restart
<1>5. CASE \/ \E w \in Workers, k \in Jobs, c \in Collections : Claim(w, k, c) \/ ClaimBreaks(w, k, c)
           \/ \E w \in Workers : Identify(w) \/ Hash(w) \/ IdentifyAgain(w) \/ FinishBreaks(w)
           \/ Crash
  BY <1>5 DEF Claim, ClaimBreaks, Identify, Hash, IdentifyAgain, FinishBreaks, Crash, tables
<1> QED BY <1>2, <1>3, <1>4, <1>5 DEF Live, Troubled

(* Idle hands, and steps that leave every hand as it is. *)
LEMMA HandsStay ==
  ASSUME OwnInv, Live \/ Troubled,
         \A w \in Workers : worker'[w] = worker[w] \/ worker'[w] = Idle
  PROVE  JobsAreMade' /\ HandsSound'
<1> USE DEF OwnInv
<1>1. JobsAreMade'
  BY JobsStayMade, HandShape DEF JobsAreMade, Idle
<1>2. ASSUME NEW w \in Workers, worker'[w].at # "idle", RowThere(w)'
      PROVE  Sound(w)'
  <2>1. worker'[w] = worker[w]
    BY <1>2 DEF Idle
  <2>2. worker[w].job \in Jobs /\ worker[w].collection \in Collections
    BY <1>2, <2>1, HandShape DEF Idle
  <2>3. RowThere(w)
    BY <1>2, <2>1, <2>2, WorkFrame DEF RowThere
  <2>4. Sound(w)
    BY <1>2, <2>1, <2>3 DEF HandsSound
  <2> QED BY <2>1, <2>4, WorkFrame DEF Sound, Own, library
<1> QED BY <1>1, <1>2 DEF HandsSound

LEMMA WorkKeepsOwn == OwnInv /\ (Live \/ Troubled) => OwnInv'
<1> SUFFICES ASSUME OwnInv, Live \/ Troubled PROVE OwnInv'
  OBVIOUS
<1> USE DEF OwnInv
<1>1. TypeOK' /\ FilesKnown' /\ GoneHaveNoRows' /\ UNCHANGED library
  BY WorkFrame
<1>2. CASE \E w \in Workers, j \in Jobs, c \in Collections : ClaimCached(w, j, c) \/ ClaimBreaks(w, j, c)
  <2>1. UNCHANGED <<worker, fingerprint>>
    BY <1>2 DEF ClaimCached, ClaimBreaks
  <2> QED BY <1>1, <2>1, HandsStay DEF FingerprintIsOwn, library
<1>3. CASE \E w \in Workers, j \in Jobs, c \in Collections : Claim(w, j, c)
  <2>1. PICK w \in Workers, j \in Jobs, c \in Collections : Claim(w, j, c)
    BY <1>3
  <2> DEFINE n == [at |-> "claimed", job |-> j, collection |-> c,
                   place |-> IF file[c] = Null THEN 0 ELSE file[c].place]
  <2>2. worker' = [worker EXCEPT ![w] = n] /\ UNCHANGED fingerprint
    BY <2>1 DEF Claim
  <2>3. n.at = "claimed" /\ n.job = j
    OBVIOUS
  <2>4. job[j] # "none"
    BY <2>1 DEF Claim, First, Claimable
  <2> HIDE DEF n
  <2>5. Sound(w)'
    BY <2>2, <2>3 DEF Sound, TypeOK
  <2>6. JobsAreMade' /\ HandsSound'
    BY <1>1, <2>2, <2>3, <2>4, <2>5, HandMoves, WorkFrame, JobsStayMade
  <2> QED BY <1>1, <2>2, <2>6 DEF FingerprintIsOwn, library
<1>4. CASE \E w \in Workers : Identify(w)
  <2>1. PICK w \in Workers : Identify(w)
    BY <1>4
  <2> DEFINE c == worker[w].collection
             n == IF Stands(c, worker[w].place)
                  THEN [at |-> "identified", job |-> worker[w].job, collection |-> c,
                        before |-> file[c]]
                  ELSE [at |-> "done", job |-> worker[w].job, collection |-> c, result |-> Null]
  <2>2. worker' = [worker EXCEPT ![w] = n] /\ UNCHANGED fingerprint
    BY <2>1 DEF Identify, Reply, tables
  <2>3. worker[w] \in Request
    BY <2>1, HandShape DEF Identify, At
  <2>4. n.job = worker[w].job /\ n.job \in Jobs /\ job[n.job] # "none" /\ n.collection = c /\ c \in Collections
    BY <2>1, <2>3 DEF JobsAreMade, Request
  <2>5. \/ n.at = "identified" /\ n.before = file[c] /\ file[c] # Null
        \/ n.at = "done" /\ n.result = Null
    BY DEF Stands
  <2>6. worker'[w] = n
    BY <2>2 DEF TypeOK
  <2> HIDE DEF n, c
  <2>7. Sound(w)'
    <3>1. file[c] # Null => file[c] \in had[c] /\ file[c].content <= file[c].content
      BY <2>4, ContentsAreNumbers DEF FilesKnown, TypeOK
    <3>2. file'[c] = file[c] /\ had'[c] = had[c]
      BY <1>1 DEF library
    <3> QED BY <2>4, <2>5, <2>6, <3>1, <3>2 DEF Sound
  <2>8. JobsAreMade' /\ HandsSound'
    BY <1>1, <2>2, <2>4, <2>7, HandMoves, WorkFrame, JobsStayMade
  <2> QED BY <1>1, <2>2, <2>8 DEF FingerprintIsOwn, library
<1>5. CASE \E w \in Workers : Hash(w)
  <2>1. PICK w \in Workers : Hash(w)
    BY <1>5
  <2> DEFINE c == worker[w].collection
             n == IF Stands(c, worker[w].before.place) /\ file[c].content \notin Unreadable
                  THEN [at |-> "hashed", job |-> worker[w].job, collection |-> c,
                        before |-> worker[w].before, content |-> file[c].content]
                  ELSE [at |-> "done", job |-> worker[w].job, collection |-> c, result |-> Null]
  <2>2. worker' = [worker EXCEPT ![w] = n] /\ UNCHANGED fingerprint
    BY <2>1 DEF Hash, Reply, tables, TypeOK
  <2>3. worker[w] \in Hashing
    BY <2>1, HandShape DEF Hash, At
  <2>4. n.job = worker[w].job /\ n.job \in Jobs /\ job[n.job] # "none" /\ n.collection = c /\ c \in Collections
    BY <2>1, <2>3 DEF JobsAreMade, Hashing
  <2>5. \/ /\ n.at = "hashed" /\ n.before = worker[w].before /\ n.content = file[c].content
           /\ file[c] # Null
        \/ n.at = "done" /\ n.result = Null
    BY DEF Stands
  <2>6. worker'[w] = n
    BY <2>2 DEF TypeOK
  <2>7. RowThere(w)' => RowThere(w)
    BY <2>4, <2>6, WorkFrame DEF RowThere
  <2>8. RowThere(w) => /\ worker[w].before \in had[c]
                       /\ file[c] # Null => worker[w].before.content <= file[c].content
    BY <2>3, HandShape DEF HandsSound, Sound, Hashing
  <2> HIDE DEF n, c
  <2>9. RowThere(w)' => Sound(w)'
    <3>1. file'[c] = file[c] /\ had'[c] = had[c]
      BY <1>1 DEF library
    <3>2. file[c] # Null => file[c].content <= file[c].content
      BY <2>4, ContentsAreNumbers DEF TypeOK
    <3> QED BY <2>4, <2>5, <2>6, <2>7, <2>8, <3>1, <3>2 DEF Sound
  <2>10. JobsAreMade' /\ HandsSound'
    BY <1>1, <2>2, <2>4, <2>9, HandMoves, WorkFrame, JobsStayMade
  <2> QED BY <1>1, <2>2, <2>10 DEF FingerprintIsOwn, library
<1>6. CASE \E w \in Workers : IdentifyAgain(w)
  <2>1. PICK w \in Workers : IdentifyAgain(w)
    BY <1>6
  <2> DEFINE c == worker[w].collection
             f == IF Unchanged(w)
                  THEN [source |-> worker[w].before, content |-> worker[w].content] ELSE Null
             n == [at |-> "done", job |-> worker[w].job, collection |-> c, result |-> f]
  <2>2. worker' = [worker EXCEPT ![w] = n] /\ UNCHANGED fingerprint
    BY <2>1 DEF IdentifyAgain, Reply, tables
  <2>3. worker[w] \in Hashed
    BY <2>1, HandShape DEF IdentifyAgain, At
  <2>4. n.job = worker[w].job /\ n.job \in Jobs /\ job[n.job] # "none" /\ n.collection = c /\ c \in Collections
    BY <2>1, <2>3 DEF JobsAreMade, Hashed
  <2>5. f # Null => f.source = worker[w].before /\ f.content = worker[w].content /\ file[c] = worker[w].before
    BY DEF Unchanged
  <2>6. n.at = "done" /\ n.result = f
    OBVIOUS
  <2>7. worker'[w] = n
    BY <2>2 DEF TypeOK
  <2>8. RowThere(w)' => RowThere(w)
    BY <2>4, <2>7, WorkFrame DEF RowThere
  <2>9. RowThere(w) => /\ worker[w].before \in had[c]
                       /\ worker[w].before.content <= worker[w].content
                       /\ file[c] # Null => worker[w].content <= file[c].content
    BY <2>3, HandShape DEF HandsSound, Sound, Hashed
  <2>10. worker[w].before.content \in Nat /\ worker[w].content \in Nat /\ worker[w].before # Null
    BY <2>3, ContentsAreNumbers, DuplicateBoundsAssumption, DuplicateNullAssumption DEF Hashed, Contents
  <2> HIDE DEF n, c, f
  <2>11. RowThere(w) /\ f # Null => f.source \in had[c] /\ f.source.content = f.content
    BY <2>5, <2>9, <2>10
  <2>12. RowThere(w)' => Sound(w)'
    <3>1. had'[c] = had[c]
      BY <1>1 DEF library
    <3> QED BY <2>4, <2>6, <2>7, <2>8, <2>11, <3>1 DEF Sound, Own
  <2>13. JobsAreMade' /\ HandsSound'
    BY <1>1, <2>2, <2>4, <2>12, HandMoves, WorkFrame, JobsStayMade
  <2> QED BY <1>1, <2>2, <2>13 DEF FingerprintIsOwn, library
<1>7. CASE \E w \in Workers : Finish(w)
  <2>1. PICK w \in Workers : Finish(w)
    BY <1>7
  <2>2. \A v \in Workers : worker'[v] = worker[v] \/ worker'[v] = Idle
    BY <2>1 DEF Finish, TypeOK
  <2>3. JobsAreMade' /\ HandsSound'
    BY <2>2, HandsStay
  <2>4. worker[w].at = "done" /\ worker[w] \in Answer
    BY <2>1, HandShape DEF Finish, At
  <2>5. FingerprintIsOwn'
    <3>1. CASE Answers(w) = {}
      BY <1>1, <2>1, <3>1 DEF Finish, tables, FingerprintIsOwn, library
    <3>2. CASE Answers(w) # {}
      <4>1. RowThere(w)
        BY <3>2 DEF Answers, RowThere
      <4>2. worker[w].result # Null => Own(worker[w].collection, worker[w].result)
        BY <2>4, <4>1 DEF HandsSound, Sound
      <4>3. \/ UNCHANGED fingerprint
            \/ /\ worker[w].result # Null
               /\ fingerprint' = [fingerprint EXCEPT ![worker[w].collection] = worker[w].result]
        BY <2>1, <3>2 DEF Finish
      <4> QED BY ZenonT(60), <1>1, <4>2, <4>3 DEF FingerprintIsOwn, Own, TypeOK, library
    <3> QED BY <3>1, <3>2
  <2> QED BY <1>1, <2>3, <2>5
<1>8. CASE Crash \/ Restart \/ \E w \in Workers : FinishBreaks(w)
  <2>1. /\ \A v \in Workers : worker'[v] = worker[v] \/ worker'[v] = Idle
        /\ UNCHANGED fingerprint
    BY <1>8 DEF FinishBreaks, Crash, Restart, TypeOK, tables
  <2> QED BY <1>1, <2>1, HandsStay DEF FingerprintIsOwn, library
<1> QED BY <1>2, <1>3, <1>4, <1>5, <1>6, <1>7, <1>8 DEF Live, Troubled

LEMMA OwnStep == OwnInv /\ [Next]_vars => OwnInv'
<1> SUFFICES ASSUME OwnInv, [Next]_vars PROVE OwnInv'
  OBVIOUS
<1>1. CASE UNCHANGED vars
  BY <1>1 DEF OwnInv, TypeOK, FilesKnown, GoneHaveNoRows, JobsAreMade, HandsSound, RowThere,
              Sound, Own, FingerprintIsOwn, vars, library, tables, people
<1>2. CASE Around
  BY <1>2, AroundKeepsOwn DEF Around
<1> QED BY <1>1, <1>2, AskedKeepsOwn, WorkKeepsOwn DEF Next

(* A cached fingerprint was made of a file its own collection has had, and  *)
(* its hashes are those of that file, whatever changes while it is hashed   *)
(* and whichever ids come back.                                             *)
THEOREM FingerprintsAreOwn == Spec => []FingerprintIsOwn
<1>1. OwnInv => FingerprintIsOwn
  BY DEF OwnInv
<1> QED BY <1>1, OwnInit, OwnStep, PTL DEF Spec

-----------------------------------------------------------------------------
(* Judgements.                                                               *)

JudgedAsMeant ==
  \A d \in Decisions : \A r \in judged[d] :
    <<r.pair, r.left.content, r.right.content>> \in meant[d]

LEMMA JudgedStep == TypeOK /\ JudgedAsMeant /\ [Next]_vars => JudgedAsMeant'
<1> SUFFICES ASSUME TypeOK, JudgedAsMeant, [Next]_vars PROVE JudgedAsMeant'
  OBVIOUS
<1>1. CASE \E c \in Collections : HardDelete(c)
  <2>1. PICK c \in Collections : Cascade(c)
    BY <1>1 DEF HardDelete
  <2>2. ASSUME NEW d \in Decisions, NEW r \in judged'[d]
        PROVE  <<r.pair, r.left.content, r.right.content>> \in meant'[d]
    <3>1. r \in judged[d] /\ r.pair[1] # c /\ r.pair[2] # c
      BY <2>1, <2>2 DEF Cascade
    <3> DEFINE m == <<r.pair, r.left.content, r.right.content>>
    <3>2. m \in meant[d] /\ m[1] = r.pair
      BY <3>1 DEF JudgedAsMeant
    <3> HIDE DEF m
    <3>3. m \in meant'[d]
      BY <2>1, <3>1, <3>2 DEF Cascade
    <3> QED BY <3>3 DEF m
  <2> QED BY <2>2 DEF JudgedAsMeant
<1>2. CASE \E d \in Decisions : Decide(d)
  <2>1. PICK d \in Decisions : Decide(d)
    BY <1>2
  <2> DEFINE m == <<list.pair, list.left.content, list.right.content>>
  <2>2. meant' = [meant EXCEPT ![d] = @ \cup {m}]
    BY <2>1 DEF Decide
  <2>3. judged' = [judged EXCEPT ![d] = @ \cup {list}] \/ judged' = judged
    BY <2>1 DEF Decide
  <2>4. \A e \in Decisions : meant[e] \subseteq meant'[e] /\ m \in meant'[d]
    <3> HIDE DEF m
    <3> QED BY <2>2 DEF TypeOK
  <2>5. ASSUME NEW e \in Decisions, NEW r \in judged'[e]
        PROVE  <<r.pair, r.left.content, r.right.content>> \in meant'[e]
    <3>1. r \in judged[e] \/ (e = d /\ r = list)
      BY <2>3 DEF TypeOK
    <3>2. CASE r \in judged[e]
      BY <2>4, <3>2 DEF JudgedAsMeant
    <3>3. CASE e = d /\ r = list
      BY <2>4, <3>3
    <3> QED BY <3>1, <3>2, <3>3
  <2> QED BY <2>5 DEF JudgedAsMeant
<1>3. CASE UNCHANGED <<judged, meant>>
  BY <1>3 DEF JudgedAsMeant
<1>4. \/ UNCHANGED <<judged, meant>>
      \/ \E c \in Collections : HardDelete(c)
      \/ \E d \in Decisions : Decide(d)
  BY DEF vars, people, Next, Around, Asked, Live, Troubled, Rewrite, Relocate, Leave, Ingest,
         StartScan, RetryFailures, LoadCandidates, ClaimCached, Claim, Identify, Hash,
         IdentifyAgain, Finish, ClaimBreaks, FinishBreaks, Crash, Restart
<1> QED BY <1>1, <1>2, <1>3, <1>4

(* A pair is kept from the candidates only when a person excluded this pair *)
(* with these contents in view, over new files, new scans and ids that come  *)
(* back.                                                                     *)
THEOREM PairsHideAsJudged == Spec => []HiddenAsJudged
<1>1. Init => JudgedAsMeant
  BY DEF Init, JudgedAsMeant
<1>2. TypeOK /\ JudgedAsMeant => HiddenAsJudged
  BY DEF HiddenAsJudged, JudgedAsMeant, Hidden, PairNow, Decisions
<1>3. Spec => []TypeOK
  BY DuplicateTypesCorrect
<1> QED BY <1>1, <1>2, <1>3, JudgedStep, PTL DEF Spec
=============================================================================
