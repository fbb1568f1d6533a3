------------------------------ MODULE ScanProofs ------------------------------
(***************************************************************************)
(* Proofs about LibraryScan for any number of roots, places, collections,    *)
(* runs and changes of the disk.  A scan takes away no collection whose file *)
(* is there, however the disk and the access to the roots change under it    *)
(* (OnlyMissingAreMarked).  A scan over a disk nobody touched does what its   *)
(* preview said, but for the cases the catalog cannot foresee                *)
(* (PreviewIsTrue).  A scan, its tables and its numbers keep their types     *)
(* (ScanTypesCorrect).                                                       *)
(***************************************************************************)
EXTENDS LibraryScan, FiniteSetTheorems, TLAPS

Stages == {"walk", "ingest", "reconcile", "mark", "complete"}

\* the fields of a scan in progress, as BeginScan makes them
Fields == {"at", "run", "mode", "roots", "unsafe", "known", "children", "pending", "left",
           "target", "invalid", "issues", "count", "expected", "shaken", "ambiguous"}

RowsOK == collection \in [Ids -> Row]
AccessOK == access \in [Roots -> {"whole", "partly", "gone"}]

\* A root that the walk has behind it was reached, or it counts as unsafe with the roots above
\* it; it can be reached still unless somebody changed the access to one of them.
Behind ==
  \A r \in Roots : \/ r \in scan.roots \/ Up(r) \subseteq scan.unsafe
                   \/ Up(r) \cap scan.shaken # {} \/ Reached(r)

\* What is about to be marked is a collection filed under a safe root, after the walk.
Aimed ==
  /\ scan.target \in Ids \ scan.left /\ collection[scan.target].status = "active"
  /\ collection[scan.target].place \in Places
  /\ collection[scan.target].root \in Up(collection[scan.target].place[1]) \ scan.unsafe

\* What the walk of a root lists lies in its folder.
Filed(s) == \A c \in s.children \cup s.pending : c[3] \in Up(c[1][1])

ScanOK ==
  scan = Idle \/ /\ DOMAIN scan = Fields /\ scan.at \in Stages
                 /\ Behind /\ Filed(scan)
                 /\ scan.at # "walk" => scan.roots = {}
                 /\ scan.left \subseteq Active
                 /\ scan.at = "mark" => Aimed

ScanInv == RowsOK /\ AccessOK /\ ScanOK

-----------------------------------------------------------------------------
\* the roots above one are roots
LEMMA UpRoots ==
  ASSUME NEW r \in Roots
  PROVE  r \in Up(r) /\ Up(r) \subseteq Roots /\ \A q \in Up(r) : Up(q) \subseteq Up(r)
BY ScanPlacesAssumption DEF Up

LEMMA ScanInits == Init => ScanInv
<1> SUFFICES ASSUME Init PROVE ScanInv
  OBVIOUS
<1>1. RowsOK
  <2>1. PICK c \in Row : collection = [i \in Ids |-> IF i = 1 THEN c ELSE None]
    BY DEF Init
  <2> QED BY <2>1 DEF RowsOK, Row
<1> QED BY <1>1 DEF Init, ScanInv, AccessOK, ScanOK

LEMMA ActivePlaces ==
  ASSUME RowsOK, NEW i \in Active
  PROVE  /\ i \in Ids /\ collection[i].status = "active" /\ collection[i].place \in Places
         /\ collection[i].root \in Up(collection[i].place[1])
BY DEF RowsOK, Active, Row, None

\* Nothing that ScanOK reads but fields it does not name: the scan goes on as it was.
Same == /\ DOMAIN scan' = DOMAIN scan /\ scan'.roots = scan.roots /\ scan'.unsafe = scan.unsafe
        /\ scan.shaken \subseteq scan'.shaken /\ scan'.left = scan.left
        /\ scan'.target = scan.target /\ Filed(scan')

LEMMA GoesOn ==
  ASSUME ScanInv, scan.at # "idle", Same, UNCHANGED <<collection, access>>,
         scan'.at \in Stages, scan.at = "walk" => scan'.at = "walk" \/ scan.roots = {},
         scan'.at = "walk" => scan.at = "walk",
         scan'.at = "mark" => scan.at = "mark"
  PROVE  ScanInv'
<1>1. scan # Idle
  BY DEF Idle
<1>2. Behind'
  BY <1>1 DEF ScanInv, ScanOK, Same, Behind, Reached, IsDir
<1>3. scan'.at # "walk" => scan'.roots = {}
  BY <1>1 DEF ScanInv, ScanOK, Same
<1>4. Active' = Active
  BY DEF Active
<1>5. scan'.at = "mark" => Aimed'
  BY <1>1 DEF ScanInv, ScanOK, Same, Aimed
<1>6. Filed(scan)'
  BY DEF Same, Filed
<1> QED BY <1>1, <1>2, <1>3, <1>4, <1>5, <1>6 DEF ScanInv, ScanOK, Same, RowsOK, AccessOK

-----------------------------------------------------------------------------
(* The disk.                                                                 *)

LEMMA ShakeKeeps ==
  ASSUME ScanInv, NEW what, Shake(what), access' = access \/ (what \in Roots /\ \E a \in {"whole", "partly", "gone"} : access' = [access EXCEPT ![what] = a])
  PROVE  ScanInv'
<1> USE DEF ScanInv
<1>1. collection' = collection /\ RowsOK' /\ AccessOK'
  BY DEF Shake, catalog, RowsOK, AccessOK
<1>2. CASE scan.at = "idle"
  BY <1>1, <1>2 DEF Shake, ScanOK, Stages
<1>3. CASE scan.at # "idle"
  <2>1. scan # Idle
    BY <1>3 DEF Idle
  <2>2. scan' = [scan EXCEPT !.shaken = @ \cup {what}, !.expected = Null]
    BY <1>3 DEF Shake
  <2>3. /\ DOMAIN scan' = Fields /\ scan'.at = scan.at
        /\ scan'.roots = scan.roots /\ scan'.unsafe = scan.unsafe
        /\ scan'.shaken = scan.shaken \cup {what} /\ scan'.left = scan.left
        /\ scan'.target = scan.target
        /\ scan'.children = scan.children /\ scan'.pending = scan.pending
    BY <2>1, <2>2 DEF ScanOK, Fields
  <2>4. Behind' /\ Filed(scan)'
    <3>1. Behind /\ Filed(scan)
      BY <2>1 DEF ScanOK
    <3>2. ASSUME NEW r \in Roots, what \notin Up(r) PROVE Reached(r)' <=> Reached(r)
      <4>1. \A q \in Up(r) : q \in Roots /\ access'[q] = access[q]
        BY <3>2, UpRoots DEF AccessOK
      <4> QED BY <4>1, UpRoots DEF Reached, IsDir
    <3> QED BY <2>3, <3>1, <3>2 DEF Behind, Filed
  <2>5. Active' = Active
    BY <1>1 DEF Active
  <2>6. scan'.at = "mark" => Aimed'
    BY <1>1, <2>1, <2>3 DEF ScanOK, Aimed
  <2> QED BY <1>1, <2>1, <2>3, <2>4, <2>5, <2>6 DEF ScanOK
<1> QED BY <1>2, <1>3

LEMMA DiskKeeps ==
  ASSUME ScanInv, Disk
  PROVE  ScanInv'
<1>1. CASE UNCHANGED access /\ Shake(AFile)
  BY <1>1, ShakeKeeps
<1>2. CASE \E r \in Roots, a \in {"whole", "partly", "gone"} : ChangeAccess(r, a)
  BY <1>2, ShakeKeeps DEF ChangeAccess
<1> QED BY <1>1, <1>2 DEF Disk, PutFile, MoveFile, RemoveFile

-----------------------------------------------------------------------------
(* The scan.                                                                 *)

LEMMA BeginKeeps ==
  ASSUME ScanInv, NEW m \in Modes, BeginScan(m)
  PROVE  ScanInv'
<1> USE DEF ScanInv
<1>1. PICK r \in Runs :
        scan' = [at |-> "walk", run |-> r, mode |-> m, roots |-> Roots,
                 unsafe |-> {}, known |-> Known, children |-> {}, pending |-> {},
                 left |-> {}, target |-> Null, invalid |-> {}, issues |-> FALSE,
                 count |-> [n \in Counts |-> 0], expected |-> preview, shaken |-> {},
                 ambiguous |-> Ambiguous]
  BY DEF BeginScan
<1>2. /\ DOMAIN scan' = Fields /\ scan'.at = "walk" /\ scan'.roots = Roots /\ scan'.left = {}
      /\ Filed(scan)'
  BY <1>1 DEF Fields, Filed
<1>3. RowsOK' /\ AccessOK'
  BY DEF BeginScan, world, catalog, RowsOK, AccessOK
<1>4. Behind'
  BY <1>2 DEF Behind
<1> QED BY <1>2, <1>3, <1>4 DEF ScanOK, Stages

LEMMA ListRootKeeps ==
  ASSUME ScanInv, NEW r \in Roots, ListRoot(r)
  PROVE  ScanInv'
<1> USE DEF ScanInv
<1>1. scan # Idle /\ scan.at = "walk"
  BY DEF ListRoot, Idle
<1>2. UNCHANGED <<collection, access>> /\ RowsOK' /\ AccessOK' /\ Active' = Active
  BY DEF ListRoot, world, catalog, RowsOK, AccessOK, Active
<1>3. /\ DOMAIN scan' = Fields /\ scan'.at = scan.at /\ scan'.left = scan.left
      /\ scan'.roots = scan.roots \ {r} /\ scan'.shaken = scan.shaken
      /\ scan'.unsafe = scan.unsafe \cup Spoilt(Faults(r))
      /\ scan'.children = Listed(r) /\ scan'.pending = scan.pending
  BY <1>1 DEF ListRoot, ScanOK, Fields
<1>4. Behind' /\ Filed(scan)'
  <2>1. Up(r) \subseteq Spoilt(Faults(r)) \/ Reached(r)
    BY UpRoots DEF Spoilt, Faults, Reached, AccessOK, IsDir
  <2>2. \A q \in Roots : Reached(q)' <=> Reached(q)
    BY <1>2 DEF Reached, IsDir
  <2>3. \A c \in Listed(r) : c[3] \in Up(c[1][1])
    BY DEF Listed
  <2> QED BY <1>1, <1>2, <1>3, <2>1, <2>2, <2>3 DEF ScanOK, Behind, Filed
<1> QED BY <1>1, <1>2, <1>3, <1>4 DEF ScanOK

\* a scan that agrees with this one in all that ScanOK reads
Alike(s) ==
  /\ DOMAIN s = Fields /\ s.at = scan.at /\ s.roots = scan.roots
  /\ s.unsafe = scan.unsafe /\ scan.shaken \subseteq s.shaken
  /\ s.left = scan.left /\ s.target = scan.target /\ Filed(s)

LEMMA ChildKeeps ==
  ASSUME ScanInv, NEW p \in Places, NEW k \in Kinds, NEW r \in Roots, Child(p, k, r)
  PROVE  ScanInv'
<1>1. scan.at = "walk" /\ scan # Idle /\ UNCHANGED <<collection, access>>
  BY DEF Child, Idle, catalog
<1>2. DOMAIN scan = Fields /\ Filed(scan)
  BY <1>1 DEF ScanInv, ScanOK
<1> DEFINE after  == [scan EXCEPT !.children = @ \ {<<p, k, r>>}, !.count.discovered = @ + 1]
           target == Target(p, k, scan.known)
           keep   == [after EXCEPT !.pending = @ \cup {<<p, k, r>>},
                              !.count.new = @ + 1,
                              !.count.warned = @ + (IF Keeps(p, k, scan.known) THEN 1 ELSE 0)]
<1>3. Alike(after)
  BY <1>2 DEF Alike, Fields, Filed
<1>4. \/ scan' = [after EXCEPT !.count.known = @ + 1]
      \/ scan' = [after EXCEPT !.issues = TRUE]
      \/ scan' = keep
      \/ scan' = [after EXCEPT !.pending = @ \cup {<<target, k, r>>},
                               !.count.new = @ + 1, !.count.renamed = @ + 1]
      \/ scan' = [keep EXCEPT !.count.warned = @ + 1,
                              !.shaken = @ \cup {AFile}, !.expected = Null]
  BY Zenon DEF Child
<1> HIDE DEF after
<1>5. r \in Up(p[1]) /\ target[1] = p[1]
  <2>1. <<p, k, r>> \in scan.children
    BY Zenon DEF Child
  <2>2. target[1] = p[1]
    BY ScanPlacesAssumption DEF Target
  <2> QED BY <1>2, <2>1, <2>2 DEF Filed
<1>6. Alike(keep)
  BY <1>3, <1>5 DEF Alike, Fields, Filed
<1> HIDE DEF keep, target
<1>7. Alike(scan')
  <2>1. CASE scan' = [after EXCEPT !.pending = @ \cup {<<target, k, r>>},
                                   !.count.new = @ + 1, !.count.renamed = @ + 1]
    <3>1. scan'.pending = after.pending \cup {<<target, k, r>>} /\ scan'.children = after.children
      BY <1>3, <2>1 DEF Alike, Fields
    <3>2. Filed(scan')
      BY <1>3, <1>5, <3>1 DEF Alike, Filed
    <3> QED BY <1>3, <2>1, <3>2 DEF Alike, Fields
  <2>2. CASE \/ scan' = [after EXCEPT !.count.known = @ + 1]
             \/ scan' = [after EXCEPT !.issues = TRUE]
    BY <1>3, <2>2 DEF Alike, Fields, Filed
  <2>3. CASE \/ scan' = keep
             \/ scan' = [keep EXCEPT !.count.warned = @ + 1,
                                     !.shaken = @ \cup {AFile}, !.expected = Null]
    BY <1>6, <2>3 DEF Alike, Fields, Filed
  <2> QED BY <1>4, <2>1, <2>2, <2>3
<1> QED BY <1>1, <1>2, <1>7, GoesOn DEF Same, Alike, Stages

LEMMA EndWalkKeeps ==
  ASSUME ScanInv, EndWalk
  PROVE  ScanInv'
<1> USE DEF ScanInv
<1>1. scan.at = "walk" /\ scan # Idle /\ UNCHANGED <<collection, access>>
  BY DEF EndWalk, Idle, world, catalog
<1>2. /\ DOMAIN scan' = Fields /\ scan'.at = "ingest" /\ scan'.roots = {}
      /\ scan.unsafe \subseteq scan'.unsafe /\ scan'.shaken = scan.shaken
      /\ scan'.left = scan.left
      /\ scan'.children = scan.children /\ scan'.pending = scan.pending
  BY <1>1 DEF EndWalk, ScanOK, Fields
<1>3. Behind' /\ Filed(scan)'
  BY <1>1, <1>2 DEF EndWalk, ScanOK, Behind, Filed, Reached, IsDir
<1>4. RowsOK' /\ AccessOK' /\ Active' = Active
  BY <1>1 DEF RowsOK, AccessOK, Active
<1> QED BY <1>1, <1>2, <1>3, <1>4 DEF ScanOK, Stages

\* ingestion makes a collection of an unused identifier: those that are current stay so
LEMMA IngestKeeps ==
  ASSUME ScanInv, NEW p \in Places, NEW k \in Kinds, NEW r \in Roots, Ingest(p, k, r)
  PROVE  ScanInv'
<1> USE DEF ScanInv
<1> DEFINE after == [scan EXCEPT !.pending = @ \ {<<p, k, r>>}]
<1>1. scan.at = "ingest" /\ scan # Idle /\ UNCHANGED access
  <2>1. scan.at = "ingest" /\ UNCHANGED world
    BY Zenon DEF Ingest
  <2> QED BY <2>1 DEF Idle, world
<1>2. DOMAIN scan = Fields /\ Filed(scan) /\ r \in Up(p[1])
  <2>1. <<p, k, r>> \in scan.pending
    BY DEF Ingest, IsNext
  <2> QED BY <1>1, <2>1 DEF ScanOK, Filed
<1>3. Alike(after)
  BY <1>2 DEF Alike, Fields, Filed
<1>4. \/ scan' = [after EXCEPT !.count.known = @ + 1]
      \/ \E n : scan' = [after EXCEPT !.count.links = @ + n]
  BY DEF Ingest
<1> HIDE DEF after
<1>5. Alike(scan')
  BY <1>3, <1>4 DEF Alike, Fields, Filed
<1>6. RowsOK' /\ Active \subseteq Active'
  <2>1. CASE UNCHANGED collection
    BY <2>1 DEF RowsOK, Active
  <2>2. CASE \E i \in Ids : /\ collection[i] = None
                            /\ collection' = [collection EXCEPT
                                 ![i] = [status |-> "active", place |-> p, kind |-> k, root |-> r]]
    <3>1. PICK i \in Ids : /\ collection[i] = None
                           /\ collection' = [collection EXCEPT
                                ![i] = [status |-> "active", place |-> p, kind |-> k, root |-> r]]
      BY <2>2
    <3>2. [status |-> "active", place |-> p, kind |-> k, root |-> r] \in Row
      BY <1>2 DEF Row
    <3> QED BY <3>1, <3>2 DEF RowsOK, Active, None
  <2> QED BY <2>1, <2>2 DEF Ingest, catalog
<1>7. Behind' /\ Filed(scan)'
  BY <1>1, <1>5 DEF ScanOK, Behind, Alike, Filed, Reached, IsDir
<1> QED BY <1>1, <1>5, <1>6, <1>7 DEF ScanOK, AccessOK, Alike, Stages

LEMMA IngestBreaksKeeps ==
  ASSUME ScanInv, NEW p \in Places, NEW k \in Kinds, NEW r \in Roots, IngestBreaks(p, k, r)
  PROVE  ScanInv'
<1>1. scan.at = "ingest" /\ scan # Idle /\ UNCHANGED <<collection, access>>
  BY DEF IngestBreaks, Idle, world, catalog
<1>2. Alike(scan')
  BY <1>1 DEF IngestBreaks, ScanInv, ScanOK, Alike, Fields, Filed
<1> QED BY <1>1, <1>2, GoesOn DEF ScanInv, ScanOK, Same, Alike, Stages

LEMMA EndIngestKeeps ==
  ASSUME ScanInv, EndIngest \/ ReconcileBreaks
  PROVE  ScanInv'
<1> USE DEF ScanInv
<1>1. scan.at = "ingest" /\ scan # Idle /\ UNCHANGED <<collection, access>>
  BY DEF EndIngest, ReconcileBreaks, Idle, world, catalog
<1>2. DOMAIN scan = Fields
  BY <1>1 DEF ScanOK
<1>3. /\ DOMAIN scan' = Fields /\ scan'.at \in {"reconcile", "complete"}
      /\ scan'.roots = scan.roots /\ scan'.unsafe = scan.unsafe /\ scan'.shaken = scan.shaken
      /\ scan'.left \in {scan.left, Active}
      /\ scan'.children = scan.children /\ scan'.pending = scan.pending
  BY <1>2 DEF EndIngest, ReconcileBreaks, Fields
<1>4. RowsOK' /\ AccessOK' /\ Active' = Active
  BY <1>1 DEF RowsOK, AccessOK, Active
<1>5. Behind' /\ Filed(scan)'
  BY <1>1, <1>3 DEF ScanOK, Behind, Filed, Reached, IsDir
<1> QED BY <1>1, <1>3, <1>4, <1>5 DEF ScanOK, Stages

LEMMA LookKeeps ==
  ASSUME ScanInv, NEW i \in Ids, Look(i)
  PROVE  ScanInv'
<1> USE DEF ScanInv
<1>1. scan.at = "reconcile" /\ scan # Idle /\ UNCHANGED <<collection, access>>
  BY DEF Look, Idle, world, catalog
<1>2. DOMAIN scan = Fields /\ scan.left \subseteq Active /\ i \in scan.left
  BY <1>1 DEF ScanOK, Look
<1>3. /\ DOMAIN scan' = Fields /\ scan'.at \in {"reconcile", "mark"}
      /\ scan'.roots = scan.roots /\ scan'.unsafe = scan.unsafe /\ scan'.shaken = scan.shaken
      /\ scan'.left = scan.left \ {i}
      /\ scan'.children = scan.children /\ scan'.pending = scan.pending
      /\ scan'.at = "mark" => scan'.target = i /\ Missing(i)
  BY <1>1, <1>2 DEF Look, Fields
<1>4. RowsOK' /\ AccessOK' /\ Active' = Active
  BY <1>1 DEF RowsOK, AccessOK, Active
<1>5. Behind' /\ Filed(scan)'
  BY <1>1, <1>3 DEF ScanOK, Behind, Filed, Reached, IsDir
<1>6. scan'.at = "mark" => Aimed'
  BY <1>1, <1>2, <1>3, ActivePlaces DEF Aimed, Missing
<1> QED BY <1>1, <1>2, <1>3, <1>4, <1>5, <1>6 DEF ScanOK, Stages

LEMMA MarkKeeps ==
  ASSUME ScanInv, Mark
  PROVE  ScanInv'
<1> USE DEF ScanInv
<1> DEFINE i == scan.target
           after == [scan EXCEPT !.at = "reconcile", !.target = Null]
<1>1. scan.at = "mark" /\ scan # Idle /\ UNCHANGED access
  BY DEF Mark, Idle, world
<1>2. DOMAIN scan = Fields /\ Aimed
  BY <1>1 DEF ScanOK
<1>3. /\ DOMAIN after = Fields /\ after.at = "reconcile" /\ after.roots = scan.roots
      /\ after.unsafe = scan.unsafe /\ after.shaken = scan.shaken /\ after.left = scan.left
      /\ after.children = scan.children /\ after.pending = scan.pending
  BY <1>2 DEF Fields
<1>4. \/ scan' = [after EXCEPT !.count.gone = @ + 1]
      \/ scan' = after
      \/ scan' = [after EXCEPT !.issues = TRUE, !.expected = Null]
  BY DEF Mark
<1> HIDE DEF after
<1>5. /\ DOMAIN scan' = Fields /\ scan'.at = "reconcile" /\ scan'.roots = scan.roots
      /\ scan'.unsafe = scan.unsafe /\ scan'.shaken = scan.shaken /\ scan'.left = scan.left
      /\ scan'.children = scan.children /\ scan'.pending = scan.pending
  BY <1>3, <1>4 DEF Fields
<1>6. RowsOK' /\ scan.left \subseteq Active'
  <2>1. i \in Ids \ scan.left /\ collection[i] \in Row /\ collection[i].status = "active"
    BY <1>2 DEF Aimed, RowsOK
  <2>2. CASE UNCHANGED collection
    BY <1>1, <2>2 DEF RowsOK, Active, ScanOK
  <2>3. CASE collection' = [collection EXCEPT ![i].status = "tombstone"]
    <3> DEFINE n == [collection[i] EXCEPT !.status = "tombstone"]
    <3>1. n \in Row
      BY <2>1 DEF Row, None
    <3>2. collection' = [collection EXCEPT ![i] = n]
      BY <2>3
    <3> HIDE DEF n
    <3> QED BY <1>1, <2>1, <3>1, <3>2 DEF RowsOK, Active, ScanOK
  <2> QED BY <2>2, <2>3 DEF Mark
<1>7. Behind' /\ Filed(scan)'
  BY <1>1, <1>5 DEF ScanOK, Behind, Filed, Reached, IsDir
<1> QED BY <1>1, <1>5, <1>6, <1>7 DEF ScanOK, AccessOK, Stages

LEMMA LinkAllKeeps ==
  ASSUME ScanInv, LinkAll
  PROVE  ScanInv'
<1>1. scan.at = "reconcile" /\ scan # Idle /\ UNCHANGED <<collection, access>>
  BY DEF LinkAll, Idle, world
<1>2. DOMAIN scan = Fields
  BY <1>1 DEF ScanInv, ScanOK
<1>3. \/ \E n : scan' = [scan EXCEPT !.at = "complete", !.count.links = @ + n]
      \/ scan' = [scan EXCEPT !.at = "complete", !.issues = TRUE, !.expected = Null]
  BY DEF LinkAll
<1>4. /\ DOMAIN scan' = Fields /\ scan'.at = "complete" /\ scan'.roots = scan.roots
      /\ scan'.unsafe = scan.unsafe /\ scan'.shaken = scan.shaken /\ scan'.left = scan.left
      /\ scan'.target = scan.target
      /\ scan'.children = scan.children /\ scan'.pending = scan.pending
  BY <1>2, <1>3 DEF Fields
<1>5. Filed(scan')
  BY <1>1, <1>4 DEF ScanInv, ScanOK, Filed
<1> QED BY <1>1, <1>2, <1>4, <1>5, GoesOn DEF Same, Stages

\* the scan ends, or nothing is done to it, to the collections or to the access
LEMMA OthersKeep ==
  ASSUME ScanInv, UNCHANGED <<collection, access>>, scan' = Idle \/ scan' = scan
  PROVE  ScanInv'
<1>1. RowsOK' /\ AccessOK' /\ Active' = Active
  BY DEF ScanInv, RowsOK, AccessOK, Active
<1>2. CASE scan' = Idle
  BY <1>1, <1>2 DEF ScanInv, ScanOK
<1>3. CASE scan' = scan
  BY <1>1, <1>3 DEF ScanInv, ScanOK, Behind, Aimed, Filed, Reached, IsDir
<1> QED BY <1>2, <1>3

LEMMA ScanStepKeeps ==
  ASSUME ScanInv, ScanStep
  PROVE  ScanInv'
<1>1. CASE \E r \in Roots : ListRoot(r)
  BY <1>1, ListRootKeeps
<1>2. CASE \E c \in Found : \/ Child(c[1], c[2], c[3]) \/ Ingest(c[1], c[2], c[3])
                            \/ IngestBreaks(c[1], c[2], c[3])
  <2>1. PICK c \in Found : \/ Child(c[1], c[2], c[3]) \/ Ingest(c[1], c[2], c[3])
                           \/ IngestBreaks(c[1], c[2], c[3])
    BY <1>2
  <2>2. c[1] \in Places /\ c[2] \in Kinds /\ c[3] \in Roots
    BY DEF Found
  <2> QED BY <2>1, <2>2, ChildKeeps, IngestKeeps, IngestBreaksKeeps
<1>3. CASE EndWalk \/ EndIngest \/ ReconcileBreaks \/ Mark \/ LinkAll
  BY <1>3, EndWalkKeeps, EndIngestKeeps, MarkKeeps, LinkAllKeeps
<1>4. CASE \E i \in Ids : Look(i)
  BY <1>4, LookKeeps
<1>5. CASE Complete
  BY <1>5, OthersKeep DEF Complete, world, catalog
<1> QED BY <1>1, <1>2, <1>3, <1>4, <1>5 DEF ScanStep

LEMMA ScanKeeps == ScanInv /\ [Next]_vars => ScanInv'
<1> SUFFICES ASSUME ScanInv, [Next]_vars PROVE ScanInv'
  OBVIOUS
<1>1. CASE Disk
  BY <1>1, DiskKeeps
<1>2. CASE \E m \in Modes : BeginScan(m)
  BY <1>2, BeginKeeps
<1>3. CASE ScanStep
  BY <1>3, ScanStepKeeps
<1>4. CASE Preflight \/ BeginBreaks \/ Crash
  BY <1>4, OthersKeep DEF Preflight, BeginBreaks, Crash, world, catalog
<1>5. CASE \E l \in Ids \X Ids, d \in {"confirmed", "rejected"} : Decide(l, d)
  BY <1>5, OthersKeep DEF Decide, world
<1>6. CASE UNCHANGED vars
  BY <1>6, OthersKeep DEF vars, world, catalog
<1> QED BY <1>1, <1>2, <1>3, <1>4, <1>5, <1>6 DEF Next

\* The one step that makes a tombstone is that of the scan, for the collection it has aimed at.
LEMMA MarkedIsAimed ==
  ASSUME ScanInv, [Next]_vars, NEW i \in Ids,
         collection[i].status = "active", collection'[i].status = "tombstone"
  PROVE  scan.at = "mark" /\ i = scan.target /\ ~ Seen(collection[i].place)
<1>1. ~ UNCHANGED collection
  OBVIOUS
<1>2. CASE Mark
  BY <1>2 DEF Mark, ScanInv, RowsOK
<1>3. CASE \E c \in Found : Ingest(c[1], c[2], c[3])
  <2>1. PICK c \in Found : Ingest(c[1], c[2], c[3])
    BY <1>3
  <2>2. UNCHANGED catalog \/ \E j \in Ids : collection' = [collection EXCEPT
          ![j] = [status |-> "active", place |-> c[1], kind |-> c[2], root |-> c[3]]]
    BY <2>1, Zenon DEF Ingest
  <2>3. ~ UNCHANGED catalog
    BY <1>1 DEF catalog
  <2> QED BY <2>2, <2>3 DEF ScanInv, RowsOK
<1> QED
  BY ZenonT(60), <1>1, <1>2, <1>3
  DEF Next, vars, world, catalog, Disk, PutFile, MoveFile, RemoveFile, ChangeAccess, Shake,
      Preflight, BeginScan, BeginBreaks, ScanStep, ListRoot, Child, EndWalk, IngestBreaks,
      EndIngest, ReconcileBreaks, Look, LinkAll, Complete, Crash, Decide

\* A scan takes a collection whose file is where it was only when the access to a root it lies
\* in changed during this scan (safely_scanned_root_paths, mark_collection_missing): true of any
\* number of roots and files, and any change of the disk under the scan.
THEOREM OnlyMissingAreMarked == Spec => OnlyTheMissing
<1>1. ASSUME ScanInv, [Next]_vars
      PROVE  \A i \in Ids :
               collection[i].status = "active" /\ collection'[i].status = "tombstone"
                 /\ There(collection[i].place)
               => Up(collection[i].place[1]) \cap scan.shaken # {}
  <2> SUFFICES ASSUME NEW i \in Ids,
                      collection[i].status = "active", collection'[i].status = "tombstone",
                      There(collection[i].place)
               PROVE  Up(collection[i].place[1]) \cap scan.shaken # {}
    OBVIOUS
  <2>1. scan.at = "mark" /\ i = scan.target /\ ~ Seen(collection[i].place)
    BY <1>1, MarkedIsAimed
  <2>2. ~ Reached(collection[i].place[1])
    BY <2>1 DEF Seen
  <2>3. Behind /\ scan.roots = {} /\ Aimed
    BY <1>1, <2>1 DEF ScanInv, ScanOK, Idle
  <2>4. collection[i].place[1] \in Roots
    BY <2>1, <2>3 DEF Aimed, Roots
  <2> QED BY <2>1, <2>2, <2>3, <2>4 DEF Behind, Aimed
<1> QED BY <1>1, ScanInits, ScanKeeps, PTL DEF Spec, OnlyTheMissing

-----------------------------------------------------------------------------
(***************************************************************************)
(* The preview.                                                             *)
(*                                                                         *)
(* A scan that nothing disturbed works on the library of its preview, so    *)
(* that the proof keeps that library, a snapshot w of the access, the disk   *)
(* and the catalog when the scan began, beside the state: Follows(w) says    *)
(* of each stage of the scan what it has made of the snapshot so far.        *)
(***************************************************************************)

(* Two encoded names mean the same one only when they are the same. *)
OneName ==
  \A p, q \in DOMAIN Decoded : Decoded[q] \in Spellings[Decoded[p]] => q \in Spellings[p]

(* What a scan in some mode finds when it begins. *)
Now(m) == [access |-> access, disk |-> disk, collection |-> collection, mode |-> m]

(* The operators of LibraryScan that the preview is made with, on a snapshot. *)
DirIn(w, r)     == \A q \in Up(r) : w.access[q] # "gone"
ReachedIn(w, r) == DirIn(w, r) /\ w.access[r] = "whole"
OnDisk(w, p)    == \E q \in Spellings[p] : w.disk[q] # Null
SeenIn(w, p)    == ReachedIn(w, p[1]) /\ OnDisk(w, p)
FoundIn(w)   == {x \in Found : /\ x[3] \in Up(x[1][1]) /\ ReachedIn(w, x[1][1])
                               /\ w.disk[x[1]] # Null /\ x[2] = Kind(w.disk[x[1]])}
ActiveIn(w)  == {i \in Ids : w.collection[i].status = "active"}
TombsIn(w)   == {i \in Ids : w.collection[i].status = "tombstone"}
KnownIn(w)   == [p \in Places |->
                   LET here == {i \in ActiveIn(w) : w.collection[i].place = p}
                   IN  IF here = {} THEN Null ELSE w.collection[CHOOSE i \in here : TRUE].kind]
TargetIn(w, x) ==
  IF x[2] = "zip" /\ x[1] \in DOMAIN Decoded /\ KnownIn(w)[Decoded[x[1]]] = Null
       /\ ~SeenIn(w, Decoded[x[1]])
  THEN Decoded[x[1]] ELSE x[1]
KeptIn(w, x) == x[2] = "zip" /\ x[1] \in DOMAIN Decoded /\ TargetIn(w, x) = x[1]
NewIn(w)     == {x \in FoundIn(w) : KnownIn(w)[x[1]] = Null}
SafeIn(w)    == Roots \ Spoilt({r \in Roots : ~ReachedIn(w, r)})
GoneIn(w)    == {i \in ActiveIn(w) : /\ w.collection[i].root \in SafeIn(w)
                                     /\ ~SeenIn(w, w.collection[i].place)}
HoldsIn(w, i) == /\ ReachedIn(w, w.collection[i].place[1])
                 /\ \E q \in Spellings[w.collection[i].place] :
                      w.disk[q] # Null /\ Kind(w.disk[q]) = w.collection[i].kind
NamedIn(w, i, p, k) == Lower[w.collection[i].place[2]] = Lower[p[2]] /\ w.collection[i].kind = k
ThereIn(w) == {l \in GoneIn(w) \X ActiveIn(w) :
                 /\ l[1] # l[2] /\ HoldsIn(w, l[2])
                 /\ NamedIn(w, l[1], w.collection[l[2]].place, w.collection[l[2]].kind)}
SoonIn(w)  == {l \in GoneIn(w) \X NewIn(w) : NamedIn(w, l[1], TargetIn(w, l[2]), l[2][2])}
Foreseen(w) ==
  [discovered |-> Cardinality(FoundIn(w)),
   new |-> Cardinality(NewIn(w)),
   known |-> Cardinality({x \in FoundIn(w) : KnownIn(w)[x[1]] = x[2]}),
   renamed |-> Cardinality({x \in NewIn(w) : TargetIn(w, x) # x[1]}),
   warned |-> Cardinality({x \in NewIn(w) : KeptIn(w, x)}),
   gone |-> Cardinality(GoneIn(w)),
   links |-> Cardinality(ThereIn(w)) + Cardinality(SoonIn(w))]

(* What the walk takes for new is new to the ingestion. *)
Clear(w) ==
  /\ \A x, y \in NewIn(w) : x[1] = y[1] => x = y
  /\ \A x \in NewIn(w), i \in ActiveIn(w) :
       w.collection[i].place \notin Spellings[x[1]] \cup Spellings[TargetIn(w, x)]

PreviewIsNow == preview # Null => preview = Expectation /\ scan.at = "idle"

(* What the walk makes of a child, and what it has behind it. *)
Moved(w, x) == w.mode = "apply_safe_renames" /\ x \in NewIn(w) /\ TargetIn(w, x) # x[1]
Lands(w, x) == <<IF Moved(w, x) THEN TargetIn(w, x) ELSE x[1], x[2], x[3]>>
Placed(w, S) == {Lands(w, x) : x \in S \cap NewIn(w)}

Rest(w) == scan.children \cup {x \in FoundIn(w) : x[3] \in scan.roots}
Done(w) == FoundIn(w) \ Rest(w)

(* The disk after the children S: what was renamed, and the rest as it was. *)
DiskAfter(w, S) ==
  /\ \A x \in S : Moved(w, x) => disk[x[1]] = Null /\ disk[TargetIn(w, x)] = w.disk[x[1]]
  /\ \A p \in Places :
       (\A x \in S : Moved(w, x) => p # x[1] /\ p # TargetIn(w, x)) => disk[p] = w.disk[p]

(* The counts n after the children S. *)
Things(w) == {x \in FoundIn(w) : KnownIn(w)[x[1]] = x[2]}
MovedIn(w) == {x \in FoundIn(w) : Moved(w, x)}
KeptAll(w) == {x \in NewIn(w) : KeptIn(w, x)}
Counted(w, S, n) ==
  /\ DOMAIN n = Counts
  /\ n.discovered = Cardinality(S) /\ n.new = Cardinality(S \cap NewIn(w))
  /\ n.known = Cardinality(S \cap Things(w)) /\ n.renamed = Cardinality(S \cap MovedIn(w))
  /\ n.warned = Cardinality(S \cap KeptAll(w))

(* The collections that came since: one for each of S. *)
Fresh(w) == {i \in Ids : w.collection[i] = None /\ collection[i] # None}
Grown(w, S) ==
  /\ \A i \in Fresh(w) : /\ collection[i].status = "active"
                         /\ <<collection[i].place, collection[i].kind, collection[i].root>> \in S
  /\ \A x \in S : \E i \in Fresh(w) : collection[i].place = x[1] /\ collection[i].kind = x[2]
  /\ \A i, j \in Fresh(w) : collection[i].place = collection[j].place => i = j

(* The collections that were there, tombstones by now or as they were. *)
Marked(w) == {i \in ActiveIn(w) : collection[i].status = "tombstone"}
Old(w) ==
  /\ \A i \in Ids : w.collection[i] # None /\ i \notin Marked(w) => collection[i] = w.collection[i]
  /\ \A i \in Marked(w) : collection[i] = [w.collection[i] EXCEPT !.status = "tombstone"]

(* Without earlier tombstones no link is made before the end. *)
Unlinked(w) == TombsIn(w) = {} => scan.count.links = 0 /\ \A l \in Ids \X Ids : link[l] = "none"
(* What the walks of the roots S found spoilt, and all that was not reached. *)
UnsafeIs(S) == scan.unsafe = UNION {Spoilt(Faults(r)) : r \in S}
UnsafeNow   == scan.unsafe = Spoilt({r \in Roots : ~Reached(r)})

(* The stages. *)
Walking(w) ==
  /\ scan.roots \subseteq Roots /\ scan.children \subseteq FoundIn(w)
  /\ \A x \in scan.children : x[3] \notin scan.roots
  /\ DiskAfter(w, Done(w)) /\ Counted(w, Done(w), scan.count) /\ UnsafeIs(Roots \ scan.roots)
  /\ scan.pending = Placed(w, Done(w))
  /\ collection = w.collection /\ scan.count.gone = 0

Walked(w) == DiskAfter(w, FoundIn(w)) /\ Counted(w, FoundIn(w), scan.count) /\ UnsafeNow

Ingesting(w) ==
  /\ Walked(w)
  /\ scan.pending \subseteq Placed(w, FoundIn(w))
  /\ Grown(w, Placed(w, FoundIn(w)) \ scan.pending)
  /\ Old(w) /\ Marked(w) = {} /\ scan.count.gone = 0

Reconciling(w) ==
  /\ Walked(w) /\ Grown(w, Placed(w, FoundIn(w))) /\ Old(w)
  /\ Marked(w) \subseteq GoneIn(w) /\ scan.left \cap Marked(w) = {}
  /\ scan.count.gone = Cardinality(Marked(w))
  /\ scan.invalid = {i \in ActiveIn(w) : ~HoldsIn(w, i)}
  /\ IF scan.at = "mark" THEN /\ scan.target \in GoneIn(w) \ Marked(w)
                              /\ GoneIn(w) \subseteq Marked(w) \cup scan.left \cup {scan.target}
     ELSE GoneIn(w) \subseteq Marked(w) \cup scan.left

Concluded ==
  \/ Differences = {}
  \/ Differences = {"links"} /\ Cardinality(Gone) > scan.count.gone
  \/ Differences = {"links"} /\ scan.mode = "no_rename"
         /\ \E i \in Active : collection[i].place \in DOMAIN Decoded

Follows(w) ==
  /\ access = w.access /\ scan.known = KnownIn(w) /\ scan.expected = Foreseen(w) /\ scan.mode = w.mode
  /\ scan.at # "complete" => Unlinked(w)
  /\ scan.at = "walk" => Walking(w)
  /\ scan.at = "ingest" => Ingesting(w)
  /\ scan.at \in {"reconcile", "mark"} => Reconciling(w)
  /\ scan.at = "complete" => Concluded

(* A path is on the disk in one spelling. *)
Alone(d) == \A p \in Places : \A q \in Spellings[p] : d[p] # Null /\ d[q] # Null => p = q

Snapshot(w) ==
  /\ w.access \in [Roots -> {"whole", "partly", "gone"}]
  /\ w.disk \in [Places -> Files \cup {Null}] /\ Alone(w.disk)
  /\ w.collection \in [Ids -> Row]
  /\ w.mode \in Modes

-----------------------------------------------------------------------------
\* to be spelt alike is an equivalence, in one root
LEMMA SpeltAlike ==
  ASSUME NEW p \in Places
  PROVE  /\ p \in Spellings[p] /\ Spellings[p] \subseteq Places
         /\ \A q \in Spellings[p] : /\ q[1] = p[1] /\ Lower[q[2]] = Lower[p[2]]
                                    /\ p \in Spellings[q] /\ Spellings[q] = Spellings[p]
         /\ p \notin DOMAIN Decoded => Spellings[p] \cap DOMAIN Decoded = {}
<1>1. \A q \in Places : Spellings[q] = {s \in Places : s[1] = q[1] /\ Lower[s[2]] = Lower[q[2]]}
  BY DEF Spellings
<1>2. ASSUME NEW q \in Spellings[p]
      PROVE  q \in Places /\ p \in Spellings[q] /\ Spellings[q] = Spellings[p]
  <2>1. q \in Places /\ q[1] = p[1] /\ Lower[q[2]] = Lower[p[2]]
    BY <1>1
  <2>2. Spellings[q] = {s \in Places : s[1] = p[1] /\ Lower[s[2]] = Lower[p[2]]}
    BY <1>1, <2>1, Zenon
  <2> QED BY <1>1, <2>1, <2>2
<1> QED BY <1>1, <1>2, ScanPlacesAssumption

LEMMA FoundThings ==
  ASSUME NEW w, Snapshot(w)
  PROVE  /\ \A x \in FoundIn(w) : /\ x = <<x[1], x[2], x[3]>> /\ x[1] \in Places /\ x[2] \in Kinds
                                   /\ x[3] \in Roots /\ x[3] \in Up(x[1][1])
                                   /\ ReachedIn(w, x[1][1]) /\ SeenIn(w, x[1])
                                   /\ w.disk[x[1]] # Null /\ x[2] = Kind(w.disk[x[1]])
         /\ \A x, y \in FoundIn(w) : x[1] = y[1] /\ x[3] = y[3] => x = y
         /\ IsFiniteSet(FoundIn(w)) /\ NewIn(w) \subseteq FoundIn(w)
<1>1. \A x \in FoundIn(w) : /\ x = <<x[1], x[2], x[3]>> /\ x[1] \in Places /\ x[2] \in Kinds
                             /\ x[3] \in Roots /\ x[3] \in Up(x[1][1])
                             /\ ReachedIn(w, x[1][1])
                             /\ w.disk[x[1]] # Null /\ x[2] = Kind(w.disk[x[1]])
  BY DEF FoundIn, Found
<1>2. \A x \in FoundIn(w) : SeenIn(w, x[1])
  BY <1>1, SpeltAlike DEF SeenIn, OnDisk
<1>3. ASSUME NEW x \in FoundIn(w), NEW y \in FoundIn(w), x[1] = y[1], x[3] = y[3] PROVE x = y
  <2>1. x[2] = Kind(w.disk[x[1]]) /\ y[2] = Kind(w.disk[y[1]])
    BY <1>1
  <2>2. x[2] = y[2]
    BY <1>3, <2>1
  <2> QED BY <1>1, <1>3, <2>2
<1>4. IsFiniteSet(FoundIn(w))
  <2>1. IsFiniteSet(Roots)
    <3> DEFINE g == [p \in Places |-> p[1]]
    <3>1. g \in Surjection(Places, Roots)
      BY DEF Surjection, Roots
    <3> HIDE DEF g
    <3> QED BY <3>1, FS_Surjection, ScanPlacesAssumption
  <2>2. IsFiniteSet(Places \X Roots)
    BY <2>1, FS_Product, ScanPlacesAssumption
  <2> DEFINE f == [x \in FoundIn(w) |-> <<x[1], x[3]>>]
  <2>3. f \in [FoundIn(w) -> Places \X Roots] /\ \A x, y \in FoundIn(w) : f[x] = f[y] => x = y
    BY <1>1, <1>3
  <2> HIDE DEF f
  <2>4. f \in Injection(FoundIn(w), Places \X Roots)
    BY <2>3, Zenon DEF Injection, IsInjective
  <2> QED BY <2>2, <2>4, FS_Injection
<1>5. NewIn(w) \subseteq FoundIn(w)
  BY DEF NewIn
<1> QED BY <1>1, <1>2, <1>3, <1>4, <1>5

LEMMA Targets ==
  ASSUME NEW w, Snapshot(w), NEW x \in NewIn(w), TargetIn(w, x) # x[1]
  PROVE  /\ x[2] = "zip" /\ x[1] \in DOMAIN Decoded /\ TargetIn(w, x) = Decoded[x[1]]
         /\ TargetIn(w, x) \in Places \ DOMAIN Decoded /\ TargetIn(w, x)[1] = x[1][1]
         /\ KnownIn(w)[TargetIn(w, x)] = Null
         /\ \A q \in Spellings[TargetIn(w, x)] : w.disk[q] = Null
<1>1. /\ x[2] = "zip" /\ x[1] \in DOMAIN Decoded /\ KnownIn(w)[Decoded[x[1]]] = Null
      /\ ~SeenIn(w, Decoded[x[1]]) /\ TargetIn(w, x) = Decoded[x[1]]
  BY Zenon DEF TargetIn
<1>2. Decoded[x[1]] \in Places \ DOMAIN Decoded /\ Decoded[x[1]][1] = x[1][1]
  BY <1>1, ScanPlacesAssumption
<1>3. ReachedIn(w, x[1][1])
  BY FoundThings
<1>4. \A q \in Spellings[Decoded[x[1]]] : w.disk[q] = Null
  BY <1>1, <1>2, <1>3 DEF SeenIn, OnDisk
<1> QED BY <1>1, <1>2, <1>4

(* Where the children of the walk come to be, each at a place of its own,    *)
(* however it is spelt.                                                      *)
LEMMA Landings ==
  ASSUME NEW w, Snapshot(w), Clear(w), OneName
  PROVE  /\ \A x \in NewIn(w) : /\ Lands(w, x) = <<Lands(w, x)[1], x[2], x[3]>>
                                 /\ Lands(w, x)[1] = (IF Moved(w, x) THEN TargetIn(w, x) ELSE x[1])
                                 /\ Lands(w, x)[1] \in Places /\ Lands(w, x)[2] = x[2]
                                 /\ Lands(w, x)[1][1] = x[1][1]
                                 /\ \A i \in ActiveIn(w) :
                                      w.collection[i].place \notin Spellings[Lands(w, x)[1]]
         /\ \A x, y \in NewIn(w) : Lands(w, y)[1] \in Spellings[Lands(w, x)[1]] => x = y
         /\ \A x, y \in NewIn(w) : Lands(w, x)[1] = Lands(w, y)[1] => x = y
<1>1. \A x \in NewIn(w) : Moved(w, x) => TargetIn(w, x) # x[1]
  BY DEF Moved
<1>2. \A x \in NewIn(w) : /\ Lands(w, x)[1] = (IF Moved(w, x) THEN TargetIn(w, x) ELSE x[1])
                           /\ Lands(w, x)[2] = x[2] /\ Lands(w, x) = <<Lands(w, x)[1], x[2], x[3]>>
  BY DEF Lands
<1>3. \A x \in NewIn(w) : x[1] \in Places /\ w.disk[x[1]] # Null
  BY FoundThings
<1>4. \A x \in NewIn(w) : /\ Lands(w, x)[1] \in Places /\ Lands(w, x)[1][1] = x[1][1]
                           /\ \A i \in ActiveIn(w) :
                                w.collection[i].place \notin Spellings[Lands(w, x)[1]]
  BY <1>1, <1>2, <1>3, Targets DEF Clear
<1>5. ASSUME NEW x \in NewIn(w), NEW y \in NewIn(w), Lands(w, y)[1] \in Spellings[Lands(w, x)[1]]
      PROVE  x[1] = y[1]
  <2>0. /\ x[1] \in Places /\ y[1] \in Places /\ w.disk[x[1]] # Null /\ w.disk[y[1]] # Null
        /\ Lands(w, x)[1] \in Spellings[Lands(w, y)[1]]
    BY <1>3, <1>4, <1>5, SpeltAlike
  <2>1. CASE Moved(w, x) /\ Moved(w, y)
    <3>1. /\ Decoded[y[1]] \in Spellings[Decoded[x[1]]]
          /\ x[1] \in DOMAIN Decoded /\ y[1] \in DOMAIN Decoded
      BY <1>1, <1>2, <1>5, <2>1, Targets
    <3>2. y[1] \in Spellings[x[1]]
      BY <3>1 DEF OneName
    <3> QED BY <2>0, <3>2 DEF Snapshot, Alone
  <2>2. CASE Moved(w, x) /\ ~Moved(w, y)
    <3>1. y[1] \in Spellings[TargetIn(w, x)]
      BY <1>2, <1>5, <2>2
    <3> QED BY <1>1, <2>0, <2>2, <3>1, Targets
  <2>3. CASE ~Moved(w, x) /\ Moved(w, y)
    <3>1. x[1] \in Spellings[TargetIn(w, y)]
      BY <1>2, <2>0, <2>3
    <3> QED BY <1>1, <2>0, <2>3, <3>1, Targets
  <2>4. CASE ~Moved(w, x) /\ ~Moved(w, y)
    <3>1. y[1] \in Spellings[x[1]]
      BY <1>2, <1>5, <2>4
    <3> QED BY <2>0, <3>1 DEF Snapshot, Alone
  <2> QED BY <2>1, <2>2, <2>3, <2>4
<1>6. \A x, y \in NewIn(w) : Lands(w, y)[1] \in Spellings[Lands(w, x)[1]] => x = y
  BY <1>5 DEF Clear
<1>7. \A x, y \in NewIn(w) : Lands(w, x)[1] = Lands(w, y)[1] => x = y
  BY <1>4, <1>6, SpeltAlike
<1> QED BY <1>2, <1>4, <1>6, <1>7

(* The preview is made of what is there now.                                *)
LEMMA PreviewSees ==
  ASSUME RowsOK, NEW m
  PROVE  /\ Expectation = Foreseen(Now(m)) /\ Known = KnownIn(Now(m))
         /\ Ambiguous \/ Clear(Now(m))
<1>1. Now(m).access = access /\ Now(m).disk = disk /\ Now(m).collection = collection
  BY DEF Now
<1> PICK n : n = Now(m)
  OBVIOUS
<1>2. n.access = access /\ n.disk = disk /\ n.collection = collection
  BY <1>1
<1>3. /\ Active = ActiveIn(n) /\ Known = KnownIn(n)
      /\ \A r : Reached(r) <=> ReachedIn(n, r)
      /\ \A p : There(p) <=> OnDisk(n, p)
      /\ \A p : Seen(p) <=> SeenIn(n, p)
  BY <1>2 DEF Active, ActiveIn, Known, KnownIn, Seen, SeenIn, There, OnDisk, Reached, ReachedIn,
              IsDir, DirIn
<1> DEFINE safe  == Roots \ Spoilt({r \in Roots : ~Reached(r)})
           found == AllFound
           new   == AllNew
           gone  == {i \in Active : collection[i].root \in safe /\ ~Seen(collection[i].place)}
           there == {l \in gone \X Active :
                       LET c == collection[l[2]]
                       IN  l[1] # l[2] /\ Matches(c.place, c.kind) /\ SameName(l[1], c.place, c.kind)}
           soon  == {l \in gone \X new : SameName(l[1], Anticipated(l[2])[1], l[2][2])}
<1>4. Expectation =
        [discovered |-> Cardinality(found),
         new |-> Cardinality(new),
         known |-> Cardinality({c \in found : Known[c[1]] = c[2]}),
         renamed |-> Cardinality({c \in new : Target(c[1], c[2], Known) # c[1]}),
         warned |-> Cardinality({c \in new : Keeps(c[1], c[2], Known)}),
         gone |-> Cardinality(gone),
         links |-> Cardinality(there) + Cardinality(soon)]
  BY DEF Expectation
<1>5. AllFound = FoundIn(n)
  <2>1. \A p \in Places : p[1] \in Roots /\ Kind(disk[p]) \in Kinds
    BY DEF Roots, Kind, Kinds
  <2>2. ASSUME NEW x
        PROVE  x \in AllFound <=> \E r \in Roots, p \in Places :
                 /\ r \in Up(p[1]) /\ Reached(p[1]) /\ disk[p] # Null
                 /\ x = <<p, Kind(disk[p]), r>>
    BY DEF AllFound, Listed
  <2>3. ASSUME NEW x \in Found
        PROVE  x \in FoundIn(n) <=> /\ x[3] \in Up(x[1][1]) /\ Reached(x[1][1])
                                    /\ disk[x[1]] # Null /\ x[2] = Kind(disk[x[1]])
    BY <1>2, <1>3 DEF FoundIn
  <2>4. AllFound \subseteq FoundIn(n)
    <3> SUFFICES ASSUME NEW r \in Roots, NEW p \in Places, r \in Up(p[1]), Reached(p[1]),
                        disk[p] # Null
                 PROVE  <<p, Kind(disk[p]), r>> \in FoundIn(n)
      BY <2>2
    <3>1. PICK x : x = <<p, Kind(disk[p]), r>>
      OBVIOUS
    <3>2. x \in Found /\ x[1] = p /\ x[2] = Kind(disk[p]) /\ x[3] = r
      BY <2>1, <3>1 DEF Found
    <3> QED BY <2>3, <3>1, <3>2
  <2>5. FoundIn(n) \subseteq AllFound
    <3> SUFFICES ASSUME NEW x \in FoundIn(n) PROVE x \in AllFound
      OBVIOUS
    <3>1. x \in Found
      BY DEF FoundIn
    <3>2. x[1] \in Places /\ x[3] \in Roots /\ x = <<x[1], x[2], x[3]>>
      BY <3>1 DEF Found
    <3> QED BY <2>2, <2>3, <3>1, <3>2
  <2> QED BY <2>4, <2>5
<1>6. AllNew = NewIn(n)
  BY <1>3, <1>5 DEF NewIn, AllNew
<1>7. gone = GoneIn(n)
  <2>1. safe = SafeIn(n)
    BY <1>3 DEF SafeIn
  <2> QED BY <1>2, <1>3, <2>1 DEF GoneIn
<1> HIDE DEF gone
<1>8. there = ThereIn(n)
  <2>1. \A i : Matches(collection[i].place, collection[i].kind) <=> HoldsIn(n, i)
    BY <1>2, <1>3 DEF Matches, HoldsIn
  <2>2. \A i, p, k : SameName(i, p, k) <=> NamedIn(n, i, p, k)
    BY <1>2 DEF SameName, NamedIn
  <2> QED BY <1>2, <1>3, <1>7, <2>1, <2>2 DEF ThereIn
<1>9. \A x : Target(x[1], x[2], Known) = TargetIn(n, x) /\ (Keeps(x[1], x[2], Known) <=> KeptIn(n, x))
  BY <1>3, Zenon DEF Target, TargetIn, Keeps, KeptIn
<1>10. \A x : Anticipated(x)[1] = TargetIn(n, x)
  BY <1>9 DEF Anticipated
<1>11. soon = SoonIn(n)
  BY <1>2, <1>6, <1>7, <1>10, Zenon DEF SoonIn, SameName, NamedIn
<1> HIDE DEF there, soon
<1>12. /\ {c \in found : Known[c[1]] = c[2]} = {x \in FoundIn(n) : KnownIn(n)[x[1]] = x[2]}
       /\ {c \in new : Target(c[1], c[2], Known) # c[1]} = {x \in NewIn(n) : TargetIn(n, x) # x[1]}
       /\ {c \in new : Keeps(c[1], c[2], Known)} = {x \in NewIn(n) : KeptIn(n, x)}
  BY <1>3, <1>5, <1>6, <1>9, Zenon
<1>13. Expectation = Foreseen(n)
  BY <1>4, <1>5, <1>6, <1>7, <1>8, <1>11, <1>12, Zenon DEF Foreseen
<1>14. Ambiguous \/ Clear(n)
  BY <1>2, <1>3, <1>6, <1>10 DEF Ambiguous, Clear
<1> QED BY <1>3, <1>13, <1>14, Zenon

(* The disk as the renames of the walk leave it.                             *)
LEMMA MovedAre ==
  ASSUME NEW w, Snapshot(w), NEW x, Moved(w, x)
  PROVE  /\ x \in NewIn(w) /\ x \in FoundIn(w) /\ TargetIn(w, x) # x[1]
         /\ x[2] = "zip" /\ x[1] \in DOMAIN Decoded /\ x[1] \in Places /\ TargetIn(w, x) = Decoded[x[1]]
         /\ TargetIn(w, x) \in Places \ DOMAIN Decoded /\ TargetIn(w, x)[1] = x[1][1]
         /\ \A q \in Spellings[TargetIn(w, x)] : w.disk[q] = Null
         /\ w.disk[x[1]] # Null
BY FoundThings, Targets DEF Moved, NewIn

\* what the catalog knew stays as it was, in whatever spelling
LEMMA KnownStay ==
  ASSUME NEW w, Snapshot(w), Clear(w), NEW S, DiskAfter(w, S), NEW i \in ActiveIn(w),
         w.collection[i].place \in Places, NEW q \in Spellings[w.collection[i].place]
  PROVE  disk[q] = w.disk[q]
<1>1. q \in Places /\ w.collection[i].place \in Spellings[q]
  BY SpeltAlike
<1>2. \A x \in S : Moved(w, x) => q # x[1] /\ q # TargetIn(w, x)
  BY <1>1, MovedAre DEF Clear
<1> QED BY <1>1, <1>2 DEF DiskAfter

LEMMA FoundStay ==
  ASSUME NEW w, Snapshot(w), Clear(w), NEW S, S \subseteq FoundIn(w), DiskAfter(w, S),
         NEW x \in FoundIn(w), x \notin S \/ ~Moved(w, x)
  PROVE  disk[x[1]] = w.disk[x[1]]
<1>1. x[1] \in Places /\ w.disk[x[1]] # Null
  BY FoundThings
<1>2. ASSUME NEW y \in S, Moved(w, y), x[1] = y[1] PROVE FALSE
  <2>1. y \in NewIn(w) /\ x \in NewIn(w)
    BY <1>2, MovedAre DEF NewIn
  <2>2. x = y
    BY <1>2, <2>1 DEF Clear
  <2> QED BY <1>2, <2>2
<1>3. ASSUME NEW y \in S, Moved(w, y) PROVE x[1] # TargetIn(w, y)
  BY <1>1, <1>3, MovedAre, SpeltAlike
<1> QED BY <1>1, <1>2, <1>3 DEF DiskAfter

LEMMA DiskLands ==
  ASSUME NEW w, Snapshot(w), Clear(w), OneName, access = w.access, DiskAfter(w, FoundIn(w)),
         NEW x \in NewIn(w)
  PROVE  Matches(Lands(w, x)[1], x[2])
<1>1. x \in FoundIn(w) /\ ReachedIn(w, x[1][1]) /\ x[2] = Kind(w.disk[x[1]]) /\ w.disk[x[1]] # Null
  BY FoundThings
<1>2. /\ Lands(w, x)[1] = (IF Moved(w, x) THEN TargetIn(w, x) ELSE x[1])
      /\ Lands(w, x)[1][1] = x[1][1] /\ Lands(w, x)[1] \in Places
  BY Landings
<1>3. disk[Lands(w, x)[1]] = w.disk[x[1]]
  <2>1. CASE Moved(w, x)
    BY <1>1, <1>2, <2>1 DEF DiskAfter
  <2>2. CASE ~Moved(w, x)
    BY <1>1, <1>2, <2>2, FoundStay
  <2> QED BY <2>1, <2>2
<1>4. Reached(Lands(w, x)[1][1])
  BY <1>1, <1>2 DEF Reached, ReachedIn, IsDir, DirIn
<1> QED BY <1>1, <1>2, <1>3, <1>4, SpeltAlike DEF Matches

(* What the walk decides about a child is what the preview said of it.       *)
LEMMA TargetStands ==
  ASSUME NEW w, Snapshot(w), Clear(w), OneName, access = w.access, NEW S, S \subseteq FoundIn(w),
         DiskAfter(w, S), NEW x \in NewIn(w), x \notin S
  PROVE  /\ Target(x[1], x[2], KnownIn(w)) = TargetIn(w, x)
         /\ Keeps(x[1], x[2], KnownIn(w)) <=> KeptIn(w, x)
<1>1. x[1] \in DOMAIN Decoded => (Seen(Decoded[x[1]]) <=> SeenIn(w, Decoded[x[1]]))
  <2> SUFFICES ASSUME x[1] \in DOMAIN Decoded
               PROVE  \A q \in Spellings[Decoded[x[1]]] : disk[q] = w.disk[q]
    BY DEF Seen, SeenIn, There, OnDisk, Reached, ReachedIn, IsDir, DirIn
  <2>1. Decoded[x[1]] \in Places \ DOMAIN Decoded
    BY ScanPlacesAssumption
  <2> TAKE q \in Spellings[Decoded[x[1]]]
  <2>2. q \in Places \ DOMAIN Decoded
    BY <2>1, SpeltAlike
  <2>3. ASSUME NEW y \in S, Moved(w, y), q = TargetIn(w, y) PROVE FALSE
    <3>1. /\ y \in NewIn(w) /\ y[1] \in DOMAIN Decoded /\ q = Decoded[y[1]]
          /\ y[1] \in Places /\ w.disk[y[1]] # Null
      BY <2>3, MovedAre
    <3>2. y[1] \in Spellings[x[1]]
      BY <3>1 DEF OneName
    <3>3. x[1] \in Places /\ w.disk[x[1]] # Null
      BY FoundThings
    <3>4. x[1] = y[1]
      BY <3>1, <3>2, <3>3 DEF Snapshot, Alone
    <3> QED BY <3>1, <3>4 DEF Clear
  <2>4. \A y \in S : Moved(w, y) => q # y[1] /\ q # TargetIn(w, y)
    BY <2>2, <2>3, MovedAre
  <2> QED BY <2>2, <2>4 DEF DiskAfter
<1>2. Target(x[1], x[2], KnownIn(w)) = TargetIn(w, x)
  BY <1>1, Zenon DEF Target, TargetIn
<1> QED BY <1>2, Zenon DEF Keeps, KeptIn

LEMMA DiskMoves ==
  ASSUME NEW w, Snapshot(w), Clear(w), OneName, NEW S, S \subseteq FoundIn(w), DiskAfter(w, S),
         NEW x \in FoundIn(w), x \notin S, disk \in [Places -> Files \cup {Null}],
         \/ ~Moved(w, x) /\ disk' = disk
         \/ /\ Moved(w, x)
            /\ disk' = [disk EXCEPT ![TargetIn(w, x)] = disk[x[1]], ![x[1]] = Null]
  PROVE  DiskAfter(w, S \cup {x})'
<1>1. CASE ~Moved(w, x) /\ disk' = disk
  BY <1>1 DEF DiskAfter
<1>2. CASE Moved(w, x) /\ disk' = [disk EXCEPT ![TargetIn(w, x)] = disk[x[1]], ![x[1]] = Null]
  <2> DEFINE t == TargetIn(w, x)
  <2>1. /\ t # x[1] /\ t \in Places /\ x[1] \in Places /\ x[1] \in DOMAIN Decoded
        /\ t \notin DOMAIN Decoded /\ t = Decoded[x[1]] /\ x \in NewIn(w)
        /\ w.disk[x[1]] # Null
    BY <1>2, MovedAre
  <2> HIDE DEF t
  <2>2. disk' = [disk EXCEPT ![t] = disk[x[1]], ![x[1]] = Null]
    BY <1>2 DEF t
  <2>3. /\ disk'[x[1]] = Null /\ disk'[t] = disk[x[1]] /\ disk[x[1]] \in Files \cup {Null}
        /\ \A p \in Places : p # x[1] /\ p # t => disk'[p] = disk[p]
    BY <2>1, <2>2
  <2>4. disk[x[1]] = w.disk[x[1]]
    BY FoundStay
  <2>5. \A y \in S : Moved(w, y) => /\ y[1] \in Places /\ y[1] # x[1] /\ y[1] # t
                                    /\ TargetIn(w, y) \in Places /\ TargetIn(w, y) # x[1]
                                    /\ TargetIn(w, y) # t
    <3> SUFFICES ASSUME NEW y \in S, Moved(w, y)
                 PROVE  /\ y[1] \in Places /\ y[1] # x[1] /\ y[1] # t
                        /\ TargetIn(w, y) \in Places /\ TargetIn(w, y) # x[1]
                        /\ TargetIn(w, y) # t
      OBVIOUS
    <3>1. /\ y[1] \in Places /\ y[1] \in DOMAIN Decoded /\ TargetIn(w, y) = Decoded[y[1]]
          /\ TargetIn(w, y) \in Places \ DOMAIN Decoded /\ y \in NewIn(w)
          /\ w.disk[y[1]] # Null
      BY MovedAre
    <3>2. y[1] # x[1]
      BY <2>1, <3>1 DEF Clear
    <3>3. TargetIn(w, y) # t
      <4> SUFFICES ASSUME TargetIn(w, y) = t PROVE FALSE
        OBVIOUS
      <4>1. y[1] \in Spellings[x[1]]
        BY <2>1, <3>1, SpeltAlike DEF OneName
      <4> QED BY <2>1, <3>1, <3>2, <4>1 DEF Snapshot, Alone
    <3> QED BY <2>1, <3>1, <3>2, <3>3
  <2>6. \A y \in S \cup {x} : Moved(w, y) => disk'[y[1]] = Null /\ disk'[TargetIn(w, y)] = w.disk[y[1]]
    BY <2>3, <2>4, <2>5 DEF DiskAfter, t
  <2>7. \A p \in Places : (\A y \in S \cup {x} : Moved(w, y) => p # y[1] /\ p # TargetIn(w, y))
                             => disk'[p] = w.disk[p]
    <3> SUFFICES ASSUME NEW p \in Places,
                        \A y \in S \cup {x} : Moved(w, y) => p # y[1] /\ p # TargetIn(w, y)
                 PROVE  disk'[p] = w.disk[p]
      OBVIOUS
    <3>1. p # x[1] /\ p # t
      BY <1>2 DEF t
    <3>2. disk[p] = w.disk[p]
      BY DEF DiskAfter
    <3> QED BY <2>3, <3>1, <3>2
  <2> QED BY <2>6, <2>7 DEF DiskAfter
<1> QED BY <1>1, <1>2

(* Counting one more.                                                        *)
LEMMA OneMore ==
  ASSUME NEW S, IsFiniteSet(S), NEW x, x \notin S, NEW T
  PROVE  /\ Cardinality(S \cap T) \in Nat
         /\ Cardinality((S \cup {x}) \cap T) = Cardinality(S \cap T) + (IF x \in T THEN 1 ELSE 0)
<1>1. IsFiniteSet(S \cap T) /\ Cardinality(S \cap T) \in Nat
  BY FS_Subset, FS_CardinalityType
<1>2. CASE x \in T
  <2>1. (S \cup {x}) \cap T = (S \cap T) \cup {x} /\ x \notin S \cap T
    BY <1>2
  <2> QED BY <1>1, <1>2, <2>1, FS_AddElement
<1>3. CASE x \notin T
  <2>1. (S \cup {x}) \cap T = S \cap T
    BY <1>3
  <2>2. Cardinality((S \cup {x}) \cap T) = Cardinality(S \cap T)
    BY <2>1, Zenon
  <2> QED BY <1>1, <1>3, <2>2
<1> QED BY <1>2, <1>3

LEMMA CountsGoOn ==
  ASSUME NEW w, Snapshot(w), NEW S, S \subseteq FoundIn(w), NEW n, Counted(w, S, n),
         NEW x \in FoundIn(w), x \notin S, NEW m, DOMAIN m = Counts,
         m.gone = n.gone, m.links = n.links, m.discovered = n.discovered + 1,
         m.new = n.new + (IF x \in NewIn(w) THEN 1 ELSE 0),
         m.known = n.known + (IF x \in Things(w) THEN 1 ELSE 0),
         m.renamed = n.renamed + (IF x \in MovedIn(w) THEN 1 ELSE 0),
         m.warned = n.warned + (IF x \in KeptAll(w) THEN 1 ELSE 0)
  PROVE  Counted(w, S \cup {x}, m)
<1>1. IsFiniteSet(S)
  BY FoundThings, FS_Subset
<1>2. Cardinality(S \cup {x}) = Cardinality(S) + 1
  BY <1>1, FS_AddElement
<1>3. /\ Cardinality((S \cup {x}) \cap NewIn(w)) = Cardinality(S \cap NewIn(w)) + (IF x \in NewIn(w) THEN 1 ELSE 0)
      /\ Cardinality((S \cup {x}) \cap Things(w)) = Cardinality(S \cap Things(w)) + (IF x \in Things(w) THEN 1 ELSE 0)
      /\ Cardinality((S \cup {x}) \cap MovedIn(w)) = Cardinality(S \cap MovedIn(w)) + (IF x \in MovedIn(w) THEN 1 ELSE 0)
      /\ Cardinality((S \cup {x}) \cap KeptAll(w)) = Cardinality(S \cap KeptAll(w)) + (IF x \in KeptAll(w) THEN 1 ELSE 0)
  BY <1>1, OneMore
<1> QED BY <1>2, <1>3 DEF Counted

DiskOK == disk \in [Places -> Files \cup {Null}] /\ Alone(disk)

(* A scan whose preview still stands.                                        *)
Standing(w) == /\ OneName /\ Snapshot(w) /\ Clear(w) /\ ScanInv /\ DiskOK
               /\ scan.at # "idle" /\ scan.expected # Null /\ Follows(w)

LEMMA ScanFields ==
  ASSUME ScanInv, scan.at # "idle"
  PROVE  scan # Idle /\ DOMAIN scan = Fields /\ scan.at \in Stages
<1>1. scan # Idle
  BY DEF Idle
<1> QED BY <1>1 DEF ScanInv, ScanOK

\* what the walk leaves alone
Walks == /\ scan'.at = "walk" /\ scan'.known = scan.known /\ scan'.expected = scan.expected
         /\ scan'.mode = scan.mode /\ access' = access /\ collection' = collection /\ link' = link

LEMMA ListRootFollows ==
  ASSUME NEW w, Standing(w), NEW r \in Roots, ListRoot(r)
  PROVE  Follows(w)'
<1> USE DEF Standing
<1>1. scan.at = "walk" /\ scan.children = {} /\ r \in scan.roots /\ DOMAIN scan = Fields
  BY ScanFields DEF ListRoot
<1>2. Walking(w) /\ Unlinked(w) /\ access = w.access
  BY <1>1 DEF Follows
<1>3. /\ Walks /\ disk' = disk /\ scan'.count = scan.count /\ scan'.pending = scan.pending
      /\ scan'.roots = scan.roots \ {r}
      /\ scan'.unsafe = scan.unsafe \cup Spoilt(Faults(r))
      /\ scan'.children = Listed(r)
  BY <1>1 DEF ListRoot, Fields, world, catalog, Walks
<1>4. scan'.children = {x \in FoundIn(w) : x[3] = r}
  <2>1. \A q \in Roots : Reached(q) <=> ReachedIn(w, q)
    BY <1>2 DEF Reached, ReachedIn, IsDir, DirIn
  <2>2. \A p \in Places : p[1] \in Roots /\ Kind(disk[p]) \in Kinds
    BY DEF Roots, Kind, Kinds
  <2>3. ASSUME NEW p \in Places, r \in Up(p[1]), Reached(p[1]) PROVE disk[p] = w.disk[p]
    <3> SUFFICES ASSUME NEW y \in Done(w), Moved(w, y), p = y[1] \/ p = TargetIn(w, y)
                 PROVE  FALSE
      BY <1>2 DEF Walking, DiskAfter
    <3>1. /\ y \in NewIn(w) /\ y[1][1] = p[1] /\ y[1] \in Places /\ w.disk[y[1]] # Null
          /\ y \in FoundIn(w)
      BY MovedAre
    <3>2. PICK z : z = <<y[1], y[2], r>>
      OBVIOUS
    <3>3. z[1] = y[1] /\ z[2] = y[2] /\ z[3] = r /\ z \in Found
      BY <3>1, <3>2, FoundThings DEF Found
    <3>4. z \in NewIn(w)
      BY <2>3, <3>1, <3>3 DEF NewIn, FoundIn
    <3>5. y[3] = r
      BY <3>1, <3>3, <3>4 DEF Clear
    <3> QED BY <1>1, <3>1, <3>5 DEF Done, Rest
  <2>4. ASSUME NEW x
        PROVE  x \in Listed(r) <=> \E p \in Places :
                 /\ r \in Up(p[1]) /\ Reached(p[1]) /\ w.disk[p] # Null
                 /\ x = <<p, Kind(w.disk[p]), r>>
    BY <2>3 DEF Listed
  <2>5. ASSUME NEW x \in Listed(r) PROVE x \in FoundIn(w) /\ x[3] = r
    <3>1. PICK p \in Places : /\ r \in Up(p[1]) /\ Reached(p[1]) /\ w.disk[p] # Null
                              /\ x = <<p, Kind(w.disk[p]), r>>
      BY <2>4
    <3>2. Kind(w.disk[p]) \in Kinds
      BY DEF Kind, Kinds
    <3>3. x[1] = p /\ x[2] = Kind(w.disk[p]) /\ x[3] = r /\ x \in Found
      BY <3>1, <3>2 DEF Found
    <3> QED BY <2>1, <2>2, <3>1, <3>3 DEF FoundIn
  <2>6. ASSUME NEW x \in FoundIn(w), x[3] = r PROVE x \in Listed(r)
    <3>1. /\ x = <<x[1], Kind(w.disk[x[1]]), r>> /\ x[1] \in Places /\ r \in Up(x[1][1])
          /\ Reached(x[1][1]) /\ w.disk[x[1]] # Null
      BY <2>1, <2>2, <2>6, FoundThings
    <3> QED BY <2>4, <3>1
  <2> QED BY <1>3, <2>5, <2>6
<1>5. Rest(w)' = Rest(w)
  BY <1>1, <1>3, <1>4 DEF Rest
<1>6. Done(w)' = Done(w)
  BY <1>5 DEF Done
<1>7. DiskAfter(w, Done(w))' /\ Counted(w, Done(w), scan.count)' /\ scan'.pending = Placed(w, Done(w)')
  BY <1>2, <1>3, <1>6 DEF Walking, DiskAfter, Counted
<1>8. UnsafeIs(Roots \ scan.roots)'
  <2>1. \A q : Spoilt(Faults(q))' = Spoilt(Faults(q))
    BY <1>3 DEF Walks, Spoilt, Faults, IsDir
  <2>2. Roots \ scan'.roots = (Roots \ scan.roots) \cup {r}
    BY <1>1, <1>3
  <2>3. scan.unsafe = UNION {Spoilt(Faults(q)) : q \in Roots \ scan.roots}
    BY <1>2 DEF Walking, UnsafeIs
  <2>4. scan'.unsafe = UNION {Spoilt(Faults(q)) : q \in Roots \ scan'.roots}
    BY <1>3, <2>2, <2>3
  <2> QED BY <2>1, <2>4 DEF UnsafeIs
<1>9. Walking(w)'
  BY <1>2, <1>3, <1>4, <1>7, <1>8 DEF Walking, Walks
<1>10. Unlinked(w)'
  BY <1>2, <1>3 DEF Unlinked, Walks
<1> QED BY <1>3, <1>9, <1>10 DEF Follows, Walks

(* All that was not reached was found spoilt by some walk.                   *)
LEMMA AllFaults ==
  ASSUME AccessOK
  PROVE  (UNION {Spoilt(Faults(r)) : r \in Roots}) \cup {r \in Roots : ~IsDir(r)}
           = Spoilt({r \in Roots : ~Reached(r)})
<1>1. ASSUME NEW r \in Roots, NEW q \in Faults(r) PROVE q \in Roots /\ ~Reached(q)
  BY <1>1 DEF Faults, Reached
<1>2. ASSUME NEW r \in Roots, ~Reached(r) PROVE r \in Faults(r)
  BY <1>2, UpRoots DEF Faults, Reached, IsDir, AccessOK
<1>3. \A r \in Roots : ~IsDir(r) => r \in Up(r) /\ ~Reached(r)
  BY UpRoots DEF Reached
<1> DEFINE Bad == {r \in Roots : ~Reached(r)}
<1>4. \A x : x \in UNION {Spoilt(Faults(r)) : r \in Roots}
               <=> \E r \in Roots : \E q \in Faults(r) : x \in Up(q)
  BY DEF Spoilt
<1>5. \A x : x \in Spoilt(Bad) <=> \E q \in Roots : ~Reached(q) /\ x \in Up(q)
  BY DEF Spoilt
<1> HIDE DEF Bad
<1>6. \A x : x \in UNION {Spoilt(Faults(r)) : r \in Roots} <=> x \in Spoilt(Bad)
  BY <1>1, <1>2, <1>4, <1>5
<1>7. \A x \in {r \in Roots : ~IsDir(r)} : x \in Spoilt(Bad)
  BY <1>3, <1>5
<1> DEFINE All == UNION {Spoilt(Faults(r)) : r \in Roots}
           Off == {r \in Roots : ~IsDir(r)}
<1> HIDE DEF All, Off
<1>8. All \cup Off = Spoilt(Bad)
  BY <1>6, <1>7 DEF All, Off
<1> QED BY <1>8, Zenon DEF All, Off, Bad

LEMMA EndWalkFollows ==
  ASSUME NEW w, Standing(w), EndWalk
  PROVE  Follows(w)'
<1> USE DEF Standing
<1>1. /\ scan.at = "walk" /\ scan.children = {} /\ scan.roots = {} /\ DOMAIN scan = Fields
  BY ScanFields DEF EndWalk
<1>2. Walking(w) /\ Unlinked(w) /\ access = w.access
  BY <1>1 DEF Follows
<1>3. /\ scan'.at = "ingest" /\ scan'.known = scan.known /\ scan'.expected = scan.expected
      /\ scan'.mode = scan.mode /\ access' = access /\ collection' = collection /\ link' = link
      /\ disk' = disk /\ scan'.count = scan.count /\ scan'.pending = scan.pending
      /\ scan'.unsafe = scan.unsafe \cup {r \in Roots : ~IsDir(r)}
  BY <1>1 DEF EndWalk, Fields, world, catalog
<1>4. Done(w) = FoundIn(w)
  BY <1>1 DEF Done, Rest
<1>5. DiskAfter(w, FoundIn(w))' /\ Counted(w, FoundIn(w), scan.count)'
  BY <1>2, <1>3, <1>4 DEF Walking, DiskAfter, Counted
<1>6. UnsafeNow'
  <2>1. scan'.unsafe = Spoilt({r \in Roots : ~Reached(r)})
    BY <1>1, <1>2, <1>3, AllFaults DEF Walking, UnsafeIs, ScanInv
  <2>2. \A r \in Roots : Reached(r)' <=> Reached(r)
    BY <1>3 DEF Reached, IsDir
  <2>3. {r \in Roots : ~Reached(r)'} = {r \in Roots : ~Reached(r)}
    BY <2>2
  <2>4. UnsafeNow' <=> scan'.unsafe = Spoilt({r \in Roots : ~Reached(r)'})
    BY DEF UnsafeNow, Spoilt
  <2> QED BY <2>1, <2>3, <2>4
<1>7. scan'.pending = Placed(w, FoundIn(w)) /\ collection' = w.collection /\ scan'.count.gone = 0
  BY <1>2, <1>3, <1>4 DEF Walking
<1>8. Grown(w, Placed(w, FoundIn(w)) \ scan.pending)'
  <2>1. Fresh(w)' = {}
    BY <1>7 DEF Fresh
  <2>2. Placed(w, FoundIn(w)) \ scan'.pending = {}
    BY <1>7
  <2> QED BY <2>1, <2>2 DEF Grown
<1>9. Old(w)' /\ Marked(w)' = {}
  <2>1. Marked(w)' = {}
    BY <1>7 DEF Marked, ActiveIn
  <2> QED BY <1>7, <2>1 DEF Old
<1>10. Unlinked(w)'
  BY <1>2, <1>3 DEF Unlinked
<1> QED BY <1>3, <1>5, <1>6, <1>7, <1>8, <1>9, <1>10 DEF Follows, Ingesting, Walked

(* A child of the walk is looked at: what it adds to the counts.             *)
LEMMA ChildDoes ==
  ASSUME NEW w, Standing(w), NEW p \in Places, NEW k \in Kinds, NEW r \in Roots, Child(p, k, r),
         scan'.expected # Null, NEW x, x = <<p, k, r>>
  PROVE  /\ scan.at = "walk" /\ x \in scan.children
         /\ Walks /\ scan'.roots = scan.roots /\ scan'.unsafe = scan.unsafe
         /\ scan'.children = scan.children \ {x}
         /\ DOMAIN scan'.count = Counts
         /\ scan'.count.gone = scan.count.gone /\ scan'.count.links = scan.count.links
         /\ scan'.count.discovered = scan.count.discovered + 1
         /\ \/ /\ scan.known[p] = k /\ disk' = disk
               /\ scan'.count.known = scan.count.known + 1 /\ scan'.count.new = scan.count.new
               /\ scan'.count.renamed = scan.count.renamed /\ scan'.count.warned = scan.count.warned
               /\ scan'.pending = scan.pending
            \/ /\ scan.known[p] \in Kinds \ {k} /\ disk' = disk
               /\ scan'.count.known = scan.count.known /\ scan'.count.new = scan.count.new
               /\ scan'.count.renamed = scan.count.renamed /\ scan'.count.warned = scan.count.warned
               /\ scan'.pending = scan.pending
            \/ /\ scan.known[p] = Null /\ disk' = disk
               /\ Target(p, k, scan.known) = p \/ scan.mode = "no_rename"
               /\ scan'.count.known = scan.count.known /\ scan'.count.new = scan.count.new + 1
               /\ scan'.count.renamed = scan.count.renamed
               /\ scan'.count.warned = scan.count.warned + (IF Keeps(p, k, scan.known) THEN 1 ELSE 0)
               /\ scan'.pending = scan.pending \cup {x}
            \/ /\ scan.known[p] = Null
               /\ Target(p, k, scan.known) # p /\ scan.mode = "apply_safe_renames"
               /\ \E q \in Spellings[p] :
                    /\ disk[q] # Null
                    /\ disk' = [disk EXCEPT ![Target(p, k, scan.known)] = disk[q], ![q] = Null]
               /\ scan'.count.known = scan.count.known /\ scan'.count.new = scan.count.new + 1
               /\ scan'.count.renamed = scan.count.renamed + 1
               /\ scan'.count.warned = scan.count.warned
               /\ scan'.pending = scan.pending \cup {<<Target(p, k, scan.known), k, r>>}
<1> USE DEF Standing
<1> DEFINE after  == [scan EXCEPT !.children = @ \ {<<p, k, r>>}, !.count.discovered = @ + 1]
           target == Target(p, k, scan.known)
           kept   == IF Keeps(p, k, scan.known) THEN 1 ELSE 0
           moves  == \E q \in Spellings[p] :
                       disk[q] # Null /\ disk' = [disk EXCEPT ![target] = disk[q], ![q] = Null]
           keep   == [after EXCEPT !.pending = @ \cup {<<p, k, r>>},
                              !.count.new = @ + 1, !.count.warned = @ + kept]
           went   == [after EXCEPT !.pending = @ \cup {<<target, k, r>>},
                              !.count.new = @ + 1, !.count.renamed = @ + 1]
           same(s) == /\ DOMAIN s = Fields /\ DOMAIN s.count = Counts /\ s.at = "walk"
                      /\ s.known = scan.known /\ s.expected = scan.expected /\ s.mode = scan.mode
                      /\ s.roots = scan.roots /\ s.unsafe = scan.unsafe
                      /\ s.children = scan.children \ {x}
                      /\ s.count.gone = scan.count.gone /\ s.count.links = scan.count.links
                      /\ s.count.discovered = scan.count.discovered + 1
<1>1. scan.at = "walk" /\ x \in scan.children /\ UNCHANGED <<access, collection, link>>
  BY Zenon DEF Child, catalog
<1>2. DOMAIN scan = Fields /\ DOMAIN scan.count = Counts
  BY <1>1, ScanFields DEF Follows, Walking, Counted
<1>3. \/ scan.known[p] = k /\ scan' = [after EXCEPT !.count.known = @ + 1] /\ disk' = disk
      \/ scan.known[p] \in Kinds \ {k} /\ scan' = [after EXCEPT !.issues = TRUE] /\ disk' = disk
      \/ /\ scan.known[p] = Null /\ (target = p \/ scan.mode = "no_rename")
         /\ scan' = keep /\ disk' = disk
      \/ /\ scan.known[p] = Null /\ target # p /\ scan.mode = "apply_safe_renames"
         /\ moves
         /\ scan' = went
      \/ scan' = [keep EXCEPT !.count.warned = @ + 1,
                              !.shaken = @ \cup {AFile}, !.expected = Null]
  BY Zenon DEF Child
<1>4. /\ same(after) /\ after.pending = scan.pending
      /\ after.count.known = scan.count.known /\ after.count.new = scan.count.new
      /\ after.count.renamed = scan.count.renamed /\ after.count.warned = scan.count.warned
  BY <1>1, <1>2 DEF Fields, Counts
<1> HIDE DEF after, kept, target, moves
<1>5. /\ same(keep) /\ keep.pending = scan.pending \cup {x}
      /\ keep.count.known = scan.count.known /\ keep.count.new = scan.count.new + 1
      /\ keep.count.renamed = scan.count.renamed /\ keep.count.warned = scan.count.warned + kept
  BY <1>4 DEF Fields, Counts
<1>6. /\ same(went) /\ went.pending = scan.pending \cup {<<target, k, r>>}
      /\ went.count.known = scan.count.known /\ went.count.new = scan.count.new + 1
      /\ went.count.renamed = scan.count.renamed + 1 /\ went.count.warned = scan.count.warned
  BY <1>4 DEF Fields, Counts
<1> HIDE DEF keep, went
<1>7. CASE scan.known[p] = k /\ scan' = [after EXCEPT !.count.known = @ + 1] /\ disk' = disk
  <2>1. /\ same(scan') /\ scan'.pending = scan.pending
        /\ scan'.count.known = scan.count.known + 1 /\ scan'.count.new = scan.count.new
        /\ scan'.count.renamed = scan.count.renamed /\ scan'.count.warned = scan.count.warned
    BY <1>4, <1>7 DEF Fields, Counts
  <2> QED BY <1>1, <1>7, <2>1, Zenon DEF Walks
<1>8. CASE scan.known[p] \in Kinds \ {k} /\ scan' = [after EXCEPT !.issues = TRUE] /\ disk' = disk
  <2>1. /\ same(scan') /\ scan'.pending = scan.pending
        /\ scan'.count.known = scan.count.known /\ scan'.count.new = scan.count.new
        /\ scan'.count.renamed = scan.count.renamed /\ scan'.count.warned = scan.count.warned
    BY <1>4, <1>8 DEF Fields, Counts
  <2> QED BY <1>1, <1>8, <2>1, Zenon DEF Walks
<1>9. CASE /\ scan.known[p] = Null /\ (target = p \/ scan.mode = "no_rename")
           /\ scan' = keep /\ disk' = disk
  BY <1>1, <1>5, <1>9, Zenon DEF Walks, kept, target
<1>10. CASE /\ scan.known[p] = Null /\ target # p /\ scan.mode = "apply_safe_renames"
            /\ moves
            /\ scan' = went
  BY <1>1, <1>6, <1>10, Zenon DEF Walks, target, moves
<1>11. CASE scan' = [keep EXCEPT !.count.warned = @ + 1,
                              !.shaken = @ \cup {AFile}, !.expected = Null]
  BY <1>5, <1>11 DEF Fields
<1> QED BY <1>3, <1>7, <1>8, <1>9, <1>10, <1>11, Zenon

LEMMA ChildAdds ==
  ASSUME NEW w, Standing(w), NEW p \in Places, NEW k \in Kinds, NEW r \in Roots, Child(p, k, r),
         scan'.expected # Null, NEW x, x = <<p, k, r>>
  PROVE  LET new == scan.known[p] = Null
             moved == Target(p, k, scan.known) # p /\ scan.mode = "apply_safe_renames"
         IN
         /\ ~(new /\ moved) => disk' = disk
         /\ new /\ moved =>
              \E q \in Spellings[p] :
                /\ disk[q] # Null
                /\ disk' = [disk EXCEPT ![Target(p, k, scan.known)] = disk[q], ![q] = Null]
         /\ ~new => scan'.pending = scan.pending
         /\ new /\ ~moved => scan'.pending = scan.pending \cup {x}
         /\ new /\ moved => scan'.pending = scan.pending \cup {<<Target(p, k, scan.known), k, r>>}
         /\ scan'.count.new = scan.count.new + (IF new THEN 1 ELSE 0)
         /\ scan'.count.known = scan.count.known + (IF scan.known[p] = k THEN 1 ELSE 0)
         /\ scan'.count.renamed = scan.count.renamed + (IF new /\ moved THEN 1 ELSE 0)
         /\ scan'.count.warned = scan.count.warned + (IF new /\ Keeps(p, k, scan.known) THEN 1 ELSE 0)
<1> DEFINE new == scan.known[p] = Null
           target == Target(p, k, scan.known)
           moved == target # p /\ scan.mode = "apply_safe_renames"
           kept == Keeps(p, k, scan.known)
           n == scan.count
           m == scan'.count
           moves == \E q \in Spellings[p] :
                      disk[q] # Null /\ disk' = [disk EXCEPT ![target] = disk[q], ![q] = Null]
           takes == scan'.pending = scan.pending \cup {<<target, k, r>>}
<1>1. Null \notin Kinds /\ k \in Kinds
  BY ScanPlacesAssumption
<1>2. n.new \in Nat /\ n.known \in Nat /\ n.renamed \in Nat /\ n.warned \in Nat
  <2>1. scan.at = "walk"
    BY ChildDoes
  <2>2. Counted(w, Done(w), n)
    BY <2>1 DEF Standing, Follows, Walking
  <2>3. IsFiniteSet(Done(w)) /\ \A T : IsFiniteSet(Done(w) \cap T)
    BY FoundThings, FS_Subset DEF Standing, Done
  <2> QED BY <2>2, <2>3, FS_CardinalityType DEF Counted
<1>3. new /\ moved => ~kept
  BY DEF Keeps
<1>4. \/ /\ scan.known[p] = k /\ disk' = disk /\ scan'.pending = scan.pending
         /\ m.known = n.known + 1 /\ m.new = n.new /\ m.renamed = n.renamed /\ m.warned = n.warned
      \/ /\ scan.known[p] \in Kinds \ {k} /\ disk' = disk /\ scan'.pending = scan.pending
         /\ m.known = n.known /\ m.new = n.new /\ m.renamed = n.renamed /\ m.warned = n.warned
      \/ /\ new /\ (target = p \/ scan.mode = "no_rename") /\ disk' = disk
         /\ scan'.pending = scan.pending \cup {x}
         /\ m.known = n.known /\ m.new = n.new + 1 /\ m.renamed = n.renamed
         /\ m.warned = n.warned + (IF kept THEN 1 ELSE 0)
      \/ /\ new /\ target # p /\ scan.mode = "apply_safe_renames" /\ moves /\ takes
         /\ m.known = n.known /\ m.new = n.new + 1 /\ m.renamed = n.renamed + 1
         /\ m.warned = n.warned
  BY ChildDoes
<1>5. \/ /\ scan.known[p] = k /\ disk' = disk /\ scan'.pending = scan.pending
         /\ m.known = n.known + 1 /\ m.new = n.new /\ m.renamed = n.renamed /\ m.warned = n.warned
      \/ /\ scan.known[p] \in Kinds \ {k} /\ disk' = disk /\ scan'.pending = scan.pending
         /\ m.known = n.known /\ m.new = n.new /\ m.renamed = n.renamed /\ m.warned = n.warned
      \/ /\ new /\ ~moved /\ disk' = disk
         /\ scan'.pending = scan.pending \cup {x}
         /\ m.known = n.known /\ m.new = n.new + 1 /\ m.renamed = n.renamed
         /\ m.warned = n.warned + (IF kept THEN 1 ELSE 0)
      \/ /\ new /\ moved /\ moves /\ takes
         /\ m.known = n.known /\ m.new = n.new + 1 /\ m.renamed = n.renamed + 1
         /\ m.warned = n.warned
  <2>1. "no_rename" # "apply_safe_renames"
    OBVIOUS
  <2> QED BY <1>4, <2>1, Zenon
<1> HIDE DEF kept, target, m, n, moves, takes
<1>6. /\ ~(new /\ moved) => disk' = disk
      /\ new /\ moved => moves /\ takes
      /\ ~new => scan'.pending = scan.pending
      /\ new /\ ~moved => scan'.pending = scan.pending \cup {x}
  BY <1>1, <1>5
<1>7. /\ m.new = n.new + (IF new THEN 1 ELSE 0)
      /\ m.known = n.known + (IF scan.known[p] = k THEN 1 ELSE 0)
      /\ m.renamed = n.renamed + (IF new /\ moved THEN 1 ELSE 0)
      /\ m.warned = n.warned + (IF new /\ kept THEN 1 ELSE 0)
  BY <1>1, <1>2, <1>3, <1>5
<1> QED BY <1>6, <1>7, Zenon DEF kept, target, m, n, moves, takes

(* And it is one more of the things found.                                   *)
LEMMA ChildFollows ==
  ASSUME NEW w, Standing(w), NEW p \in Places, NEW k \in Kinds, NEW r \in Roots, Child(p, k, r),
         scan'.expected # Null
  PROVE  Follows(w)'
<1> USE DEF Standing
<1> PICK x : x = <<p, k, r>>
  OBVIOUS
<1>0. PICK S : S = Done(w)
  OBVIOUS
<1>1. scan.at = "walk" /\ x \in scan.children /\ scan'.children = scan.children \ {x}
      /\ Walks /\ scan'.roots = scan.roots /\ scan'.unsafe = scan.unsafe
  BY ChildDoes
<1>2. /\ Walking(w) /\ Unlinked(w) /\ access = w.access /\ scan.known = KnownIn(w)
      /\ scan.mode = w.mode
  BY <1>1 DEF Follows
<1>3. x \in FoundIn(w) /\ x \notin S /\ S \subseteq FoundIn(w) /\ x[1] = p /\ x[2] = k /\ x[3] = r
  BY <1>0, <1>1, <1>2 DEF Walking, Done, Rest
<1>4. Done(w)' = S \cup {x}
  BY <1>0, <1>1, <1>2, <1>3 DEF Done, Rest, Walking
<1>5. DiskAfter(w, S) /\ Counted(w, S, scan.count) /\ scan.pending = Placed(w, S)
  BY <1>0, <1>2 DEF Walking
<1>6. x \in NewIn(w) <=> scan.known[p] = Null
  BY <1>2, <1>3 DEF NewIn
<1>7. x \in Things(w) <=> scan.known[p] = k
  BY <1>2, <1>3 DEF Things
<1>8. scan.known[p] = Null => /\ Target(p, k, scan.known) = TargetIn(w, x)
                              /\ Keeps(p, k, scan.known) <=> KeptIn(w, x)
  BY <1>2, <1>3, <1>5, <1>6, TargetStands
<1>9. x \in MovedIn(w) <=> /\ scan.known[p] = Null /\ scan.mode = "apply_safe_renames"
                           /\ Target(p, k, scan.known) # p
  BY <1>2, <1>3, <1>6, <1>8, Zenon DEF MovedIn, Moved
<1>10. x \in KeptAll(w) <=> scan.known[p] = Null /\ Keeps(p, k, scan.known)
  BY <1>6, <1>8, Zenon DEF KeptAll
<1>11. Moved(w, x) <=> x \in MovedIn(w)
  BY <1>3 DEF MovedIn
<1> DEFINE Steady == /\ DiskAfter(w, S \cup {x})'
                   /\ Counted(w, S \cup {x}, scan'.count) /\ scan'.pending = Placed(w, S \cup {x})
<1>12. ASSUME x \notin NewIn(w) PROVE Placed(w, S \cup {x}) = Placed(w, S)
  BY <1>12 DEF Placed
<1>13. ASSUME x \in NewIn(w) PROVE Placed(w, S \cup {x}) = Placed(w, S) \cup {Lands(w, x)}
  BY <1>13 DEF Placed
<1>14. Steady
  <2>1. \/ ~Moved(w, x) /\ disk' = disk
        \/ Moved(w, x) /\ disk' = [disk EXCEPT ![TargetIn(w, x)] = disk[x[1]], ![x[1]] = Null]
    <3>1. disk[p] # Null
      BY <1>3, <1>5, FoundStay, FoundThings
    <3>2. \A q \in Spellings[p] : disk[q] # Null => q = p
      BY <3>1 DEF DiskOK, Alone
    <3> QED BY <1>3, <1>8, <1>9, <1>11, <3>2, ChildAdds, Zenon
  <2>2. DiskAfter(w, S \cup {x})'
    <3>1. OneName /\ Snapshot(w) /\ Clear(w) /\ disk \in [Places -> Files \cup {Null}]
      BY DEF DiskOK
    <3> QED BY <1>3, <1>5, <2>1, <3>1, DiskMoves, Zenon
  <2>3. scan'.pending = Placed(w, S \cup {x})
    <3>1. CASE x \notin NewIn(w)
      BY <1>5, <1>6, <1>12, <3>1, ChildAdds, Zenon
    <3>2. CASE x \in NewIn(w) /\ x \in MovedIn(w)
      <4>1. Lands(w, x) = <<Target(p, k, scan.known), k, r>>
        BY <1>3, <1>6, <1>8, <1>11, <3>2 DEF Lands
      <4>2. scan'.pending = scan.pending \cup {<<Target(p, k, scan.known), k, r>>}
        BY <1>6, <1>9, <3>2, ChildAdds
      <4> QED BY <1>5, <1>13, <3>2, <4>1, <4>2
    <3>3. CASE x \in NewIn(w) /\ x \notin MovedIn(w)
      <4>1. Lands(w, x) = x
        BY <1>3, <1>11, <3>3, FoundThings DEF Lands
      <4>2. scan'.pending = scan.pending \cup {x}
        BY <1>6, <1>9, <3>3, ChildAdds
      <4> QED BY <1>5, <1>13, <3>3, <4>1, <4>2
    <3> QED BY <3>1, <3>2, <3>3
  <2>4. /\ DOMAIN scan'.count = Counts
        /\ scan'.count.gone = scan.count.gone /\ scan'.count.links = scan.count.links
        /\ scan'.count.discovered = scan.count.discovered + 1
    BY ChildDoes
  <2>5. /\ scan'.count.new = scan.count.new + (IF x \in NewIn(w) THEN 1 ELSE 0)
        /\ scan'.count.known = scan.count.known + (IF x \in Things(w) THEN 1 ELSE 0)
        /\ scan'.count.renamed = scan.count.renamed + (IF x \in MovedIn(w) THEN 1 ELSE 0)
        /\ scan'.count.warned = scan.count.warned + (IF x \in KeptAll(w) THEN 1 ELSE 0)
    BY <1>6, <1>7, <1>9, <1>10, ChildAdds, Zenon
  <2>6. Counted(w, S \cup {x}, scan'.count)
    BY <1>3, <1>5, <2>4, <2>5, CountsGoOn
  <2> QED BY <2>2, <2>3, <2>6
<1>15. Walking(w)'
  <2>1. /\ scan'.roots \subseteq Roots /\ scan'.children \subseteq FoundIn(w)
        /\ \A y \in scan'.children : y[3] \notin scan'.roots
        /\ UnsafeIs(Roots \ scan.roots)'
    BY <1>1, <1>2 DEF Walking, Walks, UnsafeIs, Spoilt, Faults, IsDir
  <2>2. DiskAfter(w, Done(w))'
    BY <1>4, <1>14 DEF DiskAfter
  <2>3. collection' = w.collection /\ scan'.count.gone = 0
    BY <1>1, <1>2, ChildDoes DEF Walking, Walks
  <2>4. Counted(w, Done(w), scan.count)' /\ scan'.pending = Placed(w, Done(w))'
    BY <1>4, <1>14 DEF Counted, Placed
  <2> QED BY <2>1, <2>2, <2>3, <2>4 DEF Walking
<1>16. Unlinked(w)'
  BY <1>1, <1>2, <1>14, ChildDoes DEF Unlinked, Walks
<1> QED BY <1>1, <1>14, <1>15, <1>16 DEF Follows, Walks

(* What was in the catalog at the preview, and what is fresh.                *)
LEMMA OldOnes ==
  ASSUME NEW w, Snapshot(w), NEW i \in ActiveIn(w)
  PROVE  /\ i \in Ids /\ w.collection[i] # None /\ w.collection[i].status = "active"
         /\ w.collection[i].place \in Places /\ w.collection[i].kind \in Kinds
         /\ w.collection[i].root \in Roots
         /\ w.collection[i].root \in Up(w.collection[i].place[1])
         /\ KnownIn(w)[w.collection[i].place] # Null
<1>1. i \in Ids /\ w.collection[i] \in Row /\ w.collection[i].status = "active"
  BY DEF Snapshot, ActiveIn
<1>2. /\ w.collection[i] # None /\ w.collection[i].place \in Places /\ w.collection[i].kind \in Kinds
      /\ w.collection[i].root \in Roots
      /\ w.collection[i].root \in Up(w.collection[i].place[1])
  BY <1>1 DEF Row, None
<1>3. KnownIn(w)[w.collection[i].place] # Null
  <2> DEFINE p == w.collection[i].place
             here == {j \in ActiveIn(w) : w.collection[j].place = p}
             c == CHOOSE j \in here : TRUE
  <2>1. i \in here
    OBVIOUS
  <2>2. c \in here
    BY <2>1, Zenon
  <2>3. w.collection[c] \in Row /\ w.collection[c].status = "active"
    BY <2>2 DEF Snapshot, ActiveIn
  <2>4. w.collection[c].kind \in Kinds
    BY <2>3 DEF Row, None
  <2>5. KnownIn(w)[p] = w.collection[c].kind
    BY <1>2, <2>1 DEF KnownIn
  <2> QED BY <2>4, <2>5, ScanPlacesAssumption
<1> QED BY <1>1, <1>2, <1>3

LEMMA OldSeen ==
  ASSUME NEW w, Snapshot(w), Clear(w), access = w.access, DiskAfter(w, FoundIn(w)),
         NEW i \in ActiveIn(w)
  PROVE  LET c == w.collection[i] IN
         /\ Seen(c.place) <=> SeenIn(w, c.place)
         /\ Matches(c.place, c.kind) <=> HoldsIn(w, i)
<1>1. \A q \in Spellings[w.collection[i].place] : disk[q] = w.disk[q]
  BY OldOnes, KnownStay
<1>2. \A r : Reached(r) <=> ReachedIn(w, r)
  BY DEF Reached, ReachedIn, IsDir, DirIn
<1> QED BY <1>1, <1>2 DEF Seen, SeenIn, There, OnDisk, Matches, HoldsIn

LEMMA FreshOnes ==
  ASSUME NEW w, Snapshot(w), Clear(w), OneName, access = w.access, DiskAfter(w, FoundIn(w)),
         NEW S, S \subseteq Placed(w, FoundIn(w)), Grown(w, S), NEW i \in Fresh(w)
  PROVE  /\ i \in Ids /\ w.collection[i] = None /\ collection[i].status = "active"
         /\ collection[i].place \in Places /\ Matches(collection[i].place, collection[i].kind)
         /\ \E x \in NewIn(w) :
              /\ <<collection[i].place, collection[i].kind, collection[i].root>> = Lands(w, x)
              /\ collection[i].place = Lands(w, x)[1]
              /\ collection[i].kind = x[2]
<1>1. /\ i \in Ids /\ w.collection[i] = None /\ collection[i].status = "active"
      /\ <<collection[i].place, collection[i].kind, collection[i].root>> \in S
  BY DEF Grown, Fresh
<1>2. PICK x \in NewIn(w) :
        <<collection[i].place, collection[i].kind, collection[i].root>> = Lands(w, x)
  BY <1>1 DEF Placed
<1>3. Lands(w, x)[1] \in Places /\ Lands(w, x)[2] = x[2]
  BY Landings
<1>4. collection[i].place = Lands(w, x)[1] /\ collection[i].kind = x[2]
  BY <1>2, <1>3
<1>5. Matches(Lands(w, x)[1], x[2])
  BY DiskLands
<1> QED BY <1>1, <1>2, <1>3, <1>4, <1>5

LEMMA BothKinds ==
  ASSUME NEW w, Snapshot(w), RowsOK, Old(w), NEW S, Grown(w, S)
  PROVE  /\ Active = (ActiveIn(w) \ Marked(w)) \cup Fresh(w)
         /\ Gone = TombsIn(w) \cup Marked(w)
         /\ Fresh(w) \cap ActiveIn(w) = {} /\ Marked(w) \subseteq ActiveIn(w)
         /\ TombsIn(w) \cap Marked(w) = {}
         /\ \A i \in ActiveIn(w) \ Marked(w) : collection[i] = w.collection[i]
         /\ \A i \in Marked(w) : /\ collection[i].place = w.collection[i].place
                                 /\ collection[i].kind = w.collection[i].kind
                                 /\ collection[i].root = w.collection[i].root
<1>1. \A i \in Ids : /\ w.collection[i] = None \/ w.collection[i].status \in {"active", "tombstone"}
                     /\ collection[i] = None \/ collection[i].status \in {"active", "tombstone"}
  BY DEF Snapshot, RowsOK, Row
<1>2. None.status = "none"
  BY DEF None
<1>3. \A i \in ActiveIn(w) : /\ i \in Ids /\ w.collection[i] # None /\ w.collection[i].status = "active"
  BY OldOnes
<1>4. \A i \in Fresh(w) : i \in Ids /\ w.collection[i] = None /\ collection[i].status = "active"
  BY DEF Fresh, Grown
<1>5. \A i \in Ids : w.collection[i] # None /\ i \notin Marked(w) => collection[i] = w.collection[i]
  BY DEF Old
<1>6. \A i \in Marked(w) : i \in ActiveIn(w) /\ collection[i].status = "tombstone"
  BY DEF Marked
<1>7. ASSUME NEW i \in Ids
      PROVE  /\ i \in Active <=> i \in (ActiveIn(w) \ Marked(w)) \cup Fresh(w)
             /\ i \in Gone <=> i \in TombsIn(w) \cup Marked(w)
  <2>1. CASE w.collection[i] = None
    <3>1. i \notin ActiveIn(w) /\ i \notin TombsIn(w) /\ i \notin Marked(w)
      BY <1>2, <1>6, <2>1 DEF ActiveIn, TombsIn
    <3>2. i \in Fresh(w) <=> collection[i] # None
      BY <2>1 DEF Fresh
    <3> QED BY <1>2, <1>4, <3>1, <3>2 DEF Active, Gone
  <2>2. CASE w.collection[i] # None /\ i \notin Marked(w)
    <3>1. collection[i] = w.collection[i] /\ i \notin Fresh(w)
      BY <1>4, <1>5, <2>2
    <3> QED BY <2>2, <3>1 DEF Active, Gone, ActiveIn, TombsIn
  <2>3. CASE i \in Marked(w)
    <3>1. i \notin Fresh(w)
      BY <1>3, <1>4, <1>6, <2>3
    <3> QED BY <1>6, <2>3, <3>1 DEF Active, Gone
  <2> QED BY <2>1, <2>2, <2>3
<1>8. Active \subseteq Ids /\ Gone \subseteq Ids /\ ActiveIn(w) \subseteq Ids /\ TombsIn(w) \subseteq Ids
      /\ Fresh(w) \subseteq Ids /\ Marked(w) \subseteq ActiveIn(w)
  BY DEF Active, Gone, ActiveIn, TombsIn, Fresh, Marked
<1>9. Active = (ActiveIn(w) \ Marked(w)) \cup Fresh(w) /\ Gone = TombsIn(w) \cup Marked(w)
  BY <1>7, <1>8
<1>10. TombsIn(w) \cap Marked(w) = {}
  BY <1>3, <1>6 DEF TombsIn
<1>11. \A i \in Marked(w) : /\ collection[i].place = w.collection[i].place
                            /\ collection[i].kind = w.collection[i].kind
                            /\ collection[i].root = w.collection[i].root
  <2> TAKE i \in Marked(w)
  <2>1. collection[i] = [w.collection[i] EXCEPT !.status = "tombstone"]
    BY DEF Old
  <2>2. w.collection[i] \in Row \ {None}
    BY <1>3, <1>6 DEF Snapshot
  <2> QED BY <2>1, <2>2 DEF Row
<1> QED BY <1>3, <1>4, <1>5, <1>8, <1>9, <1>10, <1>11

(* The catalog takes in what has come to be at its place.                    *)
LEMMA IngestFollows ==
  ASSUME NEW w, Standing(w), NEW p \in Places, NEW k \in Kinds, NEW r \in Roots, Ingest(p, k, r)
  PROVE  Follows(w)'
<1> USE DEF Standing
<1>1. scan.at = "ingest" /\ <<p, k, r>> \in scan.pending /\ UNCHANGED <<access, disk>>
  <2>1. scan.at = "ingest" /\ <<p, k, r>> \in scan.pending /\ UNCHANGED world
    BY Zenon DEF Ingest, IsNext
  <2> QED BY <2>1 DEF world
<1>2. /\ Ingesting(w) /\ Unlinked(w) /\ access = w.access /\ scan.known = KnownIn(w)
      /\ scan.mode = w.mode /\ DOMAIN scan = Fields /\ DOMAIN scan.count = Counts
  BY <1>1, ScanFields DEF Follows, Ingesting, Walked, Counted
<1> PICK P : P = Placed(w, FoundIn(w))
  OBVIOUS
<1>3. /\ DiskAfter(w, FoundIn(w)) /\ scan.pending \subseteq P /\ Grown(w, P \ scan.pending)
      /\ Old(w) /\ Marked(w) = {} /\ RowsOK
  BY <1>2 DEF Ingesting, Walked, ScanInv
<1>4. PICK y \in NewIn(w) : <<p, k, r>> = Lands(w, y)
  BY <1>1, <1>3 DEF Placed
<1>5. /\ Lands(w, y)[1] = p
      /\ \A i \in ActiveIn(w) : w.collection[i].place \notin Spellings[p]
  BY <1>4, Landings
<1>6. \A i \in Active : collection[i].place \notin Spellings[p]
  <2> SUFFICES ASSUME NEW i \in Active, collection[i].place \in Spellings[p] PROVE FALSE
    OBVIOUS
  <2>1. CASE i \in Fresh(w)
    <3>1. <<collection[i].place, collection[i].kind, collection[i].root>> \in P \ scan.pending
      BY <1>3, <2>1 DEF Grown
    <3>2. PICK x \in NewIn(w) :
            /\ <<collection[i].place, collection[i].kind, collection[i].root>> = Lands(w, x)
            /\ collection[i].place = Lands(w, x)[1]
      BY <1>2, <1>3, <2>1, FreshOnes
    <3>3. x = y
      BY <1>5, <3>2, Landings
    <3> QED BY <1>1, <1>4, <3>1, <3>2, <3>3
  <2>2. CASE i \in ActiveIn(w) \ Marked(w)
    <3>1. collection[i] = w.collection[i]
      BY <1>3, <2>2, BothKinds
    <3> QED BY <1>5, <2>2, <3>1
  <2> QED BY <1>3, <2>1, <2>2, BothKinds
<1>7. ~InCatalog(p)
  BY <1>6 DEF InCatalog
<1> DEFINE after == [scan EXCEPT !.pending = @ \ {<<p, k, r>>}]
           pairs(i) == {<<t, i>> : t \in {g \in Gone : SameName(g, p, k)}}
<1>8. PICK i \in Ids :
        /\ collection[i] = None /\ link' = Linked(pairs(i))
        /\ scan' = [after EXCEPT !.count.links = @ + Cardinality(NewLinks(pairs(i)))]
        /\ collection' = [collection EXCEPT
             ![i] = [status |-> "active", place |-> p, kind |-> k, root |-> r]]
  BY <1>7, Zenon DEF Ingest
<1>9. /\ DOMAIN scan' = Fields /\ scan'.at = "ingest" /\ scan'.pending = scan.pending \ {<<p, k, r>>}
      /\ scan'.known = scan.known /\ scan'.expected = scan.expected /\ scan'.mode = scan.mode
      /\ scan'.unsafe = scan.unsafe /\ DOMAIN scan'.count = Counts
      /\ \A n \in Counts \ {"links"} : scan'.count[n] = scan.count[n]
      /\ scan'.count.links = scan.count.links + Cardinality(NewLinks(pairs(i)))
  <2> HIDE DEF pairs
  <2> PICK c : c = Cardinality(NewLinks(pairs(i)))
    OBVIOUS
  <2>1. scan' = [after EXCEPT !.count.links = @ + c]
    BY <1>8
  <2>2. /\ DOMAIN after = Fields /\ after.at = "ingest" /\ after.pending = scan.pending \ {<<p, k, r>>}
        /\ after.known = scan.known /\ after.expected = scan.expected /\ after.mode = scan.mode
        /\ after.unsafe = scan.unsafe /\ after.count = scan.count
    BY <1>1, <1>2 DEF Fields
  <2> HIDE DEF after
  <2>3. scan'.count = [scan.count EXCEPT !.links = @ + c]
    BY <2>1, <2>2 DEF Fields
  <2> QED BY <1>2, <2>1, <2>2, <2>3 DEF Fields, Counts
<1>10. /\ collection'[i] = [status |-> "active", place |-> p, kind |-> k, root |-> r]
       /\ collection'[i].status = "active" /\ collection'[i].place = p /\ collection'[i].kind = k
       /\ collection'[i].root = r
       /\ collection'[i] # None /\ \A j \in Ids \ {i} : collection'[j] = collection[j]
  BY <1>3, <1>8 DEF RowsOK, None
<1>11. w.collection[i] = None /\ i \notin Fresh(w) /\ Fresh(w)' = Fresh(w) \cup {i}
  <2>1. w.collection[i] = None
    BY <1>3, <1>8 DEF Old
  <2> QED BY <1>8, <1>10, <2>1 DEF Fresh
<1>12. Grown(w, P \ scan.pending)'
  <2>1. P \ scan'.pending = (P \ scan.pending) \cup {<<p, k, r>>}
    BY <1>1, <1>3, <1>9
  <2>2. \A j \in Fresh(w) : j \in Ids \ {i} /\ collection'[j] = collection[j] /\ j \in Active
    BY <1>3, <1>10, <1>11 DEF Fresh, Grown, Active
  <2>3. \A j \in Fresh(w) \cup {i} : /\ collection'[j].status = "active"
                                     /\ <<collection'[j].place, collection'[j].kind, collection'[j].root>>
                                          \in P \ scan'.pending
    BY <1>3, <1>10, <2>1, <2>2 DEF Grown
  <2>4. \A x \in P \ scan'.pending :
          \E j \in Fresh(w) \cup {i} : collection'[j].place = x[1] /\ collection'[j].kind = x[2]
    BY <1>3, <1>10, <2>1, <2>2 DEF Grown
  <2>5. \A j, l \in Fresh(w) \cup {i} : collection'[j].place = collection'[l].place => j = l
    <3>1. p \in Spellings[p]
      BY SpeltAlike
    <3> QED BY <1>3, <1>6, <1>10, <2>2, <3>1 DEF Grown
  <2> QED BY <1>11, <2>3, <2>4, <2>5 DEF Grown
<1>13. Marked(w)' = {} /\ Old(w)'
  <2>1. \A j \in Ids : w.collection[j] # None => collection'[j] = w.collection[j]
    BY <1>3, <1>10, <1>11 DEF Old
  <2>2. Marked(w)' = {}
    BY <2>1, OldOnes DEF Marked
  <2> QED BY <2>1, <2>2 DEF Old
<1>14. Walked(w)' /\ scan'.count.gone = 0
  <2>1. \A n \in {"discovered", "new", "known", "renamed", "warned", "gone"} : scan'.count[n] = scan.count[n]
    BY <1>9 DEF Counts
  <2>2. Counted(w, FoundIn(w), scan.count)'
    BY <1>2, <1>9, <2>1 DEF Ingesting, Walked, Counted
  <2>3. scan'.count.gone = 0
    BY <1>2, <2>1 DEF Ingesting
  <2>4. UnsafeNow'
    BY <1>1, <1>2, <1>9 DEF Ingesting, Walked, UnsafeNow, Spoilt, Reached, IsDir
  <2> QED BY <1>1, <1>2, <1>9, <2>2, <2>3, <2>4 DEF Ingesting, Walked, DiskAfter
<1>15. Unlinked(w)'
  <2> SUFFICES ASSUME TombsIn(w) = {}
               PROVE  scan'.count.links = 0 /\ \A l \in Ids \X Ids : link'[l] = "none"
    BY DEF Unlinked
  <2>1. Gone = {}
    BY <1>3, BothKinds
  <2>2. pairs(i) = {}
    BY <2>1
  <2>3. NewLinks(pairs(i)) = {} /\ scan.count.links = 0 /\ \A l \in Ids \X Ids : link[l] = "none"
    BY <1>2, <2>2 DEF NewLinks, Unlinked
  <2> HIDE DEF pairs
  <2>4. \A l \in Ids \X Ids : link'[l] = "none"
    BY <1>8, <2>3 DEF Linked
  <2> QED BY <1>9, <2>3, <2>4, FS_EmptySet
<1>16. Ingesting(w)'
  <2>1. scan'.pending \subseteq P
    BY <1>3, <1>9
  <2>2. \A Q : Q = Placed(w, FoundIn(w)) => Grown(w, Q \ scan.pending)'
    BY <1>12
  <2> QED BY <1>12, <1>13, <1>14, <2>1 DEF Ingesting
<1> QED BY <1>1, <1>2, <1>9, <1>15, <1>16 DEF Follows

(* The differences of some scan, whichever state it is read in.              *)
DifferencesOf(s) ==
  LET expected == IF s.mode = "no_rename" THEN [s.expected EXCEPT !.renamed = 0] ELSE s.expected
  IN  {n \in Counts : expected[n] # s.count[n]}

LEMMA FinitelyMany ==
  ASSUME NEW w, Snapshot(w)
  PROVE  /\ IsFiniteSet(Ids)
         /\ IsFiniteSet(GoneIn(w)) /\ IsFiniteSet(TombsIn(w)) /\ IsFiniteSet(ActiveIn(w))
         /\ IsFiniteSet(NewIn(w)) /\ IsFiniteSet(ThereIn(w)) /\ IsFiniteSet(SoonIn(w))
<1>1. IsFiniteSet(Ids)
  BY FS_Interval, ScanBoundsAssumption DEF Ids
<1>2. IsFiniteSet(GoneIn(w)) /\ IsFiniteSet(TombsIn(w)) /\ IsFiniteSet(ActiveIn(w))
  <2>1. GoneIn(w) \subseteq Ids /\ TombsIn(w) \subseteq Ids /\ ActiveIn(w) \subseteq Ids
    BY DEF GoneIn, TombsIn, ActiveIn
  <2> QED BY <1>1, <2>1, FS_Subset
<1>3. IsFiniteSet(NewIn(w))
  BY FoundThings, FS_Subset
<1>4. IsFiniteSet(GoneIn(w) \X ActiveIn(w)) /\ IsFiniteSet(GoneIn(w) \X NewIn(w))
  BY <1>2, <1>3, FS_Product
<1>5. ThereIn(w) \subseteq GoneIn(w) \X ActiveIn(w) /\ SoonIn(w) \subseteq GoneIn(w) \X NewIn(w)
  BY DEF ThereIn, SoonIn
<1>6. IsFiniteSet(ThereIn(w)) /\ IsFiniteSet(SoonIn(w))
  BY <1>4, <1>5, FS_Subset
<1> QED BY <1>1, <1>2, <1>3, <1>6

(* A scan that found everything and marked all that is gone differs from the *)
(* preview in its links at most.                                             *)
LEMMA Tally ==
  ASSUME NEW w, Snapshot(w), NEW s, s.expected = Foreseen(w), s.mode = w.mode,
         Counted(w, FoundIn(w), s.count), s.count.gone = Cardinality(GoneIn(w))
  PROVE  /\ DifferencesOf(s) = {} \/ DifferencesOf(s) = {"links"}
         /\ s.count.links = Cardinality(ThereIn(w)) + Cardinality(SoonIn(w)) => DifferencesOf(s) = {}
<1> DEFINE F == Foreseen(w)
           e == IF s.mode = "no_rename" THEN [s.expected EXCEPT !.renamed = 0] ELSE s.expected
<1>1. /\ DOMAIN F = Counts
      /\ F.discovered = Cardinality(FoundIn(w)) /\ F.new = Cardinality(NewIn(w))
      /\ F.known = Cardinality(Things(w))
      /\ F.renamed = Cardinality({x \in NewIn(w) : TargetIn(w, x) # x[1]})
      /\ F.warned = Cardinality(KeptAll(w)) /\ F.gone = Cardinality(GoneIn(w))
      /\ F.links = Cardinality(ThereIn(w)) + Cardinality(SoonIn(w))
  BY DEF Foreseen, Counts, Things, KeptAll
<1> HIDE DEF F
<1>2. /\ e.discovered = F.discovered /\ e.new = F.new /\ e.known = F.known
      /\ e.renamed = (IF s.mode = "no_rename" THEN 0 ELSE F.renamed)
      /\ e.warned = F.warned /\ e.gone = F.gone /\ e.links = F.links
  BY <1>1 DEF Counts, F
<1> HIDE DEF e
<1>3. /\ FoundIn(w) \cap NewIn(w) = NewIn(w) /\ FoundIn(w) \cap Things(w) = Things(w)
      /\ FoundIn(w) \cap MovedIn(w) = MovedIn(w) /\ FoundIn(w) \cap KeptAll(w) = KeptAll(w)
  BY FoundThings DEF Things, MovedIn, KeptAll
<1>4. /\ s.count.discovered = Cardinality(FoundIn(w)) /\ s.count.new = Cardinality(NewIn(w))
      /\ s.count.known = Cardinality(Things(w)) /\ s.count.renamed = Cardinality(MovedIn(w))
      /\ s.count.warned = Cardinality(KeptAll(w))
  BY <1>3, Zenon DEF Counted
<1>5. s.count.renamed = e.renamed
  <2>1. CASE s.mode = "no_rename"
    <3>1. MovedIn(w) = {}
      BY <2>1 DEF MovedIn, Moved
    <3>2. Cardinality(MovedIn(w)) = 0
      BY <3>1, FS_EmptySet
    <3> QED BY <1>2, <1>4, <2>1, <3>2
  <2>2. CASE s.mode # "no_rename"
    <3>1. w.mode = "apply_safe_renames"
      BY <2>2 DEF Snapshot, Modes
    <3>2. MovedIn(w) = {x \in NewIn(w) : TargetIn(w, x) # x[1]}
      BY <3>1, FoundThings DEF MovedIn, Moved
    <3> QED BY <1>1, <1>2, <1>4, <2>2, <3>2, Zenon
  <2> QED BY <2>1, <2>2
<1>6. /\ e.discovered = s.count.discovered /\ e.new = s.count.new /\ e.known = s.count.known
      /\ e.renamed = s.count.renamed /\ e.warned = s.count.warned /\ e.gone = s.count.gone
  BY <1>1, <1>2, <1>4, <1>5
<1>7. DifferencesOf(s) = {n \in Counts : e[n] # s.count[n]}
  BY Zenon DEF DifferencesOf, e
<1>8. \A n \in Counts \ {"links"} : e[n] = s.count[n]
  BY <1>6 DEF Counts
<1>9. DifferencesOf(s) \subseteq {"links"}
  BY <1>7, <1>8
<1>10. s.count.links = Cardinality(ThereIn(w)) + Cardinality(SoonIn(w)) => "links" \notin DifferencesOf(s)
  BY <1>1, <1>2, <1>7
<1> QED BY <1>9, <1>10

LEMMA SafeNow ==
  ASSUME NEW w, access = w.access, UnsafeNow
  PROVE  SafeIn(w) = Roots \ scan.unsafe
<1>1. \A r : Reached(r) <=> ReachedIn(w, r)
  BY DEF Reached, ReachedIn, IsDir, DirIn
<1>2. {r \in Roots : ~Reached(r)} = {r \in Roots : ~ReachedIn(w, r)}
  BY <1>1
<1> QED BY <1>2, Zenon DEF UnsafeNow, SafeIn

(* With no safe root nothing is gone.                                        *)
LEMMA EndIngestFollows ==
  ASSUME NEW w, Standing(w), EndIngest
  PROVE  Follows(w)'
<1> USE DEF Standing
<1>1. /\ scan.at = "ingest" /\ scan.pending = {} /\ DOMAIN scan = Fields
      /\ UNCHANGED <<access, disk, collection, link>>
  BY ScanFields DEF EndIngest, world, catalog
<1>2. /\ Ingesting(w) /\ Unlinked(w) /\ access = w.access /\ scan.known = KnownIn(w)
      /\ scan.mode = w.mode /\ scan.expected = Foreseen(w)
      /\ DOMAIN scan.count = Counts /\ RowsOK /\ Old(w) /\ Marked(w) = {}
      /\ DiskAfter(w, FoundIn(w)) /\ Counted(w, FoundIn(w), scan.count) /\ UnsafeNow
      /\ scan.count.gone = 0
  BY <1>1 DEF Follows, Ingesting, Walked, Counted, ScanInv
<1> PICK P : P = Placed(w, FoundIn(w))
  OBVIOUS
<1>3. Grown(w, P)
  <2>1. P \ scan.pending = P
    BY <1>1
  <2> QED BY <1>2, <2>1, Zenon DEF Ingesting
<1>4. /\ scan'.known = scan.known /\ scan'.expected = scan.expected /\ scan'.mode = scan.mode
      /\ scan'.count = scan.count /\ scan'.unsafe = scan.unsafe /\ DOMAIN scan' = Fields
      /\ scan.unsafe = Roots => scan'.at = "complete"
      /\ scan.unsafe # Roots =>
           /\ scan'.at = "reconcile" /\ scan'.left = Active
           /\ scan'.invalid = {i \in Active : ~Matches(collection[i].place, collection[i].kind)}
  BY <1>1 DEF EndIngest, Fields
<1>5. CASE scan.unsafe = Roots
  <2>3. GoneIn(w) = {}
    BY <1>2, <1>5, SafeNow DEF GoneIn
  <2>4. ThereIn(w) = {} /\ SoonIn(w) = {}
    BY <2>3 DEF ThereIn, SoonIn
  <2>5. Cardinality(GoneIn(w)) = 0 /\ Cardinality(ThereIn(w)) + Cardinality(SoonIn(w)) = 0
    BY <2>3, <2>4, FS_EmptySet
  <2>6. /\ DifferencesOf(scan') = {} \/ DifferencesOf(scan') = {"links"}
        /\ scan'.count.links = 0 => DifferencesOf(scan') = {}
    BY <1>2, <1>4, <2>5, Tally
  <2>7. TombsIn(w) # {} => Cardinality(Gone) > scan.count.gone
    <3> SUFFICES ASSUME TombsIn(w) # {} PROVE Cardinality(Gone) > 0
      BY <1>2
    <3>1. Gone # {}
      BY <1>2, <1>3, BothKinds
    <3>2. IsFiniteSet(Gone)
      BY FinitelyMany, FS_Subset DEF Gone
    <3>3. Cardinality(Gone) \in Nat /\ Cardinality(Gone) # 0
      BY <3>1, <3>2, FS_CardinalityType, FS_EmptySet
    <3> QED BY <3>3
  <2>8. TombsIn(w) = {} => scan.count.links = 0
    BY <1>2 DEF Unlinked
  <2>9. Gone' = Gone /\ Differences' = DifferencesOf(scan')
    BY <1>1 DEF Gone, Differences, DifferencesOf
  <2>10. Concluded'
    BY <1>4, <2>6, <2>7, <2>8, <2>9 DEF Concluded
  <2> QED BY <1>1, <1>2, <1>4, <1>5, <2>10 DEF Follows
<1>6. CASE scan.unsafe # Roots
  <2>1. /\ Active = ActiveIn(w) \cup Fresh(w) /\ Fresh(w) \cap ActiveIn(w) = {}
        /\ \A i \in ActiveIn(w) : collection[i] = w.collection[i]
    BY <1>2, <1>3, BothKinds
  <2>2. \A i \in ActiveIn(w) : Matches(collection[i].place, collection[i].kind) <=> HoldsIn(w, i)
    BY <1>2, <2>1, OldSeen
  <2>3. \A i \in Fresh(w) : Matches(collection[i].place, collection[i].kind)
    BY <1>2, <1>3, FreshOnes
  <2>4. scan'.invalid = {i \in ActiveIn(w) : ~HoldsIn(w, i)}
    BY <1>4, <1>6, <2>1, <2>2, <2>3
  <2>5. Walked(w)' /\ Old(w)' /\ Marked(w)' = {}
    BY <1>1, <1>2, <1>4 DEF Walked, DiskAfter, UnsafeNow, Spoilt, Reached, IsDir, Old, Marked
  <2>6. Grown(w, Placed(w, FoundIn(w)))'
    <3>1. Grown(w, P)'
      BY <1>1, <1>3 DEF Grown, Fresh
    <3> QED BY <3>1
  <2>7. scan'.count.gone = Cardinality(Marked(w)')
    BY <1>2, <1>4, <2>5, FS_EmptySet
  <2>8. GoneIn(w) \subseteq scan'.left
    BY <1>4, <1>6, <2>1 DEF GoneIn
  <2>9. Reconciling(w)'
    BY <1>4, <1>6, <2>4, <2>5, <2>6, <2>7, <2>8 DEF Reconciling
  <2>10. Unlinked(w)'
    BY <1>1, <1>2, <1>4 DEF Unlinked
  <2> QED BY <1>1, <1>2, <1>4, <1>6, <2>9, <2>10 DEF Follows
<1> QED BY <1>5, <1>6

(* Reconciliation: what is known of it at each of its steps.                 *)
LEMMA Reconciles ==
  ASSUME NEW w, Standing(w), scan.at \in {"reconcile", "mark"}
  PROVE  /\ Reconciling(w) /\ Unlinked(w) /\ access = w.access /\ scan.known = KnownIn(w)
         /\ scan.mode = w.mode /\ scan.expected = Foreseen(w) /\ DOMAIN scan = Fields
         /\ DOMAIN scan.count = Counts /\ RowsOK /\ Old(w) /\ DiskAfter(w, FoundIn(w))
         /\ Counted(w, FoundIn(w), scan.count) /\ UnsafeNow
         /\ scan.left \subseteq Active /\ Marked(w) \subseteq GoneIn(w) /\ scan.left \cap Marked(w) = {}
<1> USE DEF Standing
<1>1. DOMAIN scan = Fields /\ scan # Idle
  BY ScanFields
<1>2. Reconciling(w) /\ Walked(w)
  BY DEF Follows, Reconciling
<1> QED BY <1>1, <1>2 DEF Follows, Reconciling, Walked, Counted, ScanInv, ScanOK

(* A location is looked at after the walk as the preview looked at it.       *)
LEMMA LookedAt ==
  ASSUME NEW w, Standing(w), scan.at = "reconcile", NEW i \in scan.left
  PROVE  Missing(i) <=> i \in GoneIn(w)
<1> USE DEF Standing
<1>1. /\ DiskAfter(w, FoundIn(w)) /\ access = w.access /\ UnsafeNow /\ i \in Active
      /\ Old(w) /\ RowsOK /\ i \notin Marked(w)
  BY Reconciles
<1> PICK P : P = Placed(w, FoundIn(w))
  OBVIOUS
<1>2. Grown(w, P)
  BY Reconciles, Zenon DEF Reconciling
<1>3. i \in ActiveIn(w) \/ i \in Fresh(w)
  BY <1>1, <1>2, BothKinds
<1>4. CASE i \in Fresh(w)
  <2>1. Matches(collection[i].place, collection[i].kind)
    BY <1>1, <1>2, <1>4, FreshOnes
  <2>2. ~Missing(i)
    BY <2>1 DEF Matches, Missing, Seen, There
  <2>3. i \notin ActiveIn(w)
    BY <1>1, <1>2, <1>4, BothKinds
  <2> QED BY <2>2, <2>3 DEF GoneIn
<1>5. CASE i \in ActiveIn(w)
  <2> DEFINE p == w.collection[i].place
  <2>1. collection[i] = w.collection[i]
    BY <1>1, <1>2, <1>5, BothKinds
  <2> DEFINE r == w.collection[i].root
  <2>2. p \in Places /\ r \in Roots
    BY <1>5, OldOnes
  <2>3. Seen(p) <=> SeenIn(w, p)
    BY <1>1, <1>5, OldSeen
  <2>4. r \notin scan.unsafe => IsDir(r)
    BY <1>1, <2>2, UpRoots DEF UnsafeNow, Spoilt, Reached
  <2>5. Missing(i) <=> r \notin scan.unsafe /\ IsDir(r) /\ ~Seen(p)
    BY <2>1 DEF Missing
  <2>6. i \in GoneIn(w) <=> r \notin scan.unsafe /\ ~SeenIn(w, p)
    BY <1>1, <1>5, <2>2, SafeNow DEF GoneIn
  <2> QED BY <2>3, <2>4, <2>5, <2>6
<1> QED BY <1>3, <1>4, <1>5

LEMMA LookFollows ==
  ASSUME NEW w, Standing(w), NEW i \in Ids, Look(i)
  PROVE  Follows(w)'
<1> USE DEF Standing
<1>1. /\ scan.at = "reconcile" /\ i \in scan.left /\ UNCHANGED <<access, disk, collection, link>>
  BY DEF Look, world, catalog
<1>2. /\ Reconciling(w) /\ Unlinked(w) /\ access = w.access /\ scan.known = KnownIn(w)
      /\ scan.mode = w.mode /\ scan.expected = Foreseen(w) /\ DOMAIN scan = Fields
      /\ scan.left \cap Marked(w) = {} /\ Marked(w) \subseteq GoneIn(w)
  BY <1>1, Reconciles
<1>3. /\ scan'.known = scan.known /\ scan'.expected = scan.expected /\ scan'.mode = scan.mode
      /\ scan'.count = scan.count /\ scan'.unsafe = scan.unsafe /\ scan'.invalid = scan.invalid
      /\ scan'.left = scan.left \ {i}
      /\ Missing(i) => scan'.at = "mark" /\ scan'.target = i
      /\ ~Missing(i) => scan'.at = "reconcile"
  BY <1>1, <1>2 DEF Look, Fields
<1>4. Missing(i) <=> i \in GoneIn(w)
  BY <1>1, LookedAt
<1>5. Walked(w)' /\ Old(w)' /\ Marked(w)' = Marked(w)
  BY <1>1, <1>2, <1>3 DEF Reconciling, Walked, DiskAfter, Counted, UnsafeNow, Spoilt, Reached, IsDir,
                          Old, Marked
<1>6. Grown(w, Placed(w, FoundIn(w)))'
  <2> PICK P : P = Placed(w, FoundIn(w))
    OBVIOUS
  <2>1. Grown(w, P)
    BY <1>2, Zenon DEF Reconciling
  <2>2. Grown(w, P)'
    BY <1>1, <2>1 DEF Grown, Fresh
  <2> QED BY <2>2
<1>7. /\ Marked(w)' \subseteq GoneIn(w) /\ scan'.left \cap Marked(w)' = {}
      /\ scan'.count.gone = Cardinality(Marked(w)')
      /\ scan'.invalid = {j \in ActiveIn(w) : ~HoldsIn(w, j)}
  BY <1>2, <1>3, <1>5 DEF Reconciling
<1>8. GoneIn(w) \subseteq Marked(w) \cup scan.left
  BY <1>1, <1>2 DEF Reconciling
<1>9. CASE Missing(i)
  <2>1. scan'.target \in GoneIn(w) \ Marked(w)'
    BY <1>1, <1>2, <1>3, <1>4, <1>5, <1>9
  <2>2. GoneIn(w) \subseteq Marked(w)' \cup scan'.left \cup {scan'.target}
    BY <1>3, <1>5, <1>8, <1>9
  <2> QED BY <1>1, <1>2, <1>3, <1>5, <1>6, <1>7, <1>9, <2>1, <2>2 DEF Follows, Reconciling, Unlinked
<1>10. CASE ~Missing(i)
  <2>1. GoneIn(w) \subseteq Marked(w)' \cup scan'.left
    BY <1>3, <1>4, <1>5, <1>8, <1>10
  <2> QED BY <1>1, <1>2, <1>3, <1>5, <1>6, <1>7, <1>10, <2>1 DEF Follows, Reconciling, Unlinked
<1> QED BY <1>9, <1>10

LEMMA MarkFollows ==
  ASSUME NEW w, Standing(w), Mark, scan'.expected # Null
  PROVE  Follows(w)'
<1> USE DEF Standing
<1> DEFINE i     == scan.target
           after == [scan EXCEPT !.at = "reconcile", !.target = Null]
<1>1. /\ scan.at = "mark" /\ UNCHANGED <<access, disk, link>>
  BY DEF Mark, world
<1>2. /\ Reconciling(w) /\ Unlinked(w) /\ access = w.access /\ scan.known = KnownIn(w)
      /\ scan.mode = w.mode /\ scan.expected = Foreseen(w) /\ DOMAIN scan = Fields
      /\ DOMAIN scan.count = Counts /\ RowsOK /\ Old(w) /\ DiskAfter(w, FoundIn(w))
      /\ scan.left \cap Marked(w) = {} /\ Marked(w) \subseteq GoneIn(w)
  BY <1>1, Reconciles
<1>3. i \in GoneIn(w) \ Marked(w) /\ i \in ActiveIn(w) /\ i \notin scan.left
  BY <1>1, <1>2, ScanFields DEF Reconciling, GoneIn, ScanInv, ScanOK, Aimed
<1> PICK P : P = Placed(w, FoundIn(w))
  OBVIOUS
<1>4. Grown(w, P)
  BY <1>2, Zenon DEF Reconciling
<1>5. collection[i] = w.collection[i] /\ i \notin Fresh(w) /\ i \in Ids /\ w.collection[i] # None
  BY <1>2, <1>3, <1>4, BothKinds, OldOnes
<1>6. ~Seen(collection[i].place)
  BY <1>2, <1>3, <1>5, OldSeen DEF GoneIn
<1>7. /\ DOMAIN after = Fields /\ after.at = "reconcile" /\ after.left = scan.left
      /\ after.known = scan.known /\ after.expected = scan.expected /\ after.mode = scan.mode
      /\ after.unsafe = scan.unsafe /\ after.invalid = scan.invalid /\ after.count = scan.count
  BY <1>2 DEF Fields
<1>8. /\ collection' = [collection EXCEPT ![i].status = "tombstone"]
      /\ scan' = [after EXCEPT !.count.gone = @ + 1]
  <2>1. \/ /\ collection' = [collection EXCEPT ![i].status = "tombstone"]
           /\ scan' = [after EXCEPT !.count.gone = @ + 1]
        \/ scan' = [after EXCEPT !.issues = TRUE, !.expected = Null]
    BY <1>6 DEF Mark
  <2> HIDE DEF after
  <2>2. scan' # [after EXCEPT !.issues = TRUE, !.expected = Null]
    BY <1>7 DEF Fields
  <2> QED BY <2>1, <2>2
<1> HIDE DEF after
<1>9. /\ scan'.at = "reconcile" /\ scan'.left = scan.left /\ scan'.known = scan.known
      /\ scan'.expected = scan.expected /\ scan'.mode = scan.mode /\ scan'.unsafe = scan.unsafe
      /\ scan'.invalid = scan.invalid /\ scan'.count = [scan.count EXCEPT !.gone = @ + 1]
  BY <1>7, <1>8 DEF Fields
<1>10. /\ DOMAIN scan'.count = Counts /\ scan'.count.gone = scan.count.gone + 1
       /\ \A n \in Counts \ {"gone"} : scan'.count[n] = scan.count[n]
  BY <1>2, <1>9 DEF Counts
<1>11. /\ collection'[i] = [w.collection[i] EXCEPT !.status = "tombstone"]
       /\ collection'[i].status = "tombstone" /\ collection'[i] # None
       /\ \A j \in Ids \ {i} : collection'[j] = collection[j]
  <2> DEFINE t == [collection[i] EXCEPT !.status = "tombstone"]
  <2>1. collection' = [collection EXCEPT ![i] = t]
    BY <1>8
  <2>2. t.status = "tombstone" /\ t # None
    <3>1. w.collection[i] \in Row \ {None}
      BY <1>5 DEF Snapshot
    <3>2. DOMAIN w.collection[i] = {"status", "place", "kind", "root"}
      BY <3>1 DEF Row
    <3> QED BY <1>5, <3>2 DEF None
  <2>3. t = [w.collection[i] EXCEPT !.status = "tombstone"]
    BY <1>5
  <2> HIDE DEF t
  <2> QED BY <1>2, <1>5, <2>1, <2>2, <2>3 DEF RowsOK
<1>12. Marked(w)' = Marked(w) \cup {i}
  <2>1. \A j \in ActiveIn(w) : j \in Ids
    BY DEF ActiveIn
  <2>2. \A j \in ActiveIn(w) : collection'[j].status = "tombstone"
                             <=> j = i \/ collection[j].status = "tombstone"
    BY <1>11, <2>1
  <2> HIDE DEF i
  <2> QED BY <1>3, <2>2 DEF Marked
<1>13. Fresh(w)' = Fresh(w) /\ i \notin Fresh(w)
  BY <1>5, <1>11 DEF Fresh
<1>14. Grown(w, P)'
  BY <1>4, <1>11, <1>13 DEF Grown, Fresh
<1>15. Old(w)'
  BY <1>2, <1>11, <1>12, OldOnes DEF Old, Marked
<1>16. Walked(w)'
  <2>1. \A n \in {"discovered", "new", "known", "renamed", "warned"} : scan'.count[n] = scan.count[n]
    BY <1>10 DEF Counts
  <2>2. Counted(w, FoundIn(w), scan.count)'
    BY <1>2, <1>10, <2>1 DEF Reconciling, Walked, Counted
  <2>3. UnsafeNow'
    BY <1>1, <1>2, <1>9 DEF Reconciling, Walked, UnsafeNow, Spoilt, Reached, IsDir
  <2> QED BY <1>1, <1>2, <1>9, <2>2, <2>3 DEF Reconciling, Walked, DiskAfter
<1>17. scan'.count.gone = Cardinality(Marked(w)')
  <2>1. IsFiniteSet(Marked(w))
    BY <1>2, FinitelyMany, FS_Subset
  <2>2. Cardinality(Marked(w) \cup {i}) = Cardinality(Marked(w)) + 1
    BY <1>3, <2>1, FS_AddElement
  <2> QED BY <1>2, <1>10, <1>12, <2>2 DEF Reconciling
<1>18. /\ Marked(w)' \subseteq GoneIn(w) /\ scan'.left \cap Marked(w)' = {}
       /\ GoneIn(w) \subseteq Marked(w)' \cup scan'.left
       /\ scan'.invalid = {j \in ActiveIn(w) : ~HoldsIn(w, j)}
  BY <1>1, <1>2, <1>3, <1>9, <1>12 DEF Reconciling
<1>19. Reconciling(w)'
  <2>1. Grown(w, Placed(w, FoundIn(w)))'
    BY <1>14
  <2> QED BY <1>9, <1>15, <1>16, <1>17, <1>18, <2>1 DEF Reconciling
<1>20. Unlinked(w)'
  BY <1>1, <1>2, <1>10 DEF Unlinked, Counts
<1> QED BY <1>1, <1>2, <1>9, <1>19, <1>20 DEF Follows

(* The links a scan foresaw, when its children land where the preview said.  *)
LEMMA LinksForeseen ==
  ASSUME NEW w, Standing(w), scan.at = "reconcile", scan.left = {}, TombsIn(w) = {},
         \A x \in NewIn(w) : Lands(w, x)[1] = TargetIn(w, x)
  PROVE  Cardinality(NewLinks(SameNamePairs)) = Cardinality(ThereIn(w)) + Cardinality(SoonIn(w))
<1> USE DEF Standing
<1>1. /\ Reconciling(w) /\ Unlinked(w) /\ access = w.access /\ RowsOK /\ Old(w)
      /\ DiskAfter(w, FoundIn(w)) /\ Marked(w) \subseteq GoneIn(w)
  BY Reconciles
<1> PICK P : P = Placed(w, FoundIn(w))
  OBVIOUS
<1>2. Grown(w, P)
  BY <1>1, Zenon DEF Reconciling
<1>3. Marked(w) = GoneIn(w)
  BY <1>1 DEF Reconciling
<1>4. /\ Active = (ActiveIn(w) \ GoneIn(w)) \cup Fresh(w) /\ Gone = GoneIn(w)
      /\ Fresh(w) \cap ActiveIn(w) = {} /\ GoneIn(w) \subseteq ActiveIn(w)
      /\ \A i \in ActiveIn(w) \ GoneIn(w) : collection[i] = w.collection[i]
      /\ \A i \in GoneIn(w) : /\ collection[i].place = w.collection[i].place
                              /\ collection[i].kind = w.collection[i].kind
  <2>1. /\ Active = (ActiveIn(w) \ Marked(w)) \cup Fresh(w)
        /\ Gone = TombsIn(w) \cup Marked(w)
        /\ Fresh(w) \cap ActiveIn(w) = {} /\ Marked(w) \subseteq ActiveIn(w)
        /\ \A i \in ActiveIn(w) \ Marked(w) : collection[i] = w.collection[i]
        /\ \A i \in Marked(w) : /\ collection[i].place = w.collection[i].place
                                /\ collection[i].kind = w.collection[i].kind
    BY <1>1, <1>2, BothKinds
  <2> QED BY <1>3, <2>1
<1> DEFINE FreshPairs == {l \in GoneIn(w) \X Fresh(w) :
                            NamedIn(w, l[1], collection[l[2]].place, collection[l[2]].kind)}
<1>5. NewLinks(SameNamePairs) = SameNamePairs
  <2>1. SameNamePairs \subseteq Ids \X Ids
    BY DEF SameNamePairs, Gone, Active
  <2>2. \A l \in Ids \X Ids : link[l] = "none"
    BY <1>1 DEF Unlinked
  <2> QED BY <2>1, <2>2 DEF NewLinks
<1>6. \A g \in GoneIn(w) : \A p, k : SameName(g, p, k) <=> NamedIn(w, g, p, k)
  BY <1>4 DEF SameName, NamedIn
<1>7. scan.invalid = {i \in ActiveIn(w) : ~HoldsIn(w, i)}
  BY <1>1 DEF Reconciling
<1>8. Active \ scan.invalid = {i \in ActiveIn(w) : HoldsIn(w, i)} \cup Fresh(w)
  <2>1. \A i \in ActiveIn(w) : HoldsIn(w, i) => i \notin GoneIn(w)
    BY DEF HoldsIn, GoneIn, SeenIn, OnDisk
  <2> QED BY <1>4, <1>7, <2>1
<1>9. /\ SameNamePairs = ThereIn(w) \cup FreshPairs /\ ThereIn(w) \cap FreshPairs = {}
  <2>1. ASSUME NEW g \in GoneIn(w), NEW i \in ActiveIn(w)
        PROVE  <<g, i>> \in ThereIn(w)
                 <=> HoldsIn(w, i) /\ SameName(g, collection[i].place, collection[i].kind)
    <3>1. HoldsIn(w, i) => i # g /\ i \notin GoneIn(w)
      BY DEF HoldsIn, GoneIn, SeenIn, OnDisk
    <3>2. HoldsIn(w, i) => collection[i] = w.collection[i]
      BY <1>4, <3>1
    <3>3. <<g, i>> \in ThereIn(w)
            <=> /\ g # i /\ HoldsIn(w, i)
                /\ NamedIn(w, g, w.collection[i].place, w.collection[i].kind)
      BY DEF ThereIn
    <3> QED BY <1>6, <3>1, <3>2, <3>3
  <2>2. ASSUME NEW g \in GoneIn(w), NEW i \in Fresh(w)
        PROVE  <<g, i>> \in FreshPairs <=> SameName(g, collection[i].place, collection[i].kind)
    BY <1>6
  <2>3. \A l \in ThereIn(w) : l = <<l[1], l[2]>> /\ l[1] \in GoneIn(w) /\ l[2] \in ActiveIn(w)
    BY DEF ThereIn
  <2>4. \A l \in FreshPairs : l = <<l[1], l[2]>> /\ l[1] \in GoneIn(w) /\ l[2] \in Fresh(w)
    OBVIOUS
  <2> DEFINE V == Active \ scan.invalid
  <2>5. SameNamePairs = {l \in GoneIn(w) \X V :
                           SameName(l[1], collection[l[2]].place, collection[l[2]].kind)}
    BY <1>4 DEF SameNamePairs
  <2>6. \A l \in SameNamePairs : l = <<l[1], l[2]>> /\ l[1] \in GoneIn(w) /\ l[2] \in V
    BY <2>5
  <2>7. \A g \in GoneIn(w), i \in V :
          <<g, i>> \in SameNamePairs <=> SameName(g, collection[i].place, collection[i].kind)
    BY <2>5
  <2>8. \A i : i \in V <=> (i \in ActiveIn(w) /\ HoldsIn(w, i)) \/ i \in Fresh(w)
    BY <1>8
  <2> HIDE DEF V, FreshPairs
  <2>9. SameNamePairs \subseteq ThereIn(w) \cup FreshPairs
    BY <2>1, <2>2, <2>6, <2>7, <2>8
  <2>10. ThereIn(w) \subseteq SameNamePairs
    BY <2>1, <2>3, <2>7, <2>8
  <2>11. FreshPairs \subseteq SameNamePairs
    BY <2>2, <2>4, <2>7, <2>8
  <2>12. ThereIn(w) \cap FreshPairs = {}
    BY <1>4, <2>3, <2>4
  <2> QED BY <2>9, <2>10, <2>11, <2>12
<1>10. IsFiniteSet(FreshPairs) /\ Cardinality(FreshPairs) = Cardinality(SoonIn(w))
  <2> DEFINE fresh(x) == CHOOSE i \in Fresh(w) : /\ collection[i].place = Lands(w, x)[1]
                                                /\ collection[i].kind = x[2]
             f == [l \in SoonIn(w) |-> <<l[1], fresh(l[2])>>]
  <2>1. \A l \in SoonIn(w) : /\ l = <<l[1], l[2]>> /\ l[1] \in GoneIn(w) /\ l[2] \in NewIn(w)
                             /\ NamedIn(w, l[1], TargetIn(w, l[2]), l[2][2])
    BY DEF SoonIn
  <2>2. \A x \in NewIn(w) : /\ fresh(x) \in Fresh(w) /\ collection[fresh(x)].place = Lands(w, x)[1]
                            /\ collection[fresh(x)].kind = x[2]
    <3> TAKE x \in NewIn(w)
    <3>1. Lands(w, x) \in P
      BY FoundThings DEF Placed
    <3>2. Lands(w, x)[2] = x[2]
      BY Landings
    <3>3. \E i \in Fresh(w) : collection[i].place = Lands(w, x)[1] /\ collection[i].kind = x[2]
      BY <1>2, <3>1, <3>2 DEF Grown
    <3> QED BY <3>3, Zenon
  <2> HIDE DEF fresh
  <2>3. \A l \in SoonIn(w) : f[l] \in FreshPairs
    BY <2>1, <2>2
  <2>4. ASSUME NEW l \in SoonIn(w), NEW m \in SoonIn(w), f[l] = f[m] PROVE l = m
    <3>1. l[1] = m[1] /\ fresh(l[2]) = fresh(m[2])
      BY <2>4
    <3>2. Lands(w, l[2])[1] = Lands(w, m[2])[1]
      BY <2>1, <2>2, <3>1
    <3>3. l[2] = m[2]
      BY <2>1, <3>2, Landings
    <3> QED BY <2>1, <3>1, <3>3
  <2>5. ASSUME NEW l \in FreshPairs PROVE \E m \in SoonIn(w) : f[m] = l
    <3>1. /\ l = <<l[1], l[2]>> /\ l[1] \in GoneIn(w) /\ l[2] \in Fresh(w)
          /\ NamedIn(w, l[1], collection[l[2]].place, collection[l[2]].kind)
      OBVIOUS
    <3>2. PICK x \in NewIn(w) : collection[l[2]].place = Lands(w, x)[1] /\ collection[l[2]].kind = x[2]
      BY <1>1, <1>2, <3>1, FreshOnes
    <3>3. <<l[1], x>> \in SoonIn(w)
      BY <3>1, <3>2 DEF SoonIn
    <3>4. fresh(x) = l[2]
      BY <1>2, <2>2, <3>1, <3>2 DEF Grown
    <3>5. f[<<l[1], x>>] = l
      BY <3>1, <3>3, <3>4
    <3> QED BY <3>3, <3>5
  <2> HIDE DEF f, FreshPairs
  <2>6. f \in [SoonIn(w) -> FreshPairs]
    BY <2>3 DEF f
  <2>7. f \in Bijection(SoonIn(w), FreshPairs)
    BY <2>4, <2>5, <2>6, Zenon DEF Bijection, Injection, Surjection, IsInjective
  <2> QED BY <2>7, FinitelyMany, FS_Bijection, Zenon DEF ExistsBijection
<1> HIDE DEF FreshPairs
<1>11. Cardinality(ThereIn(w) \cup FreshPairs)
         = Cardinality(ThereIn(w)) + Cardinality(FreshPairs) - Cardinality(ThereIn(w) \cap FreshPairs)
  BY <1>10, FinitelyMany, FS_Union
<1>12. Cardinality(ThereIn(w) \cap FreshPairs) = 0
  BY <1>9, FS_EmptySet
<1>13. Cardinality(NewLinks(SameNamePairs)) = Cardinality(ThereIn(w) \cup FreshPairs)
  BY <1>5, <1>9, Zenon
<1>14. Cardinality(ThereIn(w)) \in Nat /\ Cardinality(SoonIn(w)) \in Nat
  BY FinitelyMany, FS_CardinalityType
<1> QED BY <1>10, <1>11, <1>12, <1>13, <1>14

LEMMA LinkAllFollows ==
  ASSUME NEW w, Standing(w), LinkAll, scan'.expected # Null
  PROVE  Follows(w)'
<1> USE DEF Standing
<1>1. scan.at = "reconcile" /\ scan.left = {} /\ UNCHANGED <<access, disk, collection>>
  BY DEF LinkAll, world
<1>2. /\ Reconciling(w) /\ Unlinked(w) /\ access = w.access /\ scan.known = KnownIn(w)
      /\ scan.mode = w.mode /\ scan.expected = Foreseen(w) /\ DOMAIN scan = Fields
      /\ DOMAIN scan.count = Counts /\ RowsOK /\ Old(w) /\ DiskAfter(w, FoundIn(w))
      /\ Counted(w, FoundIn(w), scan.count) /\ Marked(w) \subseteq GoneIn(w)
  BY <1>1, Reconciles
<1> PICK n : n = Cardinality(NewLinks(SameNamePairs))
  OBVIOUS
<1>3. scan' = [scan EXCEPT !.at = "complete", !.count.links = @ + n]
  <2>1. \/ scan' = [scan EXCEPT !.at = "complete", !.count.links = @ + n]
        \/ scan' = [scan EXCEPT !.at = "complete", !.issues = TRUE, !.expected = Null]
    BY Zenon DEF LinkAll
  <2>2. scan' # [scan EXCEPT !.at = "complete", !.issues = TRUE, !.expected = Null]
    BY <1>2 DEF Fields
  <2> QED BY <2>1, <2>2
<1>4. /\ scan'.at = "complete" /\ scan'.known = scan.known /\ scan'.expected = scan.expected
      /\ scan'.mode = scan.mode /\ scan'.count = [scan.count EXCEPT !.links = @ + n]
  BY <1>2, <1>3 DEF Fields
<1>5. /\ DOMAIN scan'.count = Counts /\ scan'.count.links = scan.count.links + n
      /\ \A c \in Counts \ {"links"} : scan'.count[c] = scan.count[c]
  BY <1>2, <1>4 DEF Counts
<1> PICK P : P = Placed(w, FoundIn(w))
  OBVIOUS
<1>6. Grown(w, P)
  BY <1>2, Zenon DEF Reconciling
<1>7. Marked(w) = GoneIn(w) /\ scan.count.gone = Cardinality(GoneIn(w))
  <2>1. Marked(w) = GoneIn(w)
    BY <1>1, <1>2 DEF Reconciling
  <2>2. scan.count.gone = Cardinality(Marked(w))
    BY <1>2, Zenon DEF Reconciling
  <2> QED BY <2>1, <2>2, Zenon
<1>8. Gone = TombsIn(w) \cup GoneIn(w) /\ TombsIn(w) \cap GoneIn(w) = {}
  <2>1. Gone = TombsIn(w) \cup Marked(w) /\ TombsIn(w) \cap Marked(w) = {}
    BY <1>2, <1>6, BothKinds
  <2> QED BY <1>7, <2>1
<1>9. /\ DifferencesOf(scan') = {} \/ DifferencesOf(scan') = {"links"}
      /\ scan'.count.links = Cardinality(ThereIn(w)) + Cardinality(SoonIn(w))
           => DifferencesOf(scan') = {}
  <2>1. \A c \in {"discovered", "new", "known", "renamed", "warned", "gone"} : scan'.count[c] = scan.count[c]
    BY <1>5 DEF Counts
  <2>2. Counted(w, FoundIn(w), scan'.count) /\ scan'.count.gone = Cardinality(GoneIn(w))
    BY <1>2, <1>5, <1>7, <2>1 DEF Counted
  <2>3. scan'.expected = Foreseen(w) /\ scan'.mode = w.mode /\ Snapshot(w)
    BY <1>2, <1>4
  <2> QED BY <2>2, <2>3, Tally, Zenon
<1>10. Gone' = Gone /\ Active' = Active /\ Differences' = DifferencesOf(scan')
  BY <1>1 DEF Gone, Active, Differences, DifferencesOf
<1>11. CASE TombsIn(w) # {}
  <2>1. IsFiniteSet(Gone) /\ IsFiniteSet(GoneIn(w)) /\ GoneIn(w) \subseteq Gone /\ GoneIn(w) # Gone
    <3>1. IsFiniteSet(Gone)
      BY FinitelyMany, FS_Subset DEF Gone
    <3> QED BY <1>8, <1>11, <3>1, FinitelyMany
  <2>2. /\ Cardinality(GoneIn(w)) <= Cardinality(Gone) /\ Cardinality(GoneIn(w)) # Cardinality(Gone)
        /\ Cardinality(GoneIn(w)) \in Nat /\ Cardinality(Gone) \in Nat
    BY <2>1, FS_Subset, FS_CardinalityType
  <2>3. Cardinality(Gone) > scan'.count.gone
    BY <1>5, <1>7, <2>2 DEF Counts
  <2>4. Concluded'
    BY <1>9, <1>10, <2>3 DEF Concluded
  <2> QED BY <1>1, <1>2, <1>4, <2>4 DEF Follows
<1>12. CASE TombsIn(w) = {} /\ \A x \in NewIn(w) : Lands(w, x)[1] = TargetIn(w, x)
  <2>1. n = Cardinality(ThereIn(w)) + Cardinality(SoonIn(w))
    BY <1>1, <1>12, LinksForeseen
  <2>2. n \in Nat
    BY <2>1, FinitelyMany, FS_CardinalityType
  <2>3. scan'.count.links = n
    BY <1>2, <1>5, <1>12, <2>2 DEF Unlinked
  <2>4. Concluded'
    BY <1>9, <1>10, <2>1, <2>3 DEF Concluded
  <2> QED BY <1>1, <1>2, <1>4, <2>4 DEF Follows
<1>13. CASE \E x \in NewIn(w) : Lands(w, x)[1] # TargetIn(w, x)
  <2>1. PICK x \in NewIn(w) : Lands(w, x)[1] # TargetIn(w, x)
    BY <1>13
  <2>2. Lands(w, x)[1] = (IF Moved(w, x) THEN TargetIn(w, x) ELSE x[1])
    BY Landings
  <2>3. ~Moved(w, x) /\ TargetIn(w, x) # x[1] /\ Lands(w, x)[1] = x[1]
    BY <2>1, <2>2
  <2>4. w.mode = "no_rename" /\ x[1] \in DOMAIN Decoded
    BY <2>3, Targets DEF Moved, Snapshot, Modes
  <2>5. Lands(w, x) \in P
    BY FoundThings DEF Placed
  <2>6. PICK i \in Fresh(w) : collection[i].place = x[1]
    BY <1>6, <2>3, <2>5 DEF Grown
  <2>7. i \in Active
    BY <1>2, <1>6, BothKinds
  <2>8. collection'[i].place \in DOMAIN Decoded /\ i \in Active' /\ scan'.mode = "no_rename"
    BY <1>1, <1>2, <1>4, <1>10, <2>4, <2>6, <2>7
  <2>9. Concluded'
    BY <1>9, <1>10, <2>8 DEF Concluded
  <2> QED BY <1>1, <1>2, <1>4, <2>9 DEF Follows
<1> QED BY <1>11, <1>12, <1>13

LinksOK ==
  /\ DOMAIN link = Ids \X Ids
  /\ \A l \in Ids \X Ids : link[l] # "none" => l[1] \in Gone

Promised ==
  OneName /\ scan.at # "idle" /\ scan.expected # Null /\ ~scan.ambiguous
    => \E w : Snapshot(w) /\ Clear(w) /\ Follows(w)

PreviewInv == ScanInv /\ DiskOK /\ LinksOK /\ PreviewIsNow /\ Promised

-----------------------------------------------------------------------------
LEMMA DiskBegins == Init => DiskOK
<1> SUFFICES ASSUME Init PROVE DiskOK
  OBVIOUS
<1> DEFINE none == [p \in Places |-> Null]
           one(q, f) == [p \in Places |-> IF p = q THEN f ELSE Null]
<1>1. disk = none \/ \E q \in Places, f \in Files : disk = one(q, f)
  BY DEF Init
<1>2. CASE disk = none
  BY <1>2, SpeltAlike DEF DiskOK, Alone
<1>3. CASE \E q \in Places, f \in Files : disk = one(q, f)
  BY <1>3, SpeltAlike DEF DiskOK, Alone
<1> QED BY <1>1, <1>2, <1>3

LEMMA PreviewInits == Init => PreviewInv
<1> SUFFICES ASSUME Init PROVE PreviewInv
  OBVIOUS
<1>1. LinksOK
  BY DEF Init, LinksOK
<1> QED BY <1>1, DiskBegins, ScanInits DEF PreviewInv, PreviewIsNow, Promised, Init, Idle

(* A file that comes where none is spelt alike is alone there.               *)
LEMMA ComesAlone ==
  ASSUME DiskOK, NEW t \in Places, NEW d \in [Places -> Files \cup {Null}],
         \A s \in Places \ {t} : d[s] = disk[s] \/ d[s] = Null,
         \A s \in Spellings[t] : s = t \/ d[s] = Null
  PROVE  Alone(d)
<1> SUFFICES ASSUME NEW p \in Places, NEW q \in Spellings[p], d[p] # Null, d[q] # Null
             PROVE  p = q
  BY DEF Alone
<1>1. q \in Places /\ p \in Spellings[q]
  BY SpeltAlike
<1>2. CASE p = t \/ q = t
  BY <1>1, <1>2
<1>3. CASE p # t /\ q # t
  BY <1>1, <1>3 DEF DiskOK, Alone
<1> QED BY <1>2, <1>3

LEMMA DiskStays ==
  ASSUME DiskOK, [Next]_vars
  PROVE  DiskOK'
<1>0. disk \in [Places -> Files \cup {Null}] /\ Alone(disk)
  BY DEF DiskOK
<1>1. CASE \E p \in Places, f \in Files : PutFile(p, f)
  <2>1. PICK p \in Places, f \in Files : ~There(p) /\ disk' = [disk EXCEPT ![p] = f]
    BY <1>1 DEF PutFile
  <2>2. /\ disk' \in [Places -> Files \cup {Null}]
        /\ \A s \in Places \ {p} : disk'[s] = disk[s]
        /\ \A s \in Spellings[p] : s = p \/ disk'[s] = Null
    BY <1>0, <2>1, SpeltAlike DEF There
  <2>3. Alone(disk')
    BY <2>2, ComesAlone
  <2> QED BY <2>2, <2>3 DEF DiskOK, Alone
<1>2. CASE \E p, q \in Places : MoveFile(p, q)
  <2>1. PICK p \in Places, q \in Places :
          /\ p # q /\ \A s \in Spellings[q] : s = p \/ disk[s] = Null
          /\ disk' = [disk EXCEPT ![q] = disk[p], ![p] = Null]
    BY <1>2 DEF MoveFile
  <2>2. /\ disk' \in [Places -> Files \cup {Null}]
        /\ \A s \in Places \ {q} : disk'[s] = disk[s] \/ disk'[s] = Null
        /\ \A s \in Spellings[q] : s = q \/ disk'[s] = Null
    BY <1>0, <2>1, SpeltAlike
  <2>3. Alone(disk')
    BY <2>2, ComesAlone
  <2> QED BY <2>2, <2>3 DEF DiskOK, Alone
<1>3. CASE \E p \in Places : RemoveFile(p)
  <2>1. PICK p \in Places : disk' = [disk EXCEPT ![p] = Null]
    BY <1>3 DEF RemoveFile
  <2> QED BY <2>1, SpeltAlike DEF DiskOK, Alone
<1>4. CASE \E c \in Found : Child(c[1], c[2], c[3])
  <2>1. PICK p \in Places, k \in Kinds, r \in Roots : Child(p, k, r)
    BY <1>4 DEF Found
  <2> DEFINE t == Target(p, k, scan.known)
             comes(q) == \/ disk' = [disk EXCEPT ![t] = disk[q], ![q] = Null]
                         \/ disk' = [disk EXCEPT ![t] = disk[q]]
  <2>2. \/ disk' = disk
        \/ t # p /\ Seen(p) /\ \E q \in Spellings[p] : comes(q)
    BY <2>1, Zenon DEF Child
  <2>3. CASE disk' = disk
    BY <2>3 DEF DiskOK, Alone
  <2>4. CASE t # p /\ Seen(p) /\ \E q \in Spellings[p] : comes(q)
    <3>1. t = Decoded[p] /\ p \in DOMAIN Decoded /\ ~Seen(t)
      BY <2>4, Zenon DEF Target
    <3>2. t \in Places /\ t[1] = p[1]
      BY <3>1, ScanPlacesAssumption
    <3>3. \A s \in Spellings[t] : disk[s] = Null
      BY <2>4, <3>1, <3>2 DEF Seen, There
    <3> HIDE DEF t
    <3>4. PICK q \in Spellings[p] : comes(q)
      BY <2>4
    <3>5. q \in Places
      BY SpeltAlike
    <3>6. /\ disk' \in [Places -> Files \cup {Null}]
          /\ \A s \in Places \ {t} : disk'[s] = disk[s] \/ disk'[s] = Null
      BY <1>0, <3>2, <3>4, <3>5
    <3>7. \A s \in Spellings[t] : s = t \/ disk'[s] = Null
      BY <3>2, <3>3, <3>6, SpeltAlike
    <3>8. Alone(disk')
      BY <3>2, <3>6, <3>7, ComesAlone
    <3> QED BY <3>6, <3>8 DEF DiskOK, Alone
  <2> QED BY <2>2, <2>3, <2>4
<1>5. CASE UNCHANGED disk
  BY <1>5 DEF DiskOK, Alone
<1> QED
  BY ZenonT(60), <1>1, <1>2, <1>3, <1>4, <1>5
  DEF Next, vars, world, Disk, ChangeAccess, Preflight, BeginScan, BeginBreaks, ScanStep, ListRoot,
      EndWalk, Ingest, IngestBreaks, EndIngest, ReconcileBreaks, Look, Mark, LinkAll, Complete, Crash,
      Decide

(* A link is made to a tombstone, and a tombstone stays one.                 *)
LEMMA LinksStay ==
  ASSUME ScanInv, LinksOK, [Next]_vars
  PROVE  LinksOK'
<1> USE DEF ScanInv
<1>1. CASE UNCHANGED <<collection, link>>
  BY <1>1 DEF LinksOK, Gone
<1>2. CASE \E c \in Found : Ingest(c[1], c[2], c[3])
  <2>1. PICK p \in Places, k \in Kinds, r \in Roots : Ingest(p, k, r)
    BY <1>2 DEF Found
  <2>2. CASE UNCHANGED catalog
    BY <1>1, <2>2 DEF catalog
  <2>3. CASE ~UNCHANGED catalog
    <3>1. PICK i \in Ids :
            /\ collection[i] = None
            /\ link' = Linked({<<t, i>> : t \in {g \in Gone : SameName(g, p, k)}})
            /\ collection' = [collection EXCEPT
                 ![i] = [status |-> "active", place |-> p, kind |-> k, root |-> r]]
      BY <2>1, <2>3 DEF Ingest
    <3>2. Gone' = Gone
      BY <3>1 DEF Gone, RowsOK, None
    <3>3. DOMAIN link' = Ids \X Ids
      BY <3>1 DEF Linked
    <3>4. ASSUME NEW l \in Ids \X Ids, link'[l] # "none" PROVE l[1] \in Gone
      BY <3>1, <3>4 DEF Linked, NewLinks, LinksOK
    <3> QED BY <3>2, <3>3, <3>4 DEF LinksOK
  <2> QED BY <2>2, <2>3
<1>3. CASE Mark
  <2>1. link' = link
    BY <1>3 DEF Mark
  <2>2. collection' = collection \/ collection' = [collection EXCEPT ![scan.target].status = "tombstone"]
    BY <1>3 DEF Mark
  <2>3. \A i \in Ids : collection[i].status = "tombstone" => collection'[i].status = "tombstone"
    <3> TAKE i \in Ids
    <3> HAVE collection[i].status = "tombstone"
    <3> DEFINE t == [collection[scan.target] EXCEPT !.status = "tombstone"]
    <3>1. CASE collection' = collection
      BY <3>1
    <3>2. CASE collection' = [collection EXCEPT ![scan.target] = t]
      <4>1. CASE i = scan.target
        <5>1. collection[i] \in Row /\ collection[i] # None
          BY DEF RowsOK, None
        <5>2. t.status = "tombstone"
          BY <4>1, <5>1 DEF Row
        <5> HIDE DEF t
        <5> QED BY <3>2, <4>1, <5>2 DEF RowsOK
      <4>2. CASE i # scan.target
        <5> HIDE DEF t
        <5> QED BY <3>2, <4>2 DEF RowsOK
      <4> QED BY <4>1, <4>2
    <3> QED BY <2>2, <3>1, <3>2
  <2>4. Gone \subseteq Gone'
    BY <2>3 DEF Gone
  <2> QED BY <2>1, <2>4 DEF LinksOK
<1>4. CASE LinkAll
  <2>1. collection' = collection /\ (link' = Linked(SameNamePairs) \/ link' = link)
    BY <1>4 DEF LinkAll
  <2>2. \A l \in SameNamePairs : l[1] \in Gone
    BY DEF SameNamePairs
  <2>3. Gone' = Gone
    BY <2>1 DEF Gone
  <2> QED BY <2>1, <2>2, <2>3 DEF LinksOK, Linked, NewLinks
<1>5. CASE \E l \in Ids \X Ids, d \in {"confirmed", "rejected"} : Decide(l, d)
  <2>1. PICK l \in Ids \X Ids, d \in {"confirmed", "rejected"} :
                                   /\ link[l] # "none" /\ link' = [link EXCEPT ![l] = d]
                                   /\ collection' = collection
    BY <1>5 DEF Decide
  <2>2. Gone' = Gone
    BY <2>1 DEF Gone
  <2> QED BY <2>1, <2>2 DEF LinksOK
<1> QED
  BY ZenonT(60), <1>1, <1>2, <1>3, <1>4, <1>5
  DEF Next, vars, world, catalog, Disk, PutFile, MoveFile, RemoveFile, ChangeAccess, Shake,
      Preflight, BeginScan, BeginBreaks, ScanStep, ListRoot, Child, EndWalk, IngestBreaks,
      EndIngest, ReconcileBreaks, Look, Complete, Crash

LEMMA ExpectationStays ==
  ASSUME UNCHANGED <<disk, access, collection>>
  PROVE  Expectation' = Expectation
<1>1. /\ \A r : Reached(r)' <=> Reached(r)
      /\ \A p : Seen(p)' <=> Seen(p)
      /\ \A p, k : Matches(p, k)' <=> Matches(p, k)
      /\ \A r : Listed(r)' = Listed(r)
      /\ Active' = Active /\ Known' = Known
  BY DEF Reached, IsDir, Seen, There, Matches, Listed, Active, Known
<1>2. AllFound' = AllFound /\ AllNew' = AllNew
  BY <1>1 DEF AllFound, AllNew
<1>3. /\ \A p, k, n : Target(p, k, n)' = Target(p, k, n)
      /\ \A p, k, n : Keeps(p, k, n)' <=> Keeps(p, k, n)
      /\ \A i, p, k : SameName(i, p, k)' <=> SameName(i, p, k)
  BY <1>1 DEF Target, Keeps, SameName
<1> QED BY <1>1, <1>2, <1>3 DEF Expectation, Anticipated, Spoilt

LEMMA PreviewStays ==
  ASSUME PreviewIsNow, [Next]_vars
  PROVE  PreviewIsNow'
<1>1. CASE preview' = Null
  BY <1>1 DEF PreviewIsNow
<1>2. CASE Preflight
  <2>1. /\ scan' = scan /\ scan.at = "idle" /\ preview' = Expectation
        /\ UNCHANGED <<disk, access, collection>>
    BY <1>2 DEF Preflight, world, catalog
  <2> QED BY <2>1, ExpectationStays DEF PreviewIsNow
<1>3. CASE scan.at # "idle" /\ preview' = preview
  BY <1>1, <1>3 DEF PreviewIsNow
<1>4. CASE UNCHANGED <<disk, access, collection, scan, preview>>
  BY <1>4, ExpectationStays DEF PreviewIsNow
<1>5. CASE ScanStep
  <2>1. preview' = preview
    BY ZenonT(60), <1>5
    DEF ScanStep, ListRoot, Child, EndWalk, Ingest, IngestBreaks, EndIngest, ReconcileBreaks, Look,
        Mark, LinkAll, Complete
  <2>2. scan.at \in Stages
    BY ZenonT(60), <1>5
    DEF ScanStep, ListRoot, Child, EndWalk, Ingest, IngestBreaks, EndIngest, ReconcileBreaks, Look,
        Mark, LinkAll, Complete, Stages
  <2> QED BY <1>3, <2>1, <2>2 DEF Stages
<1> QED
  BY ZenonT(60), <1>1, <1>2, <1>3, <1>4, <1>5
  DEF Next, vars, world, catalog, Disk, PutFile, MoveFile, RemoveFile, ChangeAccess, Shake,
      BeginScan, BeginBreaks, Crash, Decide

-----------------------------------------------------------------------------
LEMMA BrokenOff ==
  ASSUME DOMAIN scan = Fields,
         (\E c \in Found : IngestBreaks(c[1], c[2], c[3])) \/ ReconcileBreaks
  PROVE  scan'.expected = Null
<1>1. CASE ReconcileBreaks
  BY <1>1 DEF ReconcileBreaks, Fields
<1>2. CASE \E c \in Found : IngestBreaks(c[1], c[2], c[3])
  <2>1. PICK s : scan' = [scan EXCEPT !.pending = s, !.issues = TRUE, !.expected = Null]
    BY <1>2 DEF IngestBreaks
  <2> QED BY <2>1 DEF Fields
<1> QED BY <1>1, <1>2

(* A preview that does not stand any more, or that was ambiguous, is not     *)
(* brought back.                                                             *)
LEMMA NotRevived ==
  ASSUME ScanInv, scan.at # "idle", ScanStep
  PROVE  \/ scan'.at = "idle"
         \/ scan'.ambiguous = scan.ambiguous /\ scan'.expected \in {scan.expected, Null}
<1> DEFINE held(s) == s.ambiguous = scan.ambiguous /\ s.expected \in {scan.expected, Null}
<1>1. DOMAIN scan = Fields
  BY ScanFields
<1>2. CASE \E c \in Found : Child(c[1], c[2], c[3])
  <2>1. PICK p \in Places, k \in Kinds, r \in Roots : Child(p, k, r)
    BY <1>2 DEF Found
  <2> DEFINE after  == [scan EXCEPT !.children = @ \ {<<p, k, r>>}, !.count.discovered = @ + 1]
             target == Target(p, k, scan.known)
             keep   == [after EXCEPT !.pending = @ \cup {<<p, k, r>>},
                                !.count.new = @ + 1,
                                !.count.warned = @ + (IF Keeps(p, k, scan.known) THEN 1 ELSE 0)]
  <2>2. \/ scan' = [after EXCEPT !.count.known = @ + 1]
        \/ scan' = [after EXCEPT !.issues = TRUE]
        \/ scan' = keep
        \/ scan' = [after EXCEPT !.pending = @ \cup {<<target, k, r>>},
                                 !.count.new = @ + 1, !.count.renamed = @ + 1]
        \/ scan' = [keep EXCEPT !.count.warned = @ + 1,
                                !.shaken = @ \cup {AFile}, !.expected = Null]
    BY <2>1, Zenon DEF Child
  <2>3. DOMAIN after = Fields /\ held(after)
    BY <1>1 DEF Fields
  <2> HIDE DEF after, target
  <2>4. DOMAIN keep = Fields /\ held(keep)
    BY <2>3 DEF Fields
  <2> HIDE DEF keep
  <2> QED BY <2>2, <2>3, <2>4 DEF Fields
<1>3. CASE \E c \in Found : Ingest(c[1], c[2], c[3])
  <2>1. PICK p \in Places, k \in Kinds, r \in Roots : Ingest(p, k, r)
    BY <1>3 DEF Found
  <2> DEFINE after == [scan EXCEPT !.pending = @ \ {<<p, k, r>>}]
  <2>2. \/ scan' = [after EXCEPT !.count.known = @ + 1]
        \/ \E n : scan' = [after EXCEPT !.count.links = @ + n]
    BY <2>1 DEF Ingest
  <2>3. DOMAIN after = Fields /\ held(after)
    BY <1>1 DEF Fields
  <2> HIDE DEF after
  <2> QED BY <2>2, <2>3 DEF Fields
<1>4. CASE Mark
  <2> DEFINE after == [scan EXCEPT !.at = "reconcile", !.target = Null]
  <2>1. \/ scan' = [after EXCEPT !.count.gone = @ + 1]
        \/ scan' = after
        \/ scan' = [after EXCEPT !.issues = TRUE, !.expected = Null]
    BY <1>4 DEF Mark
  <2>2. DOMAIN after = Fields /\ held(after)
    BY <1>1 DEF Fields
  <2> HIDE DEF after
  <2> QED BY <2>1, <2>2 DEF Fields
<1>5. CASE LinkAll
  <2>1. \/ \E n : scan' = [scan EXCEPT !.at = "complete", !.count.links = @ + n]
        \/ scan' = [scan EXCEPT !.at = "complete", !.issues = TRUE, !.expected = Null]
    BY <1>5 DEF LinkAll
  <2> QED BY <1>1, <2>1 DEF Fields
<1>6. CASE (\E r \in Roots : ListRoot(r)) \/ EndWalk \/ EndIngest \/ \E i \in Ids : Look(i)
  BY <1>1, <1>6 DEF ListRoot, EndWalk, EndIngest, Look, Fields
<1>7. CASE (\E c \in Found : IngestBreaks(c[1], c[2], c[3])) \/ ReconcileBreaks
  <2>1. scan'.expected = Null
    BY <1>1, <1>7, BrokenOff
  <2>2. scan'.ambiguous = scan.ambiguous
    BY <1>1, <1>7 DEF IngestBreaks, ReconcileBreaks, Fields
  <2> QED BY <2>1, <2>2
<1>8. CASE Complete
  BY <1>8 DEF Complete, Idle
<1> QED BY <1>2, <1>3, <1>4, <1>5, <1>6, <1>7, <1>8 DEF ScanStep

LEMMA ScanStepFollows ==
  ASSUME NEW w, Standing(w), ScanStep, scan'.at # "idle", scan'.expected # Null
  PROVE  Follows(w)'
<1>1. DOMAIN scan = Fields
  BY ScanFields DEF Standing
<1>2. CASE \E r \in Roots : ListRoot(r)
  BY <1>2, ListRootFollows
<1>3. CASE \E c \in Found : Child(c[1], c[2], c[3]) \/ Ingest(c[1], c[2], c[3])
  <2>1. PICK p \in Places, k \in Kinds, r \in Roots : Child(p, k, r) \/ Ingest(p, k, r)
    BY <1>3 DEF Found
  <2> QED BY <2>1, ChildFollows, IngestFollows
<1>4. CASE EndWalk \/ EndIngest \/ Mark \/ LinkAll
  BY <1>4, EndWalkFollows, EndIngestFollows, MarkFollows, LinkAllFollows
<1>5. CASE \E i \in Ids : Look(i)
  BY <1>5, LookFollows
<1>6. CASE (\E c \in Found : IngestBreaks(c[1], c[2], c[3])) \/ ReconcileBreaks
  BY <1>1, <1>6, BrokenOff
<1>7. CASE Complete
  BY <1>7 DEF Complete, Idle
<1> QED BY <1>2, <1>3, <1>4, <1>5, <1>6, <1>7 DEF ScanStep

LEMMA FollowsOn ==
  ASSUME NEW w, Follows(w), UNCHANGED <<disk, access, collection, link, scan>>
  PROVE  Follows(w)'
<1>1. Unlinked(w)' <=> Unlinked(w)
  BY DEF Unlinked
<1>2. /\ \A S : DiskAfter(w, S)' <=> DiskAfter(w, S)
      /\ \A S : Grown(w, S)' <=> Grown(w, S)
      /\ \A S : UnsafeIs(S)' <=> UnsafeIs(S)
      /\ UnsafeNow' <=> UnsafeNow
      /\ Fresh(w)' = Fresh(w) /\ Marked(w)' = Marked(w) /\ Old(w)' <=> Old(w)
      /\ Done(w)' = Done(w)
  BY DEF DiskAfter, Grown, UnsafeIs, UnsafeNow, Spoilt, Faults, Reached, IsDir, Fresh, Marked, Old,
         Done, Rest
<1>3. Walking(w) => Walking(w)'
  BY <1>2 DEF Walking
<1>4. Walked(w) => Walked(w)'
  BY <1>2 DEF Walked
<1>5. Ingesting(w) => Ingesting(w)'
  BY <1>2, <1>4 DEF Ingesting
<1>6. Reconciling(w) => Reconciling(w)'
  BY <1>2, <1>4 DEF Reconciling
<1>7. Concluded => Concluded'
  BY DEF Concluded, Differences, Gone, Active
<1> QED BY <1>1, <1>3, <1>5, <1>6, <1>7 DEF Follows

(* The scan begins in the very state the preview was made of.                *)
LEMMA BeginFollows ==
  ASSUME PreviewInv, NEW m \in Modes, BeginScan(m), preview # Null, scan'.ambiguous = FALSE
  PROVE  \E w : Snapshot(w) /\ Clear(w) /\ Follows(w)'
<1> USE DEF PreviewInv
<1> PICK w : w = Now(m)
  OBVIOUS
<1>1. w.access = access /\ w.disk = disk /\ w.collection = collection /\ w.mode = m
  BY DEF Now
<1>2. Snapshot(w)
  BY <1>1 DEF Snapshot, ScanInv, AccessOK, RowsOK, DiskOK
<1>3. preview = Foreseen(w) /\ Known = KnownIn(w) /\ Clear(w)
  <2>1. /\ Expectation = Foreseen(Now(m)) /\ Known = KnownIn(Now(m))
        /\ Ambiguous \/ Clear(Now(m))
    BY PreviewSees DEF ScanInv
  <2>2. scan'.ambiguous = Ambiguous
    BY DEF BeginScan
  <2>3. ~Ambiguous
    BY <2>2
  <2> QED BY <2>1, <2>3 DEF PreviewIsNow
<1>4. /\ scan'.at = "walk" /\ scan'.mode = m /\ scan'.roots = Roots /\ scan'.unsafe = {}
      /\ scan'.known = Known /\ scan'.children = {} /\ scan'.pending = {}
      /\ scan'.count = [n \in Counts |-> 0] /\ scan'.expected = preview
      /\ UNCHANGED <<access, disk, collection, link>>
  BY DEF BeginScan, world, catalog
<1>5. Rest(w)' = FoundIn(w)
  <2>1. \A x \in FoundIn(w) : x[3] \in Roots
    BY <1>2, FoundThings
  <2> QED BY <1>4, <2>1 DEF Rest
<1>6. Done(w)' = {}
  BY <1>5 DEF Done
<1>7. DiskAfter(w, Done(w))'
  BY <1>1, <1>4, <1>6 DEF DiskAfter
<1>8. Counted(w, Done(w), scan.count)'
  <2> PICK n : n = [c \in Counts |-> 0]
    OBVIOUS
  <2>1. /\ n.discovered = 0 /\ n.new = 0 /\ n.known = 0 /\ n.renamed = 0 /\ n.warned = 0
        /\ DOMAIN n = Counts
    BY DEF Counts
  <2>2. /\ {} \cap NewIn(w) = {} /\ {} \cap Things(w) = {} /\ {} \cap MovedIn(w) = {}
        /\ {} \cap KeptAll(w) = {} /\ Cardinality({}) = 0
    BY FS_EmptySet
  <2>3. Counted(w, {}, n)
    BY <2>1, <2>2 DEF Counted
  <2> QED BY <1>4, <1>6, <2>3
<1>9. scan'.pending = Placed(w, Done(w)')
  BY <1>4, <1>6 DEF Placed
<1>10. UnsafeIs(Roots \ scan.roots)'
  <2>1. Roots \ scan'.roots = {} /\ scan'.unsafe = {}
    BY <1>4
  <2> QED BY <2>1 DEF UnsafeIs
<1>11. Walking(w)'
  BY <1>1, <1>4, <1>7, <1>8, <1>9, <1>10 DEF Walking, Counts
<1>12. Unlinked(w)'
  <2>1. TombsIn(w) = Gone
    BY <1>1 DEF TombsIn, Gone
  <2>2. TombsIn(w) = {} => \A l \in Ids \X Ids : link[l] = "none"
    BY <2>1 DEF LinksOK
  <2> QED BY <1>4, <2>2 DEF Unlinked, Counts
<1>13. Follows(w)'
  BY <1>1, <1>3, <1>4, <1>11, <1>12 DEF Follows
<1> QED BY <1>2, <1>3, <1>13

LEMMA PromiseStands ==
  ASSUME PreviewInv, [Next]_vars
  PROVE  Promised'
<1> USE DEF PreviewInv
<1> SUFFICES ASSUME OneName, scan'.at # "idle", scan'.expected # Null, ~scan'.ambiguous
             PROVE  \E w : Snapshot(w) /\ Clear(w) /\ Follows(w)'
  BY DEF Promised, OneName
<1>1. CASE Disk
  <2>1. PICK what : Shake(what)
    BY <1>1 DEF Disk, PutFile, MoveFile, RemoveFile, ChangeAccess
  <2>2. scan.at # "idle" /\ scan' = [scan EXCEPT !.shaken = @ \cup {what}, !.expected = Null]
    BY <2>1 DEF Shake
  <2>3. scan'.expected = Null
    BY <2>2, ScanFields DEF Fields
  <2> QED BY <2>3
<1>2. CASE \E m \in Modes : BeginScan(m)
  <2>1. PICK m \in Modes : BeginScan(m)
    BY <1>2
  <2>2. scan'.expected = preview /\ scan'.ambiguous = Ambiguous
    BY <2>1 DEF BeginScan
  <2>3. Ambiguous \in BOOLEAN
    BY DEF Ambiguous
  <2>4. scan'.ambiguous = FALSE
    BY <2>2, <2>3
  <2> QED BY <2>1, <2>2, <2>4, BeginFollows
<1>3. CASE ScanStep
  <2>1. scan.at # "idle"
    BY ZenonT(60), <1>3
    DEF ScanStep, ListRoot, Child, EndWalk, Ingest, IngestBreaks, EndIngest, ReconcileBreaks, Look,
        Mark, LinkAll, Complete
  <2>2. scan.expected # Null /\ ~scan.ambiguous
    BY <1>3, <2>1, NotRevived
  <2>3. PICK w : Snapshot(w) /\ Clear(w) /\ Follows(w)
    BY <2>1, <2>2 DEF Promised
  <2>4. Standing(w)
    BY <2>1, <2>2, <2>3 DEF Standing
  <2> QED BY <1>3, <2>3, <2>4, ScanStepFollows
<1>4. CASE Crash
  BY <1>4 DEF Crash, Idle
<1>5. CASE Preflight \/ BeginBreaks \/ \E l \in Ids \X Ids, d \in {"confirmed", "rejected"} : Decide(l, d)
  BY <1>5 DEF Preflight, BeginBreaks, Decide
<1>6. CASE UNCHANGED vars
  <2>1. PICK w : Snapshot(w) /\ Clear(w) /\ Follows(w)
    BY <1>6 DEF Promised, vars
  <2>2. UNCHANGED <<disk, access, collection, link, scan>>
    BY <1>6 DEF vars, world, catalog
  <2>3. Follows(w)'
    BY <2>1, <2>2, FollowsOn
  <2> QED BY <2>1, <2>3
<1> QED BY <1>1, <1>2, <1>3, <1>4, <1>5, <1>6 DEF Next

LEMMA PreviewKeeps == PreviewInv /\ [Next]_vars => PreviewInv'
BY ScanKeeps, DiskStays, LinksStay, PreviewStays, PromiseStands DEF PreviewInv

\* What preflight_scan announced is what the scan did when nothing changed between the two
\* (record_preflight_difference): the only exceptions are the named ones, for any number of
\* roots, files, names and collections, and whatever the mode of the scan.
THEOREM PreviewIsTrue == Spec => []PreviewHolds
<1>1. PreviewInv => PreviewHolds
  <2> SUFFICES ASSUME PreviewInv, scan.at = "complete", scan.expected # Null, Differences # {},
                      OneName, ~scan.ambiguous
               PROVE  \/ Differences = {"links"} /\ Cardinality(Gone) > scan.count.gone
                      \/ Differences = {"links"} /\ scan.mode = "no_rename"
                           /\ \E i \in Active : collection[i].place \in DOMAIN Decoded
    BY DEF PreviewHolds, OneName
  <2>1. PICK w : Follows(w)
    BY DEF PreviewInv, Promised
  <2> QED BY <2>1 DEF Follows, Concluded
<1> QED BY <1>1, PreviewInits, PreviewKeeps, PTL DEF Spec

-----------------------------------------------------------------------------
(***************************************************************************)
(* The types of the tables, of a scan in progress and of its numbers, which  *)
(* are finite because the places and the identifiers are.                    *)
(***************************************************************************)

\* a scan in progress
Job == [at : Stages, run : Runs, mode : Modes, roots : SUBSET Roots, unsafe : SUBSET Roots,
        known : [Places -> Kinds \cup {Null}], children : SUBSET Found, pending : SUBSET Found,
        left : SUBSET Ids, target : Ids \cup {Null}, invalid : SUBSET Ids, issues : BOOLEAN,
        count : [Counts -> Nat], expected : [Counts -> Nat] \cup {Null},
        shaken : SUBSET (Roots \cup {AFile}), ambiguous : BOOLEAN]

Tables ==
  /\ link \in [Ids \X Ids -> {"none", "pending", "confirmed", "rejected"}]
  /\ runs \in [Runs -> RunStates]
  /\ preview \in [Counts -> Nat] \cup {Null}
  /\ changes \in 0 .. MaxChanges /\ troubles \in 0 .. MaxTroubles
JobOK == scan = Idle \/ scan \in Job

LEMMA JobTyped ==
  ASSUME JobOK, scan # Idle
  PROVE  scan \in Job
BY DEF JobOK

LEMMA CountGoes ==
  ASSUME NEW s \in Job, NEW n \in Counts, NEW k \in Nat
  PROVE  [s EXCEPT !.count[n] = @ + k] \in Job
<1>1. s.count \in [Counts -> Nat] /\ s.count[n] + k \in Nat
  BY DEF Job
<1> DEFINE c == [s.count EXCEPT ![n] = @ + k]
<1>2. c \in [Counts -> Nat]
  BY <1>1
<1>3. [s EXCEPT !.count[n] = @ + k] = [s EXCEPT !.count = c]
  BY DEF Job
<1> HIDE DEF c
<1> QED BY <1>2, <1>3 DEF Job

LEMMA PendingAndCounts ==
  ASSUME NEW s \in Job, NEW P \in SUBSET Found, NEW n \in Counts, NEW m \in Counts, n # m,
         NEW k \in Nat
  PROVE  [s EXCEPT !.pending = P, !.count[n] = @ + 1, !.count[m] = @ + k] \in Job
<1> DEFINE c == [s.count EXCEPT ![n] = @ + 1, ![m] = @ + k]
           d == [s.count EXCEPT ![n] = @ + 1]
           t == [s EXCEPT !.pending = P]
<1>1. s.count \in [Counts -> Nat]
  BY DEF Job
<1>2. d \in [Counts -> Nat]
  BY <1>1
<1>3. c = [d EXCEPT ![m] = @ + k]
  OBVIOUS
<1> HIDE DEF c, d
<1>4. c \in [Counts -> Nat]
  BY <1>2, <1>3
<1> USE DEF c
<1>5. t \in Job /\ t.count = s.count
  BY DEF Job
<1> DEFINE all == [s EXCEPT !.pending = P, !.count[n] = @ + 1, !.count[m] = @ + k]
<1>6. all = [s EXCEPT !.pending = P, !.count = c]
  BY <1>1
<1>7. all = [t EXCEPT !.count = c]
  BY <1>6
<1> HIDE DEF all, t, c
<1>8. all \in Job
  BY <1>4, <1>5, <1>7 DEF Job
<1> QED BY <1>8 DEF all

LEMMA KnownTyped ==
  ASSUME RowsOK
  PROVE  Known \in [Places -> Kinds \cup {Null}]
<1> SUFFICES ASSUME NEW p \in Places PROVE Known[p] \in Kinds \cup {Null}
  BY DEF Known
<1> DEFINE here == {i \in Active : collection[i].place = p}
<1>1. CASE here = {}
  BY <1>1 DEF Known
<1>2. CASE here # {}
  <2>1. PICK j : j = (CHOOSE i \in here : TRUE)
    OBVIOUS
  <2>2. j \in here
    BY <1>2, <2>1
  <2>3. Known[p] = collection[j].kind
    BY <1>2, <2>1 DEF Known
  <2>4. collection[j] \in Row /\ collection[j].status = "active"
    BY <2>2 DEF RowsOK, Active
  <2> QED BY <2>3, <2>4 DEF Row, None
<1> QED BY <1>1, <1>2

LEMMA TargetTyped ==
  ASSUME NEW p \in Places, NEW k, NEW known
  PROVE  Target(p, k, known) \in Places
BY ScanPlacesAssumption DEF Target

LEMMA ListedTyped ==
  ASSUME NEW r \in Roots
  PROVE  Listed(r) \in SUBSET Found
<1>1. \A p \in Places : Kind(disk[p]) \in Kinds
  BY DEF Kind, Kinds
<1> QED BY <1>1 DEF Listed, Found

(* Everything a preview counts is finite.                                    *)
LEMMA PreviewNumbers ==
  ASSUME RowsOK, AccessOK, DiskOK
  PROVE  Expectation \in [Counts -> Nat]
<1>1. PICK w : w = Now("no_rename")
  OBVIOUS
<1>2. Expectation = Foreseen(w)
  BY <1>1, PreviewSees
<1>3. Snapshot(w)
  BY <1>1 DEF Snapshot, Now, RowsOK, AccessOK, DiskOK, Modes
<1>4. IsFiniteSet(FoundIn(w))
  BY <1>3, FoundThings
<1>5. \A S \in SUBSET FoundIn(w) : Cardinality(S) \in Nat
  BY <1>4, FS_Subset, FS_CardinalityType
<1>6. NewIn(w) \subseteq FoundIn(w)
  BY DEF NewIn
<1>7. /\ Cardinality(FoundIn(w)) \in Nat /\ Cardinality(NewIn(w)) \in Nat
      /\ Cardinality({x \in FoundIn(w) : KnownIn(w)[x[1]] = x[2]}) \in Nat
      /\ Cardinality({x \in NewIn(w) : TargetIn(w, x) # x[1]}) \in Nat
      /\ Cardinality({x \in NewIn(w) : KeptIn(w, x)}) \in Nat
  <2>1. /\ {x \in FoundIn(w) : KnownIn(w)[x[1]] = x[2]} \in SUBSET FoundIn(w)
        /\ {x \in NewIn(w) : TargetIn(w, x) # x[1]} \in SUBSET FoundIn(w)
        /\ {x \in NewIn(w) : KeptIn(w, x)} \in SUBSET FoundIn(w)
    BY <1>6
  <2> QED BY <1>5, <1>6, <2>1
<1>8. Cardinality(GoneIn(w)) \in Nat /\ Cardinality(ThereIn(w)) + Cardinality(SoonIn(w)) \in Nat
  <2>1. /\ Cardinality(GoneIn(w)) \in Nat /\ Cardinality(ThereIn(w)) \in Nat
        /\ Cardinality(SoonIn(w)) \in Nat
    BY <1>3, FinitelyMany, FS_CardinalityType
  <2> QED BY <2>1
<1> QED BY <1>2, <1>7, <1>8 DEF Foreseen, Counts

-----------------------------------------------------------------------------
TypesInv == ScanInv /\ DiskOK /\ Tables /\ JobOK

LEMMA TypesBegin == Init => TypesInv
<1> SUFFICES ASSUME Init PROVE TypesInv
  OBVIOUS
<1>1. Tables
  BY ScanBoundsAssumption DEF Init, Tables, RunStates
<1> QED BY <1>1, DiskBegins, ScanInits DEF TypesInv, JobOK, Init

\* a link is only ever set to one of its decisions
LEMMA LinkedTyped ==
  ASSUME Tables, NEW S
  PROVE  Linked(S) \in [Ids \X Ids -> {"none", "pending", "confirmed", "rejected"}]
BY DEF Linked, NewLinks, Tables

LEMMA LinkNumbers ==
  ASSUME NEW S \in SUBSET (Ids \X Ids)
  PROVE  Cardinality(NewLinks(S)) \in Nat
<1>1. IsFiniteSet(Ids \X Ids)
  <2>1. IsFiniteSet(Ids)
    BY FS_Interval, ScanBoundsAssumption DEF Ids
  <2> QED BY <2>1, FS_Product
<1>2. NewLinks(S) \subseteq Ids \X Ids
  BY DEF NewLinks
<1> QED BY <1>1, <1>2, FS_Subset, FS_CardinalityType

LEMMA TablesGoOn ==
  ASSUME Tables, [Next]_vars
  PROVE  /\ changes' \in 0 .. MaxChanges /\ troubles' \in 0 .. MaxTroubles
<1> USE ScanBoundsAssumption DEF Tables
<1>1. changes' = changes \/ Change
  BY ZenonT(60)
  DEF Next, vars, world, Disk, PutFile, MoveFile, RemoveFile, ChangeAccess, Preflight, BeginScan,
      BeginBreaks, ScanStep, ListRoot, Child, EndWalk, Ingest, IngestBreaks, EndIngest,
      ReconcileBreaks, Look, Mark, LinkAll, Complete, Crash, Decide
<1>2. troubles' = troubles \/ Trouble
  BY ZenonT(60)
  DEF Next, vars, Shake, Disk, PutFile, MoveFile, RemoveFile, ChangeAccess, Preflight, BeginScan,
      BeginBreaks, ScanStep, ListRoot, Child, EndWalk, Ingest, IngestBreaks, EndIngest,
      ReconcileBreaks, Look, Mark, LinkAll, Complete, Crash, Decide
<1> QED BY <1>1, <1>2 DEF Change, Trouble

\* the tables a step that neither links, previews nor begins or ends a run leaves alone
LEMMA Quiet ==
  ASSUME Tables, [Next]_vars, UNCHANGED <<link, runs>>, preview' = preview \/ preview' = Null
  PROVE  Tables'
BY TablesGoOn DEF Tables

LEMMA DiskTyped ==
  ASSUME TypesInv, Disk
  PROVE  Tables' /\ JobOK'
<1> USE DEF TypesInv
<1>1. PICK what \in Roots \cup {AFile} : Shake(what)
  BY DEF Disk, PutFile, MoveFile, RemoveFile, ChangeAccess
<1>2. Tables'
  BY <1>1, Quiet DEF Shake, catalog, Next
<1>3. CASE scan.at = "idle"
  BY <1>1, <1>2, <1>3 DEF Shake, JobOK
<1>4. CASE scan.at # "idle"
  <2>1. scan \in Job
    BY <1>4, JobTyped DEF Idle
  <2>2. scan' = [scan EXCEPT !.shaken = @ \cup {what}, !.expected = Null]
    BY <1>1, <1>4 DEF Shake
  <2>3. scan.shaken \cup {what} \in SUBSET (Roots \cup {AFile})
    BY <2>1 DEF Job
  <2> DEFINE S == scan.shaken \cup {what}
  <2>4. scan' = [scan EXCEPT !.shaken = S, !.expected = Null]
    BY <2>1, <2>2 DEF Job
  <2> HIDE DEF S
  <2> QED BY <1>2, <2>1, <2>3, <2>4 DEF Job, JobOK, S
<1> QED BY <1>2, <1>3, <1>4

LEMMA BeginTyped ==
  ASSUME TypesInv, (\E m \in Modes : BeginScan(m)) \/ BeginBreaks
  PROVE  Tables' /\ JobOK'
<1> USE DEF TypesInv
<1>1. runs' \in [Runs -> RunStates] /\ preview' = Null /\ link' = link
  BY DEF BeginScan, BeginBreaks, Tables, RunStates, catalog
<1>2. Tables'
  BY <1>1, TablesGoOn DEF Tables, Next
<1>3. CASE BeginBreaks
  BY <1>2, <1>3 DEF BeginBreaks, JobOK
<1>4. CASE \E m \in Modes : BeginScan(m)
  <2>1. PICK m \in Modes, r \in Runs :
          scan' = [at |-> "walk", run |-> r, mode |-> m, roots |-> Roots,
                   unsafe |-> {}, known |-> Known, children |-> {}, pending |-> {},
                   left |-> {}, target |-> Null, invalid |-> {}, issues |-> FALSE,
                   count |-> [n \in Counts |-> 0], expected |-> preview, shaken |-> {},
                   ambiguous |-> Ambiguous]
    BY <1>4 DEF BeginScan
  <2>2. Known \in [Places -> Kinds \cup {Null}] /\ preview \in [Counts -> Nat] \cup {Null}
    BY KnownTyped DEF ScanInv, Tables
  <2>3. PICK a \in BOOLEAN : a = Ambiguous
    BY DEF Ambiguous
  <2>4. scan' \in Job
    BY <2>1, <2>2, <2>3 DEF Job, Stages
  <2> QED BY <1>2, <2>4 DEF JobOK
<1> QED BY <1>2, <1>3, <1>4

-----------------------------------------------------------------------------
(* The steps of a scan.                                                      *)

LEMMA ChildTyped ==
  ASSUME TypesInv, NEW p \in Places, NEW k \in Kinds, NEW r \in Roots, Child(p, k, r)
  PROVE  JobOK'
<1>1. scan \in Job
  BY JobTyped DEF TypesInv, Child, Idle
<1> DEFINE rest   == scan.children \ {<<p, k, r>>}
           less   == [scan EXCEPT !.children = rest]
           after  == [scan EXCEPT !.children = @ \ {<<p, k, r>>}, !.count.discovered = @ + 1]
           target == Target(p, k, scan.known)
           more   == scan.pending \cup {<<p, k, r>>}
           warned == IF Keeps(p, k, scan.known) THEN 1 ELSE 0
           keep   == [after EXCEPT !.pending = @ \cup {<<p, k, r>>},
                              !.count.new = @ + 1,
                              !.count.warned = @ + (IF Keeps(p, k, scan.known) THEN 1 ELSE 0)]
<1>2. \/ scan' = [after EXCEPT !.count.known = @ + 1]
      \/ scan' = [after EXCEPT !.issues = TRUE]
      \/ scan' = keep
      \/ scan' = [after EXCEPT !.pending = @ \cup {<<target, k, r>>},
                               !.count.new = @ + 1, !.count.renamed = @ + 1]
      \/ scan' = [keep EXCEPT !.count.warned = @ + 1,
                              !.shaken = @ \cup {AFile}, !.expected = Null]
  BY Zenon DEF Child
<1>3. less \in Job
  BY <1>1 DEF Job
<1>4. after = [less EXCEPT !.count["discovered"] = @ + 1]
  BY <1>1 DEF Job
<1> HIDE DEF less
<1>5. after \in Job
  BY <1>3, <1>4, CountGoes DEF Counts
<1> HIDE DEF after
<1>6. \A s \in Job, q \in Places : [s EXCEPT !.pending = @ \cup {<<q, k, r>>}] \in Job
  <2> TAKE s \in Job, q \in Places
  <2> DEFINE P == s.pending \cup {<<q, k, r>>}
  <2>1. P \in SUBSET Found
    BY DEF Job, Found
  <2>2. [s EXCEPT !.pending = @ \cup {<<q, k, r>>}] = [s EXCEPT !.pending = P]
    BY DEF Job
  <2> HIDE DEF P
  <2> QED BY <2>1, <2>2 DEF Job
<1>7. target \in Places
  BY TargetTyped
<1> HIDE DEF target
<1>8. keep \in Job
  <2> DEFINE P == after.pending \cup {<<p, k, r>>}
  <2>1. P \in SUBSET Found
    BY <1>5 DEF Job, Found
  <2>2. warned \in Nat
    OBVIOUS
  <2>3. keep = [after EXCEPT !.pending = P, !.count["new"] = @ + 1,
                             !.count["warned"] = @ + warned]
    BY <1>5 DEF Job
  <2> HIDE DEF P, warned, keep
  <2> QED BY <1>5, <2>1, <2>2, <2>3, PendingAndCounts DEF Counts
<1> HIDE DEF keep
<1>9. CASE scan' = [after EXCEPT !.count.known = @ + 1]
  BY <1>5, <1>9, CountGoes DEF Counts, JobOK
<1>10. CASE scan' = [after EXCEPT !.issues = TRUE]
  BY <1>5, <1>10 DEF Job, JobOK
<1>11. CASE scan' = [after EXCEPT !.pending = @ \cup {<<target, k, r>>},
                                  !.count.new = @ + 1, !.count.renamed = @ + 1]
  <2> DEFINE P == after.pending \cup {<<target, k, r>>}
  <2>1. P \in SUBSET Found
    BY <1>5, <1>7 DEF Job, Found
  <2>2. scan' = [after EXCEPT !.pending = P, !.count["new"] = @ + 1,
                              !.count["renamed"] = @ + 1]
    BY <1>5, <1>11 DEF Job
  <2> HIDE DEF P
  <2> QED BY <1>5, <2>1, <2>2, PendingAndCounts DEF Counts, JobOK
<1>12. CASE scan' = [keep EXCEPT !.count.warned = @ + 1,
                                 !.shaken = @ \cup {AFile}, !.expected = Null]
  <2>1. PICK t : t = [keep EXCEPT !.count["warned"] = @ + 1]
    OBVIOUS
  <2>2. t \in Job
    BY <1>8, <2>1, CountGoes DEF Counts
  <2> DEFINE S == t.shaken \cup {AFile}
  <2>3. S \in SUBSET (Roots \cup {AFile})
    BY <2>2 DEF Job
  <2>4. scan' = [t EXCEPT !.shaken = S, !.expected = Null]
    BY <1>8, <1>12, <2>1, <2>2 DEF Job
  <2> HIDE DEF S
  <2> QED BY <2>2, <2>3, <2>4 DEF Job, JobOK
<1> QED BY <1>2, <1>8, <1>9, <1>10, <1>11, <1>12 DEF JobOK

LEMMA ListRootTyped ==
  ASSUME TypesInv, NEW r \in Roots, ListRoot(r)
  PROVE  JobOK'
<1>1. scan \in Job
  BY JobTyped DEF TypesInv, ListRoot, Idle
<1> DEFINE rest == scan.roots \ {r}
           ill  == scan.unsafe \cup Spoilt(Faults(r))
<1>2. rest \in SUBSET Roots /\ ill \in SUBSET Roots /\ Listed(r) \in SUBSET Found
  <2>1. Faults(r) \subseteq Roots
    BY DEF Faults
  <2>2. Spoilt(Faults(r)) \subseteq Roots
    BY <2>1, UpRoots DEF Spoilt
  <2> QED BY <1>1, <2>2, ListedTyped DEF Job
<1>3. PICK b \in BOOLEAN : b = (scan.issues \/ Faults(r) # {})
  OBVIOUS
<1>4. scan' = [scan EXCEPT !.roots = rest, !.children = Listed(r), !.unsafe = ill, !.issues = b]
  BY <1>1, <1>3 DEF ListRoot, Job
<1> HIDE DEF rest, ill
<1> QED BY <1>1, <1>2, <1>3, <1>4 DEF Job, JobOK

LEMMA EndWalkTyped ==
  ASSUME TypesInv, EndWalk
  PROVE  JobOK'
<1>1. scan \in Job
  BY JobTyped DEF TypesInv, EndWalk, Idle
<1> DEFINE ill == scan.unsafe \cup {r \in Roots : ~IsDir(r)}
<1>2. ill \in SUBSET Roots
  BY <1>1 DEF Job
<1>3. scan' = [scan EXCEPT !.at = "ingest", !.unsafe = ill]
  BY <1>1 DEF EndWalk, Job
<1> HIDE DEF ill
<1> QED BY <1>1, <1>2, <1>3 DEF Job, JobOK, Stages

LEMMA IngestTyped ==
  ASSUME TypesInv, NEW p \in Places, NEW k \in Kinds, NEW r \in Roots, Ingest(p, k, r)
  PROVE  JobOK' /\ link' \in [Ids \X Ids -> {"none", "pending", "confirmed", "rejected"}]
<1>1. scan \in Job
  <2>1. scan.at = "ingest"
    BY Zenon DEF Ingest, IsNext
  <2> QED BY <2>1, JobTyped DEF TypesInv, Idle
<1> DEFINE rest  == scan.pending \ {<<p, k, r>>}
           after == [scan EXCEPT !.pending = @ \ {<<p, k, r>>}]
<1>2. after = [scan EXCEPT !.pending = rest] /\ rest \in SUBSET Found
  BY <1>1 DEF Job
<1>3. [scan EXCEPT !.pending = rest] \in Job
  <2>1. rest \in SUBSET Found
    BY <1>2
  <2> HIDE DEF rest, after
  <2> QED BY <1>1, <2>1 DEF Job
<1>4. after \in Job
  BY <1>2, <1>3
<1>5. \/ scan' = [after EXCEPT !.count["known"] = @ + 1] /\ link' = link
      \/ \E i \in Ids :
           LET pairs == {<<t, i>> : t \in {g \in Gone : SameName(g, p, k)}}
           IN  /\ link' = Linked(pairs)
               /\ scan' = [after EXCEPT !.count["links"] = @ + Cardinality(NewLinks(pairs))]
  BY DEF Ingest, catalog
<1> HIDE DEF after
<1>6. CASE scan' = [after EXCEPT !.count["known"] = @ + 1] /\ link' = link
  BY <1>4, <1>6, CountGoes DEF Counts, JobOK, TypesInv, Tables
<1>7. ASSUME NEW i \in Ids,
             LET pairs == {<<t, i>> : t \in {g \in Gone : SameName(g, p, k)}}
             IN  /\ link' = Linked(pairs)
                 /\ scan' = [after EXCEPT !.count["links"] = @ + Cardinality(NewLinks(pairs))]
      PROVE  JobOK' /\ link' \in [Ids \X Ids -> {"none", "pending", "confirmed", "rejected"}]
  <2> DEFINE S == {<<t, i>> : t \in {g \in Gone : SameName(g, p, k)}}
  <2>1. S \in SUBSET (Ids \X Ids)
    BY DEF Gone
  <2>2. /\ link' = Linked(S)
        /\ scan' = [after EXCEPT !.count["links"] = @ + Cardinality(NewLinks(S))]
    BY <1>7
  <2> HIDE DEF S
  <2>3. Cardinality(NewLinks(S)) \in Nat
    BY <2>1, LinkNumbers
  <2> QED BY <1>4, <2>2, <2>3, CountGoes, LinkedTyped DEF Counts, JobOK, TypesInv
<1> QED BY <1>5, <1>6, <1>7

LEMMA BreaksTyped ==
  ASSUME TypesInv, (\E c \in Found : IngestBreaks(c[1], c[2], c[3])) \/ ReconcileBreaks
  PROVE  JobOK'
<1>1. scan \in Job
  <2>1. scan.at = "ingest"
    BY Zenon DEF IngestBreaks, ReconcileBreaks
  <2> QED BY <2>1, JobTyped DEF TypesInv, Idle
<1>2. CASE ReconcileBreaks
  BY <1>1, <1>2 DEF ReconcileBreaks, Job, JobOK, Stages
<1>3. CASE \E c \in Found : IngestBreaks(c[1], c[2], c[3])
  <2>1. PICK c \in Found : scan' = [scan EXCEPT !.pending = @ \ {<<c[1], c[2], c[3]>>},
                                                !.issues = TRUE, !.expected = Null]
    BY <1>3 DEF IngestBreaks
  <2> DEFINE rest == scan.pending \ {<<c[1], c[2], c[3]>>}
  <2>2. rest \in SUBSET Found
    BY <1>1 DEF Job
  <2>3. scan' = [scan EXCEPT !.pending = rest, !.issues = TRUE, !.expected = Null]
    BY <1>1, <2>1 DEF Job
  <2> HIDE DEF rest
  <2> QED BY <1>1, <2>2, <2>3 DEF Job, JobOK
<1> QED BY <1>2, <1>3

LEMMA EndIngestTyped ==
  ASSUME TypesInv, EndIngest
  PROVE  JobOK'
<1>1. scan \in Job
  BY JobTyped DEF TypesInv, EndIngest, Idle
<1> DEFINE ill == {i \in Active : ~Matches(collection[i].place, collection[i].kind)}
<1>2. Active \in SUBSET Ids /\ ill \in SUBSET Ids
  BY DEF Active
<1>3. \/ scan' = [scan EXCEPT !.at = "complete"]
      \/ scan' = [scan EXCEPT !.at = "reconcile", !.left = Active, !.invalid = ill]
  BY DEF EndIngest
<1> HIDE DEF ill
<1>4. [scan EXCEPT !.at = "complete"] \in Job
  BY <1>1 DEF Job, Stages
<1>5. [scan EXCEPT !.at = "reconcile", !.left = Active, !.invalid = ill] \in Job
  BY <1>1, <1>2 DEF Job, Stages
<1> QED BY <1>3, <1>4, <1>5 DEF JobOK

LEMMA LookTyped ==
  ASSUME TypesInv, NEW i \in Ids, Look(i)
  PROVE  JobOK'
<1>1. scan \in Job
  BY JobTyped DEF TypesInv, Look, Idle
<1> DEFINE rest == scan.left \ {i}
<1>2. rest \in SUBSET Ids
  BY <1>1 DEF Job
<1>3. \/ scan' = [scan EXCEPT !.at = "mark", !.left = rest, !.target = i]
      \/ scan' = [scan EXCEPT !.left = rest]
  BY <1>1 DEF Look, Job
<1> HIDE DEF rest
<1>4. [scan EXCEPT !.at = "mark", !.left = rest, !.target = i] \in Job
  BY <1>1, <1>2 DEF Job, Stages
<1>5. [scan EXCEPT !.left = rest] \in Job
  BY <1>1, <1>2 DEF Job
<1> QED BY <1>3, <1>4, <1>5 DEF JobOK

LEMMA MarkTyped ==
  ASSUME TypesInv, Mark
  PROVE  JobOK'
<1>1. scan \in Job
  BY JobTyped DEF TypesInv, Mark, Idle
<1> DEFINE after == [scan EXCEPT !.at = "reconcile", !.target = Null]
<1>2. after \in Job
  BY <1>1 DEF Job, Stages
<1>3. \/ scan' = [after EXCEPT !.count["gone"] = @ + 1]
      \/ scan' = after
      \/ scan' = [after EXCEPT !.issues = TRUE, !.expected = Null]
  BY DEF Mark
<1> HIDE DEF after
<1>4. [after EXCEPT !.count["gone"] = @ + 1] \in Job
  BY <1>2, CountGoes DEF Counts
<1>5. [after EXCEPT !.issues = TRUE, !.expected = Null] \in Job
  BY <1>2 DEF Job
<1> QED BY <1>2, <1>3, <1>4, <1>5 DEF JobOK

LEMMA LinkAllTyped ==
  ASSUME TypesInv, LinkAll
  PROVE  JobOK' /\ link' \in [Ids \X Ids -> {"none", "pending", "confirmed", "rejected"}]
<1>1. scan \in Job
  BY JobTyped DEF TypesInv, LinkAll, Idle
<1>2. CASE link' = link /\ scan' = [scan EXCEPT !.at = "complete", !.issues = TRUE, !.expected = Null]
  BY <1>1, <1>2 DEF TypesInv, Tables, Job, JobOK, Stages
<1>3. CASE /\ link' = Linked(SameNamePairs)
           /\ scan' = [scan EXCEPT !.at = "complete",
                                   !.count.links = @ + Cardinality(NewLinks(SameNamePairs))]
  <2>1. SameNamePairs \in SUBSET (Ids \X Ids)
    BY DEF SameNamePairs, Gone, Active
  <2>2. PICK n \in Nat : n = Cardinality(NewLinks(SameNamePairs))
    BY <2>1, LinkNumbers
  <2>3. [scan EXCEPT !.at = "complete"] \in Job
    BY <1>1 DEF Job, Stages
  <2>4. PICK s \in Job : s = [scan EXCEPT !.at = "complete"]
    BY <2>3
  <2>5. scan' = [s EXCEPT !.count["links"] = @ + n]
    BY <1>1, <1>3, <2>2, <2>4 DEF Job
  <2>6. scan' \in Job
    BY <2>5, CountGoes DEF Counts
  <2> QED BY <1>3, <2>6, LinkedTyped DEF JobOK, TypesInv
<1> QED BY <1>2, <1>3 DEF LinkAll

-----------------------------------------------------------------------------
LEMMA ScanStepTyped ==
  ASSUME TypesInv, ScanStep
  PROVE  Tables' /\ JobOK'
<1> USE DEF TypesInv
<1>1. preview' = preview
  BY ZenonT(60)
  DEF ScanStep, ListRoot, Child, EndWalk, Ingest, IngestBreaks, EndIngest, ReconcileBreaks, Look,
      Mark, LinkAll, Complete
<1>2. CASE Complete
  <2>1. scan \in Job
    BY <1>2, JobTyped DEF Complete, Idle
  <2>2. runs' \in [Runs -> RunStates] /\ link' = link /\ scan' = Idle
    BY <1>2, <2>1 DEF Complete, Job, Tables, RunStates, Verdict, catalog
  <2> QED BY <1>1, <2>2, TablesGoOn DEF Tables, JobOK, Next
<1>3. CASE LinkAll \/ \E c \in Found : Ingest(c[1], c[2], c[3])
  <2>1. CASE LinkAll
    <3>1. runs' = runs
      BY <2>1 DEF LinkAll
    <3> QED BY <1>1, <2>1, <3>1, LinkAllTyped, TablesGoOn DEF Tables, Next
  <2>2. CASE \E c \in Found : Ingest(c[1], c[2], c[3])
    <3>1. PICK p \in Places, k \in Kinds, r \in Roots : Ingest(p, k, r)
      BY <2>2 DEF Found
    <3>2. runs' = runs
      BY <3>1, Zenon DEF Ingest
    <3> QED BY <1>1, <3>1, <3>2, IngestTyped, TablesGoOn DEF Tables, Next
  <2> QED BY <1>3, <2>1, <2>2
<1>4. CASE \/ \E r \in Roots : ListRoot(r)
           \/ \E c \in Found : Child(c[1], c[2], c[3])
           \/ EndWalk
           \/ \E c \in Found : IngestBreaks(c[1], c[2], c[3])
           \/ EndIngest
           \/ ReconcileBreaks
           \/ \E i \in Ids : Look(i)
           \/ Mark
  <2>1. link' = link /\ runs' = runs
    BY ZenonT(60), <1>4
    DEF catalog, ListRoot, Child, EndWalk, IngestBreaks, EndIngest, ReconcileBreaks, Look, Mark
  <2>2. Tables'
    BY <1>1, <2>1, Quiet DEF Next
  <2>3. \A c \in Found : c[1] \in Places /\ c[2] \in Kinds /\ c[3] \in Roots
    BY DEF Found
  <2>4. JobOK'
    BY <1>4, <2>3, ListRootTyped, ChildTyped, EndWalkTyped, BreaksTyped, EndIngestTyped, LookTyped,
       MarkTyped
  <2> QED BY <2>2, <2>4
<1> QED BY <1>2, <1>3, <1>4 DEF ScanStep

LEMMA TypesGoOn ==
  ASSUME TypesInv, [Next]_vars
  PROVE  TypesInv'
<1> USE DEF TypesInv
<1>1. ScanInv' /\ DiskOK'
  BY ScanKeeps, DiskStays
<1>2. CASE Disk
  BY <1>1, <1>2, DiskTyped
<1>3. CASE (\E m \in Modes : BeginScan(m)) \/ BeginBreaks
  BY <1>1, <1>3, BeginTyped
<1>4. CASE ScanStep
  BY <1>1, <1>4, ScanStepTyped
<1>5. CASE Preflight
  <2>1. preview' \in [Counts -> Nat] /\ UNCHANGED <<link, runs, scan>>
    BY <1>5, PreviewNumbers DEF Preflight, ScanInv, catalog
  <2> QED BY <1>1, <2>1, TablesGoOn DEF Tables, JobOK
<1>6. CASE Crash
  <2>1. scan' = Idle /\ UNCHANGED <<link, runs, preview>>
    BY <1>6 DEF Crash, catalog
  <2> QED BY <1>1, <2>1, Quiet DEF JobOK
<1>7. CASE \E l \in Ids \X Ids, d \in {"confirmed", "rejected"} : Decide(l, d)
  <2>1. PICK l \in Ids \X Ids, d \in {"confirmed", "rejected"} : Decide(l, d)
    BY <1>7
  <2>2. link' \in [Ids \X Ids -> {"none", "pending", "confirmed", "rejected"}]
    BY <2>1 DEF Decide, Tables
  <2>3. UNCHANGED <<runs, scan, preview>>
    BY <2>1 DEF Decide
  <2> QED BY <1>1, <2>2, <2>3, TablesGoOn DEF Tables, JobOK
<1>8. CASE UNCHANGED vars
  <2>1. UNCHANGED <<link, runs, preview, scan>>
    BY <1>8 DEF vars, catalog
  <2> QED BY <1>1, <2>1, Quiet DEF JobOK
<1> QED BY <1>2, <1>3, <1>4, <1>5, <1>6, <1>7, <1>8 DEF Next

(* A scan and what it leaves in the catalog are of their kinds at every step, *)
(* and every number a scan reports or a preview announces is one, for every  *)
(* interleaving of the scan with changes of the disk, failures and crashes.  *)
THEOREM ScanTypesCorrect == Spec => []TypeOK
<1>1. TypesInv => TypeOK
  <2> SUFFICES ASSUME TypesInv PROVE TypeOK
    OBVIOUS
  <2>1. scan = Idle \/ scan \in Job
    BY DEF TypesInv, JobOK
  <2>2. CASE scan = Idle
    BY <2>2 DEF TypesInv, ScanInv, RowsOK, AccessOK, DiskOK, Tables, TypeOK, Idle
  <2>3. CASE scan \in Job
    BY <2>3 DEF TypesInv, ScanInv, RowsOK, AccessOK, DiskOK, Tables, TypeOK, Job, Stages
  <2> QED BY <2>1, <2>2, <2>3
<1>2. TypesInv /\ [Next]_vars => TypesInv'
  BY TypesGoOn
<1> QED BY <1>1, <1>2, TypesBegin, PTL DEF Spec
=============================================================================
