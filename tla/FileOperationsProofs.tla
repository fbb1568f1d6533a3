------------------------ MODULE FileOperationsProofs ------------------------
(* Theorems about FileOperations, for every library and every bound.        *)
EXTENDS FileOperationsRefinement, TLAPS

-----------------------------------------------------------------------------
(* The shape of the journal and the process, which type correctness needs:  *)
(* a relocation has a target and a deletion has none, and the process only  *)
(* works on rows that exist.                                                *)
JournalShape ==
  /\ \A o \in UsedOperations : operation[o].kind \in Relocations <=> operation[o].to # Null
  /\ running # Null => running \in UsedOperations
  /\ queue \subseteq UsedOperations

TypeInv == TypeOK /\ JournalShape

(* A row is either unused or has the fields of its table. *)
LEMMA RowTypes ==
  ASSUME TypeOK
  PROVE  /\ \A o \in UsedOperations : operation[o] \in OperationRow
         /\ \A l \in UsedLocations : location[l] \in LocationRow
         /\ \A o \in PendingOperations : o \in UsedOperations
         /\ \A l \in Locations : IsCurrent(l) => l \in UsedLocations
BY DEF TypeOK, UsedOperations, UsedLocations, PendingOperations, IsPending, IsCurrent,
       Unused

(* A fresh id is not in use. *)
LEMMA NextIdFresh ==
  ASSUME NEW used, NEW i \in Nat, NextId(i, used)
  PROVE  i \notin used
BY DEF NextId

LEMMA TypeInit == Init => TypeInv
<1> SUFFICES ASSUME Init PROVE TypeInv
  OBVIOUS
<1>1. TypeOK
  <2>1. fs \in [Paths -> Contents \cup {Null}] /\ activeRoots \subseteq Roots
    BY InitialFilesAssumption DEF Init
  <2>2. /\ collection \in [Collections -> {"unused", "active", "tombstone", "soft_deleted"}]
        /\ location \in [Locations -> LocationRow \cup {Unused}]
        /\ operation \in [Operations -> OperationRow \cup {Unused}]
        /\ book \in [Collections -> Contents \cup {Null}]
    BY DEF Init
  <2>3. userSteps \in 0 .. MaxUserSteps
    BY BoundsAssumption DEF Init
  <2> QED BY <2>1, <2>2, <2>3 DEF Init, TypeOK
<1>2. JournalShape
  BY DEF Init, JournalShape, UsedOperations
<1> QED BY <1>1, <1>2 DEF TypeInv

LEMMA RequestType == TypeInv /\ Request => TypeInv'
<1> SUFFICES ASSUME TypeInv, NEW c \in Collections,
                    NEW l \in Locations, NEW kind \in Kinds, NEW to \in Paths \cup {Null},
                    kind \in Relocations <=> to # Null,
                    CurrentFor(l, c), Record(c, l, kind, to),
                    UNCHANGED <<disk, activeRoots, held, collection, location, mode, queue, user,
                                erased, book, disturbed>>
             PROVE  TypeInv'
  <2> SUFFICES ASSUME TypeInv, NEW c \in Collections,
                      \/ \E r \in Archives : BeginMove(c, r)
                      \/ \E n \in Names : BeginRename(c, n)
                      \/ \E kind \in {"soft_delete", "hard_delete"} : BeginDelete(c, kind)
               PROVE  TypeInv'
    BY DEF Request
  <2>1. CASE \E r \in Archives : BeginMove(c, r)
    <3> PICK r \in Archives : BeginMove(c, r)
      BY <2>1
    <3> PICK l \in Locations :
          /\ Operable(c, l)
          /\ Record(c, l, "move", <<r, Name(location[l].path)>>)
      BY DEF BeginMove
    <3>1. location[l].path \in Paths
      BY RowTypes DEF TypeInv, Operable, CurrentFor, LocationRow
    <3>2. <<r, Name(location[l].path)>> \in Paths
      BY <3>1 DEF Paths, Roots, Name
    <3> QED BY <3>2, NullAssumption DEF BeginMove, Operable, Kinds, Relocations
  <2>2. CASE \E n \in Names : BeginRename(c, n)
    <3> PICK n \in Names : BeginRename(c, n)
      BY <2>2
    <3> PICK l \in Locations :
          /\ Operable(c, l)
          /\ Record(c, l, "rename", <<Root(location[l].path), n>>)
      BY DEF BeginRename
    <3>1. location[l].path \in Paths
      BY RowTypes DEF TypeInv, Operable, CurrentFor, LocationRow
    <3>2. <<Root(location[l].path), n>> \in Paths
      BY <3>1 DEF Paths, Root
    <3> QED BY <3>2, NullAssumption DEF BeginRename, Operable, Kinds, Relocations
  <2>3. CASE \E kind \in {"soft_delete", "hard_delete"} : BeginDelete(c, kind)
    <3> PICK kind \in {"soft_delete", "hard_delete"} : BeginDelete(c, kind)
      BY <2>3
    <3> PICK l \in Locations : Operable(c, l) /\ Record(c, l, kind, Null)
      BY DEF BeginDelete
    <3> QED BY DEF BeginDelete, Operable, Kinds, Relocations
  <2> QED BY <2>1, <2>2, <2>3
<1> PICK o \in Operations :
      /\ NextId(o, UsedOperations)
      /\ operation' = [operation EXCEPT ![o] =
           [collection |-> c, from_location |-> l, kind |-> kind,
            from |-> location[l].path, to |-> to, status |-> "pending"]]
      /\ running' = o
      /\ phase' = "begun"
  BY DEF Record
<1> DEFINE row == [collection |-> c, from_location |-> l, kind |-> kind,
                   from |-> location[l].path, to |-> to, status |-> "pending"]
<1>1. row \in OperationRow /\ row # Unused
  <2>1. location[l].path \in Paths
    BY RowTypes DEF TypeInv, CurrentFor, LocationRow
  <2>2. row \in OperationRow
    BY <2>1 DEF OperationRow
  <2>3. row.status # Unused.status
    BY DEF Unused
  <2> QED BY <2>2, <2>3
<1>2. overlapped' \subseteq Collections /\ contested' \subseteq Collections
  BY DEF TypeInv, TypeOK, Record
<1>3. TypeOK'
  BY <1>1, <1>2 DEF TypeInv, TypeOK, disk, user
<1>4. UsedOperations' = UsedOperations \cup {o}
  BY <1>1 DEF UsedOperations, TypeInv, TypeOK
<1>5. JournalShape'
  BY <1>1, <1>4 DEF JournalShape, TypeInv, TypeOK
<1> QED BY <1>3, <1>5 DEF TypeInv

(* The row a file step works on, and what it says about its paths. *)
LEMMA RunningRow ==
  ASSUME TypeInv, running # Null
  PROVE  /\ running \in Operations
         /\ Op \in OperationRow
         /\ Op.from \in Paths
         /\ Op.kind \in Relocations => Op.to \in Paths
  <1>1. running \in UsedOperations /\ running \in Operations
    BY DEF TypeInv, JournalShape, UsedOperations
  <1>2. Op \in OperationRow
    BY <1>1, RowTypes DEF TypeInv, Op
  <1>3. Op.kind \in Relocations => Op.to # Null
    BY <1>1 DEF TypeInv, JournalShape, Op
  <1> QED BY <1>1, <1>2, <1>3 DEF OperationRow

(* Steps that leave the tables alone and the process on the row it had, or  *)
(* on none, keep the shape of the journal.                                  *)
LEMMA JournalUntouched ==
  ASSUME JournalShape, UNCHANGED operation,
         running' = running \/ running' = Null,
         queue' \subseteq queue
  PROVE  JournalShape'
BY DEF JournalShape, UsedOperations

LEMMA FileStepType == TypeInv /\ FileStep => TypeInv'
<1> SUFFICES ASSUME TypeInv, FileStep PROVE TypeInv'
  OBVIOUS
<1> USE DEF TypeInv, Goto, At, catalog, user, history, disk
<1>1. JournalShape'
  BY JournalUntouched DEF FileStep, HardLink, CopyToPartial, PublishPartial, RemovePartial,
     RemoveSource, RollBack, RollBackFails, Recycle, Erase, FileStepFails
<1>2. UNCHANGED <<activeRoots, collection, location, operation, held, mode, running, queue,
                  outside, touched, userSteps, book, overlapped, contested, disturbed>>
  BY DEF FileStep, HardLink, CopyToPartial, PublishPartial, RemovePartial,
     RemoveSource, RollBack, RollBackFails, Recycle, Erase, FileStepFails
<1>3. phase' \in {"idle", "begun", "copied", "published", "linked",
                  "applied", "failed", "failing"}
  BY DEF FileStep, HardLink, CopyToPartial, PublishPartial, RemovePartial,
     RemoveSource, RollBack, RollBackFails, Recycle, Erase, FileStepFails
<1> DEFINE DiskOK == /\ fs \in [Paths -> Contents \cup {Null}]
                     /\ partial \in Contents \cup {Null}
                     /\ recycled \subseteq Contents
                     /\ erased \subseteq Contents
<1>4. DiskOK'
  <2> USE DEF TypeOK, Exists
  <2>1. CASE HardLink
    BY <2>1, RunningRow DEF HardLink
  <2>2. CASE CopyToPartial
    BY <2>2, RunningRow DEF CopyToPartial
  <2>3. CASE PublishPartial
    BY <2>3 DEF PublishPartial
  <2>4. CASE RemovePartial
    BY <2>4 DEF RemovePartial
  <2>5. CASE RemoveSource
    BY <2>5 DEF RemoveSource
  <2>6. CASE RollBack
    BY <2>6 DEF RollBack
  <2>7. CASE RollBackFails
    BY <2>7 DEF RollBackFails
  <2>8. CASE Recycle
    BY <2>8, RunningRow DEF Recycle
  <2>9. CASE Erase
    BY <2>9, RunningRow DEF Erase
  <2>10. CASE FileStepFails
    BY <2>10 DEF FileStepFails
  <2> QED BY <2>1, <2>2, <2>3, <2>4, <2>5, <2>6, <2>7, <2>8, <2>9, <2>10 DEF FileStep
<1> QED BY <1>1, <1>2, <1>3, <1>4 DEF TypeOK

(* Recording an outcome changes the status of one existing row. *)
LEMMA SettleType ==
  ASSUME TypeInv, running # Null, NEW result \in {"succeeded", "failed"},
         Settle(running, result), Stop
  PROVE  /\ operation' \in [Operations -> OperationRow \cup {Unused}]
         /\ JournalShape'
<1> DEFINE row == [Op EXCEPT !.status = result]
<1>1. /\ running \in UsedOperations
      /\ Op \in OperationRow
      /\ operation' = [operation EXCEPT ![running] = row]
  BY RunningRow DEF TypeInv, JournalShape, Settle, Op
<1>2. /\ row \in OperationRow
      /\ row.kind = Op.kind /\ row.to = Op.to
      /\ row.status # Unused.status
  BY <1>1 DEF OperationRow, Unused
<1>3. operation' \in [Operations -> OperationRow \cup {Unused}]
  BY <1>1, <1>2 DEF TypeInv, TypeOK
<1>4. UsedOperations' = UsedOperations
  BY <1>1, <1>2 DEF UsedOperations, TypeInv, TypeOK
<1>5. JournalShape'
  BY <1>1, <1>2, <1>4 DEF JournalShape, TypeInv, TypeOK, Stop, Op, UsedOperations
<1> QED BY <1>3, <1>5

LEMMA HardDeleteType == TypeInv /\ CompleteHardDelete => TypeInv'
<1> SUFFICES ASSUME TypeInv, CompleteHardDelete PROVE TypeInv'
  OBVIOUS
<1> DEFINE c == Op.collection
           Row(o) == [operation[o] EXCEPT
             !.collection = IF @ = c THEN Null ELSE @,
             !.from_location = IF @ # Null /\ Gone(@, c) THEN Null ELSE @,
             !.status = IF o = running THEN "succeeded" ELSE @]
<1>0. /\ running # Null
      /\ UNCHANGED <<disk, activeRoots, held, user, erased, overlapped, contested, disturbed>>
      /\ phase' = "idle" /\ running' = Null /\ UNCHANGED <<mode, queue>>
      /\ c \in Collections
      /\ collection' = [collection EXCEPT ![c] = "unused"]
      /\ location' = [l \in Locations |-> IF Gone(l, c) THEN Unused ELSE location[l]]
      /\ operation' = [o \in Operations |->
           IF operation[o] = Unused THEN Unused ELSE Row(o)]
      /\ book' = [book EXCEPT ![c] = Null]
  BY RunningRow DEF CompleteHardDelete, JournalWithout, At, Stop, HardDeletionAllowed,
     OperationRow, Op
<1>1. ASSUME NEW o \in UsedOperations
      PROVE  /\ Row(o) \in OperationRow
             /\ Row(o).kind = operation[o].kind /\ Row(o).to = operation[o].to
             /\ Row(o).status # Unused.status
  <2>1. operation[o] \in OperationRow
    BY RowTypes DEF TypeInv
  <2> HIDE DEF c
  <2> QED BY <2>1 DEF OperationRow, Unused
<1> HIDE DEF Row
<1>2. operation' \in [Operations -> OperationRow \cup {Unused}]
  BY <1>0, <1>1 DEF UsedOperations
<1>3. location' \in [Locations -> LocationRow \cup {Unused}]
  BY <1>0 DEF TypeInv, TypeOK
<1>4. TypeOK'
  BY <1>0, <1>2, <1>3 DEF TypeInv, TypeOK, disk, user
<1>5. UsedOperations' = UsedOperations
  BY <1>0, <1>1 DEF UsedOperations
<1>6. \A o \in UsedOperations : operation'[o] = Row(o)
  BY <1>0 DEF UsedOperations
<1>7. JournalShape'
  BY <1>0, <1>1, <1>5, <1>6 DEF JournalShape, TypeInv
<1> QED BY <1>4, <1>7 DEF TypeInv

LEMMA OutcomeType == TypeInv /\ Outcome => TypeInv'
<1> SUFFICES ASSUME TypeInv, Outcome PROVE TypeInv'
  OBVIOUS
<1> USE DEF Goto, At, catalog, user, history, disk
<1>1. CASE FailureIsCertain \/ FailureIsAmbiguous \/ CompletionRefused \/ StorageError
  <2>1. JournalShape'
    BY <1>1, JournalUntouched DEF TypeInv, FailureIsCertain, FailureIsAmbiguous,
       CompletionRefused, StorageError, Stop
  <2>2. TypeOK'
    BY <1>1 DEF TypeInv, TypeOK, FailureIsCertain, FailureIsAmbiguous, CompletionRefused,
       StorageError, Stop
  <2> QED BY <2>1, <2>2 DEF TypeInv
<1>2. CASE RecordFailure
  BY <1>2, SettleType DEF RecordFailure, TypeInv, TypeOK, Stop
<1>3. CASE CompleteRelocation
  <2> PICK l \in Locations :
        location' = [location EXCEPT
            ![Op.from_location].status = "moved",
            ![l] = [collection |-> Op.collection, path |-> Op.to, status |-> "current"]]
    BY <1>3 DEF CompleteRelocation
  <2>1. /\ Op.collection \in Collections /\ Op.to \in Paths
        /\ Op.from_location \in UsedLocations
    BY <1>3, RunningRow, RowTypes DEF CompleteRelocation, RelocationAllowed, OperationRow, Op,
       TypeInv, CurrentFor, UsedLocations
  <2>2. [location[Op.from_location] EXCEPT !.status = "moved"] \in LocationRow
    BY <2>1, RowTypes DEF LocationRow, TypeInv
  <2>3. [collection |-> Op.collection, path |-> Op.to, status |-> "current"] \in LocationRow
    BY <2>1 DEF LocationRow
  <2>4. location' \in [Locations -> LocationRow \cup {Unused}]
    BY <2>2, <2>3 DEF TypeInv, TypeOK
  <2>5. collection' \in [Collections -> {"unused", "active", "tombstone", "soft_deleted"}]
    BY <1>3 DEF CompleteRelocation, TypeInv, TypeOK
  <2> QED BY <1>3, <2>4, <2>5, SettleType DEF CompleteRelocation, TypeInv, TypeOK, Stop
<1>4. CASE CompleteSoftDelete
  <2>1. Op.from_location \in UsedLocations
    BY <1>4, RunningRow, RowTypes DEF CompleteSoftDelete, SoftDeletionAllowed, OperationRow, Op,
       TypeInv, CurrentFor, UsedLocations
  <2>2. [location[Op.from_location] EXCEPT !.status = "deleted"] \in LocationRow
    BY <2>1, RowTypes DEF LocationRow, TypeInv
  <2>3. location' \in [Locations -> LocationRow \cup {Unused}]
    BY <1>4, <2>2 DEF CompleteSoftDelete, TypeInv, TypeOK
  <2>4. collection' \in [Collections -> {"unused", "active", "tombstone", "soft_deleted"}]
    BY <1>4 DEF CompleteSoftDelete, TypeInv, TypeOK
  <2> QED BY <1>4, <2>3, <2>4, SettleType DEF CompleteSoftDelete, TypeInv, TypeOK, Stop
<1>5. CASE CompleteHardDelete
  BY <1>5, HardDeleteType
<1> QED BY <1>1, <1>2, <1>3, <1>4, <1>5 DEF Outcome

(* Crash, restart and the steps of the recovery. *)
LEMMA RecoveryType == TypeInv /\ (Crash \/ Restart \/ RestartRefused \/ Recovery) => TypeInv'
<1> SUFFICES ASSUME TypeInv, Crash \/ Restart \/ RestartRefused \/ Recovery PROVE TypeInv'
  OBVIOUS
<1> USE DEF catalog, user, history, disk
<1>1. CASE Crash
  <2>1. JournalShape'
    BY <1>1, JournalUntouched DEF TypeInv, Crash
  <2> QED BY <1>1, <2>1 DEF TypeInv, TypeOK, Crash
<1>2. CASE Restart
  <2>1. PendingOperations \subseteq UsedOperations
    BY RowTypes DEF TypeInv
  <2>2. JournalShape'
    BY <1>2, <2>1 DEF TypeInv, JournalShape, UsedOperations, Restart
  <2> QED BY <1>2, <2>1, <2>2 DEF TypeInv, TypeOK, Restart, UsedOperations
<1>3. CASE RestartRefused
  <2>1. JournalShape'
    BY <1>3, JournalUntouched DEF TypeInv, RestartRefused
  <2> QED BY <1>3, <2>1 DEF TypeInv, TypeOK, RestartRefused
<1>4. ASSUME NEW o \in Operations, NEW ph \in {"applied", "failing", "idle"}, Visit(o, ph)
      PROVE  TypeInv'
  <2>1. o \in UsedOperations
    BY <1>4 DEF TypeInv, JournalShape, Visit, NextInQueue
  <2>2. JournalShape'
    BY <1>4, <2>1 DEF TypeInv, JournalShape, UsedOperations, Visit
  <2> QED BY <1>4, <2>2 DEF TypeInv, TypeOK, Visit
<1>5. CASE FinishRecovery
  <2>1. JournalShape'
    BY <1>5, JournalUntouched DEF TypeInv, FinishRecovery
  <2> QED BY <1>5, <2>1 DEF TypeInv, TypeOK, FinishRecovery
<1> QED BY <1>1, <1>2, <1>3, <1>4, <1>5
      DEF Recovery, RecoverApplied, RecoverUnapplied, RecoverAmbiguous

(* The scan and the root settings. *)
LEMMA OtherWriterType == TypeInv /\ OtherWriter => TypeInv'
<1> SUFFICES ASSUME TypeInv, OtherWriter PROVE TypeInv'
  OBVIOUS
<1> USE DEF process, user, history, disk
<1>1. JournalShape'
  BY JournalUntouched DEF TypeInv, OtherWriter, ScanIngests, ScanMarksMissing, SetRootActive,
     OtherTableHolds
<1>2. ASSUME NEW p \in Paths, ScanIngests(p) PROVE TypeOK'
  <2> PICK c \in Collections, l \in Locations :
       /\ collection' = [collection EXCEPT ![c] = "active"]
       /\ location' = [location EXCEPT
            ![l] = [collection |-> c, path |-> p, status |-> "current"]]
       /\ book' = [book EXCEPT ![c] = fs[p]]
    BY <1>2 DEF ScanIngests
  <2>1. [collection |-> c, path |-> p, status |-> "current"] \in LocationRow
    BY DEF LocationRow
  <2>2. location' \in [Locations -> LocationRow \cup {Unused}]
    BY <2>1 DEF TypeInv, TypeOK
  <2> QED BY <1>2, <2>2 DEF TypeInv, TypeOK, ScanIngests
<1>3. ASSUME NEW c \in Collections, ScanMarksMissing(c) PROVE TypeOK'
  <2> PICK l \in Locations :
        CurrentFor(l, c) /\ location' = [location EXCEPT ![l].status = "missing"]
    BY <1>3 DEF ScanMarksMissing
  <2>1. [location[l] EXCEPT !.status = "missing"] \in LocationRow
    BY RowTypes DEF LocationRow, TypeInv, CurrentFor
  <2>2. location' \in [Locations -> LocationRow \cup {Unused}]
    BY <2>1 DEF TypeInv, TypeOK
  <2> QED BY <1>3, <2>2 DEF TypeInv, TypeOK, ScanMarksMissing
<1>4. ASSUME NEW r \in Switchable, NEW on \in BOOLEAN, SetRootActive(r, on) PROVE TypeOK'
  BY <1>4, RootKindsAssumption DEF TypeInv, TypeOK, SetRootActive
<1>5. ASSUME NEW c \in Collections, OtherTableHolds(c) PROVE TypeOK'
  BY <1>5 DEF TypeInv, TypeOK, OtherTableHolds
<1> QED BY <1>1, <1>2, <1>3, <1>4, <1>5 DEF TypeInv, OtherWriter

(* The user. *)
LEMMA UserType == TypeInv /\ User => TypeInv'
<1> SUFFICES ASSUME TypeInv, User PROVE TypeInv'
  OBVIOUS
<1> USE DEF catalog, process, history, UserStep
<1>1. JournalShape'
  BY JournalUntouched DEF TypeInv, User, UserMoves, UserTakes, UserReturns
<1>2. userSteps' \in 0 .. MaxUserSteps
  BY BoundsAssumption DEF TypeInv, TypeOK, User, UserMoves, UserTakes, UserReturns
<1>3. ASSUME NEW p \in Paths, Exists(p)
      PROVE  fs[p] \in Contents
  BY <1>3 DEF TypeInv, TypeOK, Exists
<1>4. ASSUME NEW p \in Paths, NEW q \in Paths, UserMoves(p, q) PROVE TypeOK'
  BY <1>2, <1>3, <1>4 DEF TypeInv, TypeOK, UserMoves
<1>5. ASSUME NEW p \in Paths, UserTakes(p) PROVE TypeOK'
  BY <1>2, <1>3, <1>5 DEF TypeInv, TypeOK, UserTakes
<1>6. ASSUME NEW p \in Paths, NEW x \in Contents, UserReturns(x, p) PROVE TypeOK'
  BY <1>2, <1>6 DEF TypeInv, TypeOK, UserReturns
<1> QED BY <1>1, <1>4, <1>5, <1>6 DEF TypeInv, User

LEMMA TypeStep == TypeInv /\ [Next]_vars => TypeInv'
<1> SUFFICES ASSUME TypeInv, [Next]_vars PROVE TypeInv'
  OBVIOUS
<1>1. CASE UNCHANGED vars
  <2>1. JournalShape'
    BY <1>1, JournalUntouched DEF TypeInv, vars, catalog, process
  <2> QED BY <1>1, <2>1 DEF TypeInv, TypeOK, vars, disk, catalog, process, user, history
<1> QED BY <1>1, RequestType, FileStepType, OutcomeType, RecoveryType, OtherWriterType,
           UserType DEF Next

(* Every variable keeps its type. *)
THEOREM TypeCorrect == Spec => []TypeOK
<1>1. Spec => []TypeInv
  BY TypeInit, TypeStep, PTL DEF Spec
<1> QED BY <1>1, PTL DEF TypeInv

-----------------------------------------------------------------------------
(* The two promises about current locations are inductive together: what    *)
(* the one says of a collection, the other needs when its row changes.      *)
CurrentInv == CurrentLocationsUnique /\ ActiveHasLocation

LEMMA CurrentInit == Init => CurrentInv
BY DEF Init, CurrentInv, CurrentLocationsUnique, ActiveHasLocation, IsCurrent, CurrentFor, Unused

(* Only five actions write the two tables. *)
LEMMA CatalogWriters ==
  ASSUME [Next]_vars
  PROVE  \/ UNCHANGED <<collection, location>>
         \/ CompleteRelocation \/ CompleteSoftDelete \/ CompleteHardDelete
         \/ \E p \in Paths : ScanIngests(p)
         \/ \E c \in Collections : ScanMarksMissing(c)
<1> USE DEF catalog
<1>1. CASE UNCHANGED vars
  BY <1>1 DEF vars
<1>2. CASE Request
  BY <1>2 DEF Request, BeginMove, BeginRename, BeginDelete
<1>3. CASE FileStep
  BY <1>3 DEF FileStep, HardLink, CopyToPartial, PublishPartial, RemovePartial, RemoveSource,
     RollBack, RollBackFails, Recycle, Erase, FileStepFails
<1>4. CASE Outcome
  BY <1>4 DEF Outcome, FailureIsCertain, FailureIsAmbiguous, RecordFailure, CompletionRefused,
     StorageError
<1>5. CASE Crash \/ Restart \/ RestartRefused \/ Recovery
  BY <1>5 DEF Crash, Restart, RestartRefused, Recovery, RecoverApplied, RecoverUnapplied,
     RecoverAmbiguous, Visit, FinishRecovery
<1>6. CASE OtherWriter
  BY <1>6 DEF OtherWriter, SetRootActive, OtherTableHolds
<1>7. CASE User
  BY <1>7 DEF User, UserMoves, UserTakes, UserReturns, UserStep
<1> QED BY <1>1, <1>2, <1>3, <1>4, <1>5, <1>6, <1>7 DEF Next

(* A current location of c leaves this state, and c with it. *)
LEMMA LocationRetired ==
  ASSUME TypeInv, CurrentInv, NEW c \in Collections, NEW l \in Locations, CurrentFor(l, c),
         NEW ls \in {"deleted", "missing"}, NEW cs \in {"soft_deleted", "tombstone"},
         location' = [location EXCEPT ![l].status = ls],
         collection' = [collection EXCEPT ![c] = cs]
  PROVE  CurrentInv'
<1>1. \A k \in Locations \ {l} : location'[k] = location[k]
  BY DEF TypeInv, TypeOK
<1>2. location'[l].status = ls
  BY RowTypes DEF TypeInv, TypeOK, CurrentFor, LocationRow
<1>3. \A k \in Locations : IsCurrent(k)' => k # l /\ location'[k] = location[k]
  BY <1>1, <1>2 DEF IsCurrent
<1>4. CurrentLocationsUnique'
  BY <1>3 DEF CurrentInv, CurrentLocationsUnique, IsCurrent
<1>5. ASSUME NEW d \in Collections
      PROVE  (collection[d] = "active" <=> \E k \in Locations : CurrentFor(k, d))'
  <2>1. CASE d = c
    <3>1. collection'[d] # "active"
      BY <2>1 DEF TypeInv, TypeOK
    <3>2. \A k \in Locations : ~CurrentFor(k, d)'
      BY <2>1, <1>3 DEF CurrentInv, CurrentLocationsUnique, CurrentFor, IsCurrent
    <3> QED BY <3>1, <3>2
  <2>2. CASE d # c
    <3>1. collection'[d] = collection[d]
      BY <2>2 DEF TypeInv, TypeOK
    <3>2. \A k \in Locations : CurrentFor(k, d)' <=> CurrentFor(k, d)
      BY <2>2, <1>1, <1>3 DEF CurrentFor, IsCurrent
    <3> QED BY <3>1, <3>2 DEF CurrentInv, ActiveHasLocation
  <2> QED BY <2>1, <2>2
<1> QED BY <1>4, <1>5 DEF CurrentInv, ActiveHasLocation

LEMMA CurrentStep == TypeInv /\ CurrentInv /\ [Next]_vars => CurrentInv'
<1> SUFFICES ASSUME TypeInv, CurrentInv, [Next]_vars PROVE CurrentInv'
  OBVIOUS
<1>1. CASE UNCHANGED <<collection, location>>
  BY <1>1 DEF CurrentInv, CurrentLocationsUnique, ActiveHasLocation, IsCurrent, CurrentFor
<1>2. CASE CompleteRelocation
  <2> PICK c \in Collections, k \in Locations, to \in Paths :
        /\ c = Op.collection /\ k = Op.from_location /\ to = Op.to
        /\ CurrentFor(k, c)
        /\ \A d \in Collections \ {c} : ~IndexedAt(to, d)
    BY <1>2, RunningRow DEF CompleteRelocation, RelocationAllowed, Op, OperationRow, At
  <2> PICK l \in Locations :
        /\ NextId(l, UsedLocations)
        /\ location' = [location EXCEPT
             ![k].status = "moved",
             ![l] = [collection |-> c, path |-> to, status |-> "current"]]
    BY <1>2 DEF CompleteRelocation
  <2>1. l \notin UsedLocations /\ k # l
    BY NextIdFresh, RowTypes DEF Locations, CurrentFor, TypeInv
  <2>2. \A j \in Locations \ {k, l} : location'[j] = location[j]
    BY DEF TypeInv, TypeOK
  <2>3. location'[k].status = "moved"
    BY <2>1, RowTypes DEF TypeInv, TypeOK, CurrentFor, LocationRow
  <2>4. location'[l] = [collection |-> c, path |-> to, status |-> "current"]
    BY <2>1 DEF TypeInv, TypeOK
  <2>5. \A j \in Locations :
          IsCurrent(j)' => j = l \/ (j # k /\ IsCurrent(j) /\ location'[j] = location[j])
    BY <2>2, <2>3 DEF IsCurrent
  <2>6. \A j \in Locations \ {k} : IsCurrent(j) =>
          location[j].path # to /\ location[j].collection # c
    <3> SUFFICES ASSUME NEW j \in Locations \ {k}, IsCurrent(j)
                 PROVE  location[j].path # to /\ location[j].collection # c
      OBVIOUS
    <3>1. location[j].collection # c
      BY DEF CurrentInv, CurrentLocationsUnique, CurrentFor
    <3>2. location[j].collection \in Collections
      BY RowTypes DEF TypeInv, LocationRow
    <3> QED BY <3>1, <3>2 DEF IndexedAt, CurrentFor
  <2>7. CurrentLocationsUnique'
    <3> SUFFICES ASSUME NEW i \in Locations, NEW j \in Locations,
                        IsCurrent(i)', IsCurrent(j)', i # j
                 PROVE  /\ location'[i].path # location'[j].path
                        /\ location'[i].collection # location'[j].collection
      BY DEF CurrentLocationsUnique
    <3>1. /\ i = l \/ (i # k /\ IsCurrent(i) /\ location'[i] = location[i])
          /\ j = l \/ (j # k /\ IsCurrent(j) /\ location'[j] = location[j])
      BY <2>5
    <3>2. location'[l].path = to /\ location'[l].collection = c
      BY <2>4
    <3>3. CASE i = l
      BY <2>6, <3>1, <3>2, <3>3
    <3>4. CASE j = l
      BY <2>6, <3>1, <3>2, <3>4
    <3>5. CASE i # l /\ j # l
      BY <3>1, <3>5 DEF CurrentInv, CurrentLocationsUnique
    <3> QED BY <3>3, <3>4, <3>5
  <2>8. ASSUME NEW d \in Collections
        PROVE  (collection[d] = "active" <=> \E j \in Locations : CurrentFor(j, d))'
    <3>1. collection[c] = "active"
      BY DEF CurrentInv, ActiveHasLocation
    <3>2. collection'[d] = collection[d]
      BY <1>2, <3>1 DEF CompleteRelocation, TypeInv, TypeOK
    <3>3. CASE d = c
      <4>1. CurrentFor(l, d)'
        BY <2>4, <3>3 DEF CurrentFor, IsCurrent
      <4> QED BY <4>1, <3>1, <3>2, <3>3
    <3>4. CASE d # c
      <4>1. l \notin UsedLocations => ~CurrentFor(l, d)
        BY RowTypes DEF TypeInv, CurrentFor
      <4>2. ~CurrentFor(l, d) /\ ~CurrentFor(l, d)'
        BY <2>1, <2>4, <3>4, <4>1 DEF CurrentFor
      <4>3. ~CurrentFor(k, d) /\ ~CurrentFor(k, d)'
        BY <2>3, <3>4 DEF CurrentFor, IsCurrent
      <4>4. \A j \in Locations \ {k, l} : CurrentFor(j, d)' <=> CurrentFor(j, d)
        BY <2>2 DEF CurrentFor, IsCurrent
      <4>5. \A j \in Locations : CurrentFor(j, d)' <=> CurrentFor(j, d)
        BY <4>2, <4>3, <4>4
      <4> QED BY <3>2, <4>5 DEF CurrentInv, ActiveHasLocation
    <3> QED BY <3>3, <3>4
  <2> QED BY <2>7, <2>8 DEF CurrentInv, ActiveHasLocation
<1>3. CASE CompleteSoftDelete
  <2>1. /\ Op.collection \in Collections /\ Op.from_location \in Locations
        /\ CurrentFor(Op.from_location, Op.collection)
    BY <1>3, RunningRow DEF CompleteSoftDelete, SoftDeletionAllowed, Op, OperationRow, At
  <2> QED BY <1>3, <2>1, LocationRetired DEF CompleteSoftDelete
<1>4. CASE CompleteHardDelete
  <2> DEFINE c == Op.collection
  <2>1. /\ c \in Collections
        /\ collection' = [collection EXCEPT ![c] = "unused"]
        /\ \A l \in Locations : location'[l] =
             IF location[l] # Unused /\ location[l].collection = c THEN Unused ELSE location[l]
    BY <1>4, RunningRow DEF CompleteHardDelete, HardDeletionAllowed, Gone, Op, OperationRow, At
  <2> HIDE DEF c
  <2>2. \A l \in Locations, d \in Collections :
          CurrentFor(l, d)' <=> (d # c /\ CurrentFor(l, d))
    BY <2>1 DEF CurrentFor, IsCurrent, Unused
  <2>3. \A l \in Locations : IsCurrent(l)' => IsCurrent(l) /\ location'[l] = location[l]
    BY <2>1 DEF IsCurrent, Unused
  <2>4. CurrentLocationsUnique'
    BY <2>3 DEF CurrentInv, CurrentLocationsUnique
  <2>5. ActiveHasLocation'
    BY <2>1, <2>2 DEF CurrentInv, ActiveHasLocation, TypeInv, TypeOK
  <2> QED BY <2>4, <2>5 DEF CurrentInv
<1>5. ASSUME NEW p \in Paths, ScanIngests(p) PROVE CurrentInv'
  <2> PICK c \in Collections, l \in Locations :
       /\ NextId(c, UsedCollections)
       /\ NextId(l, UsedLocations)
       /\ collection' = [collection EXCEPT ![c] = "active"]
       /\ location' = [location EXCEPT
            ![l] = [collection |-> c, path |-> p, status |-> "current"]]
    BY <1>5 DEF ScanIngests
  <2>1. c \notin UsedCollections /\ l \notin UsedLocations
    BY NextIdFresh DEF Collections, Locations
  <2>2. ~IsCurrent(l)
    BY <2>1, RowTypes DEF TypeInv
  <2>3. \A j \in Locations : ~CurrentFor(j, c)
    BY <2>1 DEF UsedCollections, CurrentInv, ActiveHasLocation
  <2>4. \A j \in Locations : IsCurrent(j) =>
          location[j].path # p /\ location[j].collection # c
    <3>1. \A j \in Locations : IsCurrent(j) => location[j].collection \in Collections
      BY RowTypes DEF TypeInv, LocationRow
    <3> QED BY <1>5, <2>3, <3>1 DEF ScanIngests, IndexedAt, CurrentFor
  <2>5. /\ \A j \in Locations \ {l} : location'[j] = location[j]
        /\ location'[l] = [collection |-> c, path |-> p, status |-> "current"]
        /\ \A d \in Collections \ {c} : collection'[d] = collection[d]
        /\ collection'[c] = "active"
    BY DEF TypeInv, TypeOK
  <2>6. CurrentLocationsUnique'
    BY <2>4, <2>5 DEF CurrentInv, CurrentLocationsUnique, IsCurrent
  <2>7. CurrentFor(l, c)'
    BY <2>5 DEF CurrentFor, IsCurrent
  <2>8. \A d \in Collections \ {c}, j \in Locations : CurrentFor(j, d)' <=> CurrentFor(j, d)
    BY <2>2, <2>5 DEF CurrentFor, IsCurrent
  <2>9. ActiveHasLocation'
    BY <2>5, <2>7, <2>8 DEF CurrentInv, ActiveHasLocation
  <2> QED BY <2>6, <2>9 DEF CurrentInv
<1>6. ASSUME NEW c \in Collections, ScanMarksMissing(c) PROVE CurrentInv'
  BY <1>6, LocationRetired DEF ScanMarksMissing
<1> QED BY <1>1, <1>2, <1>3, <1>4, <1>5, <1>6, CatalogWriters

LEMMA CurrentAlways == Spec => [](TypeInv /\ CurrentInv)
BY TypeInit, TypeStep, CurrentInit, CurrentStep, PTL DEF Spec

(* The unique indexes on collection_locations are never hit: every writer   *)
(* checks enough before it inserts.                                         *)
THEOREM CurrentPathsNeverClash == Spec => []CurrentLocationsUnique
BY CurrentAlways, PTL DEF CurrentInv

(* The status of a collection and its current location never part.          *)
THEOREM StatusFollowsLocation == Spec => []ActiveHasLocation
BY CurrentAlways, PTL DEF CurrentInv

-----------------------------------------------------------------------------
(* As long as nobody overlaps operations, the pending rows belong to        *)
(* different collections, and a hard delete clears no row but its own.      *)
PendingApart ==
  overlapped = {} =>
    /\ \A o \in PendingOperations : operation[o].collection # Null
    /\ \A o, p \in PendingOperations :
         o # p => operation[o].collection # operation[p].collection

LEMMA PendingInit == Init => PendingApart
BY DEF Init, PendingApart, PendingOperations, IsPending, Unused

(* Only requests and outcomes write the journal. *)
LEMMA JournalWriters ==
  ASSUME [Next]_vars
  PROVE  \/ UNCHANGED <<operation, overlapped>>
         \/ Request
         \/ RecordFailure \/ CompleteRelocation \/ CompleteSoftDelete \/ CompleteHardDelete
<1> USE DEF catalog, history
<1>1. CASE UNCHANGED vars
  BY <1>1 DEF vars
<1>2. CASE FileStep
  BY <1>2 DEF FileStep, HardLink, CopyToPartial, PublishPartial, RemovePartial, RemoveSource,
     RollBack, RollBackFails, Recycle, Erase, FileStepFails
<1>3. CASE Outcome
  BY <1>3 DEF Outcome, FailureIsCertain, FailureIsAmbiguous, CompletionRefused, StorageError
<1>4. CASE Crash \/ Restart \/ RestartRefused \/ Recovery
  BY <1>4 DEF Crash, Restart, RestartRefused, Recovery, RecoverApplied, RecoverUnapplied,
     RecoverAmbiguous, Visit, FinishRecovery
<1>5. CASE OtherWriter
  BY <1>5 DEF OtherWriter, ScanIngests, ScanMarksMissing, SetRootActive,
     OtherTableHolds
<1>6. CASE User
  BY <1>6 DEF User, UserMoves, UserTakes, UserReturns, UserStep
<1> QED BY <1>1, <1>2, <1>3, <1>4, <1>5, <1>6 DEF Next

LEMMA PendingStep == TypeInv /\ PendingApart /\ [Next]_vars => PendingApart'
<1> SUFFICES ASSUME TypeInv, PendingApart, [Next]_vars, overlapped' = {}
             PROVE  /\ \A o \in PendingOperations' : operation'[o].collection # Null
                    /\ \A o, p \in PendingOperations' :
                         o # p => operation'[o].collection # operation'[p].collection
  BY DEF PendingApart
<1>1. CASE UNCHANGED <<operation, overlapped>>
  BY <1>1 DEF PendingApart, PendingOperations, IsPending
<1>2. CASE Request
  <2> PICK c \in Collections, l \in Locations : \E kind, to : Record(c, l, kind, to)
    BY <1>2 DEF Request, BeginMove, BeginRename, BeginDelete
  <2> PICK kind, to : Record(c, l, kind, to)
    OBVIOUS
  <2> PICK o \in Operations :
        /\ NextId(o, UsedOperations)
        /\ operation' = [operation EXCEPT ![o] =
             [collection |-> c, from_location |-> l, kind |-> kind,
              from |-> location[l].path, to |-> to, status |-> "pending"]]
    BY DEF Record
  <2>1. overlapped = {} /\ \A p \in PendingOperations : operation[p].collection # c
    BY DEF Record
  <2>2. operation'[o].collection = c /\ c # Null
    BY BoundsAssumption, NullAssumption DEF TypeInv, TypeOK, Collections
  <2>3. \A p \in Operations \ {o} : operation'[p] = operation[p]
    BY DEF TypeInv, TypeOK
  <2>4. \A p \in PendingOperations' : p # o => p \in PendingOperations
    BY <2>3 DEF PendingOperations, IsPending
  <2> QED BY <2>1, <2>2, <2>3, <2>4 DEF PendingApart, PendingOperations
<1>3. ASSUME NEW result \in {"succeeded", "failed"}, Settle(running, result),
             running # Null, UNCHANGED overlapped
      PROVE  /\ \A o \in PendingOperations' :
                  o \in PendingOperations /\ operation'[o] = operation[o]
             /\ overlapped = {}
  <2>1. \A o \in Operations \ {running} : operation'[o] = operation[o]
    BY <1>3 DEF Settle, TypeInv, TypeOK
  <2>2. operation'[running].status = result
    BY <1>3, RunningRow DEF Settle, TypeInv, TypeOK, Op, OperationRow
  <2> QED BY <1>3, <2>1, <2>2 DEF PendingOperations, IsPending
<1>4. CASE RecordFailure \/ CompleteRelocation \/ CompleteSoftDelete
  <2>1. /\ running # Null /\ UNCHANGED overlapped
        /\ \E result \in {"succeeded", "failed"} : Settle(running, result)
    BY <1>4 DEF RecordFailure, CompleteRelocation, CompleteSoftDelete, At, history
  <2> QED BY <1>3, <2>1 DEF PendingApart
<1>5. CASE CompleteHardDelete
  <2> PICK c : c = Op.collection
    OBVIOUS
  <2>1. /\ overlapped = {} /\ running \in PendingOperations
        /\ \A o \in Operations : operation[o] = Unused => operation'[o] = Unused
        /\ \A o \in UsedOperations :
             /\ operation'[o].status = IF o = running THEN "succeeded" ELSE operation[o].status
             /\ operation'[o].collection =
                  IF operation[o].collection = c THEN Null ELSE operation[o].collection
    <3>1. \A o \in UsedOperations : operation[o] \in OperationRow
      BY RowTypes DEF TypeInv
    <3>2. running \in PendingOperations /\ overlapped = {}
      BY <1>5, RunningRow DEF CompleteHardDelete, At, PendingOperations
    <3>3. \A o \in Operations : operation[o] = Unused => operation'[o] = Unused
      BY <1>5 DEF CompleteHardDelete, JournalWithout
    <3> QED BY ZenonT(60), <1>5, <3>1, <3>2, <3>3 DEF CompleteHardDelete, JournalWithout, OperationRow, UsedOperations
  <2>2. \A o \in PendingOperations' : o \in PendingOperations \ {running}
    BY <2>1 DEF PendingOperations, IsPending, UsedOperations, Unused
  <2>3. \A o \in PendingOperations \ {running} :
          o \in UsedOperations /\ operation[o].collection # c
    BY <2>1, RowTypes DEF PendingApart, TypeInv, Op
  <2> QED BY <2>1, <2>2, <2>3 DEF PendingApart
<1> QED BY <1>1, <1>2, <1>4, <1>5, JournalWriters

(* A start can always read the journal, unless a collection was given an    *)
(* operation while an earlier one was still pending.                        *)
THEOREM JournalStaysReadable == Spec => []OnlyOverlapBreaksTheJournal
<1>1. Spec => [](TypeInv /\ PendingApart)
  BY TypeInit, TypeStep, PendingInit, PendingStep, PTL DEF Spec
<1>2. PendingApart => OnlyOverlapBreaksTheJournal
  BY DEF PendingApart, OnlyOverlapBreaksTheJournal, JournalReadable
<1> QED BY <1>1, <1>2, PTL

-----------------------------------------------------------------------------
(* While a relocation has the file at two places, both hold the same bytes  *)
(* unless the user handled both.  The relation survives each step of the    *)
(* user, because a changed place held, and now holds, bytes he handled.     *)
SameBytes(u, v) == u = v \/ {u, v} \subseteq touched \cup {Null}

CopyFaithful ==
  /\ phase \in {"copied", "published", "linked"} =>
       running # Null /\ Op.kind \in Relocations /\ Op.from # Op.to
  /\ phase \in {"copied", "published"} => SameBytes(partial, fs[Op.from])
  /\ phase = "published" => SameBytes(partial, fs[Op.to])
  /\ phase = "linked" => SameBytes(fs[Op.from], fs[Op.to])

LEMMA CopyInit == Init => CopyFaithful
BY DEF Init, CopyFaithful

(* What a step of the user does to the disk. *)
LEMMA UserKeepsBytes ==
  ASSUME TypeInv, User
  PROVE  /\ touched \subseteq touched'
         /\ \A p \in Paths : fs'[p] = fs[p] \/ {fs[p], fs'[p]} \subseteq touched' \cup {Null}
         /\ UNCHANGED <<partial, catalog, process, history>>
<1>1. ASSUME NEW p \in Paths, NEW q \in Paths, UserMoves(p, q)
      PROVE  \A r \in Paths : fs'[r] = fs[r] \/ {fs[r], fs'[r]} \subseteq touched' \cup {Null}
  BY <1>1 DEF UserMoves, UserStep, TypeInv, TypeOK, Exists
<1>2. ASSUME NEW p \in Paths, UserTakes(p)
      PROVE  \A r \in Paths : fs'[r] = fs[r] \/ {fs[r], fs'[r]} \subseteq touched' \cup {Null}
  BY <1>2 DEF UserTakes, UserStep, TypeInv, TypeOK
<1>3. ASSUME NEW p \in Paths, NEW x \in Contents, UserReturns(x, p)
      PROVE  \A r \in Paths : fs'[r] = fs[r] \/ {fs[r], fs'[r]} \subseteq touched' \cup {Null}
  BY <1>3 DEF UserReturns, UserStep, TypeInv, TypeOK, Exists
<1>4. touched \subseteq touched' /\ UNCHANGED <<partial, catalog, process, history>>
  BY DEF User, UserMoves, UserTakes, UserReturns, UserStep
<1> QED BY <1>1, <1>2, <1>3, <1>4 DEF User

LEMMA CopyStep == TypeInv /\ CopyFaithful /\ [Next]_vars => CopyFaithful'
<1> SUFFICES ASSUME TypeInv, CopyFaithful, [Next]_vars PROVE CopyFaithful'
  OBVIOUS
<1> DEFINE Copying == phase \in {"copied", "published", "linked"}
<1>1. CASE UNCHANGED <<fs, partial, phase, running, operation, touched>>
  BY <1>1 DEF CopyFaithful, SameBytes, Op
<1>2. CASE ~Copying'
  BY <1>2 DEF CopyFaithful
<1>3. CASE FileStep /\ Copying'
  <2> UNCHANGED <<running, operation, touched>>
    BY <1>3 DEF FileStep, HardLink, CopyToPartial, PublishPartial, RemovePartial, RemoveSource,
       RollBack, RollBackFails, Recycle, Erase, FileStepFails, Goto, catalog, user
  <2> USE DEF Goto, Op, SameBytes
  <2>1. running # Null
    BY <1>3 DEF FileStep, HardLink, CopyToPartial, PublishPartial, RemovePartial, RemoveSource,
       RollBack, RollBackFails, Recycle, Erase, FileStepFails, At
  <2>2. Op.kind \in Relocations => Op.from \in Paths /\ Op.to \in Paths
    BY <2>1, RunningRow
  <2>3. CASE HardLink
    BY <2>1, <2>2, <2>3 DEF HardLink, Exists, CopyFaithful, TypeInv, TypeOK
  <2>4. CASE CopyToPartial
    BY <2>1, <2>2, <2>4 DEF CopyToPartial, Exists, CopyFaithful
  <2>5. CASE PublishPartial
    BY <2>1, <2>2, <2>5 DEF PublishPartial, At, CopyFaithful, TypeInv, TypeOK
  <2>6. CASE RemovePartial
    BY <2>6 DEF RemovePartial, At, CopyFaithful
  <2>7. CASE RemoveSource \/ RollBack \/ RollBackFails \/ Recycle \/ Erase \/ FileStepFails
    BY <1>3, <2>7 DEF RemoveSource, RollBack, RollBackFails, Recycle, Erase, FileStepFails
  <2> QED BY <1>3, <2>3, <2>4, <2>5, <2>6, <2>7 DEF FileStep
<1>4. CASE User
  <2>1. /\ touched \subseteq touched'
        /\ UNCHANGED <<partial, phase, running, operation>>
        /\ \A p \in Paths : fs'[p] = fs[p] \/ {fs[p], fs'[p]} \subseteq touched' \cup {Null}
    BY <1>4, UserKeepsBytes DEF catalog, process
  <2>2. ASSUME Copying PROVE Op.from \in Paths /\ Op.to \in Paths
    BY <2>2, RunningRow DEF CopyFaithful
  <2> QED BY <2>1, <2>2 DEF CopyFaithful, SameBytes, Op
<1>5. CASE Request
  BY ZenonT(60), <1>2, <1>5 DEF Request, BeginMove, BeginRename, BeginDelete, Record
<1>6. CASE Outcome
  BY <1>2, <1>6 DEF Outcome, FailureIsCertain, FailureIsAmbiguous, RecordFailure,
     CompleteRelocation, CompleteSoftDelete, CompleteHardDelete, CompletionRefused,
     StorageError, Goto, Stop
<1>7. CASE Crash \/ Recovery
  BY <1>1, <1>2, <1>7 DEF Crash, Recovery, RecoverApplied, RecoverUnapplied, RecoverAmbiguous,
     Visit, FinishRecovery, disk, catalog, user
<1>8. CASE Restart \/ RestartRefused \/ OtherWriter \/ UNCHANGED vars
  BY <1>1, <1>8 DEF Restart, RestartRefused, OtherWriter, ScanIngests, ScanMarksMissing,
     SetRootActive, OtherTableHolds, vars, disk, catalog, process, user
<1> QED BY <1>2, <1>3, <1>4, <1>5, <1>6, <1>7, <1>8 DEF Next

LEMMA SurvivalInit == Init => ContentSurvives
BY DEF Init, ContentSurvives

LEMMA SurvivalStep ==
  TypeInv /\ CopyFaithful /\ ContentSurvives /\ [Next]_vars => ContentSurvives'
<1> SUFFICES ASSUME TypeInv, CopyFaithful, ContentSurvives, [Next]_vars,
                    NEW x \in {InitialFiles[p] : p \in Paths} \ {Null},
                    x \notin touched' \cup erased' \cup recycled'
             PROVE  \E p \in Paths : fs'[p] = x
  BY DEF ContentSurvives
<1> DEFINE Alive == \E p \in Paths : fs[p] = x
<1>1. CASE UNCHANGED <<fs, touched, erased, recycled>>
  BY <1>1 DEF ContentSurvives
<1>2. CASE FileStep
  <2>1. /\ touched' = touched
        /\ recycled \subseteq recycled' /\ erased \subseteq erased'
    BY <1>2 DEF FileStep, HardLink, CopyToPartial, PublishPartial, RemovePartial, RemoveSource,
       RollBack, RollBackFails, Recycle, Erase, FileStepFails, disk, user, history
  <2> PICK p \in Paths : fs[p] = x
    BY <2>1 DEF ContentSurvives
  <2>2. ASSUME At("linked")
        PROVE  /\ Op.from \in Paths /\ Op.to \in Paths /\ Op.from # Op.to
               /\ p \in {Op.from, Op.to} => fs[Op.from] = fs[Op.to]
    BY <2>1, <2>2, RunningRow DEF CopyFaithful, SameBytes, At
  <2> x # Null /\ fs \in [Paths -> Contents \cup {Null}]
    BY DEF TypeInv, TypeOK
  <2>3. CASE HardLink
    <3>1. fs[Op.to] = Null /\ fs' = [fs EXCEPT ![Op.to] = fs[Op.from]]
      BY <2>3 DEF HardLink, Exists
    <3> QED BY <3>1
  <2>4. CASE PublishPartial
    <3>1. fs[Op.to] = Null /\ fs' = [fs EXCEPT ![Op.to] = partial]
      BY <2>4 DEF PublishPartial, Exists
    <3> QED BY <3>1
  <2>5. CASE RemoveSource
    BY <2>2, <2>5 DEF RemoveSource, TypeInv, TypeOK
  <2>6. CASE RollBack
    BY <2>2, <2>6 DEF RollBack, TypeInv, TypeOK
  <2>7. CASE Recycle
    BY <2>7 DEF Recycle, TypeInv, TypeOK
  <2>8. CASE Erase
    BY <2>8 DEF Erase, TypeInv, TypeOK
  <2>9. CASE CopyToPartial \/ RemovePartial \/ RollBackFails \/ FileStepFails
    BY <2>9 DEF CopyToPartial, RemovePartial, RollBackFails, FileStepFails, disk
  <2> QED BY <1>2, <2>3, <2>4, <2>5, <2>6, <2>7, <2>8, <2>9 DEF FileStep
<1>3. CASE User
  <2>1. erased' = erased /\ touched \subseteq touched' /\ recycled \subseteq recycled' \cup touched'
    BY <1>3 DEF User, UserMoves, UserTakes, UserReturns, UserStep, history
  <2>2. PICK p \in Paths : fs[p] = x
    BY <2>1 DEF ContentSurvives
  <2>3. fs'[p] = fs[p]
    BY <1>3, <2>2, UserKeepsBytes
  <2> QED BY <2>2, <2>3
<1>4. CASE Request \/ Outcome
  BY <1>1, <1>4 DEF Request, BeginMove, BeginRename, BeginDelete, Outcome, FailureIsCertain,
     FailureIsAmbiguous, RecordFailure, CompleteRelocation, CompleteSoftDelete,
     CompleteHardDelete, CompletionRefused, StorageError, disk, user, history
<1>5. CASE Crash \/ Restart \/ RestartRefused \/ Recovery
  BY <1>1, <1>5 DEF Crash, Restart, RestartRefused, Recovery, RecoverApplied,
     RecoverUnapplied, RecoverAmbiguous, Visit, FinishRecovery, disk, user, history
<1>6. CASE OtherWriter \/ UNCHANGED vars
  BY <1>1, <1>6 DEF OtherWriter, ScanIngests, ScanMarksMissing, SetRootActive,
     OtherTableHolds, vars, disk, user, history
<1> QED BY <1>2, <1>3, <1>4, <1>5, <1>6 DEF Next

(* No interleaving of crashes, failures and rollbacks makes the service     *)
(* lose bytes that nobody handled and nobody asked it to delete.            *)
THEOREM BytesSurvive == Spec => []ContentSurvives
<1>1. Spec => [](TypeInv /\ CopyFaithful /\ ContentSurvives)
  BY TypeInit, TypeStep, CopyInit, CopyStep, SurvivalInit, SurvivalStep, PTL DEF Spec
<1> QED BY <1>1, PTL

-----------------------------------------------------------------------------
(* The refinement.  A row of the journal speaks of the path its location    *)
(* has: paths of locations never change, and a location that goes is        *)
(* forgotten by the journal.                                                 *)
SourcesFit ==
  \A o \in UsedOperations :
    operation[o].from_location # Null =>
      /\ operation[o].from_location \in UsedLocations
      /\ location[operation[o].from_location].path = operation[o].from

LEMMA SourcesInit == Init => SourcesFit
BY DEF Init, SourcesFit, UsedOperations

(* Locations keep their paths, and the journal its rows. *)
LEMMA SourcesKept ==
  ASSUME TypeInv, SourcesFit,
         \A l \in UsedLocations : l \in UsedLocations' /\ location'[l].path = location[l].path,
         \A o \in UsedOperations' :
           /\ o \in UsedOperations
           /\ operation'[o].from_location = operation[o].from_location
           /\ operation'[o].from = operation[o].from
  PROVE  SourcesFit'
BY DEF SourcesFit

LEMMA SettledRows ==
  ASSUME TypeInv, running # Null, NEW result \in {"succeeded", "failed"}, Settle(running, result)
  PROVE  /\ \A o \in UsedOperations' :
              /\ o \in UsedOperations
              /\ operation'[o].from_location = operation[o].from_location
              /\ operation'[o].from = operation[o].from
         /\ \A o \in Operations \ {running} : operation'[o] = operation[o]
         /\ operation'[running] = [Op EXCEPT !.status = result]
         /\ operation'[running] # Unused
<1>1. \A o \in Operations \ {running} : operation'[o] = operation[o]
  BY DEF Settle, TypeInv, TypeOK
<1>2. operation'[running] = [Op EXCEPT !.status = result] /\ Op \in OperationRow
  BY RunningRow DEF Settle, TypeInv, TypeOK, Op
<1>3. /\ operation'[running].from_location = Op.from_location
      /\ operation'[running].from = Op.from
      /\ operation'[running].status = result
  BY <1>2 DEF OperationRow
<1>4. running \in UsedOperations
  BY RunningRow DEF TypeInv, JournalShape
<1>5. operation'[running] # Unused
  BY <1>3 DEF Unused
<1> QED BY <1>1, <1>2, <1>3, <1>4, <1>5 DEF UsedOperations, Op

LEMMA SourcesStep == TypeInv /\ SourcesFit /\ [Next]_vars => SourcesFit'
<1> SUFFICES ASSUME TypeInv, SourcesFit, [Next]_vars PROVE SourcesFit'
  OBVIOUS
<1>1. CASE UNCHANGED <<location, operation>>
  BY <1>1 DEF SourcesFit, UsedOperations, UsedLocations
<1>2. CASE Request
  <2>1. UNCHANGED location /\ \E c \in Collections, l \in Locations :
           CurrentFor(l, c) /\ \E kind, to : Record(c, l, kind, to)
    BY <1>2 DEF Request, BeginMove, BeginRename, BeginDelete, Operable
  <2> PICK c \in Collections, l \in Locations :
        CurrentFor(l, c) /\ \E kind, to : Record(c, l, kind, to)
    BY <2>1
  <2> PICK kind, to : Record(c, l, kind, to)
    OBVIOUS
  <2> PICK o \in Operations :
        operation' = [operation EXCEPT ![o] =
             [collection |-> c, from_location |-> l, kind |-> kind,
              from |-> location[l].path, to |-> to, status |-> "pending"]]
    BY DEF Record
  <2>2. \A p \in Operations \ {o} : operation'[p] = operation[p]
    BY DEF TypeInv, TypeOK
  <2>3. operation'[o].from_location = l /\ operation'[o].from = location[l].path
    BY DEF TypeInv, TypeOK
  <2>4. l \in UsedLocations
    BY RowTypes DEF TypeInv, CurrentFor
  <2> QED BY <2>1, <2>2, <2>3, <2>4 DEF SourcesFit, UsedOperations, UsedLocations
<1>3. CASE RecordFailure \/ CompleteSoftDelete \/ CompleteRelocation
  <2>1. running # Null /\ \E result \in {"succeeded", "failed"} : Settle(running, result)
    BY <1>3 DEF RecordFailure, CompleteRelocation, CompleteSoftDelete, At
  <2>2. \A l \in UsedLocations : l \in UsedLocations' /\ location'[l].path = location[l].path
    <3>1. CASE RecordFailure
      BY <3>1 DEF RecordFailure, UsedLocations
    <3>2. ASSUME NEW k \in Locations, NEW s \in {"moved", "deleted"}, IsCurrent(k),
                 location' = [location EXCEPT ![k].status = s]
          PROVE  \A l \in UsedLocations : l \in UsedLocations' /\ location'[l].path = location[l].path
      <4>1. location[k] \in LocationRow
        BY <3>2, RowTypes DEF TypeInv
      <4>2. /\ location'[k] = [location[k] EXCEPT !.status = s]
            /\ \A l \in Locations \ {k} : location'[l] = location[l]
        BY <3>2 DEF TypeInv, TypeOK
      <4>3. location'[k].status = s /\ location'[k].path = location[k].path
        BY <4>1, <4>2 DEF LocationRow
      <4>4. location'[k] # Unused
        BY <4>3 DEF Unused
      <4> QED BY <4>2, <4>3, <4>4 DEF UsedLocations
    <3>3. CASE CompleteSoftDelete
      <4>1. /\ Op.from_location \in Locations /\ IsCurrent(Op.from_location)
            /\ location' = [location EXCEPT ![Op.from_location].status = "deleted"]
        BY <3>3, RunningRow DEF CompleteSoftDelete, SoftDeletionAllowed, Op, OperationRow, At,
           CurrentFor
      <4> QED BY <4>1, <3>2
    <3>4. CASE CompleteRelocation
      <4> PICK k \in Locations, l \in Locations :
            /\ IsCurrent(k) /\ NextId(l, UsedLocations)
            /\ \E row : /\ row.status = "current"
                       /\ location' = [location EXCEPT ![k].status = "moved", ![l] = row]
        <5>1. /\ Op.from_location \in Locations /\ IsCurrent(Op.from_location)
              /\ \E l \in Locations : NextId(l, UsedLocations) /\ location' = [location EXCEPT
                   ![Op.from_location].status = "moved",
                   ![l] = [collection |-> Op.collection, path |-> Op.to, status |-> "current"]]
          BY <3>4, RunningRow DEF CompleteRelocation, RelocationAllowed, Op, OperationRow, At,
             CurrentFor
        <5> QED BY <5>1
      <4> PICK row :
            /\ row.status = "current"
            /\ location' = [location EXCEPT ![k].status = "moved", ![l] = row]
        OBVIOUS
      <4>1. l \notin UsedLocations /\ k # l
        BY NextIdFresh, RowTypes DEF Locations, TypeInv
      <4>2. location[k] \in LocationRow
        BY RowTypes DEF TypeInv
      <4>3. /\ location'[k] = [location[k] EXCEPT !.status = "moved"]
            /\ \A j \in Locations \ {k, l} : location'[j] = location[j]
        BY <4>1 DEF TypeInv, TypeOK
      <4>4. location'[k].status = "moved" /\ location'[k].path = location[k].path
        BY <4>2, <4>3 DEF LocationRow
      <4>5. location'[k] # Unused
        BY <4>4 DEF Unused
      <4> QED BY <4>1, <4>3, <4>4, <4>5 DEF UsedLocations
    <3> QED BY <1>3, <3>1, <3>3, <3>4
  <2> QED BY <2>1, <2>2, SettledRows, SourcesKept
<1>4. CASE CompleteHardDelete
  <2> DEFINE c == Op.collection
  <2>1. /\ \A l \in Locations : location'[l] = IF Gone(l, c) THEN Unused ELSE location[l]
        /\ \A o \in Operations : operation'[o] =
             IF operation[o] = Unused THEN Unused ELSE
             [operation[o] EXCEPT
                !.collection = IF @ = c THEN Null ELSE @,
                !.from_location = IF @ # Null /\ Gone(@, c) THEN Null ELSE @,
                !.status = IF o = running THEN "succeeded" ELSE @]
    BY <1>4 DEF CompleteHardDelete, JournalWithout
  <2> HIDE DEF c
  <2>2. ASSUME NEW o \in UsedOperations', operation'[o].from_location # Null
        PROVE  /\ operation'[o].from_location \in UsedLocations'
               /\ location'[operation'[o].from_location].path = operation'[o].from
    <3>1. o \in UsedOperations
      BY <2>1 DEF UsedOperations
    <3>2. operation[o] \in OperationRow
      BY <3>1, RowTypes DEF TypeInv
    <3>3. /\ operation'[o].from = operation[o].from
          /\ operation'[o].from_location =
               IF operation[o].from_location # Null /\ Gone(operation[o].from_location, c)
               THEN Null ELSE operation[o].from_location
      BY ZenonT(60), <2>1, <3>1, <3>2 DEF OperationRow, UsedOperations
    <3>4. /\ operation[o].from_location \in UsedLocations
          /\ location[operation[o].from_location].path = operation[o].from
          /\ ~Gone(operation[o].from_location, c)
      BY <2>2, <3>1, <3>3 DEF SourcesFit
    <3>5. PICK k \in Locations :
            k = operation[o].from_location /\ k = operation'[o].from_location
      BY <2>2, <3>3, <3>4 DEF UsedLocations
    <3>6. location'[k] = location[k] /\ location[k] # Unused
      BY <2>1, <3>4, <3>5 DEF UsedLocations
    <3> QED BY <3>3, <3>4, <3>5, <3>6 DEF UsedLocations
  <2> QED BY <2>2 DEF SourcesFit
<1>5. ASSUME NEW p \in Paths, ScanIngests(p) PROVE SourcesFit'
  <2> PICK c \in Collections, l \in Locations :
        /\ NextId(l, UsedLocations)
        /\ location' = [location EXCEPT
             ![l] = [collection |-> c, path |-> p, status |-> "current"]]
    BY <1>5 DEF ScanIngests
  <2>1. l \notin UsedLocations
    BY NextIdFresh DEF Locations
  <2>2. \A j \in Locations \ {l} : location'[j] = location[j]
    BY DEF TypeInv, TypeOK
  <2> QED BY <1>5, <2>1, <2>2, SourcesKept DEF ScanIngests, UsedLocations, UsedOperations
<1>6. ASSUME NEW c \in Collections, ScanMarksMissing(c) PROVE SourcesFit'
  <2> PICK l \in Locations :
        CurrentFor(l, c) /\ location' = [location EXCEPT ![l].status = "missing"]
    BY <1>6 DEF ScanMarksMissing
  <2>1. location[l] \in LocationRow
    BY RowTypes DEF TypeInv, CurrentFor
  <2>2. /\ location'[l] = [location[l] EXCEPT !.status = "missing"]
        /\ \A j \in Locations \ {l} : location'[j] = location[j]
    BY DEF TypeInv, TypeOK
  <2>3. location'[l].status = "missing" /\ location'[l].path = location[l].path
    BY <2>1, <2>2 DEF LocationRow
  <2>4. location'[l] # Unused
    BY <2>3 DEF Unused
  <2> QED BY <1>6, <2>2, <2>3, <2>4, SourcesKept DEF ScanMarksMissing, UsedLocations, UsedOperations
<1> QED BY <1>1, <1>2, <1>3, <1>4, <1>5, <1>6, CatalogWriters, JournalWriters

(* Where the shelf sees a collection: at the path of its current location.  *)
LEMMA PlaceOfCurrent ==
  ASSUME TypeInv, CurrentInv, NEW c \in Collections, NEW l \in Locations, CurrentFor(l, c)
  PROVE  /\ collection[c] = "active"
         /\ Place(c) = Shelf!StandsAt(location[l].path)
         /\ location[l].path \in Paths
<1>1. collection[c] = "active"
  BY DEF CurrentInv, ActiveHasLocation
<1>2. (CHOOSE k \in Locations : CurrentFor(k, c)) = l
  <2>1. \A k \in Locations : CurrentFor(k, c) => k = l
    BY DEF CurrentInv, CurrentLocationsUnique, CurrentFor
  <2> QED BY <2>1
<1>3. location[l].path \in Paths
  BY RowTypes DEF TypeInv, CurrentFor, LocationRow
<1> QED BY <1>1, <1>2, <1>3 DEF Place, CurrentPath, Shelf!StandsAt

LEMMA PlaceOfCurrentNext ==
  ASSUME TypeInv', CurrentInv', NEW c \in Collections, NEW l \in Locations, CurrentFor(l, c)'
  PROVE  /\ collection'[c] = "active"
         /\ Place(c)' = Shelf!StandsAt(location'[l].path)
<1>1. collection'[c] = "active"
  BY DEF CurrentInv, ActiveHasLocation
<1>2. (CHOOSE k \in Locations : CurrentFor(k, c)') = l
  <2>1. \A k \in Locations : CurrentFor(k, c)' => k = l
    BY DEF CurrentInv, CurrentLocationsUnique, CurrentFor, IsCurrent
  <2> QED BY <2>1
<1> QED BY <1>1, <1>2 DEF Place, CurrentPath, Shelf!StandsAt

(* An active collection stands, every other one is off the shelf. *)
LEMMA Standing ==
  ASSUME TypeInv, CurrentInv, NEW c \in Collections
  PROVE  /\ collection[c] = "active" =>
              \E l \in Locations : CurrentFor(l, c) /\ Place(c) = Shelf!StandsAt(location[l].path)
         /\ collection[c] # "active" => Place(c).state # "standing"
         /\ collection[c] = "unused" <=> Place(c) = Shelf!Off("none")
<1>1. collection[c] \in {"unused", "active", "tombstone", "soft_deleted"}
  BY DEF TypeInv, TypeOK
<1>2. CASE collection[c] = "active"
  <2>1. PICK l \in Locations : CurrentFor(l, c)
    BY <1>2 DEF CurrentInv, ActiveHasLocation
  <2> QED BY <1>2, <2>1, PlaceOfCurrent DEF Shelf!StandsAt, Shelf!Off
<1>3. CASE collection[c] # "active"
  BY <1>1, <1>3 DEF Place, Shelf!Off
<1> QED BY <1>2, <1>3

(* What stands where it stood, stands there still. *)
LEMMA PlaceStays ==
  ASSUME TypeInv, CurrentInv, TypeInv', CurrentInv', NEW c \in Collections,
         collection'[c] = collection[c],
         \A l \in Locations : CurrentFor(l, c) =>
           CurrentFor(l, c)' /\ location'[l].path = location[l].path
  PROVE  Place(c)' = Place(c)
<1>1. CASE collection[c] = "active"
  <2>1. PICK l \in Locations : CurrentFor(l, c)
    BY <1>1 DEF CurrentInv, ActiveHasLocation
  <2> QED BY <2>1, PlaceOfCurrent, PlaceOfCurrentNext
<1>2. CASE collection[c] # "active"
  BY <1>2 DEF Place
<1> QED BY <1>1, <1>2

(* Rows are requests. *)
LEMMA RequestShape ==
  ASSUME TypeInv, NEW o \in Operations
  PROVE  /\ o \notin UsedOperations => RequestOf(o) = Shelf!NoRequest
         /\ o \in UsedOperations =>
              /\ RequestOf(o) = [collection |-> operation[o].collection, kind |-> operation[o].kind,
                                 from |-> operation[o].from, to |-> operation[o].to,
                                 state |-> Answer(operation[o].status)]
              /\ RequestOf(o) # Shelf!NoRequest
         /\ RequestOf(o).state = "asked" <=> o \in PendingOperations
<1>1. CASE o \notin UsedOperations
  BY <1>1, RowTypes DEF UsedOperations, RequestOf, Shelf!NoRequest, TypeInv
<1>2. CASE o \in UsedOperations
  <2>1. operation[o].status \in {"pending", "succeeded", "failed"}
    BY <1>2, RowTypes DEF TypeInv, OperationRow
  <2>2. RequestOf(o) = [collection |-> operation[o].collection, kind |-> operation[o].kind,
                        from |-> operation[o].from, to |-> operation[o].to,
                        state |-> Answer(operation[o].status)]
    BY <1>2 DEF UsedOperations, RequestOf
  <2>3. /\ Answer(operation[o].status) \in {"asked", "granted", "denied"}
        /\ Answer(operation[o].status) = "asked" <=> operation[o].status = "pending"
    BY <2>1 DEF Answer
  <2>4. RequestOf(o).state # Shelf!NoRequest.state
    BY <2>2, <2>3 DEF Shelf!NoRequest
  <2> QED BY <1>2, <2>2, <2>3, <2>4 DEF PendingOperations, IsPending
<1> QED BY <1>1, <1>2

(* A step that only settles the running row settles its request. *)
LEMMA RequestSettled ==
  ASSUME TypeInv, running # Null, IsPending(running), NEW r \in Operations, r = running,
         NEW result \in {"succeeded", "failed"}, Settle(running, result)
  PROVE  /\ RequestOf(r).state = "asked"
         /\ [o \in Operations |-> RequestOf(o)]' =
              [[o \in Operations |-> RequestOf(o)] EXCEPT ![r].state = Answer(result)]
<1>1. /\ \A o \in Operations \ {r} : operation'[o] = operation[o]
      /\ operation'[r] = [Op EXCEPT !.status = result]
      /\ operation'[r] # Unused
  BY SettledRows
<1>2. Op = operation[r] /\ Op \in OperationRow /\ r \in PendingOperations
  BY RunningRow DEF PendingOperations, Op
<1>3. r \in UsedOperations
  BY <1>2, RowTypes DEF TypeInv
<1>4. RequestOf(r).state = "asked"
  BY <1>2, RequestShape
<1>5. RequestOf(r)' = [RequestOf(r) EXCEPT !.state = Answer(result)]
  <2>1. RequestOf(r) =
          [collection |-> Op.collection, kind |-> Op.kind, from |-> Op.from, to |-> Op.to,
           state |-> Answer(Op.status)]
    BY <1>2, <1>3, RequestShape
  <2>2. RequestOf(r)' =
          [collection |-> operation'[r].collection, kind |-> operation'[r].kind,
           from |-> operation'[r].from, to |-> operation'[r].to,
           state |-> Answer(operation'[r].status)]
    BY <1>1 DEF RequestOf
  <2>3. /\ operation'[r].collection = Op.collection /\ operation'[r].kind = Op.kind
        /\ operation'[r].from = Op.from /\ operation'[r].to = Op.to
        /\ operation'[r].status = result
    BY <1>1, <1>2 DEF OperationRow
  <2> QED BY <2>1, <2>2, <2>3
<1>6. \A o \in Operations \ {r} : RequestOf(o)' = RequestOf(o)
  BY <1>1 DEF RequestOf
<1> QED BY <1>4, <1>5, <1>6

LEMMA ShelfInit == Init => Shelf!Init
<1> SUFFICES ASSUME Init PROVE Shelf!Init
  OBVIOUS
<1>1. \A c \in Collections : Place(c) = Shelf!Off("none")
  BY DEF Init, Place, Shelf!Off
<1>2. \A o \in Operations : RequestOf(o) = Shelf!NoRequest
  BY DEF Init, RequestOf, Shelf!NoRequest
<1> QED BY <1>1, <1>2 DEF Shelf!Init

(* A request of the service is one of the shelf. *)
LEMMA RequestAsks ==
  ASSUME TypeInv, CurrentInv, TypeInv', CurrentInv', Request
  PROVE  Shelf!Next
<1>1. /\ UNCHANGED <<collection, location>>
      /\ \E c \in Collections, l \in Locations, kind \in Kinds, to \in Paths \cup {Null} :
           /\ kind \in Relocations <=> to # Null
           /\ CurrentFor(l, c) /\ Record(c, l, kind, to)
  <2> PICK c \in Collections :
        \/ \E r \in Archives : BeginMove(c, r)
        \/ \E n \in Names : BeginRename(c, n)
        \/ \E kind \in {"soft_delete", "hard_delete"} : BeginDelete(c, kind)
    BY DEF Request
  <2>1. \A l \in Locations : CurrentFor(l, c) => location[l].path \in Paths
    BY PlaceOfCurrent
  <2>2. CASE \E r \in Archives : BeginMove(c, r)
    <3> PICK r \in Archives : BeginMove(c, r)
      BY <2>2
    <3> PICK l \in Locations :
          Operable(c, l) /\ Record(c, l, "move", <<r, Name(location[l].path)>>)
      BY DEF BeginMove
    <3>1. <<r, Name(location[l].path)>> \in Paths
      BY <2>1 DEF Paths, Roots, Name, Operable
    <3> QED BY <3>1, NullAssumption DEF BeginMove, Operable, Kinds, Relocations
  <2>3. CASE \E n \in Names : BeginRename(c, n)
    <3> PICK n \in Names : BeginRename(c, n)
      BY <2>3
    <3> PICK l \in Locations :
          Operable(c, l) /\ Record(c, l, "rename", <<Root(location[l].path), n>>)
      BY DEF BeginRename
    <3>1. <<Root(location[l].path), n>> \in Paths
      BY <2>1 DEF Paths, Root, Operable
    <3> QED BY <3>1, NullAssumption DEF BeginRename, Operable, Kinds, Relocations
  <2>4. CASE \E kind \in {"soft_delete", "hard_delete"} : BeginDelete(c, kind)
    BY <2>4 DEF BeginDelete, Operable, Kinds, Relocations
  <2> QED BY <2>2, <2>3, <2>4
<1> PICK c \in Collections, l \in Locations, kind \in Kinds, to \in Paths \cup {Null} :
      /\ kind \in Relocations <=> to # Null
      /\ CurrentFor(l, c) /\ Record(c, l, kind, to)
  BY <1>1
<1> PICK o \in Operations :
      /\ NextId(o, UsedOperations)
      /\ operation' = [operation EXCEPT ![o] =
           [collection |-> c, from_location |-> l, kind |-> kind,
            from |-> location[l].path, to |-> to, status |-> "pending"]]
  BY DEF Record
<1>2. o \notin UsedOperations
  BY NextIdFresh DEF Operations
<1>3. RequestOf(o) = Shelf!NoRequest
  BY <1>2, RequestShape
<1>4. Place(c) = Shelf!StandsAt(location[l].path)
  BY PlaceOfCurrent
<1>5. \A d \in Collections : Place(d)' = Place(d)
  BY <1>1, PlaceStays DEF CurrentFor, IsCurrent
<1>6. RequestOf(o)' = [collection |-> c, kind |-> kind, from |-> location[l].path, to |-> to,
                       state |-> "asked"]
  <2>1. operation'[o] = [collection |-> c, from_location |-> l, kind |-> kind,
            from |-> location[l].path, to |-> to, status |-> "pending"]
    BY DEF TypeInv, TypeOK
  <2>2. operation'[o] # Unused
    BY <2>1 DEF Unused
  <2> QED BY <2>1, <2>2 DEF RequestOf, Answer
<1>7. \A p \in Operations \ {o} : RequestOf(p)' = RequestOf(p)
  BY DEF RequestOf, TypeInv, TypeOK
<1>8. Shelf!Ask(o, c)
  <2>1. /\ kind \in {"rename", "move", "soft_delete", "hard_delete"}
        /\ (to = Null) <=> (kind \in {"soft_delete", "hard_delete"})
    BY DEF Kinds, Relocations
  <2>2. /\ [d \in Collections |-> Place(d)][c].path = location[l].path
        /\ [d \in Collections |-> Place(d)][c].state = "standing"
    BY <1>4 DEF Shelf!StandsAt
  <2>3. PICK row : row = [collection |-> c, kind |-> kind, from |-> location[l].path, to |-> to,
                          state |-> "asked"]
    OBVIOUS
  <2>4. [p \in Operations |-> RequestOf(p)]' =
          [[p \in Operations |-> RequestOf(p)] EXCEPT ![o] = row]
    BY <1>6, <1>7, <2>3
  <2>5. [d \in Collections |-> Place(d)]' = [d \in Collections |-> Place(d)]
    BY <1>5
  <2> QED BY <1>3, <2>1, <2>2, <2>3, <2>4, <2>5 DEF Shelf!Ask, Shelf!Standing
<1> QED BY <1>8 DEF Shelf!Next

LEMMA FailureDenies ==
  ASSUME TypeInv, CurrentInv, TypeInv', CurrentInv', RecordFailure
  PROVE  Shelf!Next
<1>1. PICK r \in Operations : r = running
  BY RunningRow DEF RecordFailure, At
<1>2. /\ RequestOf(r).state = "asked"
      /\ [o \in Operations |-> RequestOf(o)]' =
           [[o \in Operations |-> RequestOf(o)] EXCEPT ![r].state = Answer("failed")]
  BY <1>1, RequestSettled DEF RecordFailure, At
<1>3. \A d \in Collections : Place(d)' = Place(d)
  BY PlaceStays DEF RecordFailure, CurrentFor, IsCurrent
<1>4. Shelf!Deny(r)
  BY <1>2, <1>3 DEF Shelf!Deny, Shelf!Asked, Shelf!Becomes, Answer
<1> QED BY <1>4 DEF Shelf!Next

LEMMA RelocationGrants ==
  ASSUME TypeInv, CurrentInv, SourcesFit, TypeInv', CurrentInv', CompleteRelocation
  PROVE  Shelf!Next
<1>1. PICK r \in Operations : r = running
  BY RunningRow DEF CompleteRelocation, At
<1>2. /\ RequestOf(r).state = "asked"
      /\ [o \in Operations |-> RequestOf(o)]' =
           [[o \in Operations |-> RequestOf(o)] EXCEPT ![r].state = Answer("succeeded")]
  BY <1>1, RequestSettled DEF CompleteRelocation, At
<1>3. r \in UsedOperations
  BY <1>1, RunningRow DEF CompleteRelocation, At, TypeInv, JournalShape
<1>4. PICK c \in Collections, k \in Locations, to \in Paths, kind \in Kinds :
        /\ c = operation[r].collection /\ k = operation[r].from_location /\ to = operation[r].to
        /\ kind = operation[r].kind /\ kind \in Relocations
        /\ CurrentFor(k, c)
        /\ \A d \in Collections \ {c} : ~IndexedAt(to, d)
  BY <1>1, RunningRow DEF CompleteRelocation, RelocationAllowed, Op, OperationRow, At
<1>5. location[k].path = operation[r].from
  BY <1>3, <1>4, BoundsAssumption, NullAssumption DEF SourcesFit, Locations
<1>6. RequestOf(r).collection = c /\ RequestOf(r).kind = kind
      /\ RequestOf(r).from = location[k].path /\ RequestOf(r).to = to
  BY <1>3, <1>4, <1>5, RequestShape
<1>7. Place(c) = Shelf!StandsAt(location[k].path) /\ collection[c] = "active"
  BY <1>4, PlaceOfCurrent
<1>8. Shelf!Free(to, c)
  <2> SUFFICES ASSUME NEW d \in Collections \ {c} PROVE Place(d) # Shelf!StandsAt(to)
    BY DEF Shelf!Free
  <2>1. CASE collection[d] = "active"
    BY <1>4, <2>1, Standing DEF IndexedAt, Shelf!StandsAt
  <2>2. CASE collection[d] # "active"
    BY <2>2, Standing DEF Shelf!StandsAt
  <2> QED BY <2>1, <2>2
<1>9. PICK l \in Locations :
        /\ NextId(l, UsedLocations)
        /\ location' = [location EXCEPT
             ![k].status = "moved",
             ![l] = [collection |-> c, path |-> to, status |-> "current"]]
  BY <1>1, <1>4 DEF CompleteRelocation, Op
<1>10. l \notin UsedLocations /\ k # l /\ location[k].collection = c
  BY <1>4, <1>9, NextIdFresh, RowTypes DEF Locations, CurrentFor, TypeInv
<1>11. Place(c)' = Shelf!StandsAt(to)
  <2>1. location'[l] = [collection |-> c, path |-> to, status |-> "current"]
    BY <1>9, <1>10 DEF TypeInv, TypeOK
  <2> QED BY <2>1, PlaceOfCurrentNext DEF CurrentFor, IsCurrent
<1>12. ASSUME NEW d \in Collections \ {c} PROVE Place(d)' = Place(d)
  <2>1. collection'[d] = collection[d]
    BY <1>1, <1>4 DEF CompleteRelocation, Op, TypeInv, TypeOK
  <2>2. ASSUME NEW j \in Locations, CurrentFor(j, d)
        PROVE  location'[j] = location[j]
    <3>1. j # k
      BY <1>10, <2>2 DEF CurrentFor
    <3>2. j # l
      BY <1>10, <2>2, RowTypes DEF TypeInv, CurrentFor
    <3> QED BY <1>9, <3>1, <3>2 DEF TypeInv, TypeOK
  <2> QED BY <2>1, <2>2, PlaceStays DEF CurrentFor, IsCurrent
<1>13. [d \in Collections |-> Place(d)]' =
         [[d \in Collections |-> Place(d)] EXCEPT ![c] = Shelf!StandsAt(to)]
  BY <1>11, <1>12
<1>14. Shelf!GrantRelocation(r)
  <2>1. c # Null /\ kind \in {"rename", "move"}
    BY <1>4, BoundsAssumption, NullAssumption DEF Collections, Relocations
  <2>2. [d \in Collections |-> Place(d)][c] = Shelf!StandsAt(location[k].path)
    BY <1>7
  <2> QED BY <1>2, <1>6, <1>8, <1>13, <2>1, <2>2
      DEF Shelf!GrantRelocation, Shelf!Asked, Shelf!Becomes, Answer
<1> QED BY <1>14 DEF Shelf!Next

LEMMA SoftDeletionGrants ==
  ASSUME TypeInv, CurrentInv, SourcesFit, TypeInv', CurrentInv', CompleteSoftDelete
  PROVE  Shelf!Next
<1>1. PICK r \in Operations : r = running
  BY RunningRow DEF CompleteSoftDelete, At
<1>2. /\ RequestOf(r).state = "asked"
      /\ [o \in Operations |-> RequestOf(o)]' =
           [[o \in Operations |-> RequestOf(o)] EXCEPT ![r].state = Answer("succeeded")]
  BY <1>1, RequestSettled DEF CompleteSoftDelete, At
<1>3. r \in UsedOperations
  BY <1>1, RunningRow DEF CompleteSoftDelete, At, TypeInv, JournalShape
<1>4. PICK c \in Collections, k \in Locations :
        /\ c = operation[r].collection /\ k = operation[r].from_location
        /\ operation[r].kind = "soft_delete"
        /\ CurrentFor(k, c)
        /\ location' = [location EXCEPT ![k].status = "deleted"]
        /\ collection' = [collection EXCEPT ![c] = "soft_deleted"]
  BY <1>1, RunningRow DEF CompleteSoftDelete, SoftDeletionAllowed, Op, OperationRow, At
<1>5. location[k].path = operation[r].from
  BY <1>3, <1>4, BoundsAssumption, NullAssumption DEF SourcesFit, Locations
<1>6. /\ RequestOf(r).collection = c /\ RequestOf(r).kind = "soft_delete"
      /\ RequestOf(r).from = location[k].path
  BY <1>3, <1>4, <1>5, RequestShape
<1>7. Place(c) = Shelf!StandsAt(location[k].path)
  BY <1>4, PlaceOfCurrent
<1>8. Place(c)' = Shelf!Off("recycled")
  BY <1>4 DEF Place, Shelf!Off, TypeInv, TypeOK
<1>9. ASSUME NEW d \in Collections \ {c} PROVE Place(d)' = Place(d)
  BY <1>4, PlaceStays DEF CurrentFor, IsCurrent, TypeInv, TypeOK
<1>10. [d \in Collections |-> Place(d)]' =
         [[d \in Collections |-> Place(d)] EXCEPT ![c] = Shelf!Off("recycled")]
  BY <1>8, <1>9
<1>11. Shelf!GrantSoftDeletion(r)
  <2>1. c # Null
    BY BoundsAssumption, NullAssumption DEF Collections
  <2>2. [d \in Collections |-> Place(d)][c] = Shelf!StandsAt(location[k].path)
    BY <1>7
  <2> QED BY <1>2, <1>6, <1>10, <2>1, <2>2
      DEF Shelf!GrantSoftDeletion, Shelf!Asked, Shelf!Becomes, Answer
<1> QED BY <1>11 DEF Shelf!Next

LEMMA HardDeletionGrants ==
  ASSUME TypeInv, CurrentInv, TypeInv', CurrentInv', CompleteHardDelete
  PROVE  Shelf!Next
<1>1. PICK r \in Operations : r = running
  BY RunningRow DEF CompleteHardDelete, At
<1>2. PICK c \in Collections :
        /\ c = operation[r].collection /\ operation[r].kind = "hard_delete" /\ IsPending(r)
        /\ collection' = [collection EXCEPT ![c] = "unused"]
        /\ location' = [l \in Locations |-> IF Gone(l, c) THEN Unused ELSE location[l]]
        /\ operation' = JournalWithout(c, r)
  BY <1>1, RunningRow DEF CompleteHardDelete, HardDeletionAllowed, Op, OperationRow, At
<1>3. r \in PendingOperations /\ r \in UsedOperations
  BY <1>2, RowTypes DEF PendingOperations, TypeInv
<1>4. /\ RequestOf(r).state = "asked"
      /\ RequestOf(r).collection = c /\ RequestOf(r).kind = "hard_delete"
  BY <1>2, <1>3, RequestShape
<1>5. Place(c)' = Shelf!Off("none")
  BY <1>2 DEF Place, Shelf!Off, TypeInv, TypeOK
<1>6. ASSUME NEW d \in Collections \ {c} PROVE Place(d)' = Place(d)
  BY <1>2, PlaceStays DEF CurrentFor, IsCurrent, Gone, TypeInv, TypeOK
<1> DEFINE forgotten(q) ==
      IF RequestOf(q) # Shelf!NoRequest /\ RequestOf(q).collection = c
      THEN [RequestOf(q) EXCEPT !.collection = Null] ELSE RequestOf(q)
<1>7. ASSUME NEW q \in Operations
      PROVE  RequestOf(q)' = IF q = r THEN [forgotten(q) EXCEPT !.state = "granted"]
                             ELSE forgotten(q)
  <2>1. CASE q \notin UsedOperations
    BY <1>2, <1>3, <2>1, RequestShape DEF UsedOperations, JournalWithout, RequestOf, Shelf!NoRequest
  <2>2. CASE q \in UsedOperations
    <3>1. operation[q] \in OperationRow
      BY <2>2, RowTypes DEF TypeInv
    <3>2. operation'[q] =
             [operation[q] EXCEPT
                !.collection = IF @ = c THEN Null ELSE @,
                !.from_location = IF @ # Null /\ Gone(@, c) THEN Null ELSE @,
                !.status = IF q = r THEN "succeeded" ELSE @]
      BY <1>2, <2>2 DEF JournalWithout, UsedOperations
    <3>3. /\ operation'[q].collection = IF operation[q].collection = c THEN Null
                                        ELSE operation[q].collection
          /\ operation'[q].kind = operation[q].kind
          /\ operation'[q].from = operation[q].from /\ operation'[q].to = operation[q].to
          /\ operation'[q].status = IF q = r THEN "succeeded" ELSE operation[q].status
      BY <3>1, <3>2 DEF OperationRow
    <3>4. operation'[q].status # "unused"
      BY <3>1, <3>3 DEF OperationRow
    <3>5. operation'[q] # Unused
      BY <3>4 DEF Unused
    <3>6. RequestOf(q)' =
            [collection |-> operation'[q].collection, kind |-> operation'[q].kind,
             from |-> operation'[q].from, to |-> operation'[q].to,
             state |-> Answer(operation'[q].status)]
      BY <3>5 DEF RequestOf
    <3>7. /\ RequestOf(q) # Shelf!NoRequest
          /\ RequestOf(q) =
               [collection |-> operation[q].collection, kind |-> operation[q].kind,
                from |-> operation[q].from, to |-> operation[q].to,
                state |-> Answer(operation[q].status)]
      BY <2>2, RequestShape
    <3>8. Answer("succeeded") = "granted"
      BY DEF Answer
    <3> QED BY <3>3, <3>6, <3>7, <3>8
  <2> QED BY <2>1, <2>2
<1>8. [d \in Collections |-> Place(d)]' =
        [[d \in Collections |-> Place(d)] EXCEPT ![c] = Shelf!Off("none")]
  BY <1>5, <1>6
<1>9. [q \in Operations |-> RequestOf(q)]' =
        [q \in Operations |-> IF q = r THEN [forgotten(q) EXCEPT !.state = "granted"]
                              ELSE forgotten(q)]
  BY <1>7
<1>10. Shelf!GrantHardDeletion(r)
  <2>1. c # Null
    BY BoundsAssumption, NullAssumption DEF Collections
  <2> QED BY <1>4, <1>8, <1>9, <2>1 DEF Shelf!GrantHardDeletion, Shelf!Asked
<1> QED BY <1>10 DEF Shelf!Next

LEMMA IngestArrives ==
  ASSUME TypeInv, CurrentInv, TypeInv', CurrentInv', NEW p \in Paths, ScanIngests(p)
  PROVE  Shelf!Next
<1> PICK c \in Collections, l \in Locations :
     /\ NextId(c, UsedCollections)
     /\ NextId(l, UsedLocations)
     /\ collection' = [collection EXCEPT ![c] = "active"]
     /\ location' = [location EXCEPT
          ![l] = [collection |-> c, path |-> p, status |-> "current"]]
  BY DEF ScanIngests
<1>1. c \notin UsedCollections /\ l \notin UsedLocations
  BY NextIdFresh DEF Collections, Locations
<1>2. Place(c) = Shelf!Off("none")
  BY <1>1, Standing DEF UsedCollections
<1>3. /\ location'[l] = [collection |-> c, path |-> p, status |-> "current"]
      /\ \A k \in Locations \ {l} : location'[k] = location[k]
      /\ \A d \in Collections \ {c} : collection'[d] = collection[d]
  BY DEF TypeInv, TypeOK
<1>4. Place(c)' = Shelf!StandsAt(p)
  BY <1>3, PlaceOfCurrentNext DEF CurrentFor, IsCurrent
<1>5. ASSUME NEW d \in Collections \ {c} PROVE Place(d)' = Place(d)
  <2>1. \A k \in Locations : CurrentFor(k, d) => k # l
    BY <1>1, RowTypes DEF TypeInv, CurrentFor
  <2> QED BY <1>3, <2>1, PlaceStays DEF CurrentFor, IsCurrent
<1>6. Shelf!Free(p, c)
  <2> SUFFICES ASSUME NEW d \in Collections \ {c} PROVE Place(d) # Shelf!StandsAt(p)
    BY DEF Shelf!Free
  <2>1. CASE collection[d] = "active"
    BY <2>1, Standing DEF ScanIngests, IndexedAt, Shelf!StandsAt
  <2>2. CASE collection[d] # "active"
    BY <2>2, Standing DEF Shelf!StandsAt
  <2> QED BY <2>1, <2>2
<1>7. [d \in Collections |-> Place(d)]' =
        [[d \in Collections |-> Place(d)] EXCEPT ![c] = Shelf!StandsAt(p)]
  BY <1>4, <1>5
<1>8. UNCHANGED [o \in Operations |-> RequestOf(o)]
  BY DEF ScanIngests, RequestOf
<1>9. Shelf!Arrive(c)
  BY <1>2, <1>6, <1>7, <1>8 DEF Shelf!Arrive
<1> QED BY <1>9 DEF Shelf!Next

LEMMA MarkingMisses ==
  ASSUME TypeInv, CurrentInv, TypeInv', CurrentInv', NEW c \in Collections, ScanMarksMissing(c)
  PROVE  Shelf!Next
<1> PICK l \in Locations :
     /\ CurrentFor(l, c)
     /\ location' = [location EXCEPT ![l].status = "missing"]
     /\ collection' = [collection EXCEPT ![c] = "tombstone"]
  BY DEF ScanMarksMissing
<1>1. Place(c) = Shelf!StandsAt(location[l].path)
  BY PlaceOfCurrent
<1>2. Place(c)' = Shelf!Off("missing")
  BY DEF Place, Shelf!Off, TypeInv, TypeOK
<1>3. ASSUME NEW d \in Collections \ {c} PROVE Place(d)' = Place(d)
  BY PlaceStays DEF CurrentFor, IsCurrent, TypeInv, TypeOK
<1>4. [d \in Collections |-> Place(d)]' =
        [[d \in Collections |-> Place(d)] EXCEPT ![c] = Shelf!Off("missing")]
  BY <1>2, <1>3
<1>5. [d \in Collections |-> Place(d)][c].state = "standing"
  BY <1>1 DEF Shelf!StandsAt
<1>6. UNCHANGED [o \in Operations |-> RequestOf(o)]
  BY DEF ScanMarksMissing, RequestOf
<1>7. Shelf!Miss(c)
  BY <1>4, <1>5, <1>6 DEF Shelf!Miss, Shelf!Standing
<1> QED BY <1>7 DEF Shelf!Next

LEMMA ShelfStep ==
  TypeInv /\ CurrentInv /\ SourcesFit /\ TypeInv' /\ CurrentInv' /\ [Next]_vars
    => [Shelf!Next]_(Shelf!vars)
<1> SUFFICES ASSUME TypeInv, CurrentInv, SourcesFit, TypeInv', CurrentInv', [Next]_vars
             PROVE  Shelf!Next \/ UNCHANGED Shelf!vars
  OBVIOUS
<1>1. CASE UNCHANGED <<collection, location>> /\ UNCHANGED <<operation, overlapped>>
  <2>1. \A c \in Collections : Place(c)' = Place(c)
    BY <1>1 DEF Place, CurrentPath, CurrentFor, IsCurrent
  <2>2. \A o \in Operations : RequestOf(o)' = RequestOf(o)
    BY <1>1 DEF RequestOf
  <2> QED BY <2>1, <2>2 DEF Shelf!vars
<1> QED
  BY <1>1, CatalogWriters, JournalWriters, RequestAsks, FailureDenies, RelocationGrants,
     SoftDeletionGrants, HardDeletionGrants, IngestArrives, MarkingMisses

(* However links, copies, crashes, failures, recoveries and scans are       *)
(* interleaved, a collection leaves its place only because a scan missed    *)
(* the file or because a recorded request was granted once, from where the  *)
(* request found it to a place nobody else has.                             *)
THEOREM ShelfPromiseKept == Spec => KeepsShelfPromise
<1>1. Spec => [](TypeInv /\ CurrentInv /\ SourcesFit)
  BY TypeInit, TypeStep, CurrentInit, CurrentStep, SourcesInit, SourcesStep, PTL DEF Spec
<1> QED
  BY <1>1, ShelfInit, ShelfStep, PTL DEF Spec, KeepsShelfPromise, Shelf!Spec

-----------------------------------------------------------------------------
(* What the catalog says of the disk.  The invariant has four parts: the    *)
(* rows refer to rows that exist, the running operation works between a     *)
(* current place and a free one, two pending operations that meet are known *)
(* as overlapping or contested, and the claims about the files.             *)

(* The writers of the tables, by what they do to the rows. *)
RowKept(o) ==
  /\ operation'[o].collection = operation[o].collection
  /\ operation'[o].from_location = operation[o].from_location
  /\ operation'[o].kind = operation[o].kind
  /\ operation'[o].from = operation[o].from
  /\ operation'[o].to = operation[o].to

JournalSettles(r, result) ==
  /\ UsedOperations' = UsedOperations
  /\ PendingOperations' = PendingOperations \ {r}
  /\ \A o \in UsedOperations : RowKept(o)
  /\ operation'[r].status = result
  /\ \A o \in Operations \ {r} : operation'[o] = operation[o]

FilesUntouched == UNCHANGED <<fs, recycled, touched, book, overlapped, contested>>

LEMMA SettleEffect ==
  ASSUME TypeInv, running # Null, IsPending(running), NEW r \in Operations, r = running,
         NEW result \in {"succeeded", "failed"}, Settle(running, result)
  PROVE  /\ r \in PendingOperations /\ r \in UsedOperations /\ operation[r] \in OperationRow
         /\ JournalSettles(r, result)
<1>1. /\ r \in PendingOperations /\ r \in UsedOperations /\ operation[r] \in OperationRow
      /\ Op = operation[r]
  BY RowTypes, RunningRow DEF TypeInv, PendingOperations, Op
<1>2. /\ \A o \in Operations \ {r} : operation'[o] = operation[o]
      /\ operation'[r] = [operation[r] EXCEPT !.status = result]
      /\ operation'[r] # Unused
  BY <1>1, SettledRows
<1>3. RowKept(r) /\ operation'[r].status = result
  BY <1>1, <1>2 DEF OperationRow, RowKept
<1>4. \A o \in UsedOperations : RowKept(o)
  BY <1>2, <1>3 DEF UsedOperations, RowKept
<1>5. UsedOperations' = UsedOperations
  BY <1>1, <1>2 DEF UsedOperations
<1>6. PendingOperations' = PendingOperations \ {r}
  <2>1. \A o \in Operations : operation'[o].status = "pending" <=>
                                operation[o].status = "pending" /\ o # r
    BY <1>2, <1>3
  <2> QED BY <2>1 DEF PendingOperations, IsPending
<1> QED BY <1>1, <1>2, <1>3, <1>4, <1>5, <1>6 DEF JournalSettles

(* RecordFailure settles the running row and touches nothing else. *)
FailureRecorded(r) ==
  /\ r = running /\ phase = "failing" /\ operation[r] \in OperationRow
  /\ JournalSettles(r, "failed")
  /\ UNCHANGED <<collection, location>>
  /\ FilesUntouched /\ phase' = "idle" /\ running' = Null

LEMMA FailureEffect ==
  ASSUME TypeInv, RecordFailure
  PROVE  \E r \in PendingOperations : FailureRecorded(r)
<1>1. /\ running # Null /\ IsPending(running) /\ Settle(running, "failed") /\ phase = "failing"
      /\ phase' = "idle" /\ running' = Null
      /\ UNCHANGED <<disk, collection, location, user, history>>
  BY DEF RecordFailure, At, Stop
<1>2. PICK r \in Operations : r = running
  BY <1>1, RunningRow
<1> QED BY <1>1, <1>2, SettleEffect DEF FilesUntouched, disk, user, history, FailureRecorded

(* CompleteRelocation turns the row of the source and adds one. *)
Relocated(r, c, k, l) ==
  /\ r = running /\ operation[r] \in OperationRow
  /\ operation[r].collection = c /\ operation[r].from_location = k
  /\ operation[r].to \in Paths /\ operation[r].kind \in Relocations
  /\ CurrentFor(k, c) /\ location[k].path = operation[r].from
  /\ Exists(operation[r].to) /\ ~Exists(operation[r].from)
  /\ \A d \in Collections \ {c} : ~IndexedAt(operation[r].to, d)
  /\ JournalSettles(r, "succeeded")
  /\ collection' = collection
  /\ UsedLocations' = UsedLocations \cup {l}
  /\ \A j \in Locations \ {k, l} : location'[j] = location[j]
  /\ location'[k].collection = c /\ location'[k].path = location[k].path
  /\ location'[k].status = "moved"
  /\ location'[l] = [collection |-> c, path |-> operation[r].to, status |-> "current"]
  /\ FilesUntouched /\ phase' = "idle" /\ running' = Null

LEMMA RelocationEffect ==
  ASSUME TypeInv, CurrentInv, SourcesFit, CompleteRelocation
  PROVE  \E r \in PendingOperations, c \in Collections, k \in UsedLocations,
            l \in Locations \ UsedLocations : Relocated(r, c, k, l)
<1>1. /\ running # Null /\ IsPending(running) /\ Settle(running, "succeeded")
      /\ Op.kind \in Relocations /\ RelocationAllowed(running)
      /\ phase' = "idle" /\ running' = Null
      /\ UNCHANGED <<disk, user, history>>
  BY DEF CompleteRelocation, At, Stop
<1> PICK r \in Operations : r = running
  BY <1>1, RunningRow
<1>2. /\ r \in PendingOperations /\ r \in UsedOperations /\ operation[r] \in OperationRow
      /\ JournalSettles(r, "succeeded")
  BY <1>1, SettleEffect
<1> PICK c \in Collections, k \in Locations, to \in Paths :
      /\ c = operation[r].collection /\ k = operation[r].from_location /\ to = operation[r].to
      /\ k # Null /\ CurrentFor(k, c) /\ Exists(to) /\ ~Exists(operation[r].from)
      /\ \A d \in Collections \ {c} : ~IndexedAt(to, d)
  <2>1. Op = operation[r] /\ Op.to \in Paths
    BY <1>1, RunningRow DEF Op
  <2> QED BY <1>1, <1>2, <2>1 DEF RelocationAllowed, OperationRow
<1>3. location[k].path = operation[r].from
  BY <1>2 DEF SourcesFit
<1> PICK l \in Locations :
      /\ NextId(l, UsedLocations)
      /\ location' = [location EXCEPT
           ![k].status = "moved",
           ![l] = [collection |-> c, path |-> to, status |-> "current"]]
  BY DEF CompleteRelocation, Op
<1>4. l \notin UsedLocations /\ k \in UsedLocations /\ k # l
  BY NextIdFresh, RowTypes DEF Locations, CurrentFor, TypeInv
<1>5. location[k] \in LocationRow /\ location[k].collection = c
  BY <1>4, RowTypes DEF TypeInv, CurrentFor
<1>6. /\ \A j \in Locations \ {k, l} : location'[j] = location[j]
      /\ location'[k] = [location[k] EXCEPT !.status = "moved"]
      /\ location'[l] = [collection |-> c, path |-> to, status |-> "current"]
  BY <1>4 DEF TypeInv, TypeOK
<1>7. /\ location'[k].collection = c /\ location'[k].path = location[k].path
      /\ location'[k].status = "moved" /\ location'[l].status = "current"
  <2>1. location'[l].status = "current"
    BY <1>6
  <2>2. /\ location'[k].collection = c /\ location'[k].path = location[k].path
        /\ location'[k].status = "moved"
    BY <1>5, <1>6 DEF LocationRow
  <2> QED BY <2>1, <2>2
<1>8. location'[k] # Unused /\ location'[l] # Unused
  BY <1>7 DEF Unused
<1>9. UsedLocations' = UsedLocations \cup {l}
  BY <1>4, <1>6, <1>8 DEF UsedLocations
<1>10. collection' = collection
  <2>1. collection[c] = "active"
    BY DEF CurrentInv, ActiveHasLocation
  <2> QED BY <2>1 DEF CompleteRelocation, Op, TypeInv, TypeOK
<1>11. FilesUntouched
  BY <1>1 DEF FilesUntouched, disk, user, history
<1>12. /\ operation[r].kind \in Relocations /\ operation[r].to \in Paths
       /\ Exists(operation[r].to)
       /\ \A d \in Collections \ {c} : ~IndexedAt(operation[r].to, d)
       /\ location'[l] = [collection |-> c, path |-> operation[r].to, status |-> "current"]
  BY <1>1, <1>6 DEF Op
<1>13. r \in PendingOperations /\ k \in UsedLocations /\ l \in Locations \ UsedLocations
  BY <1>2, <1>4
<1> USE <1>13
<1> WITNESS r \in PendingOperations, c \in Collections, k \in UsedLocations,
            l \in Locations \ UsedLocations
<1> QED BY <1>1, <1>2, <1>3, <1>4, <1>6, <1>7, <1>9, <1>10, <1>11, <1>12 DEF Relocated

(* CompleteSoftDelete retires the collection and its current location. *)
SoftlyDeleted(r, c, k) ==
  /\ r = running /\ operation[r] \in OperationRow
  /\ operation[r].collection = c /\ operation[r].from_location = k
  /\ operation[r].kind = "soft_delete"
  /\ CurrentFor(k, c) /\ location[k].path = operation[r].from
  /\ ~Exists(operation[r].from)
  /\ JournalSettles(r, "succeeded")
  /\ collection'[c] = "soft_deleted"
  /\ \A d \in Collections \ {c} : collection'[d] = collection[d]
  /\ UsedLocations' = UsedLocations
  /\ \A j \in Locations \ {k} : location'[j] = location[j]
  /\ location'[k].collection = c /\ location'[k].path = location[k].path
  /\ location'[k].status = "deleted"
  /\ FilesUntouched /\ phase' = "idle" /\ running' = Null

LEMMA SoftDeletionEffect ==
  ASSUME TypeInv, SourcesFit, CompleteSoftDelete
  PROVE  \E r \in PendingOperations, c \in Collections, k \in UsedLocations : SoftlyDeleted(r, c, k)
<1>1. /\ running # Null /\ IsPending(running) /\ Settle(running, "succeeded")
      /\ Op.kind = "soft_delete" /\ SoftDeletionAllowed(running)
      /\ phase' = "idle" /\ running' = Null
      /\ UNCHANGED <<disk, user, history>>
  BY DEF CompleteSoftDelete, At, Stop
<1> PICK r \in Operations : r = running
  BY <1>1, RunningRow
<1>2. /\ r \in PendingOperations /\ r \in UsedOperations /\ operation[r] \in OperationRow
      /\ JournalSettles(r, "succeeded")
  BY <1>1, SettleEffect
<1> PICK c \in Collections, k \in Locations :
      /\ c = operation[r].collection /\ k = operation[r].from_location
      /\ k # Null /\ CurrentFor(k, c) /\ ~Exists(operation[r].from)
  BY <1>1, <1>2 DEF SoftDeletionAllowed, OperationRow
<1>3. location[k].path = operation[r].from
  BY <1>2 DEF SourcesFit
<1>4. k \in UsedLocations /\ location[k] \in LocationRow /\ location[k].collection = c
  BY RowTypes DEF CurrentFor, TypeInv
<1>5. /\ location' = [location EXCEPT ![k].status = "deleted"]
      /\ collection' = [collection EXCEPT ![c] = "soft_deleted"]
  BY DEF CompleteSoftDelete, Op
<1>6. /\ \A j \in Locations \ {k} : location'[j] = location[j]
      /\ location'[k] = [location[k] EXCEPT !.status = "deleted"]
      /\ collection'[c] = "soft_deleted"
      /\ \A d \in Collections \ {c} : collection'[d] = collection[d]
  BY <1>5 DEF TypeInv, TypeOK
<1>7. /\ location'[k].collection = c /\ location'[k].path = location[k].path
      /\ location'[k].status = "deleted"
  BY <1>4, <1>6 DEF LocationRow
<1>8. location'[k] # Unused
  BY <1>7 DEF Unused
<1>9. UsedLocations' = UsedLocations
  BY <1>4, <1>6, <1>8 DEF UsedLocations
<1>10. FilesUntouched /\ operation[r].kind = "soft_delete"
  BY <1>1 DEF FilesUntouched, disk, user, history, Op
<1> QED BY <1>1, <1>2, <1>3, <1>4, <1>6, <1>7, <1>9, <1>10 DEF SoftlyDeleted

(* CompleteHardDelete takes the collection and its locations away, and the  *)
(* journal forgets them.                                                    *)
HardDeleted(r, c) ==
  /\ r = running /\ operation[r] \in OperationRow
  /\ operation[r].collection = c /\ operation[r].kind = "hard_delete"
  /\ ~Exists(operation[r].from) /\ c \notin held
  /\ UsedOperations' = UsedOperations
  /\ PendingOperations' = PendingOperations \ {r}
  /\ operation'[r].status = "succeeded"
  /\ \A o \in UsedOperations :
       /\ operation'[o].kind = operation[o].kind
       /\ operation'[o].from = operation[o].from
       /\ operation'[o].to = operation[o].to
       /\ o # r => operation'[o].status = operation[o].status
       /\ operation'[o].collection =
            IF operation[o].collection = c THEN Null ELSE operation[o].collection
       /\ operation'[o].from_location =
            IF operation[o].from_location # Null /\ Gone(operation[o].from_location, c)
              THEN Null ELSE operation[o].from_location
  /\ collection' = [collection EXCEPT ![c] = "unused"]
  /\ UsedLocations' = {l \in UsedLocations : location[l].collection # c}
  /\ \A l \in UsedLocations' : location'[l] = location[l]
  /\ book' = [book EXCEPT ![c] = Null]
  /\ UNCHANGED <<fs, recycled, touched, overlapped, contested>>
  /\ phase' = "idle" /\ running' = Null

LEMMA HardDeletionEffect ==
  ASSUME TypeInv, CompleteHardDelete
  PROVE  \E r \in PendingOperations, c \in Collections : HardDeleted(r, c)
<1>1. /\ running # Null /\ IsPending(running)
      /\ Op.kind = "hard_delete" /\ HardDeletionAllowed(running)
      /\ phase' = "idle" /\ running' = Null
      /\ UNCHANGED <<disk, user, overlapped, contested>>
  BY DEF CompleteHardDelete, At, Stop
<1> PICK r \in Operations : r = running
  BY <1>1, RunningRow
<1>2. r \in PendingOperations /\ r \in UsedOperations /\ operation[r] \in OperationRow
  BY <1>1, RowTypes DEF PendingOperations, TypeInv
<1> PICK c \in Collections : c = operation[r].collection
  BY <1>1, <1>2 DEF HardDeletionAllowed, OperationRow
<1>3. /\ ~Exists(operation[r].from) /\ c \notin held /\ operation[r].kind = "hard_delete"
  BY <1>1 DEF HardDeletionAllowed, Op
<1>4. /\ collection' = [collection EXCEPT ![c] = "unused"]
      /\ location' = [l \in Locations |-> IF Gone(l, c) THEN Unused ELSE location[l]]
      /\ operation' = JournalWithout(c, r)
      /\ book' = [book EXCEPT ![c] = Null]
  BY DEF CompleteHardDelete, Op
<1>5. ASSUME NEW o \in Operations
      PROVE  /\ operation[o] = Unused => operation'[o] = Unused
             /\ operation[o] # Unused =>
                  operation'[o] = [operation[o] EXCEPT
                     !.collection = IF @ = c THEN Null ELSE @,
                     !.from_location = IF @ # Null /\ Gone(@, c) THEN Null ELSE @,
                     !.status = IF o = r THEN "succeeded" ELSE @]
  BY <1>4 DEF JournalWithout
<1>6. ASSUME NEW o \in UsedOperations
      PROVE  /\ operation'[o].kind = operation[o].kind
             /\ operation'[o].from = operation[o].from
             /\ operation'[o].to = operation[o].to
             /\ operation'[o].status = IF o = r THEN "succeeded" ELSE operation[o].status
             /\ operation'[o].collection =
                  IF operation[o].collection = c THEN Null ELSE operation[o].collection
             /\ operation'[o].from_location =
                  IF operation[o].from_location # Null /\ Gone(operation[o].from_location, c)
                    THEN Null ELSE operation[o].from_location
  <2>1. operation[o] \in OperationRow /\ operation[o] # Unused
    BY RowTypes DEF TypeInv, UsedOperations
  <2> QED BY ZenonT(60), <1>5, <2>1 DEF OperationRow, UsedOperations
<1>7. UsedOperations' = UsedOperations
  <2>1. ASSUME NEW o \in UsedOperations PROVE operation'[o] # Unused
    <3>1. operation'[o].status \in {"pending", "succeeded", "failed"}
      BY <1>6, RowTypes DEF OperationRow, TypeInv
    <3> QED BY <3>1 DEF Unused
  <2> QED BY <1>5, <2>1 DEF UsedOperations
<1>8. PendingOperations' = PendingOperations \ {r}
  <2>0. Unused.status # "pending"
    BY DEF Unused
  <2>1. ASSUME NEW o \in Operations \ UsedOperations PROVE ~IsPending(o) /\ ~IsPending(o)'
    <3>1. operation[o] = Unused /\ operation'[o] = Unused
      BY <1>5 DEF UsedOperations
    <3> QED BY <2>0, <3>1 DEF IsPending
  <2>2. \A o \in UsedOperations : IsPending(o)' <=> IsPending(o) /\ o # r
    BY <1>6 DEF IsPending
  <2>3. \A o \in Operations : o \in UsedOperations \/ o \in Operations \ UsedOperations
    OBVIOUS
  <2>4. UsedOperations \subseteq Operations
    BY DEF UsedOperations
  <2>5. \A o \in Operations : IsPending(o)' <=> IsPending(o) /\ o # r
    BY <1>2, <2>1, <2>2, <2>3, <2>4
  <2> QED BY <2>5 DEF PendingOperations
<1>9. /\ UsedLocations' = {l \in UsedLocations : location[l].collection # c}
      /\ \A l \in UsedLocations' : location'[l] = location[l]
  BY <1>4 DEF UsedLocations, Gone
<1>10. UNCHANGED <<fs, recycled, touched>>
  BY <1>1 DEF disk, user
<1> USE <1>2
<1> WITNESS r \in PendingOperations, c \in Collections
<1> QED BY <1>1, <1>2, <1>3, <1>4, <1>6, <1>7, <1>8, <1>9, <1>10 DEF HardDeleted

(* ingest_one adds a collection with its first location. *)
Ingested(p, c, l) ==
  /\ Exists(p) /\ \A d \in Collections : ~IndexedAt(p, d)
  /\ collection'[c] = "active"
  /\ \A d \in Collections \ {c} : collection'[d] = collection[d] /\ book'[d] = book[d]
  /\ book'[c] = fs[p]
  /\ UsedLocations' = UsedLocations \cup {l}
  /\ \A j \in Locations \ {l} : location'[j] = location[j]
  /\ location'[l] = [collection |-> c, path |-> p, status |-> "current"]
  /\ UNCHANGED <<operation, fs, recycled, touched, overlapped, contested,
                 phase, running>>
  /\ phase = "idle"

LEMMA IngestEffect ==
  ASSUME TypeInv, NEW p \in Paths, ScanIngests(p)
  PROVE  \E c \in Collections \ UsedCollections, l \in Locations \ UsedLocations : Ingested(p, c, l)
<1>1. /\ phase = "idle" /\ Exists(p) /\ \A d \in Collections : ~IndexedAt(p, d)
      /\ UNCHANGED <<disk, operation, process, user, overlapped, contested>>
  BY DEF ScanIngests, Serving
<1> PICK c \in Collections, l \in Locations :
      /\ NextId(c, UsedCollections)
      /\ NextId(l, UsedLocations)
      /\ collection' = [collection EXCEPT ![c] = "active"]
      /\ location' = [location EXCEPT
           ![l] = [collection |-> c, path |-> p, status |-> "current"]]
      /\ book' = [book EXCEPT ![c] = fs[p]]
  BY DEF ScanIngests
<1>2. c \notin UsedCollections /\ l \notin UsedLocations
  BY NextIdFresh DEF Collections, Locations
<1>3. /\ \A j \in Locations \ {l} : location'[j] = location[j]
      /\ location'[l] = [collection |-> c, path |-> p, status |-> "current"]
      /\ collection'[c] = "active" /\ book'[c] = fs[p]
      /\ \A d \in Collections \ {c} : collection'[d] = collection[d] /\ book'[d] = book[d]
  BY DEF TypeInv, TypeOK
<1>4. location'[l] # Unused
  <2>1. location'[l].status = "current"
    BY <1>3
  <2> QED BY <2>1 DEF Unused
<1>5. UsedLocations' = UsedLocations \cup {l}
  BY <1>3, <1>4 DEF UsedLocations
<1>6. UNCHANGED <<fs, recycled, touched, phase, running>>
  BY <1>1 DEF disk, process, user
<1> QED BY <1>1, <1>2, <1>3, <1>5, <1>6 DEF Ingested

(* mark_collection_missing retires the collection and its location. *)
FoundMissing(c, k) ==
  /\ CurrentFor(k, c) /\ ~Exists(location[k].path)
  /\ collection[c] = "active" /\ collection'[c] = "tombstone"
  /\ \A d \in Collections \ {c} : collection'[d] = collection[d]
  /\ UsedLocations' = UsedLocations
  /\ \A j \in Locations \ {k} : location'[j] = location[j]
  /\ location'[k].collection = c /\ location'[k].path = location[k].path
  /\ location'[k].status = "missing"
  /\ UNCHANGED <<operation, phase, running>> /\ FilesUntouched
  /\ phase = "idle"

LEMMA MissingEffect ==
  ASSUME TypeInv, NEW c \in Collections, ScanMarksMissing(c)
  PROVE  \E k \in UsedLocations : FoundMissing(c, k)
<1>1. /\ phase = "idle" /\ collection[c] = "active"
      /\ collection' = [collection EXCEPT ![c] = "tombstone"]
      /\ UNCHANGED <<disk, operation, process, user, history>>
  BY DEF ScanMarksMissing, Serving
<1> PICK k \in Locations :
      /\ CurrentFor(k, c) /\ ~Exists(location[k].path)
      /\ location' = [location EXCEPT ![k].status = "missing"]
  BY DEF ScanMarksMissing
<1>2. k \in UsedLocations /\ location[k] \in LocationRow /\ location[k].collection = c
  BY RowTypes DEF CurrentFor, TypeInv
<1>3. /\ \A j \in Locations \ {k} : location'[j] = location[j]
      /\ location'[k] = [location[k] EXCEPT !.status = "missing"]
      /\ collection'[c] = "tombstone"
      /\ \A d \in Collections \ {c} : collection'[d] = collection[d]
  BY <1>1 DEF TypeInv, TypeOK
<1>4. /\ location'[k].collection = c /\ location'[k].path = location[k].path
      /\ location'[k].status = "missing"
  BY <1>2, <1>3 DEF LocationRow
<1>5. location'[k] # Unused
  BY <1>4 DEF Unused
<1>6. UsedLocations' = UsedLocations
  BY <1>2, <1>3, <1>5 DEF UsedLocations
<1>7. FilesUntouched /\ UNCHANGED <<phase, running>>
  BY <1>1 DEF FilesUntouched, disk, process, user, history
<1> QED BY <1>1, <1>2, <1>3, <1>4, <1>6, <1>7 DEF FoundMissing

(* A request adds a pending row with the largest id. *)
Requested(o, c, l, kind, to) ==
  /\ CurrentFor(l, c) /\ Exists(location[l].path)
  /\ kind \in Relocations <=> to # Null
  /\ to # Null => ~Exists(to) /\ \A d \in Collections : ~IndexedAt(to, d)
  /\ operation'[o] = [collection |-> c, from_location |-> l, kind |-> kind,
                      from |-> location[l].path, to |-> to, status |-> "pending"]
  /\ \A p \in Operations \ {o} : operation'[p] = operation[p]
  /\ UsedOperations' = UsedOperations \cup {o}
  /\ PendingOperations' = PendingOperations \cup {o}
  /\ \A p \in UsedOperations : p < o
  /\ running' = o /\ phase = "idle" /\ phase' = "begun"
  /\ overlapped \subseteq overlapped' /\ contested \subseteq contested'
  /\ \A p \in PendingOperations :
       /\ operation[p].collection = c => c \in overlapped'
       /\ to # Null /\ operation[p].to = to /\ operation[p].collection # Null =>
            operation[p].collection \in contested'
  /\ UNCHANGED <<collection, location, fs, recycled, touched, book>>

LEMMA RequestEffect ==
  ASSUME TypeInv, CurrentInv, Request
  PROVE  \E o \in Operations \ UsedOperations, c \in Collections, l \in UsedLocations,
            kind \in Kinds, to \in Paths \cup {Null} : Requested(o, c, l, kind, to)
<1> DEFINE Asked == \E c \in Collections, l \in Locations, kind \in Kinds, to \in Paths \cup {Null} :
        /\ CurrentFor(l, c) /\ Exists(location[l].path)
        /\ kind \in Relocations <=> to # Null
        /\ to # Null => ~Exists(to) /\ \A d \in Collections : ~IndexedAt(to, d)
        /\ Record(c, l, kind, to)
        /\ phase = "idle"
        /\ UNCHANGED <<disk, collection, location, user, book>>
<1>1. Asked
  <2> USE DEF Operable, Serving
  <2>1. ASSUME NEW c \in Collections, NEW r \in Archives, BeginMove(c, r) PROVE Asked
    <3> PICK l \in Locations :
          LET to == <<r, Name(location[l].path)>> IN
          /\ Operable(c, l) /\ ~Exists(to) /\ \A d \in Collections : ~IndexedAt(to, d)
          /\ Record(c, l, "move", to)
      BY <2>1 DEF BeginMove
    <3>1. location[l].path \in Paths
      BY RowTypes DEF TypeInv, CurrentFor, LocationRow
    <3>2. <<r, Name(location[l].path)>> \in Paths
      BY <3>1 DEF Paths, Roots, Name
    <3> QED BY <2>1, <3>2, NullAssumption DEF BeginMove, Kinds, Relocations
  <2>2. ASSUME NEW c \in Collections, NEW n \in Names, BeginRename(c, n) PROVE Asked
    <3> PICK l \in Locations :
          LET to == <<Root(location[l].path), n>> IN
          /\ Operable(c, l) /\ ~Exists(to) /\ \A d \in Collections \ {c} : ~IndexedAt(to, d)
          /\ Record(c, l, "rename", to)
      BY <2>2 DEF BeginRename
    <3>1. location[l].path \in Paths
      BY RowTypes DEF TypeInv, CurrentFor, LocationRow
    <3>2. <<Root(location[l].path), n>> \in Paths
      BY <3>1 DEF Paths, Root
    <3>3. ~IndexedAt(<<Root(location[l].path), n>>, c)
      BY DEF IndexedAt, CurrentFor, CurrentInv, CurrentLocationsUnique
    <3> QED BY <2>2, <3>2, <3>3, NullAssumption DEF BeginRename, Kinds, Relocations
  <2>3. ASSUME NEW c \in Collections, NEW kind \in {"soft_delete", "hard_delete"},
               BeginDelete(c, kind)
        PROVE  Asked
    <3> PICK l \in Locations : Operable(c, l) /\ Record(c, l, kind, Null)
      BY <2>3 DEF BeginDelete
    <3> QED BY <2>3 DEF BeginDelete, Kinds, Relocations
  <2> QED BY <2>1, <2>2, <2>3 DEF Request
<1> PICK c \in Collections, l \in Locations, kind \in Kinds, to \in Paths \cup {Null} :
        /\ CurrentFor(l, c) /\ Exists(location[l].path)
        /\ kind \in Relocations <=> to # Null
        /\ to # Null => ~Exists(to) /\ \A d \in Collections : ~IndexedAt(to, d)
        /\ Record(c, l, kind, to)
        /\ phase = "idle"
        /\ UNCHANGED <<disk, collection, location, user, book>>
  BY <1>1
<1> DEFINE row == [collection |-> c, from_location |-> l, kind |-> kind,
                   from |-> location[l].path, to |-> to, status |-> "pending"]
<1> PICK o \in Operations :
      /\ NextId(o, UsedOperations)
      /\ operation' = [operation EXCEPT ![o] = row]
      /\ running' = o /\ phase' = "begun"
  BY DEF Record
<1>2. o \notin UsedOperations /\ \A p \in UsedOperations : p < o
  BY NextIdFresh DEF Operations, NextId
<1>3. operation'[o] = row /\ \A p \in Operations \ {o} : operation'[p] = operation[p]
  BY DEF TypeInv, TypeOK
<1>4. operation'[o].status = "pending"
  BY <1>3
<1>5. operation'[o] # Unused
  BY <1>4 DEF Unused
<1>6. UsedOperations' = UsedOperations \cup {o}
  BY <1>3, <1>5 DEF UsedOperations
<1>7. PendingOperations' = PendingOperations \cup {o}
  BY <1>3, <1>4 DEF PendingOperations, IsPending
<1>8. /\ overlapped \subseteq overlapped' /\ contested \subseteq contested'
      /\ \A p \in PendingOperations : operation[p].collection = c => c \in overlapped'
  BY DEF Record
<1>9. ASSUME NEW p \in PendingOperations, to # Null, operation[p].to = to,
             operation[p].collection # Null
      PROVE  operation[p].collection \in contested'
  <2>1. operation[p].collection \in Collections
    BY <1>9, RowTypes DEF TypeInv, OperationRow
  <2> QED BY <1>9, <2>1 DEF Record
<1>10. UNCHANGED <<collection, location, fs, recycled, touched, book>> /\ l \in UsedLocations
  BY RowTypes DEF disk, user, CurrentFor, TypeInv
<1> HIDE DEF row
<1> USE <1>2, <1>10
<1> WITNESS o \in Operations \ UsedOperations, c \in Collections, l \in UsedLocations,
            kind \in Kinds, to \in Paths \cup {Null}
<1> QED BY <1>3, <1>6, <1>7, <1>8, <1>9 DEF row, Requested

(* The steps of the files change one place, or none: a relocation fills its *)
(* target with what its source holds or clears it again, and the last step  *)
(* clears the source.                                                       *)
AtFiles == phase \in {"begun", "copied", "published", "linked"}

LEMMA FileStepEffect ==
  ASSUME TypeInv, CopyFaithful, FileStep
  PROVE  /\ AtFiles /\ running # Null
         /\ UNCHANGED <<collection, location, operation, running, touched, book, overlapped,
                        contested>>
         /\ phase' # "failing"
         /\ \/ UNCHANGED <<fs, recycled>>
            \/ /\ Op.kind \in Relocations /\ ~Exists(Op.to)
               /\ \E v : fs' = [fs EXCEPT ![Op.to] = v] /\ SameBytes(v, fs[Op.from])
               /\ UNCHANGED recycled
            \/ /\ Op.kind \in Relocations
               /\ fs' = [fs EXCEPT ![Op.to] = Null]
               /\ UNCHANGED recycled
               /\ phase' = "failed"
            \/ /\ fs' = [fs EXCEPT ![Op.from] = Null]
               /\ phase' = "applied"
               /\ \/ Op.kind # "soft_delete" /\ UNCHANGED recycled
                  \/ recycled' = recycled \cup {fs[Op.from]}
<1> USE DEF At, Goto, catalog, user, history
<1>1. CASE HardLink
  BY <1>1 DEF HardLink, AtFiles, SameBytes
<1>2. CASE CopyToPartial \/ RemovePartial \/ RollBackFails \/ FileStepFails
  BY <1>2 DEF CopyToPartial, RemovePartial, RollBackFails, FileStepFails, AtFiles, disk
<1>3. CASE PublishPartial
  BY <1>3 DEF PublishPartial, AtFiles, CopyFaithful
<1>4. CASE RemoveSource
  BY <1>4 DEF RemoveSource, AtFiles, CopyFaithful, Relocations
<1>5. CASE RollBack
  BY <1>5 DEF RollBack, AtFiles, CopyFaithful
<1>6. CASE Recycle \/ Erase
  BY <1>6 DEF Recycle, Erase, AtFiles
<1> QED BY <1>1, <1>2, <1>3, <1>4, <1>5, <1>6 DEF FileStep

(* Steps that change neither the tables nor the files: the process turns to *)
(* another phase, or only settings change.                                  *)
Quiet ==
  \/ FailureIsCertain \/ FailureIsAmbiguous \/ CompletionRefused \/ StorageError
  \/ Crash \/ Restart \/ RestartRefused \/ Recovery
  \/ \E c \in Collections : OtherTableHolds(c)
  \/ \E r \in Roots, on \in BOOLEAN : SetRootActive(r, on)
  \/ UNCHANGED vars

LEMMA KindsOfSteps ==
  ASSUME [Next]_vars
  PROVE  \/ Request \/ FileStep \/ User \/ Quiet
         \/ RecordFailure \/ CompleteRelocation \/ CompleteSoftDelete \/ CompleteHardDelete
         \/ \E p \in Paths : ScanIngests(p)
         \/ \E c \in Collections : ScanMarksMissing(c)
<1>1. OtherWriter => \/ Quiet \/ \E p \in Paths : ScanIngests(p)
                     \/ \E c \in Collections : ScanMarksMissing(c)
  BY RootKindsAssumption DEF OtherWriter, Quiet
<1> QED BY <1>1 DEF Next, Outcome, Quiet

LEMMA QuietEffect ==
  ASSUME TypeInv, Quiet
  PROVE  /\ UNCHANGED <<collection, location, operation>> /\ FilesUntouched
         /\ AtFiles' => phase' = phase /\ running' = running
         /\ phase' = "failing" =>
              \/ phase = "failing" /\ running' = running
              \/ \E o \in UsedOperations :
                   /\ o = running' /\ Exists(operation[o].from)
                   /\ operation[o].to # Null => ~Exists(operation[o].to)
<1> USE DEF FilesUntouched, disk, catalog, process, user, history
<1>1. CASE FailureIsCertain
  <2>1. At("failed") /\ Exists(Op.from) /\ ~TargetTaken /\ Goto("failing")
        /\ UNCHANGED <<disk, catalog, user, history, disturbed>>
    BY <1>1 DEF FailureIsCertain
  <2>2. PICK o \in UsedOperations : o = running
    BY <2>1 DEF At, TypeInv, JournalShape
  <2>3. Exists(operation[o].from) /\ (operation[o].to # Null => ~Exists(operation[o].to))
    BY <2>1, <2>2 DEF Op, TargetTaken
  <2>4. o = running' /\ phase' = "failing"
    BY <2>1, <2>2 DEF Goto
  <2> QED BY <2>1, <2>3, <2>4 DEF AtFiles
<1>2. CASE FailureIsAmbiguous \/ CompletionRefused \/ StorageError
  BY <1>2 DEF FailureIsAmbiguous, CompletionRefused, StorageError, Stop, AtFiles
<1>3. CASE Crash \/ Restart \/ RestartRefused \/ FinishRecovery \/ UNCHANGED vars
  BY <1>3 DEF Crash, Restart, RestartRefused, FinishRecovery, vars, AtFiles
<1>4. ASSUME NEW o \in Operations, RecoverApplied(o) \/ RecoverAmbiguous(o)
      PROVE  /\ UNCHANGED <<collection, location, operation>> /\ FilesUntouched
             /\ ~AtFiles' /\ phase' # "failing"
  BY <1>4 DEF RecoverApplied, RecoverAmbiguous, Visit, AtFiles
<1>5. ASSUME NEW o \in Operations, RecoverUnapplied(o)
      PROVE  /\ UNCHANGED <<collection, location, operation>> /\ FilesUntouched
             /\ ~AtFiles' /\ o \in UsedOperations
             /\ o = running' /\ Exists(operation[o].from)
             /\ operation[o].to # Null => ~Exists(operation[o].to)
  <2>1. o \in UsedOperations
    BY <1>5 DEF RecoverUnapplied, Visit, NextInQueue, TypeInv, JournalShape
  <2>2. operation[o].kind \in Relocations <=> operation[o].to # Null
    BY <2>1 DEF TypeInv, JournalShape
  <2> QED BY <1>5, <2>1, <2>2 DEF RecoverUnapplied, LooksUnapplied, TargetOf, Visit, AtFiles
<1>6. ASSUME NEW c \in Collections, OtherTableHolds(c)
      PROVE  /\ UNCHANGED <<collection, location, operation, phase, running>> /\ FilesUntouched
  BY <1>6 DEF OtherTableHolds
<1>7. ASSUME NEW r \in Roots, NEW on \in BOOLEAN, SetRootActive(r, on)
      PROVE  /\ UNCHANGED <<collection, location, operation, phase, running>> /\ FilesUntouched
  BY <1>7 DEF SetRootActive
<1> QED BY <1>1, <1>2, <1>3, <1>4, <1>5, <1>6, <1>7 DEF Quiet, Recovery

(* The user changes no place and no file that does not count as touched.    *)
LEMMA UserEffect ==
  ASSUME TypeInv, User
  PROVE  /\ UNCHANGED <<collection, location, operation, book, overlapped, contested, phase,
                        running>>
         /\ touched \subseteq touched'
         /\ \A p \in Paths : fs'[p] = fs[p] \/ p \in touched'
         /\ \A x \in recycled : x \in recycled' \/ x \in touched'
<1> USE DEF UserStep, catalog, process, history
<1>1. ASSUME NEW p \in Paths, NEW q \in Paths, UserMoves(p, q)
      PROVE  /\ \A r \in Paths : fs'[r] = fs[r] \/ r \in touched'
             /\ recycled' = recycled
  BY <1>1 DEF UserMoves, TypeInv, TypeOK
<1>2. ASSUME NEW p \in Paths, UserTakes(p)
      PROVE  /\ \A r \in Paths : fs'[r] = fs[r] \/ r \in touched'
             /\ recycled' = recycled
  BY <1>2 DEF UserTakes, TypeInv, TypeOK
<1>3. ASSUME NEW p \in Paths, NEW x \in Contents, UserReturns(x, p)
      PROVE  /\ \A r \in Paths : fs'[r] = fs[r] \/ r \in touched'
             /\ \A y \in recycled : y \in recycled' \/ y \in touched'
  BY <1>3 DEF UserReturns, TypeInv, TypeOK
<1>4. touched \subseteq touched'
      /\ UNCHANGED <<collection, location, operation, book, overlapped, contested, phase, running>>
  BY DEF User, UserMoves, UserTakes, UserReturns
<1> QED BY <1>1, <1>2, <1>3, <1>4 DEF User

-----------------------------------------------------------------------------
(* Rows refer to rows that exist, and a row of the journal to a location of *)
(* its own collection.                                                      *)
References ==
  /\ \A l \in UsedLocations : collection[location[l].collection] # "unused"
  /\ \A o \in UsedOperations : operation[o].collection # Null =>
       /\ collection[operation[o].collection] # "unused"
       /\ operation[o].from_location # Null
       /\ location[operation[o].from_location].collection = operation[o].collection

LEMMA ReferencesInit == Init => References
BY DEF Init, References, UsedLocations, UsedOperations

(* References hold when rows keep what they refer to and no collection goes. *)
LEMMA ReferencesKept ==
  ASSUME TypeInv, References, SourcesFit,
         UsedOperations' = UsedOperations, \A o \in UsedOperations : RowKept(o),
         \A l \in UsedLocations : l \in UsedLocations' /\ location'[l].collection = location[l].collection,
         \A l \in UsedLocations' \ UsedLocations : collection'[location'[l].collection] # "unused",
         \A c \in Collections : collection[c] # "unused" => collection'[c] # "unused"
  PROVE  References'
<1>1. ASSUME NEW l \in UsedLocations' PROVE collection'[location'[l].collection] # "unused"
  BY RowTypes DEF References, TypeInv, LocationRow
<1>2. ASSUME NEW o \in UsedOperations', operation'[o].collection # Null
      PROVE  /\ collection'[operation'[o].collection] # "unused"
             /\ operation'[o].from_location # Null
             /\ location'[operation'[o].from_location].collection = operation'[o].collection
  <2>1. operation[o] \in OperationRow /\ RowKept(o) /\ o \in UsedOperations
    BY RowTypes DEF TypeInv
  <2>2. operation[o].collection \in Collections
    BY <1>2, <2>1 DEF OperationRow, RowKept
  <2>3. operation[o].from_location \in UsedLocations
    BY <1>2, <2>1 DEF References, SourcesFit, RowKept
  <2> QED BY <1>2, <2>1, <2>2, <2>3 DEF References, RowKept
<1> QED BY <1>1, <1>2 DEF References

LEMMA ReferencesStep ==
  TypeInv /\ CurrentInv /\ SourcesFit /\ CopyFaithful /\ References /\ [Next]_vars => References'
<1> SUFFICES ASSUME TypeInv, CurrentInv, SourcesFit, CopyFaithful, References, [Next]_vars
             PROVE  References'
  OBVIOUS
<1>1. CASE FileStep \/ User \/ Quiet
  <2>1. UNCHANGED <<collection, location, operation>>
    BY <1>1, FileStepEffect, UserEffect, QuietEffect
  <2> QED BY <2>1 DEF References, UsedLocations, UsedOperations
<1>2. CASE Request
  <2> PICK o \in Operations \ UsedOperations, c \in Collections, l \in UsedLocations,
           kind \in Kinds, to \in Paths \cup {Null} :
        Requested(o, c, l, kind, to)
    BY <1>2, RequestEffect
  <2> USE DEF Requested
  <2>1. location[l].collection = c /\ collection[c] # "unused" /\ l # Null
    BY NullAssumption, BoundsAssumption DEF CurrentFor, References, UsedLocations, Locations
  <2>2. \A p \in UsedOperations : operation'[p] = operation[p]
    BY DEF UsedOperations
  <2>3. UsedLocations' = UsedLocations
    BY DEF UsedLocations
  <2> QED BY <2>1, <2>2, <2>3 DEF References
<1>3. CASE RecordFailure
  <2> PICK r \in PendingOperations :
        FailureRecorded(r)
    BY <1>3, FailureEffect
  <2> USE DEF FailureRecorded
  <2>1. UsedLocations' = UsedLocations
    BY DEF UsedLocations
  <2> QED BY <2>1, ReferencesKept DEF JournalSettles
<1>4. CASE CompleteRelocation
  <2> PICK r \in PendingOperations, c \in Collections, k \in UsedLocations,
           l \in Locations \ UsedLocations :
        Relocated(r, c, k, l)
    BY <1>4, RelocationEffect
  <2> USE DEF Relocated
  <2>1. location[k].collection = c /\ collection[c] # "unused"
    BY DEF CurrentFor, References
  <2>2. location'[l].collection = c
    OBVIOUS
  <2>3. \A j \in UsedLocations : location'[j].collection = location[j].collection
    BY <2>1 DEF UsedLocations
  <2> QED BY <2>1, <2>2, <2>3, ReferencesKept DEF JournalSettles
<1>5. CASE CompleteSoftDelete
  <2> PICK r \in PendingOperations, c \in Collections, k \in UsedLocations :
        SoftlyDeleted(r, c, k)
    BY <1>5, SoftDeletionEffect
  <2> USE DEF SoftlyDeleted
  <2>1. \A j \in UsedLocations : location'[j].collection = location[j].collection
    BY DEF UsedLocations, CurrentFor
  <2>2. \A d \in Collections : collection[d] # "unused" => collection'[d] # "unused"
    OBVIOUS
  <2> QED BY <2>1, <2>2, ReferencesKept DEF JournalSettles
<1>6. CASE CompleteHardDelete
  <2> PICK r \in PendingOperations, c \in Collections :
        HardDeleted(r, c)
    BY <1>6, HardDeletionEffect
  <2> USE DEF HardDeleted
  <2>1. \A d \in Collections \ {c} : collection'[d] = collection[d]
    BY DEF TypeInv, TypeOK
  <2>2. ASSUME NEW l \in UsedLocations' PROVE collection'[location'[l].collection] # "unused"
    <3>1. location[l].collection \in Collections \ {c} /\ l \in UsedLocations
      BY RowTypes DEF TypeInv, LocationRow
    <3> QED BY <2>1, <3>1 DEF References
  <2>3. ASSUME NEW o \in UsedOperations, operation'[o].collection # Null
        PROVE  /\ collection'[operation'[o].collection] # "unused"
               /\ operation'[o].from_location # Null
               /\ location'[operation'[o].from_location].collection = operation'[o].collection
    <3>1. /\ operation[o].collection # c /\ operation[o].collection # Null
          /\ operation'[o].collection = operation[o].collection
      BY <2>3
    <3>2. operation[o].collection \in Collections \ {c}
      BY <3>1, RowTypes DEF TypeInv, OperationRow
    <3>3. /\ operation[o].from_location # Null
          /\ operation[o].from_location \in UsedLocations
          /\ location[operation[o].from_location].collection = operation[o].collection
      BY <3>1 DEF References, SourcesFit
    <3>4. /\ operation'[o].from_location = operation[o].from_location
          /\ operation[o].from_location \in UsedLocations'
      BY <3>1, <3>3 DEF Gone
    <3> QED BY <2>1, <3>1, <3>2, <3>3, <3>4 DEF References
  <2> QED BY <2>2, <2>3 DEF References
<1>7. ASSUME NEW p \in Paths, ScanIngests(p) PROVE References'
  <2> PICK c \in Collections \ UsedCollections, l \in Locations \ UsedLocations :
        Ingested(p, c, l)
    BY <1>7, IngestEffect
  <2> USE DEF Ingested
  <2>1. UsedOperations' = UsedOperations /\ \A o \in UsedOperations : RowKept(o)
    BY DEF UsedOperations, RowKept
  <2>2. location'[l].collection = c
    OBVIOUS
  <2>3. \A j \in UsedLocations : location'[j].collection = location[j].collection
    BY DEF UsedLocations
  <2>4. \A d \in Collections : collection[d] # "unused" => collection'[d] # "unused"
    OBVIOUS
  <2> QED BY <2>1, <2>2, <2>3, <2>4, ReferencesKept
<1>8. ASSUME NEW c \in Collections, ScanMarksMissing(c) PROVE References'
  <2> PICK k \in UsedLocations :
        FoundMissing(c, k)
    BY <1>8, MissingEffect
  <2> USE DEF FoundMissing
  <2>1. UsedOperations' = UsedOperations /\ \A o \in UsedOperations : RowKept(o)
    BY DEF UsedOperations, RowKept
  <2>2. \A j \in UsedLocations : location'[j].collection = location[j].collection
    BY DEF UsedLocations, CurrentFor
  <2>3. \A d \in Collections : collection[d] # "unused" => collection'[d] # "unused"
    OBVIOUS
  <2> QED BY <2>1, <2>2, <2>3, ReferencesKept
<1> QED BY <1>1, <1>2, <1>3, <1>4, <1>5, <1>6, <1>7, <1>8, KindsOfSteps

-----------------------------------------------------------------------------
(* While the files are handled, the running row is the newest, its source   *)
(* is the current place of its collection and nobody is at its target.      *)
LiveRow ==
  AtFiles =>
    /\ running \in PendingOperations
    /\ Op.collection # Null /\ CurrentFor(Op.from_location, Op.collection)
    /\ location[Op.from_location].path = Op.from
    /\ Op.to # Null => \A d \in Collections : ~IndexedAt(Op.to, d)
    /\ \A o \in UsedOperations : o <= running

LEMMA LiveInit == Init => LiveRow
BY DEF Init, LiveRow, AtFiles

LEMMA LiveStep ==
  TypeInv /\ CurrentInv /\ SourcesFit /\ CopyFaithful /\ LiveRow /\ [Next]_vars => LiveRow'
<1> SUFFICES ASSUME TypeInv, CurrentInv, SourcesFit, CopyFaithful, LiveRow, [Next]_vars
             PROVE  LiveRow'
  OBVIOUS
<1>1. CASE UNCHANGED <<collection, location, operation, running>> /\ (AtFiles' => AtFiles)
  BY <1>1 DEF LiveRow, Op, PendingOperations, IsPending, CurrentFor, IsCurrent, IndexedAt,
     UsedOperations
<1>2. CASE ~AtFiles'
  BY <1>2 DEF LiveRow
<1>3. CASE FileStep \/ User
  BY <1>1, <1>3, FileStepEffect, UserEffect DEF AtFiles
<1>4. CASE Quiet
  <2>1. CASE AtFiles'
    BY <1>1, <1>4, <2>1, QuietEffect DEF AtFiles
  <2> QED BY <1>2, <2>1
<1>5. CASE RecordFailure \/ CompleteRelocation \/ CompleteSoftDelete \/ CompleteHardDelete
  BY <1>2, <1>5 DEF RecordFailure, CompleteRelocation, CompleteSoftDelete, CompleteHardDelete,
     Stop, AtFiles
<1>6. CASE \/ \E p \in Paths : ScanIngests(p)
           \/ \E c \in Collections : ScanMarksMissing(c)
  BY <1>2, <1>6 DEF ScanIngests, ScanMarksMissing, Serving, process, AtFiles
<1>7. CASE Request
  <2> PICK o \in Operations \ UsedOperations, c \in Collections, l \in UsedLocations,
           kind \in Kinds, to \in Paths \cup {Null} :
        Requested(o, c, l, kind, to)
    BY <1>7, RequestEffect
  <2> USE DEF Requested
  <2>1. /\ Op'.collection = c /\ Op'.from_location = l
        /\ Op'.from = location[l].path /\ Op'.to = to
    BY DEF Op
  <2>2. c # Null
    BY NullAssumption, BoundsAssumption DEF Collections
  <2>3. CurrentFor(l, c)' /\ \A d \in Collections : IndexedAt(to, d)' <=> IndexedAt(to, d)
    BY DEF CurrentFor, IsCurrent, IndexedAt
  <2>4. \A p \in UsedOperations' : p <= o
    BY DEF Operations, UsedOperations
  <2>5. CurrentFor(Op.from_location, Op.collection)'
    BY <2>1, <2>3
  <2>6. (Op.to # Null => \A d \in Collections : ~IndexedAt(Op.to, d))'
    BY <2>1, <2>3
  <2> QED BY <2>1, <2>2, <2>4, <2>5, <2>6 DEF LiveRow
<1> QED BY <1>3, <1>4, <1>5, <1>6, <1>7, KindsOfSteps

-----------------------------------------------------------------------------
(* Pending operations that meet are known: of one collection as             *)
(* overlapping, with one target as contested.                               *)
Rivals ==
  \A o, p \in PendingOperations : operation[o].collection # Null /\ o < p =>
    /\ operation[o].collection = operation[p].collection =>
         operation[o].collection \in overlapped
    /\ operation[o].to # Null /\ operation[o].to = operation[p].to =>
         operation[o].collection \in contested

LEMMA RivalsInit == Init => Rivals
BY DEF Init, Rivals, PendingOperations, IsPending, Unused

LEMMA RivalsStep ==
  TypeInv /\ CurrentInv /\ SourcesFit /\ CopyFaithful /\ Rivals /\ [Next]_vars => Rivals'
<1> SUFFICES ASSUME TypeInv, CurrentInv, SourcesFit, CopyFaithful, Rivals, [Next]_vars
             PROVE  Rivals'
  OBVIOUS
<1> DEFINE Fewer ==
      /\ UNCHANGED <<overlapped, contested>>
      /\ PendingOperations' \subseteq PendingOperations
      /\ \A o \in PendingOperations : operation'[o].to = operation[o].to
      /\ \A o \in PendingOperations : operation'[o].collection \in {Null, operation[o].collection}
      /\ PendingOperations \subseteq UsedOperations
<1>1. CASE Fewer
  BY <1>1 DEF Rivals
<1>2. PendingOperations \subseteq UsedOperations
  BY RowTypes DEF TypeInv
<1>3. CASE UNCHANGED <<operation, overlapped, contested>>
  BY <1>1, <1>2, <1>3 DEF PendingOperations, IsPending
<1>4. CASE FileStep \/ User \/ Quiet
  BY <1>3, <1>4, FileStepEffect, UserEffect, QuietEffect DEF FilesUntouched
<1>5. CASE \/ \E p \in Paths : ScanIngests(p)
           \/ \E c \in Collections : ScanMarksMissing(c)
  BY <1>3, <1>5 DEF ScanIngests, ScanMarksMissing, history
<1>6. ASSUME NEW r \in PendingOperations, NEW result, JournalSettles(r, result), FilesUntouched
      PROVE  Rivals'
  BY <1>1, <1>2, <1>6 DEF JournalSettles, FilesUntouched, RowKept
<1>7. CASE RecordFailure
  BY <1>6, <1>7, FailureEffect DEF FailureRecorded
<1>8. CASE CompleteRelocation
  <2>1. PICK r \in PendingOperations, c \in Collections, k \in UsedLocations,
             l \in Locations \ UsedLocations : Relocated(r, c, k, l)
    BY <1>8, RelocationEffect
  <2>2. JournalSettles(r, "succeeded") /\ FilesUntouched
    BY <2>1 DEF Relocated
  <2> QED BY <1>6, <2>2
<1>9. CASE CompleteSoftDelete
  <2>1. PICK r \in PendingOperations, c \in Collections, k \in UsedLocations :
          SoftlyDeleted(r, c, k)
    BY <1>9, SoftDeletionEffect
  <2>2. JournalSettles(r, "succeeded") /\ FilesUntouched
    BY <2>1 DEF SoftlyDeleted
  <2> QED BY <1>6, <2>2
<1>10. CASE CompleteHardDelete
  <2> PICK r \in PendingOperations, c \in Collections :
        HardDeleted(r, c)
    BY <1>10, HardDeletionEffect
  <2> USE DEF HardDeleted
  <2> QED BY <1>1, <1>2
<1>11. CASE Request
  <2> PICK o \in Operations \ UsedOperations, c \in Collections, l \in UsedLocations,
           kind \in Kinds, to \in Paths \cup {Null} :
        Requested(o, c, l, kind, to)
    BY <1>11, RequestEffect
  <2> USE DEF Requested
  <2>1. operation'[o].collection = c /\ operation'[o].to = to
    OBVIOUS
  <2>2. \A p \in PendingOperations : p < o /\ operation'[p] = operation[p]
    BY <1>2 DEF UsedOperations
  <2>3. \A p \in PendingOperations : ~(o < p)
    BY <2>2 DEF Operations, PendingOperations
  <2>4. ~(o < o)
    BY DEF Operations
  <2> QED BY <2>1, <2>2, <2>3, <2>4 DEF Rivals
<1> QED BY <1>4, <1>5, <1>7, <1>8, <1>9, <1>10, <1>11, KindsOfSteps

-----------------------------------------------------------------------------
(* The claims.  Of a collection nobody disturbed: without a pending         *)
(* operation the catalog is right about its file; with one, source and      *)
(* target hold its file or nothing, whoever else was there in the meantime. *)
Settled(c) ==
  /\ collection[c] = "active" =>
       \E l \in Locations : CurrentFor(l, c) /\ fs[location[l].path] = book[c]
  /\ collection[c] = "soft_deleted" => book[c] \in recycled

(* no operation of another collection was sent to the source of o *)
Unclaimed(o, c) ==
  \A other \in UsedOperations :
    operation[other].to = operation[o].from => operation[other].collection = c

UnderWay(o, c) ==
  LET row == operation[o]
      x   == book[c]
  IN
  /\ collection[c] \in {"active", "tombstone"}
  /\ collection[c] = "active" => CurrentFor(row.from_location, c)
  /\ collection[c] = "active" \/ Unclaimed(o, c) => fs[row.from] \in {x, Null}
  /\ row.to # Null /\ row.to \notin touched => fs[row.to] \in {x, Null}
  /\ row.kind = "soft_delete" =>
       x \in recycled \/ (collection[c] = "active" /\ fs[row.from] = x)
  /\ AtFiles /\ running = o => fs[row.from] = x
  /\ phase = "failing" /\ running = o =>
       /\ fs[row.from] # Null
       /\ row.to # Null /\ row.to \notin touched => fs[row.to] = Null

PendingOf(c) == {o \in PendingOperations : operation[o].collection = c}

ClaimsOf(c) ==
  collection[c] # "unused" =>
    /\ book[c] # Null
    /\ Untroubled(c) => /\ PendingOf(c) = {} => Settled(c)
                        /\ \A o \in PendingOf(c) : UnderWay(o, c)

Claims == \A c \in Collections : ClaimsOf(c)

RowsInv == TypeInv /\ CurrentInv /\ SourcesFit /\ CopyFaithful /\ References /\ LiveRow /\ Rivals
FilesInv == RowsInv /\ Claims

LEMMA ClaimsInit == Init => Claims
BY DEF Init, Claims, ClaimsOf

(* A pending row of a collection, and the place it starts from. *)
LEMMA PendingRow ==
  ASSUME RowsInv, NEW c \in Collections, NEW o \in PendingOf(c)
  PROVE  /\ o \in UsedOperations /\ o \in Operations /\ operation[o] \in OperationRow
         /\ operation[o].collection = c /\ c # Null
         /\ operation[o].from_location \in UsedLocations
         /\ operation[o].from_location \in Locations
         /\ location[operation[o].from_location].collection = c
         /\ location[operation[o].from_location].path = operation[o].from
         /\ operation[o].from \in Paths
         /\ operation[o].to # Null => operation[o].to \in Paths
         /\ Untroubled(c) => operation[o].from \notin touched
<1>1. o \in UsedOperations /\ operation[o] \in OperationRow /\ operation[o].collection = c
  BY RowTypes DEF RowsInv, TypeInv, PendingOf
<1>2. c # Null
  BY NullAssumption, BoundsAssumption DEF Collections
<1>3. /\ operation[o].from_location \in UsedLocations
      /\ location[operation[o].from_location].collection = c
      /\ location[operation[o].from_location].path = operation[o].from
  BY <1>1, <1>2 DEF RowsInv, References, SourcesFit
<1> QED BY <1>1, <1>2, <1>3 DEF OperationRow, Untroubled, UsedOperations, UsedLocations

(* A collection that is untroubled was untroubled before. *)
LEMMA UntroubledBefore ==
  ASSUME NEW c \in Collections, Untroubled(c)',
         overlapped \subseteq overlapped', contested \subseteq contested',
         touched \subseteq touched', book'[c] = book[c],
         \A l \in UsedLocations : location[l].collection = c =>
           /\ l \in UsedLocations' /\ location'[l].collection = c
           /\ location'[l].path = location[l].path
  PROVE  Untroubled(c)
BY DEF Untroubled

(* The claims about a collection hold on when a step writes other rows. *)
RowsOfKept(c) ==
  /\ collection'[c] = collection[c] /\ book'[c] = book[c]
  /\ UNCHANGED <<fs, recycled, touched>>
  /\ overlapped \subseteq overlapped' /\ contested \subseteq contested'
  /\ \A l \in UsedLocations : location[l].collection = c =>
       l \in UsedLocations' /\ location'[l] = location[l]
  /\ \A l \in Locations : CurrentFor(l, c)' => CurrentFor(l, c)
  /\ UsedOperations \subseteq UsedOperations'
  /\ \A o \in UsedOperations :
       /\ operation'[o].to = operation[o].to
       /\ operation[o].collection # c => operation'[o].collection # c
  /\ \A o \in PendingOf(c) : RowKept(o)
  /\ PendingOf(c)' = PendingOf(c)
  /\ running' \in PendingOf(c) => phase' = "idle"

LEMMA ClaimKept ==
  ASSUME RowsInv, NEW c \in Collections, ClaimsOf(c), RowsOfKept(c)
  PROVE  ClaimsOf(c)'
<1> SUFFICES ASSUME collection'[c] # "unused"
             PROVE  /\ book'[c] # Null
                    /\ Untroubled(c)' => /\ PendingOf(c)' = {} => Settled(c)'
                                         /\ \A o \in PendingOf(c)' : UnderWay(o, c)'
  BY DEF ClaimsOf
<1>1. collection[c] # "unused" /\ book'[c] # Null
  BY DEF RowsOfKept, ClaimsOf
<1> SUFFICES ASSUME Untroubled(c)'
             PROVE  /\ PendingOf(c)' = {} => Settled(c)'
                    /\ \A o \in PendingOf(c)' : UnderWay(o, c)'
  BY <1>1
<1>2. Untroubled(c)
  BY UntroubledBefore DEF RowsOfKept
<1>3. ASSUME NEW l \in Locations, CurrentFor(l, c)
      PROVE  CurrentFor(l, c)' /\ location'[l].path = location[l].path
  <2>1. l \in UsedLocations /\ location[l].collection = c
    BY <1>3, RowTypes DEF RowsInv, TypeInv, CurrentFor
  <2> QED BY <1>3, <2>1 DEF RowsOfKept, CurrentFor, IsCurrent
<1>4. ASSUME PendingOf(c)' = {} PROVE Settled(c)'
  <2>1. Settled(c)
    BY <1>1, <1>2, <1>4 DEF ClaimsOf, RowsOfKept
  <2> QED BY <1>3, <2>1 DEF Settled, RowsOfKept
<1>5. ASSUME NEW o \in PendingOf(c)' PROVE UnderWay(o, c)'
  <2>1. /\ o \in PendingOf(c) /\ RowKept(o)
        /\ running' = o => ~AtFiles' /\ phase' # "failing"
    BY DEF RowsOfKept, AtFiles
  <2>2. UnderWay(o, c)
    BY <1>1, <1>2, <2>1 DEF ClaimsOf
  <2>3. Unclaimed(o, c)' => Unclaimed(o, c)
    BY <2>1 DEF Unclaimed, RowsOfKept, RowKept
  <2> PICK k \in Locations : k = operation[o].from_location
    BY <2>1, PendingRow
  <2>4. CurrentFor(k, c) => CurrentFor(operation[o].from_location, c)'
    BY <1>3, <2>1 DEF RowKept
  <2> QED BY <2>1, <2>2, <2>3, <2>4 DEF UnderWay, RowsOfKept, RowKept
<1> QED BY <1>4, <1>5

(* Steps that only turn the process. *)
LEMMA QuietClaims ==
  ASSUME RowsInv, Quiet, NEW c \in Collections, ClaimsOf(c)
  PROVE  ClaimsOf(c)'
<1>1. /\ UNCHANGED <<collection, location, operation, fs, recycled, touched, book, overlapped,
                     contested>>
      /\ AtFiles' => phase' = phase /\ running' = running
      /\ phase' = "failing" =>
           \/ phase = "failing" /\ running' = running
           \/ \E o \in UsedOperations :
                /\ o = running' /\ Exists(operation[o].from)
                /\ operation[o].to # Null => ~Exists(operation[o].to)
  BY QuietEffect DEF RowsInv, FilesUntouched
<1>2. (Settled(c)' <=> Settled(c)) /\ (Untroubled(c)' <=> Untroubled(c))
      /\ PendingOf(c)' = PendingOf(c)
  BY <1>1 DEF Settled, Untroubled, PendingOf, PendingOperations, IsPending, CurrentFor, IsCurrent,
     UsedLocations
<1>3. ASSUME NEW o \in PendingOf(c), UnderWay(o, c) PROVE UnderWay(o, c)'
  <2>1. Unclaimed(o, c)' <=> Unclaimed(o, c)
    BY <1>1 DEF Unclaimed, UsedOperations
  <2>2. CurrentFor(operation[o].from_location, c)' <=> CurrentFor(operation[o].from_location, c)
    BY <1>1 DEF CurrentFor, IsCurrent
  <2>3. AtFiles' /\ running' = o => AtFiles /\ running = o
    BY <1>1 DEF AtFiles
  <2>4. phase' = "failing" /\ running' = o =>
          /\ fs[operation[o].from] # Null
          /\ operation[o].to # Null /\ operation[o].to \notin touched => fs[operation[o].to] = Null
    BY <1>1, <1>3 DEF UnderWay, Exists
  <2> QED BY <1>1, <1>3, <2>1, <2>2, <2>3, <2>4 DEF UnderWay
<1> QED BY <1>1, <1>2, <1>3 DEF ClaimsOf

(* The user: what he changes does not count any more. *)
LEMMA UserClaims ==
  ASSUME RowsInv, User, NEW c \in Collections, ClaimsOf(c)
  PROVE  ClaimsOf(c)'
<1>1. /\ UNCHANGED <<collection, location, operation, book, overlapped, contested, phase,
                     running>>
      /\ touched \subseteq touched'
      /\ \A p \in Paths : fs'[p] = fs[p] \/ p \in touched'
      /\ \A x \in recycled : x \in recycled' \/ x \in touched'
  BY UserEffect DEF RowsInv
<1>2. UsedLocations' = UsedLocations /\ PendingOf(c)' = PendingOf(c)
      /\ UsedOperations' = UsedOperations
  BY <1>1 DEF UsedLocations, UsedOperations, PendingOf, PendingOperations, IsPending
<1> SUFFICES ASSUME collection[c] # "unused", Untroubled(c)'
             PROVE  /\ PendingOf(c) = {} => Settled(c)'
                    /\ \A o \in PendingOf(c) : UnderWay(o, c)'
  BY <1>1, <1>2 DEF ClaimsOf
<1>3. Untroubled(c)
  BY <1>1, <1>2, UntroubledBefore
<1>4. book[c] \notin touched'
      /\ \A l \in UsedLocations : location[l].collection = c => location[l].path \notin touched'
  BY <1>1, <1>2 DEF Untroubled
<1>5. ASSUME PendingOf(c) = {} PROVE Settled(c)'
  <2>1. Settled(c)
    BY <1>3, <1>5 DEF ClaimsOf
  <2>2. ASSUME NEW l \in Locations, CurrentFor(l, c), fs[location[l].path] = book[c]
        PROVE  CurrentFor(l, c)' /\ fs'[location'[l].path] = book'[c]
    <3>1. l \in UsedLocations /\ location[l].collection = c /\ location[l].path \in Paths
      BY <2>2, RowTypes DEF RowsInv, TypeInv, CurrentFor, LocationRow
    <3> QED BY <1>1, <1>4, <2>2, <3>1 DEF CurrentFor, IsCurrent
  <2> QED BY <1>1, <1>4, <2>1, <2>2 DEF Settled
<1>6. ASSUME NEW o \in PendingOf(c) PROVE UnderWay(o, c)'
  <2>1. UnderWay(o, c)
    BY <1>3 DEF ClaimsOf
  <2>2. /\ operation[o].from \in Paths
        /\ operation[o].to # Null => operation[o].to \in Paths
        /\ location[operation[o].from_location].collection = c
        /\ location[operation[o].from_location].path = operation[o].from
        /\ operation[o].from_location \in UsedLocations
    BY PendingRow
  <2>3. fs'[operation[o].from] = fs[operation[o].from]
    BY <1>1, <1>4, <2>2
  <2>4. operation[o].to # Null /\ operation[o].to \notin touched' =>
          operation[o].to \notin touched /\ fs'[operation[o].to] = fs[operation[o].to]
    BY <1>1, <2>2
  <2>5. book[c] \in recycled => book[c] \in recycled'
    BY <1>1, <1>4
  <2>6. /\ Unclaimed(o, c)' <=> Unclaimed(o, c)
        /\ CurrentFor(operation[o].from_location, c)' <=> CurrentFor(operation[o].from_location, c)
        /\ AtFiles' <=> AtFiles
    BY <1>1, <1>2 DEF Unclaimed, CurrentFor, IsCurrent, AtFiles
  <2> QED BY <1>1, <2>1, <2>3, <2>4, <2>5, <2>6 DEF UnderWay
<1> QED BY <1>5, <1>6

(* A step of the files fills or clears a place.  Of the collection it works *)
(* for the claims say where the file is; no other untroubled collection is  *)
(* at either place, and none but a contested one wants the target.          *)
LEMMA FileStepPlaces ==
  ASSUME RowsInv, FileStep, NEW c \in Collections, Untroubled(c)
  PROVE  /\ \A l \in Locations : CurrentFor(l, c) =>
              /\ location[l].path # Op.to
              /\ location[l].path = Op.from => running \in PendingOf(c)
         /\ \A o \in PendingOf(c) : running # o /\ operation[o].to # Null =>
              operation[o].to # Op.to
         /\ running \in PendingOf(c) => PendingOf(c) = {running}
<1>1. AtFiles /\ running # Null
  BY FileStepEffect DEF RowsInv
<1>2. /\ running \in PendingOperations
      /\ Op.collection # Null /\ CurrentFor(Op.from_location, Op.collection)
      /\ location[Op.from_location].path = Op.from
      /\ Op.to # Null => \A d \in Collections : ~IndexedAt(Op.to, d)
      /\ \A o \in UsedOperations : o <= running
  BY <1>1 DEF RowsInv, LiveRow
<1>3. /\ running \in PendingOf(Op.collection) /\ Op.collection \in Collections
      /\ Op.from_location \in Locations
  <2>1. Op \in OperationRow /\ Op = operation[running]
    BY <1>1, RunningRow DEF RowsInv, Op
  <2>2. Op.collection \in Collections /\ running \in PendingOf(Op.collection)
    BY <1>2, <2>1 DEF PendingOf, OperationRow
  <2> QED BY <2>1, <2>2, PendingRow
<1>4. ASSUME NEW l \in Locations, CurrentFor(l, c)
      PROVE  /\ location[l].path # Op.to
             /\ location[l].path = Op.from => running \in PendingOf(c)
  <2>1. location[l].path # Null
    <3>1. location[l].path \in Paths
      BY <1>4, RowTypes DEF RowsInv, TypeInv, CurrentFor, LocationRow
    <3> QED BY <3>1, NullAssumption
  <2>2. location[l].path # Op.to
    BY <1>2, <1>4, <2>1 DEF IndexedAt
  <2>3. ASSUME location[l].path = Op.from PROVE running \in PendingOf(c)
    <3>1. Op.from_location = l
      BY <1>2, <1>3, <1>4, <2>3 DEF RowsInv, CurrentInv, CurrentLocationsUnique, CurrentFor
    <3>2. Op.collection = c
      BY <1>2, <1>4, <3>1 DEF CurrentFor
    <3> QED BY <1>3, <3>2
  <2> QED BY <2>2, <2>3
<1>5. ASSUME NEW o \in PendingOf(c), running # o
      PROVE  /\ operation[o].to # Null => operation[o].to # Op.to
             /\ running \notin PendingOf(c)
  <2>1. o \in UsedOperations /\ operation[o].collection = c /\ c # Null /\ o \in Operations
    BY PendingRow
  <2>2. o < running
    <3>1. running \in Operations
      BY <1>2 DEF PendingOperations
    <3> QED BY <1>2, <1>5, <2>1, <3>1 DEF Operations
  <2>3. c \notin overlapped /\ c \notin contested
    BY DEF Untroubled
  <2> QED BY <1>2, <2>1, <2>2, <2>3 DEF RowsInv, Rivals, PendingOf, Op
<1> QED BY <1>4, <1>5

LEMMA FileStepClaims ==
  ASSUME RowsInv, FileStep, NEW c \in Collections, ClaimsOf(c)
  PROVE  ClaimsOf(c)'
<1>1. /\ AtFiles /\ running # Null
      /\ UNCHANGED <<collection, location, operation, running, touched, book, overlapped,
                     contested>>
      /\ phase' # "failing"
  BY FileStepEffect DEF RowsInv
<1>2. (Untroubled(c)' <=> Untroubled(c)) /\ PendingOf(c)' = PendingOf(c)
      /\ UsedOperations' = UsedOperations
  BY <1>1 DEF Untroubled, PendingOf, PendingOperations, IsPending, UsedLocations, UsedOperations
<1> SUFFICES ASSUME collection[c] # "unused", Untroubled(c)
             PROVE  /\ PendingOf(c) = {} => Settled(c)'
                    /\ \A o \in PendingOf(c) : UnderWay(o, c)'
  BY <1>1, <1>2 DEF ClaimsOf
<1>3. book[c] # Null /\ book[c] \notin touched
  BY DEF ClaimsOf, Untroubled
<1>4. Op.from \in Paths /\ (Op.kind \in Relocations => Op.to \in Paths)
  BY <1>1, RunningRow DEF RowsInv
(* away from the two places nothing changes *)
<1>5. /\ \A p \in Paths : p # Op.from /\ p # Op.to => fs'[p] = fs[p]
      /\ \A p \in Paths : p # Op.to => fs'[p] \in {fs[p], Null}
      /\ recycled \subseteq recycled'
  BY FileStepEffect DEF RowsInv, TypeInv, TypeOK
<1>6. ASSUME PendingOf(c) = {} PROVE Settled(c)'
  <2>1. Settled(c)
    BY <1>6 DEF ClaimsOf
  <2>2. ASSUME NEW l \in Locations, CurrentFor(l, c), fs[location[l].path] = book[c]
        PROVE  CurrentFor(l, c)' /\ fs'[location'[l].path] = book'[c]
    <3>1. location[l].path \in Paths
      BY <2>2, RowTypes DEF RowsInv, TypeInv, CurrentFor, LocationRow
    <3>2. location[l].path # Op.to /\ location[l].path # Op.from
      BY <1>6, <2>2, FileStepPlaces
    <3> QED BY <1>1, <1>5, <2>2, <3>1, <3>2 DEF CurrentFor, IsCurrent
  <2> QED BY <1>1, <1>5, <2>1, <2>2 DEF Settled
<1>7. ASSUME NEW o \in PendingOf(c) PROVE UnderWay(o, c)'
  <2> DEFINE row == operation[o]
             x   == book[c]
  <2>0. UnderWay(o, c)
    BY DEF ClaimsOf
  <2>1. /\ row.from \in Paths /\ row.from \notin touched
        /\ row.to # Null => row.to \in Paths
        /\ row.from_location \in Locations
        /\ location[row.from_location].path = row.from
        /\ row.collection = c
    BY PendingRow
  <2>2. collection[c] = "active" => CurrentFor(row.from_location, c)
    BY <2>0 DEF UnderWay
  <2>3. /\ CurrentFor(row.from_location, c)' <=> CurrentFor(row.from_location, c)
        /\ Unclaimed(o, c)' <=> Unclaimed(o, c)
    BY <1>1, <1>2 DEF CurrentFor, IsCurrent, Unclaimed
  (* the target is filled with the file of c only *)
  <2>4. CASE running = o
    <3>1. fs[row.from] = x /\ Op = row
      BY <1>1, <2>0, <2>4 DEF UnderWay, Op
    <3>2. row.to # Null => row.from # row.to
      <4>1. CurrentFor(row.from_location, c)
        <5>1. CurrentFor(Op.from_location, Op.collection)
          BY <1>1 DEF RowsInv, LiveRow
        <5> QED BY <2>1, <3>1, <5>1
      <4> QED BY <2>1, <3>1, <4>1, FileStepPlaces
    <3>3. ASSUME NEW v, SameBytes(v, fs[Op.from]) PROVE v = x
      BY <1>3, <3>1, <3>3 DEF SameBytes
    <3>4. \/ fs' = fs
          \/ row.to # Null /\ fs' = [fs EXCEPT ![row.to] = x]
          \/ row.to # Null /\ fs' = [fs EXCEPT ![row.to] = Null]
          \/ /\ fs' = [fs EXCEPT ![row.from] = Null] /\ phase' = "applied"
             /\ row.kind = "soft_delete" => x \in recycled'
      <4>1. Op.kind \in Relocations => Op.to # Null
        BY <1>4, NullAssumption
      <4> QED BY <3>1, <3>3, <4>1, FileStepEffect DEF RowsInv
    <3>5. fs'[row.from] = x \/ (/\ fs'[row.from] = Null /\ ~AtFiles'
                                /\ row.kind = "soft_delete" => x \in recycled')
      BY <2>1, <3>1, <3>2, <3>4 DEF AtFiles, RowsInv, TypeInv, TypeOK
    <3>6. row.to # Null /\ row.to \notin touched => fs'[row.to] \in {x, Null}
      BY <2>0, <2>1, <3>2, <3>4 DEF UnderWay, RowsInv, TypeInv, TypeOK
    <3> QED BY <1>1, <1>5, <2>0, <2>3, <3>1, <3>5, <3>6 DEF UnderWay
  <2>5. CASE running # o
    <3>1. /\ row.to # Null => row.to # Op.to
          /\ running \notin PendingOf(c)
      BY <2>5, FileStepPlaces
    <3>2. collection[c] = "active" => row.from # Op.to /\ row.from # Op.from
      BY <2>1, <2>2, <3>1, FileStepPlaces
    <3>3. Unclaimed(o, c) => row.from # Op.to
      <4>1. running \in PendingOperations /\ running \in UsedOperations
        BY <1>1, RowTypes DEF RowsInv, LiveRow, TypeInv
      <4>2. operation[running].collection # c
        BY <3>1, <4>1 DEF PendingOf
      <4> QED BY <4>1, <4>2 DEF Unclaimed, Op
    <3>4. collection[c] = "active" \/ Unclaimed(o, c) => fs'[row.from] \in {x, Null}
      BY <1>5, <2>0, <2>1, <3>2, <3>3 DEF UnderWay
    <3>5. collection[c] = "active" => fs'[row.from] = fs[row.from]
      BY <1>5, <2>1, <3>2
    <3>6. row.to # Null /\ row.to \notin touched => fs'[row.to] \in {x, Null}
      BY <1>5, <2>0, <2>1, <3>1 DEF UnderWay
    <3> QED BY <1>1, <1>5, <2>0, <2>3, <2>5, <3>4, <3>5, <3>6 DEF UnderWay
  <2> QED BY <2>4, <2>5
<1> QED BY <1>6, <1>7

(* When the only pending row of an untroubled collection is settled, none   *)
(* is left.                                                                 *)
LEMMA OnlyPending ==
  ASSUME RowsInv, NEW c \in Collections, Untroubled(c), NEW r \in PendingOf(c)
  PROVE  PendingOf(c) = {r}
<1>1. ASSUME NEW o \in PendingOf(c), o # r PROVE FALSE
  <2>1. /\ o \in Operations /\ r \in Operations /\ c # Null
        /\ operation[o].collection = c /\ operation[r].collection = c
    BY PendingRow
  <2>2. o < r \/ r < o
    BY <1>1, <2>1 DEF Operations
  <2>3. c \notin overlapped
    BY DEF Untroubled
  <2> QED BY <2>1, <2>2, <2>3 DEF RowsInv, Rivals, PendingOf
<1> QED BY <1>1

(* Rows of other collections are out of reach of an outcome. *)
LEMMA OutcomeKeepsOthers ==
  ASSUME RowsInv, NEW r \in PendingOperations, NEW result, JournalSettles(r, result),
         NEW c \in Collections, operation[r].collection # c, running' = Null,
         collection'[c] = collection[c], FilesUntouched,
         \A l \in UsedLocations : location[l].collection = c =>
           l \in UsedLocations' /\ location'[l] = location[l],
         \A l \in Locations : CurrentFor(l, c)' => CurrentFor(l, c)
  PROVE  RowsOfKept(c)
<1>1. PendingOf(c)' = PendingOf(c)
  BY RowTypes DEF PendingOf, JournalSettles, RowKept, RowsInv, TypeInv
<1>2. \A o \in PendingOf(c) : o \in UsedOperations /\ o # Null
  BY RowTypes, NullAssumption, BoundsAssumption DEF PendingOf, RowsInv, TypeInv, PendingOperations,
     Operations
<1> QED BY <1>1, <1>2 DEF RowsOfKept, JournalSettles, RowKept, FilesUntouched

LEMMA FailureClaims ==
  ASSUME RowsInv, RecordFailure, NEW c \in Collections, ClaimsOf(c)
  PROVE  ClaimsOf(c)'
<1> PICK r \in PendingOperations : FailureRecorded(r)
  BY FailureEffect DEF RowsInv
<1> USE DEF FailureRecorded
<1>0. UsedLocations' = UsedLocations
      /\ \A l \in Locations : CurrentFor(l, c)' <=> CurrentFor(l, c)
  BY DEF UsedLocations, CurrentFor, IsCurrent
<1>1. CASE operation[r].collection # c
  <2>1. RowsOfKept(c)
    BY <1>0, <1>1, OutcomeKeepsOthers
  <2> QED BY <2>1, ClaimKept
<1>2. CASE operation[r].collection = c
  <2>0. r \in PendingOf(c)
    BY <1>2 DEF PendingOf
  <2> SUFFICES ASSUME collection[c] # "unused", Untroubled(c)'
               PROVE  PendingOf(c)' = {} /\ Settled(c)'
    BY DEF ClaimsOf, FilesUntouched
  <2>1. Untroubled(c)
    BY <1>0, UntroubledBefore DEF FilesUntouched
  <2>2. PendingOf(c) = {r} /\ UnderWay(r, c)
    BY <2>0, <2>1, OnlyPending DEF ClaimsOf
  <2>3. PendingOf(c)' = {}
    BY <2>2, RowTypes DEF PendingOf, JournalSettles, RowKept, RowsInv, TypeInv
  <2>4. /\ operation[r].from_location \in Locations
        /\ location[operation[r].from_location].path = operation[r].from
    BY <2>0, PendingRow
  <2>5. Settled(c)'
    BY <1>0, <2>2, <2>4 DEF UnderWay, Settled, FilesUntouched
  <2> QED BY <2>3, <2>5
<1> QED BY <1>1, <1>2

LEMMA RelocationClaims ==
  ASSUME RowsInv, CompleteRelocation, NEW c \in Collections, ClaimsOf(c)
  PROVE  ClaimsOf(c)'
<1> PICK r \in PendingOperations, b \in Collections, k \in UsedLocations,
         l \in Locations \ UsedLocations : Relocated(r, b, k, l)
  BY RelocationEffect DEF RowsInv
<1> USE DEF Relocated
<1>0. /\ location'[l].collection = b /\ location'[l].path = operation[r].to
      /\ location'[l].status = "current"
  OBVIOUS
<1>1. CASE b # c
  <2>1. \A j \in UsedLocations : location[j].collection = c =>
          j \in UsedLocations' /\ location'[j] = location[j]
    BY <1>1 DEF CurrentFor, UsedLocations
  <2>2. \A j \in Locations : CurrentFor(j, c)' => CurrentFor(j, c)
    BY <1>0, <1>1 DEF CurrentFor, IsCurrent
  <2>3. RowsOfKept(c)
    BY <1>1, <2>1, <2>2, OutcomeKeepsOthers
  <2> QED BY <2>3, ClaimKept
<1>2. CASE b = c
  <2>0. r \in PendingOf(c)
    BY <1>2 DEF PendingOf
  <2> SUFFICES ASSUME collection[c] # "unused", Untroubled(c)'
               PROVE  PendingOf(c)' = {} /\ Settled(c)'
    BY DEF ClaimsOf, FilesUntouched
  <2>1. Untroubled(c)
    BY <1>2, UntroubledBefore DEF FilesUntouched, UsedLocations
  <2>2. PendingOf(c) = {r} /\ UnderWay(r, c)
    BY <2>0, <2>1, OnlyPending DEF ClaimsOf
  <2>3. PendingOf(c)' = {}
    BY <2>2, RowTypes DEF PendingOf, JournalSettles, RowKept, RowsInv, TypeInv
  <2>4. operation[r].to \notin touched'
    BY <1>0, <1>2 DEF Untroubled
  <2>5. fs[operation[r].to] = book[c]
    <3>1. operation[r].to # Null
      BY NullAssumption
    <3> QED BY <2>2, <2>4, <3>1 DEF UnderWay, FilesUntouched, Exists
  <2>6. CurrentFor(l, c)' /\ collection'[c] = "active"
    <3>1. collection[c] = "active"
      BY <1>2 DEF RowsInv, CurrentInv, ActiveHasLocation, UsedLocations
    <3> QED BY <1>0, <1>2, <3>1 DEF CurrentFor, IsCurrent
  <2>7. Settled(c)'
    BY <1>0, <2>5, <2>6 DEF Settled, FilesUntouched
  <2> QED BY <2>3, <2>7
<1> QED BY <1>1, <1>2

LEMMA SoftDeletionClaims ==
  ASSUME RowsInv, CompleteSoftDelete, NEW c \in Collections, ClaimsOf(c)
  PROVE  ClaimsOf(c)'
<1> PICK r \in PendingOperations, b \in Collections, k \in UsedLocations : SoftlyDeleted(r, b, k)
  BY SoftDeletionEffect DEF RowsInv
<1> USE DEF SoftlyDeleted
<1>1. CASE b # c
  <2>1. \A j \in UsedLocations : location[j].collection = c =>
          j \in UsedLocations' /\ location'[j] = location[j]
    BY <1>1 DEF CurrentFor, UsedLocations
  <2>2. \A j \in Locations : CurrentFor(j, c)' => CurrentFor(j, c)
    BY <1>1 DEF CurrentFor, IsCurrent
  <2>3. RowsOfKept(c)
    BY <1>1, <2>1, <2>2, OutcomeKeepsOthers
  <2> QED BY <2>3, ClaimKept
<1>2. CASE b = c
  <2>0. r \in PendingOf(c)
    BY <1>2 DEF PendingOf
  <2>1. collection[c] = "active"
    BY <1>2 DEF RowsInv, CurrentInv, ActiveHasLocation, UsedLocations
  <2> SUFFICES ASSUME Untroubled(c)'
               PROVE  PendingOf(c)' = {} /\ Settled(c)'
    BY <2>1 DEF ClaimsOf, FilesUntouched
  <2>2. Untroubled(c)
    BY <1>2, UntroubledBefore DEF FilesUntouched, UsedLocations
  <2>3. PendingOf(c) = {r} /\ UnderWay(r, c) /\ book[c] # Null
    BY <2>0, <2>1, <2>2, OnlyPending DEF ClaimsOf
  <2>4. PendingOf(c)' = {}
    BY <2>3, RowTypes DEF PendingOf, JournalSettles, RowKept, RowsInv, TypeInv
  <2>5. book[c] \in recycled
    BY <2>3 DEF UnderWay, Exists
  <2>6. Settled(c)'
    BY <1>2, <2>5 DEF Settled, FilesUntouched
  <2> QED BY <2>4, <2>6
<1> QED BY <1>1, <1>2

LEMMA HardDeletionClaims ==
  ASSUME RowsInv, CompleteHardDelete, NEW c \in Collections, ClaimsOf(c)
  PROVE  ClaimsOf(c)'
<1> PICK r \in PendingOperations, b \in Collections : HardDeleted(r, b)
  BY HardDeletionEffect DEF RowsInv
<1> USE DEF HardDeleted
<1>0. c # Null /\ PendingOperations \subseteq UsedOperations
      /\ Null \notin Operations
  BY NullAssumption, BoundsAssumption, RowTypes DEF Collections, Operations, RowsInv, TypeInv
<1>1. CASE b = c
  <2>1. collection'[c] = "unused"
    BY <1>1 DEF RowsInv, TypeInv, TypeOK
  <2> QED BY <2>1 DEF ClaimsOf
<1>2. CASE b # c
  <2>1. collection'[c] = collection[c] /\ book'[c] = book[c]
    BY <1>2 DEF RowsInv, TypeInv, TypeOK
  <2>2. \A l \in UsedLocations : location[l].collection = c =>
          l \in UsedLocations' /\ location'[l] = location[l]
    BY <1>2
  <2>3. \A l \in Locations : CurrentFor(l, c)' => CurrentFor(l, c)
    <3>1. \A l \in Locations \ UsedLocations' : ~IsCurrent(l)'
      BY DEF UsedLocations, IsCurrent, Unused
    <3> QED BY <3>1 DEF CurrentFor, IsCurrent
  <2>4. \A o \in UsedOperations : operation[o].collection = c <=> operation'[o].collection = c
    BY <1>0, <1>2
  <2>5. PendingOf(c)' = PendingOf(c)
    BY <1>0, <1>2, <2>4 DEF PendingOf
  <2>6. ASSUME NEW o \in PendingOf(c) PROVE RowKept(o)
    <3>1. o \in UsedOperations /\ operation[o].collection = c
      BY <1>0 DEF PendingOf
    <3>2. ~Gone(operation[o].from_location, b)
      BY <1>2, PendingRow DEF Gone
    <3>3. operation'[o].from_location = operation[o].from_location
      BY <3>1, <3>2
    <3> QED BY <3>1, <3>3, <2>4 DEF RowKept
  <2>7. running' \notin PendingOf(c)
    BY <1>0 DEF PendingOf, PendingOperations
  <2>8. RowsOfKept(c)
    BY <2>1, <2>2, <2>3, <2>4, <2>5, <2>6, <2>7 DEF RowsOfKept
  <2> QED BY <2>8, ClaimKept
<1> QED BY <1>1, <1>2

LEMMA IngestClaims ==
  ASSUME RowsInv, NEW p \in Paths, ScanIngests(p), NEW c \in Collections, ClaimsOf(c)
  PROVE  ClaimsOf(c)'
<1> PICK b \in Collections \ UsedCollections, l \in Locations \ UsedLocations : Ingested(p, b, l)
  BY IngestEffect DEF RowsInv
<1> USE DEF Ingested
<1>0. /\ location'[l].collection = b /\ location'[l].path = p /\ location'[l].status = "current"
      /\ UsedOperations' = UsedOperations /\ PendingOperations' = PendingOperations
  BY DEF UsedOperations, PendingOperations, IsPending
<1>1. PendingOf(c)' = PendingOf(c)
  BY <1>0 DEF PendingOf
<1>2. CASE b = c
  <2>1. \A o \in PendingOf(c) : FALSE
    BY <1>2, PendingRow DEF RowsInv, References, UsedCollections
  <2>2. CurrentFor(l, c)' /\ fs'[location'[l].path] = book'[c] /\ collection'[c] = "active"
    BY <1>0, <1>2 DEF CurrentFor, IsCurrent
  <2>3. book'[c] # Null
    BY <1>2 DEF Exists
  <2> QED BY <1>1, <2>1, <2>2, <2>3 DEF ClaimsOf, Settled
<1>3. CASE b # c
  <2>1. \A j \in UsedLocations : j \in UsedLocations' /\ location'[j] = location[j]
    BY DEF UsedLocations
  <2>2. \A j \in Locations : CurrentFor(j, c)' => CurrentFor(j, c)
    BY <1>0, <1>3 DEF CurrentFor, IsCurrent
  <2>3. RowsOfKept(c)
    BY <1>0, <1>1, <1>3, <2>1, <2>2 DEF RowsOfKept, RowKept
  <2> QED BY <2>3, ClaimKept
<1> QED BY <1>2, <1>3

LEMMA MissingClaims ==
  ASSUME RowsInv, NEW b \in Collections, ScanMarksMissing(b), NEW c \in Collections, ClaimsOf(c)
  PROVE  ClaimsOf(c)'
<1> PICK k \in UsedLocations : FoundMissing(b, k)
  BY MissingEffect DEF RowsInv
<1> USE DEF FoundMissing, FilesUntouched
<1>0. UsedOperations' = UsedOperations /\ PendingOf(c)' = PendingOf(c)
  BY DEF UsedOperations, PendingOperations, IsPending, PendingOf
<1>1. CASE b # c
  <2>1. \A j \in UsedLocations : location[j].collection = c =>
          j \in UsedLocations' /\ location'[j] = location[j]
    BY <1>1 DEF CurrentFor, UsedLocations
  <2>2. \A j \in Locations : CurrentFor(j, c)' => CurrentFor(j, c)
    BY <1>1 DEF CurrentFor, IsCurrent
  <2>3. RowsOfKept(c)
    BY <1>0, <1>1, <2>1, <2>2 DEF RowsOfKept, RowKept
  <2> QED BY <2>3, ClaimKept
<1>2. CASE b = c
  <2> SUFFICES ASSUME Untroubled(c)' PROVE Settled(c)' /\ \A o \in PendingOf(c) : UnderWay(o, c)'
    BY <1>0, <1>2 DEF ClaimsOf
  <2>1. Untroubled(c)
    BY <1>2, UntroubledBefore DEF UsedLocations
  <2>2. Settled(c)'
    BY <1>2 DEF Settled
  <2>3. ASSUME NEW o \in PendingOf(c) PROVE UnderWay(o, c)'
    <3>1. UnderWay(o, c) /\ book[c] # Null
      BY <1>2, <2>1 DEF ClaimsOf
    <3>2. operation[o].from_location = k /\ location[k].path = operation[o].from
      <4>1. /\ CurrentFor(operation[o].from_location, c)
            /\ operation[o].from_location \in Locations
            /\ location[operation[o].from_location].path = operation[o].from
        BY <1>2, <3>1, PendingRow DEF UnderWay
      <4> QED BY <1>2, <4>1 DEF RowsInv, CurrentInv, CurrentLocationsUnique, CurrentFor,
                 UsedLocations
    <3>3. fs[operation[o].from] = Null
      BY <3>2 DEF Exists
    <3>4. ~AtFiles' /\ phase' # "failing"
      BY DEF AtFiles
    <3> QED BY <1>2, <3>1, <3>3, <3>4 DEF UnderWay
  <2> QED BY <2>2, <2>3
<1> QED BY <1>1, <1>2

LEMMA RequestClaims ==
  ASSUME RowsInv, Request, NEW c \in Collections, ClaimsOf(c)
  PROVE  ClaimsOf(c)'
<1> PICK o \in Operations \ UsedOperations, b \in Collections, l \in UsedLocations,
         kind \in Kinds, to \in Paths \cup {Null} : Requested(o, b, l, kind, to)
  BY RequestEffect DEF RowsInv
<1> USE DEF Requested
<1>0. /\ operation'[o].collection = b /\ operation'[o].from_location = l
      /\ operation'[o].from = location[l].path /\ operation'[o].to = to
      /\ operation'[o].kind = kind
      /\ \A p \in UsedOperations : operation'[p] = operation[p]
      /\ PendingOperations \subseteq UsedOperations
      /\ UsedLocations' = UsedLocations
      /\ \A j \in Locations : CurrentFor(j, c)' <=> CurrentFor(j, c)
  BY RowTypes DEF UsedOperations, UsedLocations, CurrentFor, IsCurrent, RowsInv, TypeInv
<1>1. CASE b # c
  <2>1. PendingOf(c)' = PendingOf(c) /\ o \notin PendingOf(c)
    BY <1>0, <1>1 DEF PendingOf
  <2>2. \A p \in PendingOf(c) : RowKept(p)
    BY <1>0 DEF PendingOf, RowKept
  <2>3. RowsOfKept(c)
    BY <1>0, <2>1, <2>2 DEF RowsOfKept
  <2> QED BY <2>3, ClaimKept
<1>2. CASE b = c
  <2> SUFFICES ASSUME collection[c] # "unused", Untroubled(c)'
               PROVE  PendingOf(c)' = {o} /\ UnderWay(o, c)'
    BY DEF ClaimsOf
  <2>1. Untroubled(c)
    BY <1>0, UntroubledBefore
  <2>2. PendingOf(c) = {}
    BY <1>2 DEF PendingOf, Untroubled
  <2>3. PendingOf(c)' = {o}
    BY <1>0, <1>2, <2>2 DEF PendingOf
  <2>4. collection[c] = "active" /\ CurrentFor(l, c)
    BY <1>2 DEF RowsInv, CurrentInv, ActiveHasLocation, UsedLocations
  <2>5. fs[location[l].path] = book[c]
    <3>1. Settled(c)
      BY <2>1, <2>2 DEF ClaimsOf
    <3>2. PICK j \in Locations : CurrentFor(j, c) /\ fs[location[j].path] = book[c]
      BY <2>4, <3>1 DEF Settled
    <3>3. j = l
      BY <2>4, <3>2 DEF RowsInv, CurrentInv, CurrentLocationsUnique, CurrentFor, UsedLocations
    <3> QED BY <3>2, <3>3
  <2>6. to # Null => fs[to] = Null
    BY DEF Exists
  <2>7. CurrentFor(operation[o].from_location, c)'
    BY <1>0, <2>4 DEF CurrentFor, IsCurrent
  <2> QED BY <1>0, <2>3, <2>4, <2>5, <2>6, <2>7 DEF UnderWay
<1> QED BY <1>1, <1>2

LEMMA FilesStep == FilesInv /\ [Next]_vars => FilesInv'
<1> SUFFICES ASSUME FilesInv, [Next]_vars PROVE FilesInv'
  OBVIOUS
<1>1. RowsInv /\ \A c \in Collections : ClaimsOf(c)
  BY DEF FilesInv, Claims
<1>2. RowsInv'
  BY <1>1, TypeStep, CurrentStep, SourcesStep, CopyStep, ReferencesStep, LiveStep, RivalsStep
     DEF RowsInv
<1>3. ASSUME NEW c \in Collections PROVE ClaimsOf(c)'
  BY <1>1, KindsOfSteps, RequestClaims, FileStepClaims, UserClaims, QuietClaims, FailureClaims,
     RelocationClaims, SoftDeletionClaims, HardDeletionClaims, IngestClaims, MissingClaims
<1> QED BY <1>2, <1>3 DEF FilesInv, Claims

LEMMA FilesAlways == Spec => []FilesInv
<1>1. Init => FilesInv
  BY TypeInit, CurrentInit, SourcesInit, CopyInit, ReferencesInit, LiveInit, RivalsInit, ClaimsInit
     DEF FilesInv, RowsInv
<1> QED BY <1>1, FilesStep, PTL DEF Spec

(* The catalog tells the truth: when nothing is pending and no rival came   *)
(* in between, the file of an active collection is at its current location  *)
(* and that of a deleted one in the recycle bin, through every crash, every *)
(* failed step and every recovery, in every library.                        *)
THEOREM CatalogTellsTheTruth == Spec => []CatalogMatchesDisk
<1>1. FilesInv => CatalogMatchesDisk
  <2> SUFFICES ASSUME FilesInv, NEW c \in Collections, Untroubled(c),
                      \A o \in PendingOperations : operation[o].collection # c
               PROVE  /\ collection[c] = "active" =>
                           \E l \in Locations : CurrentFor(l, c) /\ fs[location[l].path] = book[c]
                      /\ collection[c] = "soft_deleted" => book[c] \in recycled
    BY DEF CatalogMatchesDisk
  <2>1. PendingOf(c) = {} /\ ClaimsOf(c)
    BY DEF PendingOf, FilesInv, Claims
  <2> QED BY <2>1 DEF ClaimsOf, Settled
<1> QED BY <1>1, FilesAlways, PTL

(* What the journal records about an undisputed operation is what happened  *)
(* to the file: it failed and the file is where it was, or it succeeded and *)
(* the file is where it was to go.                                          *)
THEOREM JournalTellsTheTruth == Spec => OutcomeIsTrue
<1> DEFINE
      True(o) ==
        LET row == operation[o]
            x   == book[row.collection]
        IN
        /\ operation'[o].status = "failed" =>
             fs[row.from] = x /\ (row.to # Null => fs[row.to] = Null)
        /\ operation'[o].status = "succeeded" =>
             /\ fs[row.from] = Null
             /\ row.kind \in Relocations => fs[row.to] = x
             /\ row.kind = "soft_delete" => x \in recycled
      Truthful == \A o \in PendingOperations : Undisputed(o) => True(o)
<1>1. FilesInv /\ [Next]_vars => [Truthful]_vars
  <2> SUFFICES ASSUME FilesInv, [Next]_vars, NEW o \in PendingOperations, Undisputed(o)
               PROVE  True(o)
    OBVIOUS
  <2> PICK c \in Collections : c = operation[o].collection
    BY RowTypes DEF FilesInv, RowsInv, TypeInv, OperationRow, Undisputed
  <2>0. /\ o \in PendingOf(c) /\ RowsInv /\ TypeInv /\ o \in UsedOperations
        /\ operation[o].status = "pending"
        /\ Untroubled(c) /\ operation[o].from \notin touched
        /\ operation[o].to \notin touched
        /\ Unclaimed(o, c) /\ collection[c] # "unused" /\ book[c] # Null
    <3>1. o \in PendingOf(c) /\ RowsInv /\ TypeInv /\ operation[o].status = "pending"
      BY DEF PendingOf, FilesInv, RowsInv, PendingOperations, IsPending
    <3>2. /\ Untroubled(c) /\ operation[o].from \notin touched
          /\ operation[o].to \notin touched
      BY DEF Undisputed
    <3>3. o \in UsedOperations /\ operation[o].from # Null /\ c # Null
      BY <3>1, PendingRow, NullAssumption
    <3>4. Unclaimed(o, c)
      BY <3>3 DEF Undisputed, Unclaimed
    <3>5. collection[c] # "unused"
      BY <3>1, <3>3 DEF RowsInv, References
    <3>6. book[c] # Null
      BY <3>5 DEF FilesInv, Claims, ClaimsOf
    <3> QED BY <3>1, <3>2, <3>3, <3>4, <3>5, <3>6
  <2>1. UnderWay(o, c)
    BY <2>0 DEF FilesInv, Claims, ClaimsOf
  <2>2. CASE UNCHANGED operation
    BY <2>0, <2>2
  <2>3. ASSUME NEW r \in PendingOperations, NEW result, JournalSettles(r, result), r # o
        PROVE  operation'[o].status = "pending"
    BY <2>0, <2>3 DEF JournalSettles, PendingOperations
  <2>4. CASE RecordFailure
    <3> PICK r \in PendingOperations : FailureRecorded(r)
      BY <2>0, <2>4, FailureEffect
    <3>1. CASE r = o
      BY <2>0, <2>1, <3>1 DEF FailureRecorded, UnderWay, JournalSettles
    <3> QED BY <2>3, <3>1 DEF FailureRecorded
  <2>5. CASE CompleteRelocation
    <3> PICK r \in PendingOperations, b \in Collections, k \in UsedLocations,
             l \in Locations \ UsedLocations : Relocated(r, b, k, l)
      BY <2>0, <2>5, RelocationEffect DEF RowsInv
    <3>1. CASE r = o
      <4>1. /\ fs[operation[o].from] = Null /\ fs[operation[o].to] # Null
            /\ operation[o].to # Null /\ operation[o].kind # "soft_delete"
            /\ operation'[o].status = "succeeded"
        BY <3>1, NullAssumption DEF Relocated, Exists, Relocations, JournalSettles
      <4> QED BY <2>0, <2>1, <4>1 DEF UnderWay
    <3> QED BY <2>3, <3>1 DEF Relocated
  <2>6. CASE CompleteSoftDelete
    <3> PICK r \in PendingOperations, b \in Collections, k \in UsedLocations :
          SoftlyDeleted(r, b, k)
      BY <2>0, <2>6, SoftDeletionEffect DEF RowsInv
    <3>1. CASE r = o
      <4>1. /\ fs[operation[o].from] = Null /\ operation[o].kind = "soft_delete"
            /\ operation'[o].status = "succeeded"
        BY <3>1 DEF SoftlyDeleted, Exists, JournalSettles
      <4> QED BY <2>0, <2>1, <4>1 DEF UnderWay, Relocations
    <3> QED BY <2>3, <3>1 DEF SoftlyDeleted
  <2>7. CASE CompleteHardDelete
    <3> PICK r \in PendingOperations, b \in Collections : HardDeleted(r, b)
      BY <2>0, <2>7, HardDeletionEffect
    <3>1. CASE r = o
      BY <3>1 DEF HardDeleted, Exists, Relocations
    <3>2. CASE r # o
      BY <2>0, <3>2 DEF HardDeleted
    <3> QED BY <3>1, <3>2
  <2>8. CASE Request
    <3> PICK p \in Operations \ UsedOperations, b \in Collections, l \in UsedLocations,
             kind \in Kinds, to \in Paths \cup {Null} : Requested(p, b, l, kind, to)
      BY <2>0, <2>8, RequestEffect DEF RowsInv
    <3>1. operation'[o] = operation[o]
      BY <2>0 DEF Requested, UsedOperations
    <3> QED BY <2>0, <3>1
  <2> QED BY <2>2, <2>4, <2>5, <2>6, <2>7, <2>8, JournalWriters
<1> QED BY <1>1, FilesAlways, PTL DEF Spec, OutcomeIsTrue

-----------------------------------------------------------------------------
(* One pass of the recovery.  A collection with a pending operation and no  *)
(* overlapping one stands nowhere but at the source of that operation.      *)
StandsAtSource(c) ==
  c \notin overlapped =>
    \A o \in PendingOf(c), l \in Locations :
      CurrentFor(l, c) => l = operation[o].from_location

SourceStands == \A c \in Collections : StandsAtSource(c)

LEMMA SourceStandsInit == Init => SourceStands
BY DEF Init, SourceStands, StandsAtSource, PendingOf, PendingOperations, IsPending, Unused

LEMMA StandsOn ==
  ASSUME NEW c \in Collections, StandsAtSource(c), overlapped \subseteq overlapped',
         PendingOf(c)' \subseteq PendingOf(c),
         \A o \in PendingOf(c) : operation'[o].from_location = operation[o].from_location,
         \A l \in Locations : CurrentFor(l, c)' => CurrentFor(l, c)
  PROVE  StandsAtSource(c)'
BY DEF StandsAtSource

(* Without overlap a collection has one pending operation at most. *)
LEMMA OnlyOne ==
  ASSUME RowsInv, NEW c \in Collections, c \notin overlapped,
         NEW o \in PendingOf(c), NEW r \in PendingOf(c)
  PROVE  o = r
<1>1. /\ o \in Operations /\ r \in Operations /\ c # Null
      /\ operation[o].collection = c /\ operation[r].collection = c
  BY PendingRow
<1>2. o < r \/ r < o \/ o = r
  BY <1>1 DEF Operations
<1> QED BY <1>1, <1>2 DEF RowsInv, Rivals, PendingOf

LEMMA PendingAfter ==
  ASSUME RowsInv, NEW r \in PendingOperations, NEW result, JournalSettles(r, result),
         NEW c \in Collections
  PROVE  /\ PendingOf(c)' = PendingOf(c) \ {r}
         /\ \A o \in PendingOf(c) : operation'[o].from_location = operation[o].from_location
BY RowTypes DEF PendingOf, JournalSettles, RowKept, RowsInv, TypeInv

LEMMA SourceStandsStep == RowsInv /\ SourceStands /\ [Next]_vars => SourceStands'
<1> SUFFICES ASSUME RowsInv, SourceStands, [Next]_vars, NEW c \in Collections
             PROVE  StandsAtSource(c)'
  BY DEF SourceStands
<1>0. TypeInv /\ StandsAtSource(c)
  BY DEF RowsInv, SourceStands
<1>1. CASE FileStep \/ User \/ Quiet
  <2>1. UNCHANGED <<location, operation, overlapped>>
    BY <1>1, FileStepEffect, UserEffect, QuietEffect DEF RowsInv, FilesUntouched
  <2> QED BY <1>0, <2>1 DEF StandsAtSource, PendingOf, PendingOperations, IsPending, CurrentFor,
             IsCurrent
<1>2. CASE RecordFailure
  <2> PICK r \in PendingOperations : FailureRecorded(r)
    BY <1>2, FailureEffect DEF RowsInv
  <2>1. JournalSettles(r, "failed") /\ UNCHANGED <<location, overlapped>>
    BY DEF FailureRecorded, FilesUntouched
  <2>2. \A l \in Locations : CurrentFor(l, c)' => CurrentFor(l, c)
    BY <2>1 DEF CurrentFor, IsCurrent
  <2> QED BY <1>0, <2>1, <2>2, PendingAfter, StandsOn
<1>3. CASE CompleteRelocation
  <2> PICK r \in PendingOperations, b \in Collections, k \in UsedLocations,
           l \in Locations \ UsedLocations : Relocated(r, b, k, l)
    BY <1>3, RelocationEffect DEF RowsInv
  <2>1. /\ JournalSettles(r, "succeeded") /\ UNCHANGED overlapped
        /\ operation[r].collection = b
    BY DEF Relocated, FilesUntouched
  <2>2. CASE b = c
    <3>1. r \in PendingOf(c)
      BY <2>1, <2>2 DEF PendingOf
    <3>2. c \notin overlapped => PendingOf(c)' = {}
      BY <2>1, <3>1, OnlyOne, PendingAfter
    <3> QED BY <2>1, <3>2 DEF StandsAtSource
  <2>3. CASE b # c
    <3>1. \A j \in Locations \ {k, l} : location'[j] = location[j]
      BY DEF Relocated
    <3>2. location'[k].collection = b /\ location'[l].collection = b
      BY DEF Relocated
    <3>3. \A j \in Locations : CurrentFor(j, c)' => CurrentFor(j, c)
      BY <2>3, <3>1, <3>2 DEF CurrentFor, IsCurrent
    <3> QED BY <1>0, <2>1, <3>3, PendingAfter, StandsOn
  <2> QED BY <2>2, <2>3
<1>4. CASE CompleteSoftDelete
  <2> PICK r \in PendingOperations, b \in Collections, k \in UsedLocations :
        SoftlyDeleted(r, b, k)
    BY <1>4, SoftDeletionEffect DEF RowsInv
  <2>1. JournalSettles(r, "succeeded") /\ UNCHANGED overlapped
    BY DEF SoftlyDeleted, FilesUntouched
  <2>2. /\ \A j \in Locations \ {k} : location'[j] = location[j]
        /\ location'[k].status = "deleted"
    BY DEF SoftlyDeleted
  <2>3. \A j \in Locations : CurrentFor(j, c)' => CurrentFor(j, c)
    BY <2>2 DEF CurrentFor, IsCurrent
  <2> QED BY <1>0, <2>1, <2>3, PendingAfter, StandsOn
<1>5. CASE CompleteHardDelete
  <2> PICK r \in PendingOperations, b \in Collections : HardDeleted(r, b)
    BY <1>5, HardDeletionEffect DEF RowsInv
  <2> USE DEF HardDeleted
  <2>0. /\ PendingOperations \subseteq UsedOperations /\ c # Null
        /\ PendingOperations' \subseteq PendingOperations
    BY <1>0, RowTypes, NullAssumption, BoundsAssumption DEF TypeInv, Collections
  <2>1. CASE b = c
    <3>1. PendingOf(c)' = {}
      BY <2>0, <2>1 DEF PendingOf
    <3> QED BY <3>1 DEF StandsAtSource
  <2>2. CASE b # c
    <3>1. \A o \in UsedOperations : operation[o].collection = c <=> operation'[o].collection = c
      BY <2>0, <2>2
    <3>2. PendingOf(c)' \subseteq PendingOf(c)
      BY <2>0, <3>1 DEF PendingOf
    <3>3. ASSUME NEW o \in PendingOf(c)
          PROVE  operation'[o].from_location = operation[o].from_location
      <4>1. o \in UsedOperations
        BY <2>0 DEF PendingOf
      <4>2. ~Gone(operation[o].from_location, b)
        BY <2>2, PendingRow DEF Gone
      <4> QED BY <4>1, <4>2
    <3>4. \A l \in Locations : CurrentFor(l, c)' => CurrentFor(l, c)
      <4>1. \A l \in Locations \ UsedLocations' : ~IsCurrent(l)'
        BY DEF UsedLocations, IsCurrent, Unused
      <4> QED BY <4>1 DEF CurrentFor, IsCurrent
    <3> QED BY <1>0, <3>2, <3>3, <3>4, StandsOn
  <2> QED BY <2>1, <2>2
<1>6. ASSUME NEW p \in Paths, ScanIngests(p) PROVE StandsAtSource(c)'
  <2> PICK b \in Collections \ UsedCollections, l \in Locations \ UsedLocations : Ingested(p, b, l)
    BY <1>6, IngestEffect DEF RowsInv
  <2>1. /\ UNCHANGED <<operation, overlapped>>
        /\ \A j \in Locations \ {l} : location'[j] = location[j]
        /\ location'[l].collection = b
    BY DEF Ingested
  <2>2. PendingOf(c)' = PendingOf(c)
    BY <2>1 DEF PendingOf, PendingOperations, IsPending
  <2>3. CASE b = c
    <3>1. \A o \in PendingOf(c) : FALSE
      BY <2>3, PendingRow DEF RowsInv, References, UsedCollections
    <3> QED BY <2>2, <3>1 DEF StandsAtSource
  <2>4. CASE b # c
    <3>1. \A j \in Locations : CurrentFor(j, c)' => CurrentFor(j, c)
      BY <2>1, <2>4 DEF CurrentFor, IsCurrent
    <3> QED BY <1>0, <2>1, <2>2, <3>1, StandsOn
  <2> QED BY <2>3, <2>4
<1>7. ASSUME NEW b \in Collections, ScanMarksMissing(b) PROVE StandsAtSource(c)'
  <2> PICK k \in UsedLocations : FoundMissing(b, k)
    BY <1>7, MissingEffect DEF RowsInv
  <2>1. /\ UNCHANGED <<operation, overlapped>>
        /\ \A j \in Locations \ {k} : location'[j] = location[j]
        /\ location'[k].status = "missing"
    BY DEF FoundMissing, FilesUntouched
  <2>2. PendingOf(c)' = PendingOf(c)
    BY <2>1 DEF PendingOf, PendingOperations, IsPending
  <2>3. \A j \in Locations : CurrentFor(j, c)' => CurrentFor(j, c)
    BY <2>1 DEF CurrentFor, IsCurrent
  <2> QED BY <1>0, <2>1, <2>2, <2>3, StandsOn
<1>8. CASE Request
  <2> PICK o \in Operations \ UsedOperations, b \in Collections, l \in UsedLocations,
           kind \in Kinds, to \in Paths \cup {Null} : Requested(o, b, l, kind, to)
    BY <1>8, RequestEffect DEF RowsInv
  <2>0. /\ operation'[o].collection = b /\ operation'[o].from_location = l
        /\ \A p \in PendingOperations : operation'[p] = operation[p]
        /\ PendingOperations' = PendingOperations \cup {o} /\ o \notin PendingOperations
        /\ overlapped \subseteq overlapped' /\ CurrentFor(l, b)
        /\ \A p \in PendingOperations : operation[p].collection = b => b \in overlapped'
        /\ UNCHANGED location
    BY <1>0, RowTypes DEF Requested, TypeInv, UsedOperations
  <2>1. \A j \in Locations : CurrentFor(j, c)' <=> CurrentFor(j, c)
    BY <2>0 DEF CurrentFor, IsCurrent
  <2>2. CASE b # c
    <3>1. PendingOf(c)' \subseteq PendingOf(c)
      BY <2>0, <2>2 DEF PendingOf
    <3>2. \A p \in PendingOf(c) : operation'[p].from_location = operation[p].from_location
      BY <2>0 DEF PendingOf
    <3> QED BY <1>0, <2>0, <2>1, <3>1, <3>2, StandsOn
  <2>3. CASE b = c
    <3>1. c \notin overlapped' => PendingOf(c)' = {o}
      BY <2>0, <2>3 DEF PendingOf
    <3>2. \A j \in Locations : CurrentFor(j, c) => j = l
      BY <2>0, <2>3 DEF RowsInv, CurrentInv, CurrentLocationsUnique, CurrentFor, UsedLocations
    <3> QED BY <2>0, <2>1, <3>1, <3>2 DEF StandsAtSource
  <2> QED BY <2>2, <2>3
<1> QED BY <1>1, <1>2, <1>3, <1>4, <1>5, <1>6, <1>7, <1>8, KindsOfSteps

(* What the process does while the service is down, and in the recovery. *)
RecoveryShape ==
  /\ mode \in {"down", "refused"} => phase = "idle"
  /\ mode = "recovering" => phase \in {"idle", "applied", "failing"}
  /\ phase = "idle" => running = Null

LEMMA ShapeInit == Init => RecoveryShape
BY DEF Init, RecoveryShape

LEMMA ShapeStep == RecoveryShape /\ [Next]_vars => RecoveryShape'
<1> SUFFICES ASSUME RecoveryShape, [Next]_vars PROVE RecoveryShape'
  OBVIOUS
<1> USE DEF RecoveryShape
<1>1. CASE UNCHANGED vars
  BY <1>1 DEF vars, process
<1>2. CASE Request
  <2>1. mode = "serving" /\ UNCHANGED mode /\ phase' = "begun"
    <3>1. ASSUME NEW c \in Collections, NEW r, BeginMove(c, r) \/ BeginRename(c, r) \/ BeginDelete(c, r)
          PROVE  mode = "serving" /\ UNCHANGED mode /\ phase' = "begun"
      BY <3>1 DEF BeginMove, BeginRename, BeginDelete, Serving, Record
    <3> QED BY <1>2, <3>1 DEF Request
  <2> QED BY <2>1
<1>3. CASE FileStep
  <2>1. /\ UNCHANGED mode /\ phase \in {"begun", "copied", "published", "linked"}
        /\ phase' # "idle"
    BY <1>3 DEF FileStep, HardLink, CopyToPartial, PublishPartial, RemovePartial, RemoveSource,
       RollBack, RollBackFails, Recycle, Erase, FileStepFails, At, Goto
  <2> QED BY <2>1
<1>4. CASE Outcome
  <2>1. /\ UNCHANGED mode
        /\ \/ phase' = "idle" /\ running' = Null
           \/ phase = "failed" /\ phase' # "idle"
    BY <1>4 DEF Outcome, FailureIsCertain, FailureIsAmbiguous, RecordFailure, CompleteRelocation,
       CompleteSoftDelete, CompleteHardDelete, CompletionRefused, StorageError, At, Goto, Stop
  <2> QED BY <2>1
<1>5. CASE Crash \/ Restart \/ RestartRefused \/ FinishRecovery
  BY <1>5 DEF Crash, Restart, RestartRefused, FinishRecovery
<1>6. ASSUME NEW o \in Operations, RecoverApplied(o) \/ RecoverUnapplied(o) \/ RecoverAmbiguous(o)
      PROVE  RecoveryShape'
  BY <1>6 DEF RecoverApplied, RecoverUnapplied, RecoverAmbiguous, Visit
<1>7. CASE OtherWriter \/ User
  BY <1>7 DEF OtherWriter, ScanIngests, ScanMarksMissing, OtherTableHolds, SetRootActive,
     User, UserMoves, UserTakes, UserReturns, UserStep, process
<1> QED BY <1>1, <1>2, <1>3, <1>4, <1>5, <1>6, <1>7 DEF Next, Recovery

(* A row that was visited and is still pending could not be decided.        *)
Visited ==
  mode = "recovering" /\ ~disturbed /\ overlapped = {} =>
    /\ phase = "applied" => LooksApplied(running)
    /\ \A o \in PendingOperations : o \in queue \/ o = running \/ ~Decidable(o)

LEMMA VisitedInit == Init => Visited
BY DEF Init, Visited

(* The steps of an undisturbed recovery. *)
LEMMA RecoverySteps ==
  ASSUME RecoveryShape, [Next]_vars, mode' = "recovering", ~disturbed'
  PROVE  \/ Restart
         \/ /\ mode = "recovering" /\ ~disturbed
            /\ UNCHANGED <<fs, held, activeRoots, overlapped>>
            /\ \/ UNCHANGED vars
               \/ \E o \in Operations :
                    RecoverApplied(o) \/ RecoverUnapplied(o) \/ RecoverAmbiguous(o)
               \/ /\ queue' = queue /\ phase' = "idle" /\ running' = Null
                  /\ \/ RecordFailure \/ CompletionRefused
                     \/ CompleteRelocation \/ CompleteSoftDelete \/ CompleteHardDelete
<1> USE DEF disk, catalog, process, user, history
<1>1. CASE UNCHANGED vars
  BY <1>1 DEF vars
<1>2. CASE Request
  BY <1>2 DEF Request, BeginMove, BeginRename, BeginDelete, Serving
<1>3. CASE FileStep
  <2>1. UNCHANGED mode /\ phase \in {"begun", "copied", "published", "linked"}
    BY <1>3 DEF FileStep, HardLink, CopyToPartial, PublishPartial, RemovePartial, RemoveSource,
       RollBack, RollBackFails, Recycle, Erase, FileStepFails, At, Goto
  <2> QED BY <2>1 DEF RecoveryShape
<1>4. CASE FailureIsCertain \/ FailureIsAmbiguous \/ StorageError
  BY <1>4 DEF FailureIsCertain, FailureIsAmbiguous, StorageError, At, Stop, Goto, RecoveryShape
<1>5. CASE RecordFailure \/ CompletionRefused \/ CompleteRelocation \/ CompleteSoftDelete
  BY <1>5 DEF RecordFailure, CompletionRefused, CompleteRelocation, CompleteSoftDelete, Stop
<1>6. CASE CompleteHardDelete
  BY <1>6 DEF CompleteHardDelete, Stop
<1>7. CASE Crash \/ Restart \/ RestartRefused \/ FinishRecovery
  BY <1>7 DEF Crash, RestartRefused, FinishRecovery
<1>8. ASSUME NEW o \in Operations, RecoverApplied(o) \/ RecoverUnapplied(o) \/ RecoverAmbiguous(o)
      PROVE  mode = "recovering" /\ ~disturbed /\ UNCHANGED <<fs, held, activeRoots, overlapped>>
  BY <1>8 DEF RecoverApplied, RecoverUnapplied, RecoverAmbiguous, Visit
<1>9. CASE OtherWriter
  BY <1>9 DEF OtherWriter, ScanIngests, ScanMarksMissing, OtherTableHolds, SetRootActive, Serving
<1>10. CASE User
  BY <1>10 DEF User, UserMoves, UserTakes, UserReturns, UserStep
<1> QED BY <1>1, <1>2, <1>3, <1>4, <1>5, <1>6, <1>7, <1>8, <1>9, <1>10 DEF Next, Outcome, Recovery

(* A row stays undecidable when the step keeps it, the files, the roots and *)
(* whom other tables hold, and no place its target could take gets free.    *)
LEMMA StaysUndecidable ==
  ASSUME NEW o \in PendingOperations, ~Decidable(o),
         UNCHANGED <<fs, held, activeRoots>>,
         NEW c, operation[o].collection = c, operation'[o].collection = c,
         NEW p, operation[o].from = p, operation'[o].from = p,
         NEW t, operation[o].to = t, operation'[o].to = t,
         operation'[o].kind = operation[o].kind,
         NEW k,
         c # Null => /\ operation[o].from_location = k /\ operation'[o].from_location = k
                     /\ CurrentFor(k, c)' => CurrentFor(k, c)
                     /\ Exists(t) => \A d \in Collections \ {c} :
                          IndexedAt(t, d) => IndexedAt(t, d)'
  PROVE  ~Decidable(o)'
<1>0. (Exists(p)' <=> Exists(p)) /\ (Exists(t)' <=> Exists(t))
  BY DEF Exists
<1>1. LooksUnapplied(o)' => LooksUnapplied(o)
  BY <1>0 DEF LooksUnapplied, TargetOf, Exists
<1>2. LooksApplied(o)' => LooksApplied(o)
  BY <1>0 DEF LooksApplied, TargetOf, Exists
<1>3. ASSUME RelocationAllowed(o)' PROVE RelocationAllowed(o)
  <2>1. /\ c # Null /\ operation[o].from_location # Null
        /\ ~Exists(operation[o].from) /\ Exists(operation[o].to)
        /\ operation[o].kind = "move" => Root(operation[o].to) \in activeRoots
    BY <1>3 DEF RelocationAllowed, Exists
  <2>2. CurrentFor(k, c)'
    BY <1>3, <2>1 DEF RelocationAllowed, CurrentFor, IsCurrent
  <2>3. \A d \in Collections \ {c} : ~IndexedAt(t, d)'
    BY <1>3 DEF RelocationAllowed, IndexedAt, CurrentFor, IsCurrent
  <2> QED BY <2>1, <2>2, <2>3 DEF RelocationAllowed
<1>4. ASSUME SoftDeletionAllowed(o)' PROVE SoftDeletionAllowed(o)
  <2>1. c # Null /\ operation[o].from_location # Null /\ ~Exists(operation[o].from)
    BY <1>4 DEF SoftDeletionAllowed, Exists
  <2>2. CurrentFor(k, c)'
    BY <1>4, <2>1 DEF SoftDeletionAllowed, CurrentFor, IsCurrent
  <2> QED BY <2>1, <2>2 DEF SoftDeletionAllowed
<1>5. HardDeletionAllowed(o)' => HardDeletionAllowed(o)
  BY <1>0 DEF HardDeletionAllowed, Exists
<1>6. CompletionAllowed(o)' => CompletionAllowed(o)
  BY <1>3, <1>4, <1>5 DEF CompletionAllowed
<1> QED BY <1>1, <1>2, <1>6 DEF Decidable

(* Completing r changes only rows of its collection, which stood nowhere    *)
(* but at the source of r, and nothing is there any more.                   *)
LEMMA CompletedElsewhere ==
  ASSUME RowsInv, overlapped = {}, UNCHANGED <<fs, held, activeRoots>>,
         NEW b \in Collections, NEW r \in PendingOf(b), ~Exists(operation[r].from),
         NEW o \in PendingOperations, o # r, ~Decidable(o),
         \A j \in UsedLocations : location[j].collection # b => location'[j] = location[j],
         \A j \in Locations : CurrentFor(j, b) => location[j].path = operation[r].from,
         operation'[o].collection = operation[o].collection,
         operation'[o].kind = operation[o].kind,
         operation'[o].from = operation[o].from,
         operation'[o].to = operation[o].to,
         operation[o].collection # Null =>
           operation'[o].from_location = operation[o].from_location
  PROVE  ~Decidable(o)'
<1> PICK c, p, t, k : /\ c = operation[o].collection /\ p = operation[o].from
                      /\ t = operation[o].to /\ k = operation[o].from_location
  OBVIOUS
<1>1. ASSUME c # Null
      PROVE  /\ operation'[o].from_location = k
             /\ CurrentFor(k, c)' => CurrentFor(k, c)
             /\ Exists(t) => \A d \in Collections \ {c} : IndexedAt(t, d) => IndexedAt(t, d)'
  <2>1. c \in Collections /\ o \in PendingOf(c)
    BY <1>1, RowTypes DEF RowsInv, TypeInv, OperationRow, PendingOf
  <2>2. c # b
    BY <2>1, OnlyOne
  <2>3. k \in UsedLocations /\ location[k].collection = c
    BY <2>1, PendingRow
  <2>4. CurrentFor(k, c)' => CurrentFor(k, c)
    BY <2>2, <2>3 DEF CurrentFor, IsCurrent
  <2>5. ASSUME Exists(t), NEW d \in Collections, IndexedAt(t, d) PROVE IndexedAt(t, d)'
    <3>1. PICK j \in Locations : CurrentFor(j, d) /\ location[j].path = t
      BY <2>5 DEF IndexedAt
    <3>2. j \in UsedLocations /\ location[j].collection = d
      BY <3>1, RowTypes DEF RowsInv, TypeInv, CurrentFor
    <3>3. d # b
      BY <2>5, <3>1
    <3>4. location'[j] = location[j]
      BY <3>2, <3>3
    <3> QED BY <3>1, <3>4 DEF IndexedAt, CurrentFor, IsCurrent
  <2> QED BY <1>1, <2>4, <2>5
<1> QED BY <1>1, StaysUndecidable

LEMMA VisitedStep ==
  RowsInv /\ SourceStands /\ RecoveryShape /\ Visited /\ [Next]_vars => Visited'
<1> SUFFICES ASSUME RowsInv, SourceStands, RecoveryShape, Visited, [Next]_vars,
                    mode' = "recovering", ~disturbed', overlapped' = {}
             PROVE  /\ phase' = "applied" => LooksApplied(running)'
                    /\ \A o \in PendingOperations' : o \in queue' \/ o = running' \/ ~Decidable(o)'
  BY DEF Visited
<1>1. CASE Restart
  <2>1. phase' = "idle" /\ queue' = PendingOperations /\ PendingOperations' = PendingOperations
    BY <1>1 DEF Restart, RecoveryShape, catalog, PendingOperations, IsPending
  <2> QED BY <2>1
<1> SUFFICES ASSUME mode = "recovering", ~disturbed, overlapped = {},
                    UNCHANGED <<fs, held, activeRoots, overlapped>>,
                    \/ UNCHANGED vars
                    \/ \E o \in Operations :
                         RecoverApplied(o) \/ RecoverUnapplied(o) \/ RecoverAmbiguous(o)
                    \/ /\ queue' = queue /\ phase' = "idle" /\ running' = Null
                       /\ \/ RecordFailure \/ CompletionRefused
                          \/ CompleteRelocation \/ CompleteSoftDelete \/ CompleteHardDelete
             PROVE  /\ phase' = "applied" => LooksApplied(running)'
                    /\ \A o \in PendingOperations' : o \in queue' \/ o = running' \/ ~Decidable(o)'
  BY <1>1, RecoverySteps
<1>0. /\ phase = "applied" => LooksApplied(running)
      /\ \A o \in PendingOperations : o \in queue \/ o = running \/ ~Decidable(o)
      /\ TypeInv
  BY DEF Visited, RowsInv
<1>2. ASSUME UNCHANGED <<catalog, fs>>
      PROVE  /\ \A o \in Operations : Decidable(o)' <=> Decidable(o)
             /\ \A o \in Operations : LooksApplied(o)' <=> LooksApplied(o)
             /\ PendingOperations' = PendingOperations
  BY <1>2 DEF Decidable, LooksApplied, LooksUnapplied, TargetOf, Exists, CompletionAllowed,
     RelocationAllowed, SoftDeletionAllowed, HardDeletionAllowed, IndexedAt, CurrentFor, IsCurrent,
     PendingOperations, IsPending, catalog
<1>3. CASE UNCHANGED vars
  <2>1. UNCHANGED <<catalog, fs, phase, running, queue>>
    BY <1>3 DEF vars, disk, process
  <2>2. phase' = "applied" => LooksApplied(running)'
    BY <1>0, <2>1 DEF LooksApplied, TargetOf, Exists, catalog
  <2> QED BY <1>0, <1>2, <2>1, <2>2 DEF PendingOperations
<1>4. ASSUME NEW o \in Operations, RecoverApplied(o) \/ RecoverUnapplied(o) \/ RecoverAmbiguous(o)
      PROVE  /\ phase' = "applied" => LooksApplied(running)'
             /\ \A q \in PendingOperations' : q \in queue' \/ q = running' \/ ~Decidable(q)'
  <2>1. UNCHANGED <<catalog, fs>> /\ queue' = queue \ {o} /\ phase = "idle"
    BY <1>4 DEF RecoverApplied, RecoverUnapplied, RecoverAmbiguous, Visit, disk
  <2>2. \/ phase' = "applied" /\ running' = o /\ LooksApplied(o)
        \/ phase' = "failing" /\ running' = o
        \/ phase' = "idle" /\ ~LooksApplied(o) /\ ~LooksUnapplied(o)
    BY <1>4 DEF RecoverApplied, RecoverUnapplied, RecoverAmbiguous, Visit
  <2>3. phase' = "applied" => LooksApplied(running)'
    BY <2>1, <2>2 DEF LooksApplied, TargetOf, Exists, catalog
  <2>4. ~LooksApplied(o) /\ ~LooksUnapplied(o) => ~Decidable(o)
    BY DEF Decidable
  <2>5. ASSUME NEW q \in PendingOperations', q # o PROVE q \in queue' \/ ~Decidable(q)'
    <3>1. q \in PendingOperations /\ q \in Operations
      BY <1>2, <2>1, <2>5 DEF PendingOperations
    <3>2. running = Null /\ q # Null
      BY <2>1, <3>1, NullAssumption, BoundsAssumption DEF RecoveryShape, Operations
    <3> QED BY <1>0, <1>2, <2>1, <2>5, <3>1, <3>2
  <2> QED BY <1>2, <2>1, <2>2, <2>3, <2>4, <2>5
<1> DEFINE LeavesNone == \A o \in PendingOperations' : o \in queue \/ ~Decidable(o)'
<1>s. ASSUME LeavesNone, \/ RecordFailure \/ CompletionRefused
                         \/ CompleteRelocation \/ CompleteSoftDelete \/ CompleteHardDelete
      PROVE  /\ phase' = "applied" => LooksApplied(running)'
             /\ \A o \in PendingOperations' : o \in queue' \/ o = running' \/ ~Decidable(o)'
  <2>1. queue' = queue /\ phase' = "idle"
    BY <1>s DEF RecordFailure, CompletionRefused, CompleteRelocation, CompleteSoftDelete,
       CompleteHardDelete, Stop
  <2> QED BY <1>s, <2>1
<1>5. CASE CompletionRefused
  <2>1. /\ phase = "applied" /\ ~CompletionAllowed(running) /\ UNCHANGED <<catalog, fs>>
    BY <1>5 DEF CompletionRefused, At, disk
  <2>2. LooksApplied(running) /\ ~LooksUnapplied(running)
    BY <1>0, <2>1 DEF LooksApplied, LooksUnapplied
  <2>3. ~Decidable(running)
    BY <2>1, <2>2 DEF Decidable
  <2>4. LeavesNone
    BY <1>0, <1>2, <2>1, <2>3 DEF PendingOperations
  <2> QED BY <1>5, <1>s, <2>4
<1>6. CASE RecordFailure
  <2> PICK r \in PendingOperations : FailureRecorded(r)
    BY <1>6, FailureEffect DEF RowsInv
  <2>1. /\ r = running /\ JournalSettles(r, "failed") /\ UNCHANGED location
    BY DEF FailureRecorded
  <2>2. ASSUME NEW o \in PendingOperations \ {r}, ~Decidable(o) PROVE ~Decidable(o)'
    <3>1. o \in UsedOperations
      BY <1>0, RowTypes DEF TypeInv
    <3>2. RowKept(o)
      BY <2>1, <3>1 DEF JournalSettles
    <3> PICK c, p, t, k : /\ c = operation[o].collection /\ p = operation[o].from
                          /\ t = operation[o].to /\ k = operation[o].from_location
      OBVIOUS
    <3>3. /\ CurrentFor(k, c)' => CurrentFor(k, c)
          /\ \A d \in Collections \ {c} : IndexedAt(t, d) => IndexedAt(t, d)'
      BY <2>1 DEF CurrentFor, IsCurrent, IndexedAt
    <3> QED BY <2>2, <3>2, <3>3, StaysUndecidable DEF RowKept
  <2>3. PendingOperations' = PendingOperations \ {r}
    BY <2>1 DEF JournalSettles
  <2>4. LeavesNone
    BY <1>0, <2>1, <2>2, <2>3
  <2> QED BY <1>6, <1>s, <2>4
<1>7. ASSUME NEW b \in Collections, NEW r \in PendingOf(b), r = running,
             ~Exists(operation[r].from),
             PendingOperations' = PendingOperations \ {r},
             \A o \in PendingOperations \ {r} :
               /\ operation'[o].collection = operation[o].collection
               /\ operation'[o].kind = operation[o].kind
               /\ operation'[o].from = operation[o].from
               /\ operation'[o].to = operation[o].to
               /\ operation[o].collection # Null =>
                    operation'[o].from_location = operation[o].from_location,
             \A j \in UsedLocations : location[j].collection # b => location'[j] = location[j]
      PROVE  LeavesNone
  <2>1. \A j \in Locations : CurrentFor(j, b) => location[j].path = operation[r].from
    BY PendingRow DEF SourceStands, StandsAtSource
  <2>2. ASSUME NEW o \in PendingOperations \ {r}, ~Decidable(o) PROVE ~Decidable(o)'
    BY <1>7, <2>1, <2>2, CompletedElsewhere
  <2> QED BY <1>0, <1>7, <2>2
<1>8. CASE CompleteRelocation
  <2> PICK r \in PendingOperations, b \in Collections, k \in UsedLocations,
           l \in Locations \ UsedLocations : Relocated(r, b, k, l)
    BY <1>8, RelocationEffect DEF RowsInv
  <2>1. /\ JournalSettles(r, "succeeded") /\ r \in PendingOf(b) /\ r = running
        /\ ~Exists(operation[r].from)
        /\ \A j \in Locations \ {k, l} : location'[j] = location[j]
        /\ location[k].collection = b
    BY DEF Relocated, PendingOf, CurrentFor
  <2>2. \A j \in UsedLocations : location[j].collection # b => location'[j] = location[j]
    BY <2>1 DEF UsedLocations
  <2>3. \A o \in PendingOperations \ {r} : RowKept(o)
    BY <1>0, <2>1, RowTypes DEF JournalSettles, TypeInv
  <2>4. PendingOperations' = PendingOperations \ {r}
    BY <2>1 DEF JournalSettles
  <2>5. LeavesNone
    BY <1>7, <2>1, <2>2, <2>3, <2>4 DEF RowKept
  <2> QED BY <1>8, <1>s, <2>5
<1>9. CASE CompleteSoftDelete
  <2> PICK r \in PendingOperations, b \in Collections, k \in UsedLocations :
        SoftlyDeleted(r, b, k)
    BY <1>9, SoftDeletionEffect DEF RowsInv
  <2>1. /\ JournalSettles(r, "succeeded") /\ r \in PendingOf(b) /\ r = running
        /\ ~Exists(operation[r].from)
        /\ \A j \in Locations \ {k} : location'[j] = location[j]
        /\ location[k].collection = b
    BY DEF SoftlyDeleted, PendingOf, CurrentFor
  <2>2. \A j \in UsedLocations : location[j].collection # b => location'[j] = location[j]
    BY <2>1 DEF UsedLocations
  <2>3. \A o \in PendingOperations \ {r} : RowKept(o)
    BY <1>0, <2>1, RowTypes DEF JournalSettles, TypeInv
  <2>4. PendingOperations' = PendingOperations \ {r}
    BY <2>1 DEF JournalSettles
  <2>5. LeavesNone
    BY <1>7, <2>1, <2>2, <2>3, <2>4 DEF RowKept
  <2> QED BY <1>9, <1>s, <2>5
<1>10. CASE CompleteHardDelete
  <2> PICK r \in PendingOperations, b \in Collections : HardDeleted(r, b)
    BY <1>10, HardDeletionEffect DEF RowsInv
  <2>1. /\ PendingOperations' = PendingOperations \ {r} /\ r \in PendingOf(b) /\ r = running
        /\ ~Exists(operation[r].from)
        /\ UsedLocations' = {l \in UsedLocations : location[l].collection # b}
        /\ \A l \in UsedLocations' : location'[l] = location[l]
    BY DEF HardDeleted, PendingOf
  <2>2. \A j \in UsedLocations : location[j].collection # b => location'[j] = location[j]
    BY <2>1
  <2>3. ASSUME NEW o \in PendingOperations \ {r}
        PROVE  /\ operation'[o].collection = operation[o].collection
               /\ operation'[o].kind = operation[o].kind
               /\ operation'[o].from = operation[o].from
               /\ operation'[o].to = operation[o].to
               /\ operation[o].collection # Null =>
                    operation'[o].from_location = operation[o].from_location
    <3>1. o \in UsedOperations /\ operation[o].collection \in Collections \cup {Null}
      BY <1>0, RowTypes DEF TypeInv, OperationRow
    <3>2. operation[o].collection # b
      BY <2>1, OnlyOne DEF PendingOf
    <3>3. operation[o].collection # Null => ~Gone(operation[o].from_location, b)
      BY <3>1, <3>2 DEF RowsInv, References, Gone
    <3> QED BY <3>1, <3>2, <3>3 DEF HardDeleted
  <2>5. LeavesNone
    BY <1>7, <2>1, <2>2, <2>3
  <2> QED BY <1>10, <1>s, <2>5
<1> QED BY <1>3, <1>4, <1>5, <1>6, <1>8, <1>9, <1>10

(* One pass in the order of the ids is enough: when the recovery ends, no   *)
(* pending row is left that it could have decided, however many moves,      *)
(* renames and deletions a crash left behind, as long as no collection had  *)
(* two of them.                                                             *)
THEOREM OnePassIsEnough == Spec => OnePassSuffices
<1> DEFINE Inv == RowsInv /\ SourceStands /\ RecoveryShape /\ Visited
<1>1. Init => Inv
  BY TypeInit, CurrentInit, SourcesInit, CopyInit, ReferencesInit, LiveInit, RivalsInit,
     SourceStandsInit, ShapeInit, VisitedInit DEF RowsInv
<1>2. Inv /\ [Next]_vars => Inv'
  <2> SUFFICES ASSUME Inv, [Next]_vars PROVE Inv'
    OBVIOUS
  <2>1. RowsInv'
    BY TypeStep, CurrentStep, SourcesStep, CopyStep, ReferencesStep, LiveStep, RivalsStep
       DEF RowsInv
  <2> QED BY <2>1, SourceStandsStep, ShapeStep, VisitedStep
<1>3. Inv /\ FinishRecovery /\ ~disturbed /\ overlapped = {} =>
        \A o \in PendingOperations : ~Decidable(o)
  <2> SUFFICES ASSUME Inv, FinishRecovery, ~disturbed, overlapped = {},
                      NEW o \in PendingOperations
               PROVE  ~Decidable(o)
    OBVIOUS
  <2>1. mode = "recovering" /\ phase = "idle" /\ queue = {}
    BY DEF FinishRecovery
  <2>2. running = Null /\ o # Null
    BY <2>1, NullAssumption, BoundsAssumption DEF RecoveryShape, Operations, PendingOperations
  <2> QED BY <2>1, <2>2 DEF Visited
<1> HIDE DEF Inv
<1>4. Spec => []Inv
  BY <1>1, <1>2, PTL DEF Spec
<1> QED BY <1>3, <1>4, PTL DEF OnePassSuffices, Spec
=============================================================================
