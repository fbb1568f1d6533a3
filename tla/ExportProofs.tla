---------------------------- MODULE ExportProofs ----------------------------
(***************************************************************************)
(* What holds of ExportPackages for any number of packages, collections,   *)
(* jobs, changes, crashes and errors.  That a partial file belongs to the  *)
(* one job that runs carries everything else, the types included.          *)
(***************************************************************************)
EXTENDS ExportPackages, TLAPS

Writing == {"next", "started", "checked", "copied", "written", "linked"}
AtItem  == {"started", "checked", "copied"}

OneRunning == \A j, k \in Jobs : Running(j) /\ Running(k) => j = k

(* A thread works for a running job; while it writes, the partial is its.  *)
ThreadFits(j) ==
  /\ thread[j].at = "created" => job[j].status = "pending"
  /\ thread[j].at \notin {"none", "created"} => Running(j)
  /\ thread[j].at \in AtItem => thread[j].item \in Items(j)
  /\ thread[j].at \in Writing => partial[Path(j)] # Null /\ partial[Path(j)].job = j

ThreadsFit ==
  /\ ~up => \A j \in Jobs : thread[j].at = "none"
  /\ OneRunning
  /\ \A j \in Jobs : ThreadFits(j)

TypeInv == TypeOK /\ ThreadsFit

-----------------------------------------------------------------------------
LEMMA RowShape ==
  ASSUME TypeOK, NEW j \in Jobs
  PROVE  /\ job[j] # Unused <=> job[j] \in JobRow
         /\ job[j].status \in {"pending", "running", "succeeded", "failed"} => job[j] \in JobRow
BY DEF TypeOK, JobRow, Unused

LEMMA ThreadShape ==
  ASSUME TypeOK, NEW j \in Jobs
  PROVE  /\ thread[j] \in ThreadState
         /\ thread[j].at \in Writing \cup {"prepared", "spawned", "published"} =>
              thread[j] \in [at : Writing \cup {"prepared", "spawned", "published"},
                             place : [Collections -> Places \cup {Null}],
                             item : Collections \cup {Null}]
         /\ thread[j].at \in {"failing", "removed"} =>
              thread[j] \in [at : {"failing", "removed"}, item : Collections \cup {Null}]
BY DEF TypeOK, ThreadState, Writing, NoThread

LEMMA FailedShape ==
  ASSUME NEW row \in JobRow, NEW c
  PROVE  /\ Failed(row, c) \in JobRow
         /\ Failed(row, c).status = "failed"
         /\ Failed(row, c).expect = row.expect
         /\ Failed(row, c).package = row.package
<1> DEFINE item == [d \in Collections |-> IF d = c /\ row.item[d] \in {"pending", "running"}
                                            THEN "failed" ELSE row.item[d]]
           failed == IF c = Null THEN row.failed ELSE row.failed + 1
<1>1. item \in [Collections -> {"none", "pending", "running", "succeeded", "failed"}]
  BY DEF JobRow
<1>2. failed \in Nat
  BY DEF JobRow
<1>3. Failed(row, c) = [row EXCEPT !.status = "failed", !.current = Null, !.failed = failed,
                                   !.item = item]
  BY DEF Failed
<1> HIDE DEF item, failed
<1> QED
  BY ZenonT(60), <1>1, <1>2, <1>3 DEF JobRow

LEMMA InterruptedShape ==
  ASSUME NEW row \in JobRow
  PROVE  /\ Interrupted(row) \in JobRow
         /\ Interrupted(row).status = "failed"
         /\ Interrupted(row).expect = row.expect
         /\ Interrupted(row).package = row.package
<1> DEFINE item == [d \in Collections |-> IF row.item[d] = "running" THEN "failed" ELSE row.item[d]]
           failed == IF row.current = Null THEN row.failed ELSE row.failed + 1
<1>1. item \in [Collections -> {"none", "pending", "running", "succeeded", "failed"}]
  BY DEF JobRow
<1>2. failed \in Nat
  BY DEF JobRow
<1>3. Interrupted(row) = [row EXCEPT !.status = "failed", !.current = Null, !.failed = failed,
                                     !.item = item]
  BY DEF Interrupted
<1> HIDE DEF item, failed
<1> QED
  BY ZenonT(60), <1>1, <1>2, <1>3 DEF JobRow

LEMMA CopiedShape ==
  ASSUME NEW row \in JobRow, NEW c \in Collections
  PROVE  /\ Copied(row, c) \in JobRow
         /\ Copied(row, c).status = row.status
         /\ Copied(row, c).expect = row.expect
         /\ Copied(row, c).package = row.package
<1> DEFINE item == [row.item EXCEPT ![c] = "succeeded"]
           processed == row.processed + 1
<1>1. item \in [Collections -> {"none", "pending", "running", "succeeded", "failed"}]
      /\ processed \in Nat
  BY DEF JobRow
<1>2. Copied(row, c) = [row EXCEPT !.item = item, !.current = Null, !.processed = processed]
  BY DEF Copied
<1> HIDE DEF item, processed
<1> QED
  BY ZenonT(60), <1>1, <1>2 DEF JobRow

LEMMA ExportInit == Init => TypeInv
<1> SUFFICES ASSUME Init PROVE TypeInv
  OBVIOUS
<1> USE ExportBoundsAssumption DEF Init
<1>1. TypeOK
  BY DEF TypeOK, ThreadState, NoThread, Unused, Identity, Places, Versions
<1> QED
  BY <1>1 DEF TypeInv, ThreadsFit, ThreadFits, OneRunning, Running, Unused, NoThread, Writing, AtItem

-----------------------------------------------------------------------------
(* A step of one thread that leaves tables and disk alone: it ends, or it    *)
(* goes on to a place where it need not know more than before.              *)
LEMMA ThreadOnly ==
  ASSUME TypeInv, NEW j \in Jobs, NEW t \in ThreadState,
         thread' = [thread EXCEPT ![j] = t], UNCHANGED <<job, partial, up>>,
         up,
         \/ t.at = "none"
         \/ /\ thread[j].at \notin {"none", "created"}
            /\ t.at \in {"spawned", "failing", "removed", "published"}
         \/ thread[j].at = "started" /\ t.at = "checked" /\ t.item = thread[j].item
  PROVE  ThreadsFit' /\ thread' \in [Jobs -> ThreadState]
<1>1. /\ thread' \in [Jobs -> ThreadState]
      /\ thread'[j] = t
      /\ \A k \in Jobs : k # j => thread'[k] = thread[k]
  BY DEF TypeInv, TypeOK
<1>2. ASSUME NEW k \in Jobs
      PROVE  ThreadFits(k)'
  <2>1. CASE k # j
    BY <1>1, <2>1 DEF TypeInv, ThreadsFit, ThreadFits, Running, Items, Path
  <2>2. CASE k = j
    BY <1>1, <2>2 DEF TypeInv, ThreadsFit, ThreadFits, Running, Items, Path, Writing, AtItem
  <2> QED BY <2>1, <2>2
<1> QED
  BY <1>1, <1>2 DEF TypeInv, ThreadsFit, OneRunning, Running

(* A step of one thread that also writes the row of its job. *)
LEMMA RowMoves ==
  ASSUME TypeInv, NEW j \in Jobs, NEW row \in JobRow, NEW t \in ThreadState,
         job' = [job EXCEPT ![j] = row],
         thread' = [thread EXCEPT ![j] = t], UNCHANGED <<partial, up>>,
         up,
         row.status = "running" => \A k \in Jobs : k # j => ~Running(k),
         t.at = "created" => row.status = "pending",
         t.at \notin {"none", "created"} => row.status = "running",
         t.at \in AtItem => t.item \in Collections /\ row.expect[t.item] # Null,
         t.at \in Writing => partial[row.package] # Null /\ partial[row.package].job = j
  PROVE  /\ ThreadsFit'
         /\ job' \in [Jobs -> JobRow \cup {Unused}]
         /\ thread' \in [Jobs -> ThreadState]
<1>1. /\ thread' \in [Jobs -> ThreadState] /\ job' \in [Jobs -> JobRow \cup {Unused}]
      /\ thread'[j] = t /\ job'[j] = row
      /\ \A k \in Jobs : k # j => thread'[k] = thread[k] /\ job'[k] = job[k]
  BY DEF TypeInv, TypeOK
<1>2. ASSUME NEW k \in Jobs
      PROVE  ThreadFits(k)'
  <2>1. CASE k # j
    BY <1>1, <2>1 DEF TypeInv, ThreadsFit, ThreadFits, Running, Items, Path
  <2>2. CASE k = j
    BY <1>1, <2>2 DEF TypeInv, ThreadsFit, ThreadFits, Running, Items, Path, Writing, AtItem
  <2> QED BY <2>1, <2>2
<1>3. OneRunning'
  BY <1>1 DEF TypeInv, ThreadsFit, OneRunning, Running
<1> QED
  BY <1>1, <1>2, <1>3 DEF ThreadsFit

(* A step of one thread that changes its partial file: no other thread is   *)
(* writing.                                                                 *)
LEMMA PartialMoves ==
  ASSUME TypeInv, NEW j \in Jobs, NEW t \in ThreadState, NEW content \in Content \cup {Null},
         partial' = [partial EXCEPT ![Path(j)] = content],
         thread' = [thread EXCEPT ![j] = t], UNCHANGED <<job, up>>,
         up,
         thread[j].at \notin {"none", "created"}, t.at \notin {"none", "created"},
         t.at \in AtItem => t.item \in Items(j),
         t.at \in Writing => content # Null /\ content.job = j
  PROVE  /\ ThreadsFit'
         /\ partial' \in [Packages -> Content \cup {Null}]
         /\ thread' \in [Jobs -> ThreadState]
<1>1. Running(j) /\ job[j] \in JobRow /\ Path(j) \in Packages
  BY RowShape DEF TypeInv, ThreadsFit, ThreadFits, Running, Path, JobRow
<1>2. /\ thread' \in [Jobs -> ThreadState] /\ partial' \in [Packages -> Content \cup {Null}]
      /\ thread'[j] = t /\ partial'[Path(j)] = content
      /\ \A k \in Jobs : k # j => thread'[k] = thread[k]
  BY <1>1 DEF TypeInv, TypeOK
<1>3. ASSUME NEW k \in Jobs
      PROVE  ThreadFits(k)'
  <2>1. CASE k # j
    <3>1. thread[k].at \in {"none", "created"}
      BY <1>1, <2>1 DEF TypeInv, ThreadsFit, ThreadFits, OneRunning
    <3> QED
      BY <1>2, <2>1, <3>1 DEF TypeInv, ThreadsFit, ThreadFits, Running, Writing, AtItem
  <2>2. CASE k = j
    BY <1>1, <1>2, <2>2 DEF ThreadFits, Running, Items, Path, Writing, AtItem
  <2> QED BY <2>1, <2>2
<1> QED
  BY <1>2, <1>3 DEF TypeInv, ThreadsFit, OneRunning, Running

-----------------------------------------------------------------------------
(* Every step keeps the types and the ownership of the partial files.       *)

LEMMA RequestKeepsTypes ==
  ASSUME TypeInv, Request
  PROVE  TypeInv'
<1>1. ASSUME NEW j \in Jobs, NEW S \in SUBSET Collections, NEW n \in Packages,
             CreateExport(j, S, n)
      PROVE  TypeInv'
  <2> DEFINE row == [package |-> n, status |-> "pending",
        expect |-> [c \in Collections |-> IF c \in S THEN source[c] ELSE Null],
        item |-> [c \in Collections |-> IF c \in S THEN "pending" ELSE "none"],
        processed |-> 0, failed |-> 0, current |-> Null]
      t == [at |-> "created"]
  <2>1. row \in JobRow /\ t \in ThreadState
    BY DEF TypeInv, TypeOK, JobRow, ThreadState
  <2>2. /\ job' = [job EXCEPT ![j] = row] /\ thread' = [thread EXCEPT ![j] = t] /\ up
        /\ UNCHANGED <<files, rootActive, disk, up, raced, stranded, counts>>
    BY <1>1 DEF CreateExport, Unlocked
  <2>3. row.status = "pending" /\ t.at = "created"
    OBVIOUS
  <2> HIDE DEF row, t
  <2>4. ThreadsFit' /\ job' \in [Jobs -> JobRow \cup {Unused}] /\ thread' \in [Jobs -> ThreadState]
    BY <2>1, <2>2, <2>3, RowMoves DEF disk, Writing, AtItem
  <2> QED
    BY <2>2, <2>4 DEF TypeInv, TypeOK, files, disk, counts
<1>2. ASSUME NEW j \in Jobs, RetryExport(j)
      PROVE  TypeInv'
  <2> DEFINE row == [job[j] EXCEPT !.status = "pending",
        !.item = [c \in Collections |-> IF c \in Items(j) THEN "pending" ELSE "none"],
        !.processed = 0, !.failed = 0, !.current = Null]
      t == [at |-> "created"]
  <2>1. job[j] \in JobRow
    BY <1>2, RowShape DEF TypeInv, RetryExport, RetryAsked
  <2>2. row \in JobRow /\ row.status = "pending" /\ t.at = "created" /\ t \in ThreadState
    BY <2>1 DEF JobRow, ThreadState
  <2>3. /\ job' = [job EXCEPT ![j] = row] /\ thread' = [thread EXCEPT ![j] = t] /\ up
        /\ UNCHANGED <<files, rootActive, disk, up, raced, stranded, changes, crashes, errors>>
        /\ retries' \in 0 .. MaxRetries
    BY <1>2, ExportBoundsAssumption DEF RetryExport, RetryAsked, Unlocked, TypeInv, TypeOK
  <2> HIDE DEF row, t
  <2>4. ThreadsFit' /\ job' \in [Jobs -> JobRow \cup {Unused}] /\ thread' \in [Jobs -> ThreadState]
    BY <2>2, <2>3, RowMoves DEF disk, Writing, AtItem
  <2> QED
    BY <2>3, <2>4 DEF TypeInv, TypeOK, files, disk
<1>3. ASSUME NEW on \in BOOLEAN, SetRootActive(on)
      PROVE  TypeInv'
  <2>1. TypeOK'
    BY <1>3, ExportBoundsAssumption DEF SetRootActive, TypeInv, TypeOK, files, disk
  <2> QED
    BY <1>3, <2>1 DEF SetRootActive, TypeInv, ThreadsFit, ThreadFits, OneRunning, Running,
       Items, Path, files, disk
<1> QED
  BY <1>1, <1>2, <1>3 DEF Request

LEMMA OutsideKeepsTypes ==
  ASSUME TypeInv, Outside
  PROVE  TypeInv'
<1>1. ThreadsFit'
  BY DEF Outside, SourceMoves, CollectionGoes, SourceTaken, SourceReplaced, PackageTaken,
     TypeInv, ThreadsFit, ThreadFits, OneRunning, Running, Items, Path, disk, tables
<1>2. changes < MaxChanges => changes + 1 \in Places /\ changes + 1 \in Versions
  BY ExportBoundsAssumption DEF TypeInv, TypeOK, Places, Versions
<1>3. ASSUME NEW c \in Collections, SourceMoves(c)
      PROVE  TypeOK'
  <2>1. source' \in [Collections -> Identity \cup {Null}] /\ path' \in [Collections -> Places \cup {Null}]
    BY <1>2, <1>3 DEF SourceMoves, Change, TypeInv, TypeOK, Identity
  <2> QED
    BY <1>3, <2>1, ExportBoundsAssumption DEF SourceMoves, Change, TypeInv, TypeOK, disk, tables
<1>4. ASSUME NEW c \in Collections, CollectionGoes(c)
      PROVE  TypeOK'
  BY <1>4, ExportBoundsAssumption DEF CollectionGoes, Change, TypeInv, TypeOK, disk, tables
<1>5. ASSUME NEW c \in Collections, SourceTaken(c)
      PROVE  TypeOK'
  BY <1>5, ExportBoundsAssumption DEF SourceTaken, Change, TypeInv, TypeOK, disk, tables
<1>6. ASSUME NEW c \in Collections, SourceReplaced(c)
      PROVE  TypeOK'
  <2>1. source' \in [Collections -> Identity \cup {Null}]
    BY <1>2, <1>6 DEF SourceReplaced, Change, TypeInv, TypeOK, Identity
  <2> QED
    BY <1>6, <2>1, ExportBoundsAssumption DEF SourceReplaced, Change, TypeInv, TypeOK, disk, tables
<1>7. ASSUME NEW n \in Packages, PackageTaken(n)
      PROVE  TypeOK'
  BY <1>7, ExportBoundsAssumption DEF PackageTaken, Change, TypeInv, TypeOK, files, tables
<1> QED
  BY <1>1, <1>3, <1>4, <1>5, <1>6, <1>7 DEF Outside, TypeInv

-----------------------------------------------------------------------------
Steps == Writing \cup {"prepared", "spawned", "published"}

(* The counts and the other variables a step with an error leaves alone.    *)
LEMMA ErrorCounts ==
  ASSUME TypeOK, ErrorHappens
  PROVE  /\ errors' \in 0 .. MaxErrors
         /\ UNCHANGED <<changes, crashes, retries>>
BY ExportBoundsAssumption DEF TypeOK, ErrorHappens

(* A thread goes on to another step with what it knows. *)
LEMMA GotoShape ==
  ASSUME TypeOK, NEW j \in Jobs
  PROVE  /\ \A p \in Steps : thread[j].at \in Steps =>
              /\ [thread[j] EXCEPT !.at = p] \in ThreadState
              /\ [thread[j] EXCEPT !.at = p].at = p
              /\ [thread[j] EXCEPT !.at = p].item = thread[j].item
         /\ thread[j].at = "failing" =>
              /\ [thread[j] EXCEPT !.at = "removed"] \in ThreadState
              /\ [thread[j] EXCEPT !.at = "removed"].at = "removed"
BY ThreadShape DEF Steps, Writing, ThreadState

LEMMA ItemShape ==
  ASSUME TypeOK, NEW j \in Jobs, thread[j].at \notin {"none", "created"}
  PROVE  thread[j].item \in Collections \cup {Null}
BY ThreadShape DEF Writing, ThreadState, TypeOK, NoThread

LEMMA FailsShape ==
  ASSUME NEW c \in Collections \cup {Null}, NEW p \in {"failing", "removed"}
  PROVE  [at |-> p, item |-> c] \in ThreadState /\ [at |-> p, item |-> c].at = p
BY DEF ThreadState

LEMMA NoThreadShape == NoThread \in ThreadState /\ NoThread.at = "none"
BY DEF ThreadState, NoThread

LEMMA HandlerKeepsTypes ==
  ASSUME TypeInv, NEW j \in Jobs, Handler(j)
  PROVE  TypeInv'
<1>1. ASSUME Prepare(j)
      PROVE  TypeInv'
  <2> DEFINE row == [job[j] EXCEPT !.status = "running"]
             t == [at |-> "prepared", item |-> Null,
                   place |-> [c \in Collections |-> IF c \in Items(j) THEN path[c] ELSE Null]]
  <2>1. job[j] \in JobRow
    BY <1>1, RowShape DEF Prepare, At, TypeInv, ThreadsFit, ThreadFits
  <2>2. row \in JobRow /\ row.status = "running" /\ t.at = "prepared"
    BY <2>1 DEF JobRow
  <2>3. t \in ThreadState
    BY DEF ThreadState, TypeInv, TypeOK, Items
  <2>4. /\ job' = [job EXCEPT ![j] = row] /\ thread' = [thread EXCEPT ![j] = t] /\ up
        /\ UNCHANGED <<files, rootActive, disk, up, raced, stranded, counts>>
        /\ \A k \in Jobs : ~Running(k)
    BY <1>1 DEF Prepare, At, Startable
  <2> HIDE DEF row, t
  <2>5. ThreadsFit' /\ job' \in [Jobs -> JobRow \cup {Unused}] /\ thread' \in [Jobs -> ThreadState]
    BY <2>2, <2>3, <2>4, RowMoves DEF disk, Writing, AtItem
  <2> QED
    BY <2>4, <2>5 DEF TypeInv, TypeOK, files, disk, counts
<1>2. ASSUME PrepareFails(j)
      PROVE  TypeInv'
  <2> DEFINE row == Failed(job[j], Null)
  <2>1. job[j] \in JobRow
    BY <1>2, RowShape DEF PrepareFails, At, TypeInv, ThreadsFit, ThreadFits
  <2>2. row \in JobRow /\ row.status = "failed"
    BY <2>1, FailedShape
  <2>3. /\ job' = [job EXCEPT ![j] = row] /\ thread' = [thread EXCEPT ![j] = NoThread] /\ up
        /\ UNCHANGED <<files, rootActive, disk, up, raced, stranded>>
        /\ UNCHANGED counts \/ ErrorHappens
    BY <1>2 DEF PrepareFails, At, Ends
  <2> HIDE DEF row
  <2>4. ThreadsFit' /\ job' \in [Jobs -> JobRow \cup {Unused}] /\ thread' \in [Jobs -> ThreadState]
    BY <2>2, <2>3, RowMoves, NoThreadShape DEF disk, Writing, AtItem
  <2> QED
    BY <2>3, <2>4, ErrorCounts DEF TypeInv, TypeOK, files, disk, counts
<1>3. ASSUME Spawn(j)
      PROVE  TypeInv'
  <2>1. ThreadsFit' /\ thread' \in [Jobs -> ThreadState]
    BY <1>3, ThreadOnly, GotoShape DEF Spawn, At, Goto, TypeInv, Steps, Writing, disk, tables
  <2> QED
    BY <1>3, <2>1 DEF Spawn, TypeInv, TypeOK, files, tables, disk, counts
<1> QED
  BY <1>1, <1>2, <1>3 DEF Handler

LEMMA ErrorKeepsTypes ==
  ASSUME TypeInv, NEW j \in Jobs, Error(j)
  PROVE  TypeInv'
<1>1. ErrorHappens /\ up /\ UNCHANGED <<files, tables, partial, up, raced>>
  BY DEF Error, PrepareBreaks, HandlerLost, OldPartialStays, WriteBreaks, RollBackPackage,
     CleanUpBreaks, CompleteBreaks, RecordBreaks, At, Unlocked, disk, tables
<1>2. UNCHANGED <<package, stranded>> \/ TakeBack(j) \/ (UNCHANGED package /\ stranded' = stranded \cup {j})
  BY DEF Error, PrepareBreaks, HandlerLost, OldPartialStays, WriteBreaks, RollBackPackage,
     CleanUpBreaks, CompleteBreaks, RecordBreaks, disk
<1>3. package' \in [Packages -> Content \cup {Null}] /\ stranded' \subseteq Jobs
  BY <1>2 DEF TakeBack, TypeInv, TypeOK
<1>4. ASSUME PrepareBreaks(j) \/ HandlerLost(j) \/ RecordBreaks(j)
      PROVE  ThreadsFit' /\ thread' \in [Jobs -> ThreadState]
  BY <1>1, <1>4, ThreadOnly, NoThreadShape DEF PrepareBreaks, HandlerLost, RecordBreaks, Ends, tables
<1>5. ASSUME OldPartialStays(j) \/ CompleteBreaks(j)
      PROVE  ThreadsFit' /\ thread' \in [Jobs -> ThreadState]
  <2>1. thread' = [thread EXCEPT ![j] = [at |-> "removed", item |-> Null]]
        /\ thread[j].at \in {"spawned", "published"}
    BY <1>5 DEF OldPartialStays, CompleteBreaks, At
  <2> QED
    BY <1>1, <2>1, ThreadOnly, FailsShape DEF tables
<1>6. ASSUME WriteBreaks(j) \/ RollBackPackage(j)
      PROVE  ThreadsFit' /\ thread' \in [Jobs -> ThreadState]
  <2>1. PICK c \in Collections \cup {Null} : Fails(j, c)
    BY <1>6, ItemShape DEF WriteBreaks, RollBackPackage, TypeInv, At, Left, Items
  <2>2. thread[j].at \notin {"none", "created"}
    BY <1>6 DEF WriteBreaks, RollBackPackage, At
  <2> QED
    BY <1>1, <2>1, <2>2, ThreadOnly, FailsShape DEF tables, Fails
<1>7. ASSUME CleanUpBreaks(j)
      PROVE  ThreadsFit' /\ thread' \in [Jobs -> ThreadState]
  BY <1>1, <1>7, ThreadOnly, GotoShape DEF CleanUpBreaks, At, Goto, TypeInv, tables
<1> QED
  BY <1>1, <1>3, <1>4, <1>5, <1>6, <1>7, ErrorCounts DEF Error, TypeInv, TypeOK, files, tables

(* Marks of progress and the outcome: the row of a running job is written.  *)
LEMMA RecordKeepsTypes ==
  ASSUME TypeInv, NEW j \in Jobs,
         (\E c \in Collections : StartItem(j, c)) \/ CompleteItem(j) \/ Complete(j) \/ RecordFailure(j)
  PROVE  TypeInv'
<1>1. /\ UNCHANGED <<files, rootActive, disk, up, raced, stranded, counts>> /\ up
      /\ thread[j].at \notin {"none", "created"}
  BY DEF StartItem, CompleteItem, Complete, RecordFailure, At
<1>2. Running(j) /\ job[j] \in JobRow /\ \A k \in Jobs : k # j => ~Running(k)
  BY <1>1, RowShape DEF TypeInv, ThreadsFit, ThreadFits, OneRunning, Running
<1>3. ASSUME NEW c \in Collections, StartItem(j, c)
      PROVE  ThreadsFit' /\ job' \in [Jobs -> JobRow \cup {Unused}] /\ thread' \in [Jobs -> ThreadState]
  <2> DEFINE row == [job[j] EXCEPT !.item[c] = "running", !.current = c]
             t == [thread[j] EXCEPT !.at = "started", !.item = c]
  <2>1. row \in JobRow /\ row.status = "running" /\ row.expect = job[j].expect
        /\ row.package = job[j].package
    BY <1>2 DEF JobRow, Running
  <2>2. t \in ThreadState /\ t.at = "started" /\ t.item = c
    BY <1>3, ThreadShape DEF StartItem, At, TypeInv, Writing, ThreadState
  <2>3. job' = [job EXCEPT ![j] = row] /\ thread' = [thread EXCEPT ![j] = t]
        /\ c \in Items(j) /\ partial[Path(j)] # Null /\ partial[Path(j)].job = j
    BY <1>3 DEF StartItem, At, NextItem, Left, TypeInv, ThreadsFit, ThreadFits, Writing
  <2> HIDE DEF row, t
  <2> QED
    BY <1>1, <1>2, <2>1, <2>2, <2>3, RowMoves DEF disk, Items, Path
<1>4. ASSUME CompleteItem(j)
      PROVE  ThreadsFit' /\ job' \in [Jobs -> JobRow \cup {Unused}] /\ thread' \in [Jobs -> ThreadState]
  <2> DEFINE c == thread[j].item
             row == Copied(job[j], c)
             t == [thread[j] EXCEPT !.at = IF Left(j) = {} THEN "written" ELSE "next", !.item = Null]
  <2>1. c \in Collections /\ partial[Path(j)] # Null /\ partial[Path(j)].job = j
    BY <1>4 DEF CompleteItem, At, TypeInv, ThreadsFit, ThreadFits, Writing, AtItem, Items
  <2>2. row \in JobRow /\ row.status = "running" /\ row.expect = job[j].expect
        /\ row.package = job[j].package
    BY <1>2, <2>1, CopiedShape DEF Running
  <2>3. t \in ThreadState /\ t.at \in {"written", "next"}
    BY <1>4, ThreadShape DEF CompleteItem, At, TypeInv, Writing, ThreadState
  <2>4. job' = [job EXCEPT ![j] = row] /\ thread' = [thread EXCEPT ![j] = t]
    BY <1>4 DEF CompleteItem
  <2> HIDE DEF row, t
  <2> QED
    BY <1>1, <1>2, <2>1, <2>2, <2>3, <2>4, RowMoves DEF disk, Path, AtItem
<1>5. ASSUME Complete(j)
      PROVE  ThreadsFit' /\ job' \in [Jobs -> JobRow \cup {Unused}] /\ thread' \in [Jobs -> ThreadState]
  <2> DEFINE row == [job[j] EXCEPT !.status = "succeeded"]
  <2>1. row \in JobRow /\ row.status = "succeeded"
    BY <1>2 DEF JobRow
  <2>2. job' = [job EXCEPT ![j] = row] /\ thread' = [thread EXCEPT ![j] = NoThread]
    BY <1>5 DEF Complete, Ends
  <2> HIDE DEF row
  <2> QED
    BY <1>1, <2>1, <2>2, RowMoves, NoThreadShape DEF disk, Writing, AtItem
<1>6. ASSUME RecordFailure(j)
      PROVE  ThreadsFit' /\ job' \in [Jobs -> JobRow \cup {Unused}] /\ thread' \in [Jobs -> ThreadState]
  <2> DEFINE row == Failed(job[j], thread[j].item)
  <2>1. row \in JobRow /\ row.status = "failed"
    BY <1>2, FailedShape
  <2>2. job' = [job EXCEPT ![j] = row] /\ thread' = [thread EXCEPT ![j] = NoThread]
    BY <1>6 DEF RecordFailure, Ends
  <2> HIDE DEF row
  <2> QED
    BY <1>1, <2>1, <2>2, RowMoves, NoThreadShape DEF disk, Writing, AtItem
<1> QED
  BY <1>1, <1>3, <1>4, <1>5, <1>6 DEF TypeInv, TypeOK, files, disk, counts

(* The steps of the thread on the disk. *)
LEMMA DiskKeepsTypes ==
  ASSUME TypeInv, NEW j \in Jobs,
         \/ OpenPartial(j) \/ NameTaken(j) \/ CheckSource(j) \/ CopyItem(j) \/ CopyFindsChange(j)
         \/ Publish(j) \/ RemovePartial(j) \/ CleanUp(j)
  PROVE  TypeInv'
<1>1. /\ UNCHANGED <<files, tables, up, raced, stranded, counts>> /\ up
      /\ thread[j].at \notin {"none", "created"}
  BY DEF OpenPartial, NameTaken, CheckSource, CopyItem, CopyFindsChange, Publish, RemovePartial,
     CleanUp, At, disk
<1>2. Path(j) \in Packages
  BY <1>1, RowShape DEF TypeInv, ThreadsFit, ThreadFits, Running, Path, JobRow
<1>3. ASSUME OpenPartial(j)
      PROVE  ThreadsFit' /\ thread' \in [Jobs -> ThreadState]
             /\ partial' \in [Packages -> Content \cup {Null}] /\ UNCHANGED package
  <2> DEFINE content == [job |-> j, entry |-> [c \in Collections |-> Null]]
             t == [thread[j] EXCEPT !.at = "next"]
  <2>1. content \in Content /\ content.job = j /\ content # Null
    BY ExportNullAssumption DEF Content
  <2>2. t \in ThreadState /\ t.at = "next"
    BY <1>3, GotoShape DEF OpenPartial, At, TypeInv, Steps, Writing
  <2>3. /\ partial' = [partial EXCEPT ![Path(j)] = content] /\ thread' = [thread EXCEPT ![j] = t]
        /\ UNCHANGED <<package, job, up>>
    BY <1>3 DEF OpenPartial, Goto, tables
  <2> HIDE DEF content, t
  <2> QED
    BY <1>1, <2>1, <2>2, <2>3, PartialMoves DEF AtItem
<1>4. ASSUME CopyItem(j)
      PROVE  ThreadsFit' /\ thread' \in [Jobs -> ThreadState]
             /\ partial' \in [Packages -> Content \cup {Null}] /\ UNCHANGED package
  <2> DEFINE c == thread[j].item
             content == [partial[Path(j)] EXCEPT !.entry[c] = source[c].version]
             t == [thread[j] EXCEPT !.at = "copied"]
  <2>1. c \in Items(j) /\ partial[Path(j)] # Null /\ partial[Path(j)].job = j
    BY <1>4 DEF CopyItem, At, TypeInv, ThreadsFit, ThreadFits, Writing, AtItem
  <2>2. source[c] \in Identity
    BY <1>4, <2>1 DEF CopyItem, There, TypeInv, TypeOK, Items
  <2>3. content \in Content /\ content.job = j /\ content # Null
    BY SMTT(30), <1>2, <2>1, <2>2, ExportNullAssumption DEF Content, Identity, TypeInv, TypeOK, Items
  <2>4. t \in ThreadState /\ t.at = "copied" /\ t.item = c
    BY <1>4, GotoShape DEF CopyItem, At, TypeInv, Steps, Writing
  <2>5. /\ partial' = [partial EXCEPT ![Path(j)] = content] /\ thread' = [thread EXCEPT ![j] = t]
        /\ UNCHANGED <<package, job, up>>
    BY <1>4 DEF CopyItem, Goto, tables
  <2> HIDE DEF content, t
  <2> QED
    BY <1>1, <2>1, <2>3, <2>4, <2>5, PartialMoves
<1>5. ASSUME RemovePartial(j) \/ CleanUp(j)
      PROVE  ThreadsFit' /\ thread' \in [Jobs -> ThreadState]
             /\ partial' \in [Packages -> Content \cup {Null}] /\ UNCHANGED package
  <2>1. PICK t \in ThreadState : /\ t.at \in {"published", "removed"}
                                 /\ thread' = [thread EXCEPT ![j] = t]
    BY <1>5, GotoShape DEF RemovePartial, CleanUp, At, Goto, TypeInv, Steps, Writing
  <2>2. partial' = [partial EXCEPT ![Path(j)] = Null] /\ UNCHANGED <<package, job, up>>
    BY <1>5 DEF RemovePartial, CleanUp, tables
  <2> QED
    BY <1>1, <2>1, <2>2, PartialMoves DEF Writing, AtItem
<1>6. ASSUME NameTaken(j) \/ CheckSource(j) \/ CopyFindsChange(j)
      PROVE  ThreadsFit' /\ thread' \in [Jobs -> ThreadState] /\ UNCHANGED <<partial, package>>
  <2> DEFINE Follows(t) == \/ t.at \in {"failing", "removed"}
                           \/ /\ thread[j].at = "started" /\ t.at = "checked"
                              /\ t.item = thread[j].item
  <2>1. PICK t \in ThreadState : Follows(t) /\ thread' = [thread EXCEPT ![j] = t]
    <3>1. CASE thread' = [thread EXCEPT ![j] = [at |-> "removed", item |-> Null]]
      BY <3>1, FailsShape
    <3>2. CASE Fails(j, thread[j].item)
      BY <1>1, <3>2, FailsShape, ItemShape DEF Fails, TypeInv
    <3>3. CASE thread[j].at = "started" /\ Goto(j, "checked")
      BY ZenonT(60), <3>3, GotoShape DEF Goto, TypeInv, Steps, Writing
    <3> QED
      BY <1>6, <3>1, <3>2, <3>3 DEF NameTaken, CheckSource, CopyFindsChange, At
  <2>2. UNCHANGED <<partial, package, job, up>>
    BY <1>6 DEF NameTaken, CheckSource, CopyFindsChange, disk, tables
  <2> QED
    BY <1>1, <2>1, <2>2, ThreadOnly
<1>7. ASSUME Publish(j)
      PROVE  ThreadsFit' /\ thread' \in [Jobs -> ThreadState] /\ UNCHANGED partial
             /\ package' \in [Packages -> Content \cup {Null}]
  <2> DEFINE t == [thread[j] EXCEPT !.at = "linked"]
  <2>1. t \in ThreadState /\ t.at = "linked"
    BY <1>7, GotoShape DEF Publish, At, TypeInv, Steps, Writing
  <2>2. partial[Path(j)] \in Content /\ partial[Path(j)] # Null /\ partial[Path(j)].job = j
    BY <1>2, <1>7 DEF Publish, At, TypeInv, TypeOK, ThreadsFit, ThreadFits, Writing
  <2>3. /\ partial' = [partial EXCEPT ![Path(j)] = partial[Path(j)]]
        /\ thread' = [thread EXCEPT ![j] = t]
        /\ UNCHANGED <<partial, job, up>>
    BY <1>7 DEF Publish, Goto, tables, TypeInv, TypeOK
  <2> HIDE DEF t
  <2>4. ThreadsFit' /\ thread' \in [Jobs -> ThreadState]
    BY <1>1, <2>1, <2>2, <2>3, PartialMoves DEF AtItem
  <2> QED
    BY <1>2, <1>7, <2>2, <2>4 DEF Publish, TypeInv, TypeOK
<1> QED
  BY <1>1, <1>3, <1>4, <1>5, <1>6, <1>7 DEF TypeInv, TypeOK, files, tables, counts

LEMMA CrashKeepsTypes ==
  ASSUME TypeInv, Crash
  PROVE  TypeInv'
<1>1. thread' \in [Jobs -> ThreadState] /\ \A j \in Jobs : thread'[j].at = "none"
  BY NoThreadShape DEF Crash
<1>2. crashes' \in 0 .. MaxCrashes
  BY ExportBoundsAssumption DEF Crash, TypeInv, TypeOK
<1>3. stranded' \subseteq Jobs
  BY DEF Crash, TypeInv, TypeOK
<1>4. TypeOK'
  BY <1>1, <1>2, <1>3 DEF Crash, TypeInv, TypeOK, files, tables, disk
<1> QED
  BY <1>1, <1>4 DEF Crash, TypeInv, ThreadsFit, ThreadFits, OneRunning, Running, Writing, AtItem, tables

LEMMA RestartKeepsTypes ==
  ASSUME TypeInv, Restart
  PROVE  TypeInv' /\ \A j \in Jobs : ~Running(j)' /\ thread'[j].at = "none"
<1>1. ASSUME NEW j \in Jobs
      PROVE  job'[j] \in JobRow \cup {Unused} /\ ~Running(j)' /\ thread'[j].at = "none"
  <2>1. job[j] \in JobRow \cup {Unused} /\ (Running(j) => job[j] \in JobRow)
    BY RowShape DEF TypeInv, TypeOK, Running
  <2>2. job'[j] = IF Running(j) THEN Interrupted(job[j]) ELSE job[j]
    BY DEF Restart
  <2>3. thread'[j].at = "none"
    BY DEF Restart, TypeInv, ThreadsFit
  <2> QED
    BY <2>1, <2>2, <2>3, InterruptedShape DEF Running
<1>2. job' \in [Jobs -> JobRow \cup {Unused}]
  BY <1>1 DEF Restart
<1>3. partial' \in [Packages -> Content \cup {Null}]
  BY DEF Restart, TypeInv, TypeOK
<1>4. TypeOK'
  BY <1>2, <1>3 DEF Restart, TypeInv, TypeOK, files, counts
<1> QED
  BY <1>1, <1>4 DEF TypeInv, ThreadsFit, ThreadFits, OneRunning, Writing, AtItem

LEMMA NextKeepsTypes == TypeInv /\ [Next]_vars => TypeInv'
<1> SUFFICES ASSUME TypeInv, [Next]_vars PROVE TypeInv'
  OBVIOUS
<1>1. CASE UNCHANGED vars
  BY <1>1 DEF vars, files, disk, tables, counts, TypeInv, TypeOK, ThreadsFit, ThreadFits, OneRunning,
     Running, Items, Path
<1>2. ASSUME NEW j \in Jobs, Write(j)
      PROVE  TypeInv'
  BY <1>2, RecordKeepsTypes, DiskKeepsTypes DEF Write
<1> QED
  BY <1>1, <1>2, RequestKeepsTypes, HandlerKeepsTypes, ErrorKeepsTypes, CrashKeepsTypes,
     RestartKeepsTypes, OutsideKeepsTypes DEF Next

(* Every variable keeps its type, whatever requests, threads, crashes and   *)
(* the user do.                                                             *)
THEOREM ExportTypesCorrect == Spec => []TypeOK
<1>1. TypeInv => TypeOK
  BY DEF TypeInv
<1> QED
  BY ExportInit, NextKeepsTypes, <1>1, PTL DEF Spec

(* Two threads never write packages at once: the unique index lets one job  *)
(* run, and a thread lives no longer than its job runs.                     *)
THEOREM WritersExclude == Spec => []OneWriter
<1>1. TypeInv => OneWriter
  BY DEF TypeInv, ThreadsFit, ThreadFits, OneRunning, OneWriter
<1> QED
  BY ExportInit, NextKeepsTypes, <1>1, PTL DEF Spec

-----------------------------------------------------------------------------
(* Why a package is whole.  Good bytes of an entry are those of the preview,*)
(* or those of a file replaced under the thread's eyes.  A partial has only *)
(* good entries; when it is published none is left out.  A thread that has  *)
(* checked a file knows its bytes as long as it stands at the place the     *)
(* thread knows, because a file never moves to a place it had before.       *)

Used(k) == job[k] # Unused
Good(k, c, bytes) == bytes = job[k].expect[c].version \/ (k \in raced /\ bytes # Null)

PartialsGood ==
  \A n \in Packages : partial[n] # Null =>
    /\ Used(partial[n].job)
    /\ \A c \in Items(partial[n].job) :
         partial[n].entry[c] = Null \/ Good(partial[n].job, c, partial[n].entry[c])

PackagesGood ==
  \A n \in Packages : package[n] # Null =>
    /\ Used(package[n].job)
    /\ \A c \in Items(package[n].job) : Good(package[n].job, c, package[n].entry[c])

Knows(j) ==
  /\ thread[j].at \in {"written", "linked"} => Left(j) = {}
  /\ thread[j].at = "checked" /\ There(j) =>
       \/ source[thread[j].item].version = job[j].expect[thread[j].item].version
       \/ j \in raced
  /\ thread[j].at \in Steps =>
       \A c \in Collections : thread[j].place[c] = Null \/ thread[j].place[c] <= changes

ContentsInv ==
  /\ PartialsGood
  /\ PackagesGood
  /\ \A j \in Jobs : Knows(j)
  /\ \A c \in Collections : path[c] = Null \/ path[c] <= changes

WholeInv == TypeInv /\ ContentsInv

LEMMA WholeInit == Init => WholeInv
<1> SUFFICES ASSUME Init PROVE WholeInv
  OBVIOUS
<1>1. PartialsGood /\ PackagesGood
  BY DEF Init, PartialsGood, PackagesGood
<1>2. \A j \in Jobs : Knows(j)
  BY DEF Init, Knows, NoThread, Steps, Writing
<1>3. \A c \in Collections : path[c] = Null \/ path[c] <= changes
  BY DEF Init
<1> QED
  BY <1>1, <1>2, <1>3, ExportInit DEF WholeInv, ContentsInv

(* Rows are never deleted, and what was previewed stays. *)
RowsKept ==
  \A k \in Jobs : Used(k) =>
    /\ Used(k)'
    /\ job'[k].expect = job[k].expect
    /\ job'[k].package = job[k].package

LEMMA OneRowKept ==
  ASSUME TypeInv, NEW j \in Jobs, NEW row \in JobRow, job' = [job EXCEPT ![j] = row],
         Used(j) => row.expect = job[j].expect /\ row.package = job[j].package
  PROVE  RowsKept
BY DEF TypeInv, TypeOK, RowsKept, Used, JobRow, Unused

(* Packages and partials that stay or go remain good. *)
LEMMA ContentsStay ==
  ASSUME WholeInv, RowsKept, raced \subseteq raced'
  PROVE  /\ (\A n \in Packages : partial'[n] \in {partial[n], Null}) => PartialsGood'
         /\ (\A n \in Packages : package'[n] \in {package[n], Null}) => PackagesGood'
<1>1. ASSUME NEW k \in Jobs, Used(k)
      PROVE  /\ Used(k)' /\ Items(k)' = Items(k)
             /\ \A c \in Collections : \A bytes : Good(k, c, bytes) => Good(k, c, bytes)'
  BY <1>1 DEF RowsKept, Items, Good
<1>2. \A n \in Packages : /\ partial[n] # Null => partial[n].job \in Jobs
                          /\ package[n] # Null => package[n].job \in Jobs
  BY DEF WholeInv, TypeInv, TypeOK, Content
<1>3. ASSUME \A n \in Packages : partial'[n] \in {partial[n], Null}
      PROVE  PartialsGood'
  BY <1>1, <1>2, <1>3 DEF WholeInv, ContentsInv, PartialsGood, Items
<1>4. ASSUME \A n \in Packages : package'[n] \in {package[n], Null}
      PROVE  PackagesGood'
  BY <1>1, <1>2, <1>4 DEF WholeInv, ContentsInv, PackagesGood, Items
<1> QED BY <1>3, <1>4

LEMMA ThreadStepRows ==
  ASSUME TypeInv, NEW j \in Jobs, Handler(j) \/ Write(j) \/ Error(j)
  PROVE  RowsKept
<1>1. ASSUME NEW row \in JobRow, job' = [job EXCEPT ![j] = row], job[j] \in JobRow,
             row.expect = job[j].expect, row.package = job[j].package
      PROVE  RowsKept
  BY <1>1, OneRowKept
<1>2. CASE UNCHANGED job
  BY <1>2 DEF RowsKept, Used
<1>3. thread[j].at # "none" => job[j] \in JobRow
  BY RowShape DEF TypeInv, ThreadsFit, ThreadFits, Running
<1>4. CASE Prepare(j)
  <2>1. [job[j] EXCEPT !.status = "running"] \in JobRow
    BY <1>3, <1>4 DEF Prepare, At, JobRow
  <2> QED
    BY <1>1, <1>3, <1>4, <2>1 DEF Prepare, At, JobRow
<1>5. CASE PrepareFails(j) \/ RecordFailure(j)
  <2>1. job[j] \in JobRow /\ \E c : job' = [job EXCEPT ![j] = Failed(job[j], c)]
    BY <1>3, <1>5 DEF PrepareFails, RecordFailure, At
  <2> QED
    BY <1>1, <2>1, FailedShape
<1>6. ASSUME NEW c \in Collections, StartItem(j, c)
      PROVE  RowsKept
  <2>1. [job[j] EXCEPT !.item[c] = "running", !.current = c] \in JobRow
    BY <1>3, <1>6 DEF StartItem, At, JobRow
  <2> QED
    BY <1>1, <1>3, <1>6, <2>1 DEF StartItem, At, JobRow
<1>7. CASE CompleteItem(j)
  <2>1. thread[j].item \in Collections /\ job[j] \in JobRow
    BY <1>3, <1>7 DEF CompleteItem, At, TypeInv, ThreadsFit, ThreadFits, AtItem, Items
  <2> QED
    BY <1>1, <1>7, <2>1, CopiedShape DEF CompleteItem
<1>8. CASE Complete(j)
  <2>1. [job[j] EXCEPT !.status = "succeeded"] \in JobRow
    BY <1>3, <1>8 DEF Complete, At, JobRow
  <2> QED
    BY <1>1, <1>3, <1>8, <2>1 DEF Complete, At, JobRow
<1> QED
  BY <1>2, <1>4, <1>5, <1>6, <1>7, <1>8 DEF Handler, Write, Error, Spawn, OpenPartial, NameTaken,
     CheckSource, CopyItem, CopyFindsChange, Publish, RemovePartial, CleanUp, PrepareBreaks,
     HandlerLost, OldPartialStays, WriteBreaks, RollBackPackage, CleanUpBreaks, CompleteBreaks,
     RecordBreaks, tables

(* What the step of a thread does to the others: nothing. *)
LEMMA ThreadStepFrame ==
  ASSUME TypeInv, NEW j \in Jobs, Handler(j) \/ Write(j) \/ Error(j)
  PROVE  /\ UNCHANGED <<files, raced, changes, up>>
         /\ \A k \in Jobs : k # j => thread'[k] = thread[k] /\ job'[k] = job[k]
         /\ UNCHANGED partial \/ thread[j].at \notin {"none", "created"}
<1>1. UNCHANGED <<files, raced, changes, up>>
  BY DEF Handler, Prepare, PrepareFails, Spawn, Write, OpenPartial, NameTaken, StartItem,
     CheckSource, CopyItem, CopyFindsChange, CompleteItem, Publish, RemovePartial, CleanUp,
     Complete, RecordFailure, Error, PrepareBreaks, HandlerLost, OldPartialStays, WriteBreaks,
     RollBackPackage, CleanUpBreaks, CompleteBreaks, RecordBreaks, ErrorHappens, counts
<1>2. UNCHANGED partial \/ thread[j].at \notin {"none", "created"}
  BY DEF Handler, Prepare, PrepareFails, Spawn, Write, OpenPartial, NameTaken, StartItem,
     CheckSource, CopyItem, CopyFindsChange, CompleteItem, Publish, RemovePartial, CleanUp,
     Complete, RecordFailure, Error, PrepareBreaks, HandlerLost, OldPartialStays, WriteBreaks,
     RollBackPackage, CleanUpBreaks, CompleteBreaks, RecordBreaks, At, disk
<1>3. \E t : thread' = [thread EXCEPT ![j] = t]
  BY DEF Handler, Prepare, PrepareFails, Spawn, Write, OpenPartial, NameTaken, StartItem,
     CheckSource, CopyItem, CopyFindsChange, CompleteItem, Publish, RemovePartial, CleanUp,
     Complete, RecordFailure, Error, PrepareBreaks, HandlerLost, OldPartialStays, WriteBreaks,
     RollBackPackage, CleanUpBreaks, CompleteBreaks, RecordBreaks, Goto, Ends, Fails
<1>4. UNCHANGED job \/ \E row : job' = [job EXCEPT ![j] = row]
  BY DEF Handler, Prepare, PrepareFails, Spawn, Write, OpenPartial, NameTaken, StartItem,
     CheckSource, CopyItem, CopyFindsChange, CompleteItem, Publish, RemovePartial, CleanUp,
     Complete, RecordFailure, Error, PrepareBreaks, HandlerLost, OldPartialStays, WriteBreaks,
     RollBackPackage, CleanUpBreaks, CompleteBreaks, RecordBreaks, tables
<1> QED
  BY <1>1, <1>2, <1>3, <1>4 DEF TypeInv, TypeOK

(* At most one thread is past the start of its job. *)
LEMMA OthersKnow ==
  ASSUME WholeInv, NEW j \in Jobs, Handler(j) \/ Write(j) \/ Error(j), NEW k \in Jobs, k # j
  PROVE  Knows(k)'
<1>1. TypeInv /\ Knows(k)
  BY DEF WholeInv, ContentsInv
<1>2. /\ UNCHANGED <<source, raced, changes>> /\ thread'[k] = thread[k] /\ job'[k] = job[k]
  BY <1>1, ThreadStepFrame DEF files
<1>3. thread[k].at \notin {"none", "created"} => UNCHANGED partial
  BY <1>1, ThreadStepFrame DEF TypeInv, ThreadsFit, ThreadFits, OneRunning
<1> QED
  BY <1>1, <1>2, <1>3 DEF Knows, Left, Items, Path, There

LEMMA ActorKnows ==
  ASSUME WholeInv, NEW j \in Jobs, Handler(j) \/ Write(j) \/ Error(j)
  PROVE  Knows(j)'
<1>1. TypeInv /\ Knows(j) /\ thread \in [Jobs -> ThreadState]
  BY DEF WholeInv, ContentsInv, TypeInv, TypeOK
<1>2. UNCHANGED <<source, path, raced, changes>>
  BY <1>1, ThreadStepFrame DEF files
<1>3. ASSUME NEW t \in ThreadState, thread' = [thread EXCEPT ![j] = t], t.at \notin Steps
      PROVE  Knows(j)'
  BY <1>1, <1>3 DEF Knows, Steps, Writing
<1>4. ASSUME NEW p \in Steps, Goto(j, p), thread[j].at \in Steps, p \notin {"checked", "written", "linked"}
      PROVE  Knows(j)'
  <2>1. thread'[j].at = p /\ thread'[j].place = thread[j].place
    BY <1>1, <1>4, ThreadShape DEF Goto, Steps, TypeInv
  <2> QED
    BY <1>1, <1>2, <1>4, <2>1 DEF Knows
<1>5. CASE Prepare(j)
  <2>1. thread'[j].at = "prepared" /\ \A c \in Collections : thread'[j].place[c] \in {path[c], Null}
    BY <1>1, <1>5 DEF Prepare
  <2> QED
    BY <1>2, <2>1 DEF Knows, WholeInv, ContentsInv
<1>6. CASE Spawn(j) \/ OpenPartial(j) \/ CopyItem(j) \/ RemovePartial(j)
  BY <1>4, <1>6 DEF Spawn, OpenPartial, CopyItem, RemovePartial, At, Steps, Writing
<1>7. ASSUME NEW c \in Collections, StartItem(j, c)
      PROVE  Knows(j)'
  <2>1. thread'[j].at = "started" /\ thread'[j].place = thread[j].place
    BY <1>1, <1>7, ThreadShape DEF StartItem, At, TypeInv, Writing
  <2> QED
    BY <1>1, <1>2, <1>7, <2>1 DEF Knows, StartItem, At, Steps, Writing
<1>8. CASE CheckSource(j) /\ AsPreviewed(j)
  <2>1. /\ thread[j].at = "started" /\ thread'[j].at = "checked" /\ UNCHANGED job
        /\ thread'[j].place = thread[j].place /\ thread'[j].item = thread[j].item
    BY <1>1, <1>8, ThreadShape DEF CheckSource, At, Goto, TypeInv, Writing, tables
  <2> QED
    BY <1>1, <1>2, <1>8, <2>1 DEF Knows, AsPreviewed, Steps, Writing
<1>9. CASE CompleteItem(j)
  <2>1. /\ thread[j].at = "copied" /\ thread'[j].place = thread[j].place
        /\ thread'[j].at = IF Left(j) = {} THEN "written" ELSE "next"
    BY <1>1, <1>9, ThreadShape DEF CompleteItem, At, TypeInv, Writing
  <2>2. Left(j)' = Left(j)
    <3>1. Used(j)
      BY <1>1, <2>1 DEF TypeInv, ThreadsFit, ThreadFits, Running, Used, Unused
    <3>2. UNCHANGED partial
      BY <1>9 DEF CompleteItem, disk
    <3> QED
      BY <1>1, <1>9, <3>1, <3>2, ThreadStepRows DEF Write, RowsKept, Left, Items, Path
  <2> QED
    BY <1>1, <1>2, <2>1, <2>2 DEF Knows, Steps, Writing
<1>10. CASE Publish(j)
  <2>1. /\ thread[j].at = "written" /\ thread'[j].at = "linked" /\ UNCHANGED <<job, partial>>
        /\ thread'[j].place = thread[j].place
    BY <1>1, <1>10, ThreadShape DEF Publish, At, Goto, TypeInv, Writing, tables
  <2>2. Left(j)' = Left(j)
    BY <2>1 DEF Left, Items, Path
  <2> QED
    BY <1>1, <1>2, <2>1, <2>2 DEF Knows, Steps, Writing
<1>11. CASE \/ PrepareFails(j) \/ Complete(j) \/ RecordFailure(j)
            \/ PrepareBreaks(j) \/ HandlerLost(j) \/ RecordBreaks(j)
  BY <1>3, <1>11, NoThreadShape DEF PrepareFails, Complete, RecordFailure, PrepareBreaks,
     HandlerLost, RecordBreaks, Ends, Steps, Writing
<1>12. CASE CleanUp(j) \/ CleanUpBreaks(j)
  BY <1>1, <1>3, <1>12, GotoShape DEF CleanUp, CleanUpBreaks, Goto, At, TypeInv, Steps, Writing
<1>13. ASSUME NEW c \in Collections \cup {Null}, NEW p \in {"failing", "removed"},
              thread' = [thread EXCEPT ![j] = [at |-> p, item |-> c]]
       PROVE  Knows(j)'
  BY <1>3, <1>13, FailsShape DEF Steps, Writing
<1>14. CASE NameTaken(j) \/ OldPartialStays(j) \/ CompleteBreaks(j) \/ RollBackPackage(j)
  BY <1>13, <1>14 DEF NameTaken, OldPartialStays, CompleteBreaks, RollBackPackage, Fails
<1>15. CASE (CheckSource(j) /\ ~AsPreviewed(j)) \/ CopyFindsChange(j) \/ WriteBreaks(j)
  <2>1. thread[j].item \in Collections \cup {Null}
    BY <1>1, <1>15, ItemShape DEF CheckSource, CopyFindsChange, WriteBreaks, At, TypeInv
  <2> QED
    BY <1>13, <1>15, <2>1 DEF CheckSource, CopyFindsChange, WriteBreaks, Fails, Left, Items
<1> QED
  BY <1>5, <1>6, <1>7, <1>8, <1>9, <1>10, <1>11, <1>12, <1>14, <1>15 DEF Handler, Write, Error

LEMMA ThreadKeepsContents ==
  ASSUME WholeInv, NEW j \in Jobs, Handler(j) \/ Write(j) \/ Error(j)
  PROVE  PartialsGood' /\ PackagesGood'
<1>1. TypeInv /\ Knows(j) /\ TypeOK /\ RowsKept /\ raced' = raced
  BY ThreadStepRows, ThreadStepFrame DEF WholeInv, ContentsInv, TypeInv
<1>2. /\ (\A n \in Packages : partial'[n] \in {partial[n], Null}) => PartialsGood'
      /\ (\A n \in Packages : package'[n] \in {package[n], Null}) => PackagesGood'
  BY <1>1, ContentsStay
<1>3. thread[j].at \notin {"none", "created"} => Used(j) /\ Path(j) \in Packages
  BY <1>1, RowShape DEF TypeInv, ThreadsFit, ThreadFits, Running, Path, JobRow, Used
<1>4. CASE OpenPartial(j)
  <2>1. /\ UNCHANGED <<job, package>> /\ Used(j) /\ Path(j) \in Packages
        /\ partial' = [partial EXCEPT ![Path(j)] = [job |-> j, entry |-> [c \in Collections |-> Null]]]
    BY <1>3, <1>4 DEF OpenPartial, At, tables
  <2>2. PartialsGood'
    BY <1>1, <2>1 DEF TypeOK, WholeInv, ContentsInv, PartialsGood, Used, Items, Good
  <2> QED
    BY <1>2, <2>1, <2>2
<1>5. CASE CopyItem(j)
  <2> DEFINE c == thread[j].item
             content == [partial[Path(j)] EXCEPT !.entry[c] = source[c].version]
  <2>1. /\ UNCHANGED <<job, package>> /\ Used(j) /\ Path(j) \in Packages
        /\ partial' = [partial EXCEPT ![Path(j)] = content]
        /\ thread[j].at = "checked" /\ There(j)
    BY <1>3, <1>5 DEF CopyItem, At, tables
  <2>2. c \in Collections /\ partial[Path(j)] # Null /\ partial[Path(j)].job = j
        /\ partial[Path(j)] \in Content
    BY <1>1, <2>1 DEF TypeInv, TypeOK, ThreadsFit, ThreadFits, Writing, AtItem, Items
  <2>3. Good(j, c, source[c].version)
    <3>1. source[c] \in Identity
      BY <1>1, <2>1, <2>2 DEF There, TypeOK
    <3>2. source[c].version # Null
      BY <3>1, ExportNullAssumption DEF Identity, Versions
    <3> QED
      BY <1>1, <2>1, <3>2 DEF Knows, Good
  <2>4. content.job = j /\ \A d \in Collections :
          content.entry[d] = IF d = c THEN source[c].version ELSE partial[Path(j)].entry[d]
    BY <2>2 DEF Content
  <2> HIDE DEF content, c
  <2>5. PartialsGood'
    BY <1>1, <2>1, <2>2, <2>3, <2>4 DEF TypeOK, WholeInv, ContentsInv, PartialsGood, Used, Items, Good
  <2> QED
    BY <1>2, <2>1, <2>5
<1>6. CASE Publish(j)
  <2>1. /\ UNCHANGED <<job, partial>> /\ Used(j) /\ Path(j) \in Packages
        /\ package' = [package EXCEPT ![Path(j)] = partial[Path(j)]]
        /\ Left(j) = {} /\ partial[Path(j)] # Null /\ partial[Path(j)].job = j
    BY <1>1, <1>3, <1>6 DEF Publish, At, tables, Knows, TypeInv, ThreadsFit, ThreadFits, Writing
  <2>2. \A c \in Items(j) : Good(j, c, partial[Path(j)].entry[c])
    BY <2>1 DEF WholeInv, ContentsInv, PartialsGood, Left
  <2>3. PackagesGood'
    BY <1>1, <2>1, <2>2 DEF TypeOK, WholeInv, ContentsInv, PackagesGood, Used, Items, Good
  <2> QED
    BY <1>2, <2>1, <2>3
<1>7. CASE RemovePartial(j) \/ CleanUp(j) \/ RollBackPackage(j) \/ CompleteBreaks(j)
  BY <1>1, <1>2, <1>7 DEF RemovePartial, CleanUp, RollBackPackage, CompleteBreaks, TakeBack, TypeOK
<1>8. CASE UNCHANGED <<partial, package>>
  BY <1>2, <1>8
<1> QED
  BY <1>4, <1>5, <1>6, <1>7, <1>8 DEF Handler, Prepare, PrepareFails, Spawn, Write, NameTaken,
     StartItem, CheckSource, CopyFindsChange, CompleteItem, Complete, RecordFailure, Error,
     PrepareBreaks, HandlerLost, OldPartialStays, WriteBreaks, CleanUpBreaks, RecordBreaks, disk

LEMMA RequestKeepsContents ==
  ASSUME WholeInv, Request
  PROVE  ContentsInv'
<1>1. TypeInv /\ TypeOK /\ UNCHANGED <<files, disk, raced>>
  BY DEF WholeInv, TypeInv, Request, CreateExport, RetryExport, RetryAsked, SetRootActive
<1>2. changes \in Nat /\ changes' \in {changes, changes + 1}
  <2>1. UNCHANGED changes \/ changes' = changes + 1
    BY DEF Request, CreateExport, RetryExport, RetryAsked, SetRootActive, counts
  <2> QED
    BY <1>1, <2>1 DEF TypeOK
<1>3. RowsKept
  <2>1. ASSUME NEW j \in Jobs, job[j] = Unused, NEW row, job' = [job EXCEPT ![j] = row]
        PROVE  RowsKept
    BY <1>1, <2>1 DEF RowsKept, Used, TypeOK
  <2>2. ASSUME NEW j \in Jobs, NEW S \in SUBSET Collections, NEW n \in Packages,
               CreateExport(j, S, n)
        PROVE  RowsKept
    <3>1. job[j] = Unused
      BY <2>2 DEF CreateExport, Jobs
    <3> QED
      BY <2>1, <2>2, <3>1 DEF CreateExport
  <2>3. ASSUME NEW j \in Jobs, RetryExport(j)
        PROVE  RowsKept
    <3> DEFINE row == [job[j] EXCEPT !.status = "pending",
          !.item = [c \in Collections |-> IF c \in Items(j) THEN "pending" ELSE "none"],
          !.processed = 0, !.failed = 0, !.current = Null]
    <3>1. job[j] \in JobRow
      BY <1>1, <2>3, RowShape DEF RetryExport, RetryAsked
    <3>2. row \in JobRow /\ row.expect = job[j].expect /\ row.package = job[j].package
      BY <3>1 DEF JobRow
    <3>3. job' = [job EXCEPT ![j] = row]
      BY <2>3 DEF RetryExport
    <3> HIDE DEF row
    <3> QED
      BY <1>1, <3>2, <3>3, OneRowKept
  <2>4. ASSUME NEW on \in BOOLEAN, SetRootActive(on)
        PROVE  RowsKept
    BY <2>4 DEF SetRootActive, RowsKept, Used
  <2> QED
    BY <2>2, <2>3, <2>4 DEF Request
<1>4. PartialsGood' /\ PackagesGood'
  BY <1>1, <1>3, ContentsStay DEF disk
<1>5. ASSUME NEW k \in Jobs, thread'[k] = thread[k]
      PROVE  Knows(k)'
  <2>1. Knows(k)
    BY DEF WholeInv, ContentsInv
  <2>2. thread[k].at \in {"written", "linked", "checked"} =>
          Left(k)' = Left(k) /\ job'[k].expect = job[k].expect
    BY <1>1, <1>3 DEF TypeInv, ThreadsFit, ThreadFits, Running, Used, Unused, RowsKept, Left,
       Items, Path, disk
  <2>3. ASSUME thread[k].at \in Steps, NEW c \in Collections
        PROVE  thread[k].place[c] = Null \/ thread[k].place[c] <= changes'
    <3>1. thread[k].place[c] \in Places \cup {Null}
      BY <1>1, <2>3, ThreadShape DEF Steps
    <3> QED
      BY <1>2, <2>1, <2>3, <3>1 DEF Knows, Places
  <2> QED
    BY <1>1, <1>5, <2>1, <2>2, <2>3 DEF Knows, There, files
<1>6. ASSUME NEW k \in Jobs, thread'[k].at = "created"
      PROVE  Knows(k)'
  BY <1>6 DEF Knows, Steps, Writing
<1>7. \A k \in Jobs : thread'[k] = thread[k] \/ thread'[k].at = "created"
  <2>1. UNCHANGED thread \/ \E j \in Jobs : thread' = [thread EXCEPT ![j] = [at |-> "created"]]
    BY DEF Request, CreateExport, RetryExport, RetryAsked, SetRootActive
  <2> QED
    BY <1>1, <2>1 DEF TypeOK
<1>8. \A c \in Collections : (path[c] = Null \/ path[c] <= changes)'
  BY <1>1, <1>2 DEF WholeInv, ContentsInv, files, TypeOK, Places
<1> QED
  BY <1>4, <1>5, <1>6, <1>7, <1>8 DEF ContentsInv

(* A file that moves goes where no thread looks for it; one that is replaced *)
(* after its check is counted as raced.                                     *)
LEMMA OutsideKeepsContents ==
  ASSUME WholeInv, Outside
  PROVE  ContentsInv'
<1>1. /\ TypeInv /\ TypeOK /\ UNCHANGED <<partial, job, thread>> /\ raced \subseteq raced'
      /\ \A n \in Packages : package'[n] \in {package[n], Null}
  BY DEF WholeInv, TypeInv, TypeOK, Outside, SourceMoves, CollectionGoes, SourceTaken,
     SourceReplaced, PackageTaken, disk, tables
<1>2. changes \in Nat /\ changes' = changes + 1
  BY DEF WholeInv, TypeInv, TypeOK, Outside, SourceMoves, CollectionGoes, SourceTaken,
     SourceReplaced, PackageTaken, Change
<1>3. PartialsGood' /\ PackagesGood'
  BY <1>1, ContentsStay DEF RowsKept, Used
<1>4. \A c \in Collections : path'[c] \in {path[c], Null, changes + 1}
  BY <1>1 DEF TypeOK, Outside, SourceMoves, CollectionGoes, SourceTaken, SourceReplaced,
     PackageTaken, files
<1>5. \A c \in Collections : (path[c] = Null \/ path[c] <= changes)'
  BY <1>1, <1>2, <1>4, ExportNullAssumption DEF WholeInv, ContentsInv, TypeOK, Places
<1>6. ASSUME NEW k \in Jobs
      PROVE  Knows(k)'
  <2>1. Knows(k) /\ Left(k)' = Left(k)
    BY <1>1 DEF WholeInv, ContentsInv, Left, Items, Path
  <2>2. ASSUME thread[k].at \in Steps, NEW c \in Collections
        PROVE  thread[k].place[c] = Null \/ (thread[k].place[c] <= changes /\ thread[k].place[c] <= changes')
    <3>1. thread[k].place[c] \in Places \cup {Null}
      BY <1>1, <2>2, ThreadShape DEF Steps
    <3> QED
      BY <1>2, <2>1, <2>2, <3>1 DEF Knows, Places
  <2>3. ASSUME thread[k].at = "checked", There(k)'
        PROVE  \/ source'[thread[k].item].version = job[k].expect[thread[k].item].version
               \/ k \in raced'
    <3> DEFINE c == thread[k].item
    <3>1. c \in Collections /\ thread[k].at \in Steps
      BY <1>1, <2>3 DEF TypeInv, ThreadsFit, ThreadFits, AtItem, Items, Steps, Writing
    <3>2. thread[k].place[c] # changes + 1
      BY <1>2, <2>2, <3>1, ExportNullAssumption
    <3>3. CASE source'[c] = source[c]
      BY <1>1, <2>1, <2>3, <3>3 DEF Knows, There
    <3>4. CASE source'[c] # source[c]
      <4>1. SourceMoves(c) \/ SourceReplaced(c)
        BY <1>1, <2>3, <3>1, <3>4 DEF There, Outside, SourceMoves, CollectionGoes, SourceTaken,
           SourceReplaced, PackageTaken, TypeOK, files
      <4>2. CASE SourceMoves(c)
        <5>1. source'[c].place = changes + 1
          BY <1>1, <3>1, <4>2 DEF SourceMoves, TypeOK, Identity
        <5> QED
          BY <1>1, <2>3, <3>2, <5>1 DEF There
      <4>3. CASE SourceReplaced(c)
        BY <1>1, <2>3, <3>1, <4>3 DEF SourceReplaced
      <4> QED BY <4>1, <4>2, <4>3
    <3> QED BY <3>3, <3>4
  <2> QED
    BY <1>1, <2>1, <2>2, <2>3 DEF Knows
<1> QED
  BY <1>3, <1>5, <1>6 DEF ContentsInv

LEMMA ProcessKeepsContents ==
  ASSUME WholeInv, Crash \/ Restart
  PROVE  ContentsInv'
<1>1. TypeInv /\ TypeOK /\ UNCHANGED <<files, package, raced, changes>>
  BY DEF WholeInv, TypeInv, Crash, Restart, disk, counts
<1>2. \A j \in Jobs : thread'[j].at = "none"
  BY <1>1, RestartKeepsTypes, NoThreadShape DEF Crash
<1>3. RowsKept
  <2>1. ASSUME NEW k \in Jobs, Used(k)
        PROVE  Used(k)' /\ job'[k].expect = job[k].expect /\ job'[k].package = job[k].package
    <3>1. job[k] \in JobRow
      BY <1>1, <2>1, RowShape DEF Used
    <3>2. job'[k] \in {job[k], Interrupted(job[k])}
      BY <1>1 DEF Crash, Restart, tables
    <3> QED
      BY <2>1, <3>1, <3>2, InterruptedShape DEF Used, JobRow, Unused
  <2> QED BY <2>1 DEF RowsKept
<1>4. \A n \in Packages : partial'[n] \in {partial[n], Null}
  BY DEF Crash, Restart, disk
<1>5. PartialsGood' /\ PackagesGood'
  BY <1>1, <1>3, <1>4, ContentsStay
<1> QED
  BY <1>1, <1>2, <1>5 DEF WholeInv, ContentsInv, Knows, Steps, Writing, files

LEMMA NextKeepsContents == WholeInv /\ [Next]_vars => WholeInv'
<1> SUFFICES ASSUME WholeInv, [Next]_vars PROVE ContentsInv'
  BY NextKeepsTypes DEF WholeInv
<1>1. CASE UNCHANGED vars
  BY <1>1 DEF vars, files, disk, tables, counts, WholeInv, ContentsInv, PartialsGood, PackagesGood,
     Knows, Used, Good, Items, Left, Path, There
<1>2. ASSUME NEW j \in Jobs, Handler(j) \/ Write(j) \/ Error(j)
      PROVE  ContentsInv'
  <2>1. \A k \in Jobs : Knows(k)'
    BY <1>2, ActorKnows, OthersKnow
  <2>2. UNCHANGED <<files, changes>>
    BY <1>2, ThreadStepFrame DEF WholeInv
  <2> QED
    BY <1>2, <2>1, <2>2, ThreadKeepsContents DEF WholeInv, ContentsInv, files
<1> QED
  BY <1>1, <1>2, RequestKeepsContents, OutsideKeepsContents, ProcessKeepsContents DEF Next

(* A package holds every item of its job with the bytes the preview saw,    *)
(* over retries, crashes and recoveries, unless a file was replaced between *)
(* its check and its copy.                                                  *)
THEOREM PackagesAreWhole == Spec => []PublishedWhole
<1>1. WholeInv => PublishedWhole
  BY DEF WholeInv, TypeInv, TypeOK, Content, ContentsInv, PackagesGood, Good, PublishedWhole, Items
<1> QED
  BY WholeInit, NextKeepsContents, <1>1, PTL DEF Spec

-----------------------------------------------------------------------------
(* What a failed job leaves.  The package and the partial of a job stand     *)
(* under its own name: the package only while its thread has just linked it  *)
(* or once the job has succeeded, the partial only while its thread writes   *)
(* or is about to clean up.  An interrupted thread strands its job.          *)

Holding(j) == thread[j].at \in {"linked", "published"} \/ job[j].status = "succeeded"
Dirty(j)   == thread[j].at \in Writing \cup {"failing"}

Tidy(j) ==
  j \notin stranded => \A n \in Packages :
    /\ package[n] # Null /\ package[n].job = j => n = Path(j) /\ Holding(j)
    /\ partial[n] # Null /\ partial[n].job = j => n = Path(j) /\ Dirty(j)

TidyInv == TypeInv /\ \A j \in Jobs : Tidy(j)

LEMMA TidyInit == Init => TidyInv
  BY ExportInit DEF Init, TidyInv, Tidy

(* On the disk a thread moves only what stands under the name of its job, and *)
(* what it puts there is of its job.                                          *)
LEMMA DiskFrame ==
  ASSUME TypeInv, NEW j \in Jobs, Handler(j) \/ Write(j) \/ Error(j)
  PROVE  /\ \A n \in Packages :
              /\ partial'[n] \in {partial[n], Null} \/ (n = Path(j) /\ partial'[n].job = j)
              /\ package'[n] \in {package[n], Null} \/ (n = Path(j) /\ package'[n].job = j)
         /\ stranded \subseteq stranded'
<1>1. stranded \subseteq stranded'
  BY DEF Handler, Write, Error, Prepare, PrepareFails, Spawn, OpenPartial, NameTaken, StartItem,
     CheckSource, CopyItem, CopyFindsChange, CompleteItem, Publish, RemovePartial, CleanUp,
     Complete, RecordFailure, PrepareBreaks, HandlerLost, OldPartialStays, WriteBreaks,
     RollBackPackage, CleanUpBreaks, CompleteBreaks, RecordBreaks, TakeBack
<1>2. thread[j].at \in Writing => partial[Path(j)] # Null /\ partial[Path(j)].job = j
  BY DEF TypeInv, ThreadsFit, ThreadFits
<1>3. CASE OpenPartial(j)
  BY <1>1, <1>3 DEF OpenPartial, TypeInv, TypeOK
<1>4. CASE CopyItem(j)
  <2> DEFINE entry == [partial[Path(j)].entry EXCEPT ![thread[j].item] = source[thread[j].item].version]
             content == [partial[Path(j)] EXCEPT !.entry = entry]
  <2>1. thread[j].at \in Writing /\ Path(j) \in Packages
    BY <1>4, RowShape DEF CopyItem, At, Writing, TypeInv, ThreadsFit, ThreadFits, Running, Path, JobRow
  <2>2. partial[Path(j)] \in Content
    BY <1>2, <2>1 DEF TypeInv, TypeOK
  <2>3. partial' = [partial EXCEPT ![Path(j)] = content]
    BY <1>4 DEF CopyItem
  <2>4. content.job = j
    BY <1>2, <2>1, <2>2 DEF Content
  <2> HIDE DEF content
  <2> QED BY <1>1, <1>4, <2>1, <2>3, <2>4 DEF CopyItem, TypeInv, TypeOK
<1>5. CASE RemovePartial(j) \/ CleanUp(j)
  BY <1>1, <1>5 DEF RemovePartial, CleanUp, TypeInv, TypeOK
<1>6. CASE Publish(j)
  BY <1>1, <1>2, <1>6 DEF Publish, At, Writing, TypeInv, TypeOK
<1>7. CASE RollBackPackage(j) \/ CompleteBreaks(j)
  BY <1>1, <1>7 DEF RollBackPackage, CompleteBreaks, TakeBack, TypeInv, TypeOK
<1>8. CASE UNCHANGED disk
  BY <1>1, <1>8 DEF disk
<1> QED
  BY <1>3, <1>4, <1>5, <1>6, <1>7, <1>8 DEF Handler, Write, Error, Prepare, PrepareFails, Spawn,
     NameTaken, StartItem, CheckSource, CopyFindsChange, CompleteItem, Complete, RecordFailure,
     PrepareBreaks, HandlerLost, OldPartialStays, WriteBreaks, CleanUpBreaks, RecordBreaks

LEMMA OthersStayTidy ==
  ASSUME TidyInv, NEW j \in Jobs, Handler(j) \/ Write(j) \/ Error(j),
         NEW k \in Jobs, k # j
  PROVE  Tidy(k)'
<1>1. thread'[k] = thread[k] /\ job'[k] = job[k]
  BY ThreadStepFrame DEF TidyInv
<1>2. Tidy(k) /\ TypeInv
  BY DEF TidyInv
<1> QED BY <1>1, <1>2, DiskFrame DEF Tidy, Holding, Dirty, Path

(* The step of a thread that leaves nothing of its job where it should not be. *)
LEMMA ActorStaysTidy ==
  ASSUME TidyInv, NEW j \in Jobs, Handler(j) \/ Write(j) \/ Error(j),
         j \notin stranded' =>
           /\ package'[Path(j)] # Null /\ package'[Path(j)].job = j => Holding(j)'
           /\ partial'[Path(j)] # Null /\ partial'[Path(j)].job = j => Dirty(j)'
  PROVE  Tidy(j)'
<1>1. Path(j)' = Path(j)
  <2>1. thread[j].at # "none"
    BY DEF Handler, Write, Error, Prepare, PrepareFails, Spawn, OpenPartial, NameTaken, StartItem,
       CheckSource, CopyItem, CopyFindsChange, CompleteItem, Publish, RemovePartial, CleanUp,
       Complete, RecordFailure, PrepareBreaks, HandlerLost, OldPartialStays, WriteBreaks,
       RollBackPackage, CleanUpBreaks, CompleteBreaks, RecordBreaks, At
  <2>2. Used(j)
    BY <2>1, RowShape DEF TidyInv, TypeInv, ThreadsFit, ThreadFits, Running, Used
  <2> QED BY <2>2, ThreadStepRows DEF TidyInv, RowsKept, Path
<1>2. Tidy(j) /\ stranded \subseteq stranded'
  BY DiskFrame DEF TidyInv
<1>3. ASSUME j \notin stranded', NEW n \in Packages, n # Path(j)
      PROVE  /\ package'[n] # Null => package'[n].job # j
             /\ partial'[n] # Null => partial'[n].job # j
  BY <1>2, <1>3, DiskFrame DEF Tidy, TidyInv
<1> QED BY <1>1, <1>2, <1>3 DEF Tidy

LEMMA Goes ==
  ASSUME TypeOK, NEW j \in Jobs, NEW p \in Steps, thread[j].at \in Steps, Goto(j, p)
  PROVE  thread'[j].at = p
<1>1. thread' = [thread EXCEPT ![j] = [thread[j] EXCEPT !.at = p]]
  BY DEF Goto, TypeOK
<1>2. thread'[j] = [thread[j] EXCEPT !.at = p]
  BY <1>1 DEF TypeOK
<1> QED BY <1>2, GotoShape

LEMMA ThreadTidies ==
  ASSUME TidyInv, NEW j \in Jobs, Handler(j) \/ Write(j) \/ Error(j)
  PROVE  Tidy(j)'
<1>1. /\ TypeInv /\ TypeOK /\ Tidy(j)
      /\ \A t : thread' = [thread EXCEPT ![j] = t] => thread'[j] = t
      /\ \A t : thread' = [thread EXCEPT ![j].at = t] => thread'[j] = [thread[j] EXCEPT !.at = t]
  BY DEF TidyInv, TypeInv, TypeOK
<1>2. /\ thread[j].at \in {"created"} \cup Steps \cup {"failing", "removed"} => job[j] \in JobRow /\ Path(j) \in Packages
      /\ thread[j].at \in Steps \cup {"failing", "removed"} => job[j].status = "running"
      /\ thread[j].at = "created" => job[j].status = "pending"
  BY <1>1, RowShape DEF TypeInv, ThreadsFit, ThreadFits, Running, Path, JobRow, Steps, Writing
<1>3. ASSUME Path(j) \in Packages, job[j].status # "succeeded",
             thread[j].at \notin {"linked", "published"}, j \notin stranded
      PROVE  package[Path(j)] # Null => package[Path(j)].job # j
  BY <1>1, <1>3 DEF Tidy, Holding
<1>4. ASSUME Path(j) \in Packages, thread[j].at \notin Writing \cup {"failing"}, j \notin stranded
      PROVE  partial[Path(j)] # Null => partial[Path(j)].job # j
  BY <1>1, <1>4 DEF Tidy, Dirty
<1>5. stranded \subseteq stranded'
  BY <1>1, DiskFrame
<1>6. CASE \/ Handler(j) \/ NameTaken(j) \/ RecordFailure(j)
           \/ PrepareBreaks(j) \/ HandlerLost(j) \/ OldPartialStays(j) \/ RecordBreaks(j)
  <2>1. UNCHANGED disk /\ thread[j].at \in {"created", "prepared", "spawned", "removed"}
    BY <1>6 DEF Handler, Prepare, PrepareFails, Spawn, NameTaken, RecordFailure, PrepareBreaks,
       HandlerLost, OldPartialStays, RecordBreaks, At, disk
  <2>2. Path(j) \in Packages /\ job[j].status # "succeeded"
    BY <1>2, <2>1 DEF Steps
  <2> QED BY <1>3, <1>4, <1>5, <2>1, <2>2, ActorStaysTidy DEF disk, Writing
<1>7. CASE \/ \E c \in Collections : StartItem(j, c)
           \/ CheckSource(j) \/ CopyFindsChange(j) \/ CompleteItem(j) \/ WriteBreaks(j)
  <2>1. UNCHANGED disk /\ thread[j].at \in {"spawned", "next", "started", "checked", "copied", "written"}
    BY <1>7 DEF StartItem, CheckSource, CopyFindsChange, CompleteItem, WriteBreaks, At, disk
  <2>2. Path(j) \in Packages /\ job[j].status # "succeeded"
    BY <1>2, <2>1 DEF Steps, Writing
  <2>3. Dirty(j)'
    <3>1. CASE \E c \in Collections : StartItem(j, c)
      BY <1>1, <3>1, ThreadShape DEF StartItem, At, Dirty, Writing
    <3>2. CASE CompleteItem(j)
      <4>1. PICK p \in {"written", "next"} :
              thread'[j] = [thread[j] EXCEPT !.at = p, !.item = Null]
        BY <1>1, <3>2 DEF CompleteItem
      <4>2. thread[j].at = "copied"
        BY <3>2 DEF CompleteItem, At
      <4>3. [thread[j] EXCEPT !.at = p, !.item = Null].at = p
        BY <1>1, <4>2, ThreadShape DEF Writing, ThreadState
      <4> QED BY <4>1, <4>3 DEF Dirty, Writing
    <3>3. CASE Goto(j, "checked") /\ thread[j].at = "started"
      BY <1>1, <3>3, Goes DEF Dirty, Steps, Writing
    <3>4. CASE \E c : Fails(j, c)
      <4>1. thread'[j].at = "failing"
        BY <1>1, <3>4 DEF Fails, TypeOK
      <4> QED BY <4>1 DEF Dirty
    <3> QED BY <1>7, <3>1, <3>2, <3>3, <3>4 DEF CheckSource, CopyFindsChange, WriteBreaks, At
  <2> QED BY <1>3, <1>5, <2>1, <2>2, <2>3, ActorStaysTidy DEF disk
<1>8. CASE OpenPartial(j) \/ CopyItem(j)
  <2>1. UNCHANGED package /\ thread[j].at \in {"spawned", "checked"}
    BY <1>8 DEF OpenPartial, CopyItem, At
  <2>2. Path(j) \in Packages /\ job[j].status # "succeeded"
    BY <1>2, <2>1 DEF Steps, Writing
  <2>3. Dirty(j)'
    BY SMTT(30), <1>1, <1>8, <2>1, ThreadShape DEF OpenPartial, CopyItem, Goto, Dirty, Writing
  <2> QED BY <1>3, <1>5, <2>1, <2>2, <2>3, ActorStaysTidy
<1>9. CASE Publish(j)
  <2>1. thread'[j].at = "linked"
    BY <1>1, <1>9, Goes DEF Publish, At, Steps, Writing
  <2> QED BY <2>1, ActorStaysTidy DEF Holding, Dirty, Writing
<1>10. CASE RemovePartial(j) \/ CleanUp(j)
  <2>1. partial'[Path(j)] = Null /\ UNCHANGED package /\ thread[j].at \in {"linked", "failing"}
    <3>1. thread[j].at \in {"linked", "failing"} /\ UNCHANGED package
          /\ partial' = [partial EXCEPT ![Path(j)] = Null]
      BY <1>10 DEF RemovePartial, CleanUp, At
    <3>2. Path(j) \in Packages
      BY <1>2, <3>1 DEF Steps, Writing
    <3> QED BY <1>1, <3>1, <3>2 DEF TypeOK
  <2>2. RemovePartial(j) => thread'[j].at = "published"
    BY <1>1, Goes DEF RemovePartial, At, Steps, Writing
  <2>3. ~RemovePartial(j) => thread[j].at = "failing" /\ Path(j) \in Packages /\ job[j].status = "running"
    BY <1>2, <1>10 DEF CleanUp, At
  <2> QED BY <1>3, <1>5, <2>1, <2>2, <2>3, ActorStaysTidy DEF Holding
<1>11. CASE Complete(j)
  <2>1. UNCHANGED disk /\ thread[j].at = "published"
    BY <1>11 DEF Complete, At, disk
  <2>2. Path(j) \in Packages
    BY <1>2, <2>1 DEF Steps
  <2>3. Holding(j)'
    <3>1. job[j] \in JobRow
      BY <1>2, <2>1 DEF Steps
    <3>2. job'[j] = [job[j] EXCEPT !.status = "succeeded"]
      BY <1>1, <1>11 DEF Complete, TypeOK
    <3>3. job'[j].status = "succeeded"
      BY <3>1, <3>2 DEF JobRow
    <3> QED BY <3>3 DEF Holding
  <2> QED BY <1>4, <1>5, <2>1, <2>2, <2>3, ActorStaysTidy DEF disk, Writing
<1>12. CASE RollBackPackage(j)
  <2>1. Path(j) \in Packages /\ (package'[Path(j)] = Null \/ j \in stranded')
    BY <1>1, <1>2, <1>12 DEF RollBackPackage, TakeBack, At, Steps, Writing, TypeOK
  <2>2. Dirty(j)'
    BY <1>1, <1>12 DEF RollBackPackage, Fails, Dirty
  <2> QED BY <2>1, <2>2, ActorStaysTidy
<1>13. CASE CompleteBreaks(j)
  <2>1. Path(j) \in Packages /\ (package'[Path(j)] = Null \/ j \in stranded')
    BY <1>1, <1>2, <1>13 DEF CompleteBreaks, TakeBack, At, Steps, TypeOK
  <2>2. UNCHANGED partial /\ thread[j].at = "published"
    BY <1>13 DEF CompleteBreaks, At
  <2> QED BY <1>4, <1>5, <2>1, <2>2, ActorStaysTidy DEF Writing
<1>14. CASE CleanUpBreaks(j)
  <2>1. j \in stranded'
    BY <1>14 DEF CleanUpBreaks
  <2> QED BY <2>1 DEF Tidy
<1> QED
  BY <1>6, <1>7, <1>8, <1>9, <1>10, <1>11, <1>12, <1>13, <1>14 DEF Write, Error

LEMMA TidyStep == TidyInv /\ [Next]_vars => TidyInv'
<1> SUFFICES ASSUME TidyInv, [Next]_vars, NEW k \in Jobs PROVE Tidy(k)'
  BY NextKeepsTypes DEF TidyInv
<1>1. Tidy(k) /\ TypeInv /\ TypeOK
  BY DEF TidyInv, TypeInv
<1>2. ASSUME NEW j \in Jobs, Handler(j) \/ Write(j) \/ Error(j)
      PROVE  Tidy(k)'
  BY <1>2, OthersStayTidy, ThreadTidies
<1>3. CASE Request
  <2>1. UNCHANGED <<disk, stranded>>
    BY <1>3 DEF Request, CreateExport, RetryExport, RetryAsked, SetRootActive
  <2>2. \/ job'[k] = job[k] /\ thread'[k] = thread[k]
        \/ job[k] = Unused
        \/ job[k].status = "failed" /\ Path(k)' = Path(k)
    <3>1. CASE \E j \in Jobs, S \in SUBSET Collections, n \in Packages : CreateExport(j, S, n)
      <4>1. PICK j \in Jobs, S \in SUBSET Collections, n \in Packages : CreateExport(j, S, n)
        BY <3>1
      <4>2. job[j] = Unused
        BY <4>1 DEF CreateExport, Jobs
      <4>3. j # k => job'[k] = job[k] /\ thread'[k] = thread[k]
        BY <1>1, <4>1 DEF CreateExport, TypeOK
      <4> QED BY <4>2, <4>3
    <3>2. CASE \E j \in Jobs : RetryExport(j)
      <4>1. PICK j \in Jobs : RetryExport(j)
        BY <3>2
      <4>2. j # k => job'[k] = job[k] /\ thread'[k] = thread[k]
        BY <1>1, <4>1 DEF RetryExport, RetryAsked, TypeOK
      <4>3. job[j].status = "failed" /\ job[j] \in JobRow
        BY <1>1, <4>1, RowShape DEF RetryExport, RetryAsked
      <4>4. job'[j].package = job[j].package
        BY <1>1, <4>1, <4>3 DEF RetryExport, TypeOK, JobRow
      <4> QED BY <4>2, <4>3, <4>4 DEF Path
    <3>3. CASE \E on \in BOOLEAN : SetRootActive(on)
      BY <3>3 DEF SetRootActive
    <3> QED BY <1>3, <3>1, <3>2, <3>3 DEF Request
  <2>3. job[k] = Unused \/ job[k].status = "failed" => thread[k].at \in {"none", "created"} /\ job[k].status # "succeeded"
    BY <1>1 DEF TypeInv, ThreadsFit, ThreadFits, Running, Unused
  <2> QED BY <1>1, <2>1, <2>2, <2>3 DEF Tidy, Holding, Dirty, Writing, Path, disk
<1>4. CASE Outside
  <2>1. /\ UNCHANGED <<partial, job, thread, stranded>>
        /\ \A n \in Packages : package'[n] \in {package[n], Null}
    BY <1>1, <1>4 DEF Outside, SourceMoves, CollectionGoes, SourceTaken, SourceReplaced,
       PackageTaken, disk, tables, TypeOK
  <2> QED BY <1>1, <2>1 DEF Tidy, Holding, Dirty, Path
<1>5. CASE Crash
  <2>1. UNCHANGED <<disk, job>> /\ stranded' = stranded \cup {j \in Jobs : Running(j)}
    BY <1>5 DEF Crash, tables
  <2>2. k \notin stranded' => k \notin stranded /\ thread[k].at \in {"none", "created"}
    BY <1>1, <2>1 DEF TypeInv, ThreadsFit, ThreadFits
  <2> QED BY <1>1, <2>1, <2>2 DEF Tidy, Holding, Dirty, Writing, Path, disk
<1>6. CASE Restart
  <2>1. /\ UNCHANGED <<package, thread, stranded>>
        /\ \A n \in Packages : partial'[n] \in {partial[n], Null}
    BY <1>6 DEF Restart
  <2>2. job'[k] = job[k] \/ (Running(k) /\ job'[k] = Interrupted(job[k]))
    BY <1>6 DEF Restart
  <2>3. Running(k) => Interrupted(job[k]).package = job[k].package /\ job[k].status # "succeeded"
    BY <1>1, RowShape, InterruptedShape DEF Running
  <2> QED BY <1>1, <2>1, <2>2, <2>3 DEF Tidy, Holding, Dirty, Path
<1>7. CASE UNCHANGED vars
  BY <1>1, <1>7 DEF vars, disk, tables, Tidy, Holding, Dirty, Path
<1> QED BY <1>2, <1>3, <1>4, <1>5, <1>6, <1>7 DEF Next

(* A failed job leaves neither a package nor a partial, unless the process    *)
(* ended or the disk refused in the middle of it: the clean-up and the        *)
(* rollbacks reach every way out of the thread.                               *)
THEOREM FailuresLeaveNothing == Spec => []FailedLeavesNothing
<1>1. TidyInv => FailedLeavesNothing
  BY DEF TidyInv, TypeInv, ThreadsFit, ThreadFits, Running, Tidy, Holding, Dirty, Writing,
     FailedLeavesNothing
<1> QED
  BY TidyInit, TidyStep, <1>1, PTL DEF Spec
=============================================================================
