----------------------------- MODULE LaunchProofs -----------------------------
(***************************************************************************)
(* How a catalog comes to be served.                                        *)
(*                                                                          *)
(* Proofs about ServiceLaunch for any number of launchers, catalogs, pids   *)
(* and services: the service lock keeps services apart from the opening of  *)
(* the catalog to the removal of the claim, so that what a service that     *)
(* ends removes is its own claim or that of one that is gone.               *)
(*                                                                          *)
(* Proofs about Migration, from which the first catalog comes, for any      *)
(* number of runs and any legacy catalogs: as long as the source has the    *)
(* version a run hashed, what the run read is what it hashed, and the       *)
(* target of a run that is alone is what it made of that.                   *)
(***************************************************************************)
EXTENDS ServiceLaunch, Migration, FiniteSetTheorems, WellFoundedInduction, TLAPS

Rows == [phase : Phases, catalog : Catalogs \cup {Null}, pid : Pids \cup {Null}]

ServicesOK ==
  /\ service \in [Services -> Rows]
  /\ \A i \in Services : service[i].phase # "none" =>
       service[i].catalog \in Catalogs /\ service[i].pid \in Pids

Orders == [op : {"none", "open", "restart", "stop"}, step : Steps,
           catalog : Catalogs \cup {Null}, found : Claims \cup {Null}, child : Services \cup {Null}]

\* what a command has found out when it comes to a step
Knows(order) ==
  /\ order.op = "open" => order.catalog \in Catalogs
  /\ order.step \in {"check", "spawn"} => order.op = "open"
  /\ order.step \in {"check", "decide", "strike", "await"} => order.found \in Claims

CommandsOK ==
  /\ command \in [Launchers -> Orders]
  /\ \A l \in Launchers : Knows(command[l])

DesktopOK ==
  /\ desktop \in [step : {"off", "starting", "open", "failing", "closing"},
                  id : Services \cup {Null}, first : BOOLEAN]
  /\ desktop.step # "off" => desktop.id \in Services

RestOK ==
  /\ config \in Catalogs \cup {Null}
  /\ claim \in Claims \cup {Null, Garbled}
  /\ strangers \subseteq Pids
  /\ given \in 0 .. MaxCommands

OneHolder ==
  \A i, j \in Services : service[i].phase \in Locked /\ service[j].phase \in Locked => i = j

\* A claim names a service that has come to serve.
ClaimServed == claim \in Claims => service[claim.id].phase \in {"serving", "closing", "gone"}

LaunchInv == ServicesOK /\ CommandsOK /\ DesktopOK /\ RestOK /\ OneHolder /\ ClaimServed

-----------------------------------------------------------------------------
LEMMA LaunchInits == LaunchInit => LaunchInv
<1> SUFFICES ASSUME LaunchInit PROVE LaunchInv
  OBVIOUS
<1>1. ServicesOK
  BY DEF LaunchInit, ServicesOK, Rows, NoService, Phases
<1>2. CommandsOK
  BY DEF LaunchInit, CommandsOK, Orders, Knows, NoCommand, Steps
<1>3. DesktopOK
  BY DEF LaunchInit, DesktopOK, NoDesktop
<1>4. RestOK
  BY LaunchBoundsAssumption DEF LaunchInit, RestOK
<1>5. OneHolder /\ ClaimServed
  BY LaunchNullAssumption DEF LaunchInit, OneHolder, ClaimServed, NoService, Locked
<1> QED BY <1>1, <1>2, <1>3, <1>4, <1>5 DEF LaunchInv

LEMMA NoDesktopOK == desktop' = NoDesktop => DesktopOK'
  BY DEF DesktopOK, NoDesktop

-----------------------------------------------------------------------------
(* One service moves on.                                                     *)

LEMMA PhaseMoves ==
  ASSUME ServicesOK, NEW i \in Services, NEW p \in Phases \ {"none"}, Phase(i, p),
         service[i].phase # "none"
  PROVE  /\ ServicesOK'
         /\ service'[i].phase = p /\ service'[i].catalog = service[i].catalog
         /\ service'[i].pid = service[i].pid
         /\ \A j \in Services : j # i => service'[j] = service[j]
<1>1. service[i] \in Rows /\ service' = [service EXCEPT ![i] = [service[i] EXCEPT !.phase = p]]
  BY DEF ServicesOK, Phase
<1>2. /\ [service[i] EXCEPT !.phase = p] \in Rows
      /\ [service[i] EXCEPT !.phase = p].phase = p
      /\ [service[i] EXCEPT !.phase = p].catalog = service[i].catalog
      /\ [service[i] EXCEPT !.phase = p].pid = service[i].pid
  BY <1>1 DEF Rows
<1> DEFINE n == [service[i] EXCEPT !.phase = p]
<1> HIDE DEF n
<1>3. /\ n \in Rows /\ n.phase = p /\ n.catalog = service[i].catalog /\ n.pid = service[i].pid
      /\ service' = [service EXCEPT ![i] = n]
  BY <1>1, <1>2 DEF n
<1> QED BY <1>3 DEF ServicesOK

LEMMA Spawning ==
  ASSUME ServicesOK, OneHolder, ClaimServed, RestOK, UNCHANGED claim,
         NEW i \in Services, NEW c \in Catalogs, NEW p \in Pids, Spawned(i, c, p)
  PROVE  ServicesOK' /\ OneHolder' /\ ClaimServed'
<1> DEFINE n == [phase |-> "starting", catalog |-> c, pid |-> p]
<1>1. n \in Rows /\ n.phase = "starting" /\ n.catalog = c /\ n.pid = p
  BY DEF Rows, Phases
<1>2. service' = [service EXCEPT ![i] = n] /\ service[i].phase = "none"
  BY LaunchBoundsAssumption DEF Spawned, Following, Services
<1> HIDE DEF n
<1>3. ServicesOK'
  BY <1>1, <1>2 DEF ServicesOK
<1>4. OneHolder'
  BY <1>1, <1>2 DEF ServicesOK, OneHolder, Locked
<1>5. ClaimServed'
  BY <1>1, <1>2 DEF ServicesOK, ClaimServed, Claims
<1> QED BY <1>3, <1>4, <1>5

\* Services only go on to gone, or from serving to closing: the holder stays, and the claim fits.
LEMMA Ending ==
  ASSUME OneHolder, ClaimServed,
         claim' = claim \/ claim' = Null,
         \A j \in Services :
           \/ service'[j].phase = service[j].phase
           \/ service'[j].phase = "gone"
           \/ service[j].phase = "serving" /\ service'[j].phase = "closing"
  PROVE  OneHolder' /\ ClaimServed'
<1>1. OneHolder'
  BY DEF OneHolder, Locked
<1>2. ClaimServed'
  BY LaunchNullAssumption DEF ClaimServed, Claims
<1> QED BY <1>1, <1>2

ServiceSteps(i) == Acquires(i) \/ Opens(i) \/ Publishes(i) \/ Removes(i) \/ Stops(i) \/ Crashes(i)

LEMMA ServiceKeeps ==
  ASSUME LaunchInv, NEW i \in Services, ServiceSteps(i)
  PROVE  LaunchInv'
<1> USE DEF LaunchInv
<1>1. CommandsOK'
  BY DEF ServiceSteps, Acquires, Opens, Publishes, Removes, Stops, Crashes, CommandsOK, Knows
<1>2. DesktopOK'
  <2>1. desktop' = desktop \/ desktop' = NoDesktop
    BY DEF ServiceSteps, Acquires, Opens, Publishes, Removes, Stops, Crashes
  <2>2. CASE desktop' = NoDesktop
    BY <2>2, NoDesktopOK
  <2> QED BY <2>1, <2>2 DEF DesktopOK
<1>3. service[i].phase # "none" /\ \E p \in Phases \ {"none"} : Phase(i, p)
  BY DEF ServiceSteps, Acquires, Opens, Publishes, Removes, Stops, Crashes, Alive, Phases
<1>4. ServicesOK'
  BY <1>3, PhaseMoves
<1>5. RestOK'
  <2>1. CASE Publishes(i)
    <3>1. service[i].catalog \in Catalogs /\ service[i].pid \in Pids
      BY <1>3 DEF ServicesOK
    <3>2. claim' \in Claims \/ claim' = claim
      BY <2>1, <3>1 DEF Publishes, Claims
    <3> QED BY <2>1, <3>2 DEF Publishes, RestOK
  <2>2. CASE ~Publishes(i)
    BY <2>2 DEF ServiceSteps, Acquires, Opens, Removes, Stops, Crashes, RestOK
  <2> QED BY <2>1, <2>2
<1>6. OneHolder' /\ ClaimServed'
  <2>1. CASE Acquires(i)
    <3>1. PICK p \in {"gone", "opening"} : Phase(i, p) /\ (p = "opening" => ~LockHeld)
      BY <2>1 DEF Acquires
    <3>2. service[i].phase = "starting" /\ UNCHANGED claim
      BY <2>1 DEF Acquires
    <3>3. service'[i].phase = p /\ \A j \in Services : j # i => service'[j] = service[j]
      BY <1>3, <3>1, PhaseMoves DEF Phases
    <3> QED BY <3>1, <3>2, <3>3 DEF OneHolder, LockHeld, Locked, ClaimServed, Claims
  <2>2. CASE Opens(i) /\ Phase(i, "publishing")
    <3>1. service'[i].phase = "publishing" /\ \A j \in Services : j # i => service'[j] = service[j]
      BY <1>3, <2>2, PhaseMoves DEF Phases
    <3>2. service[i].phase = "opening"
      BY <2>2 DEF Opens
    <3>3. OneHolder'
      BY <3>1, <3>2 DEF OneHolder, Locked
    <3>4. claim' = Null \/ claim' = claim
      BY <2>2 DEF Opens
    <3>5. Phase(i, "closing") => FALSE
      BY <1>3, <3>1, PhaseMoves DEF Phases
    <3>6. claim' = Null
      BY <2>2, <3>5 DEF Opens
    <3> QED BY <3>3, <3>6, LaunchNullAssumption DEF ClaimServed
  <2>3. CASE Opens(i) /\ Phase(i, "closing")
    <3>1. service'[i].phase = "closing" /\ \A j \in Services : j # i => service'[j] = service[j]
      BY <1>3, <2>3, PhaseMoves DEF Phases
    <3>2. service[i].phase = "opening" /\ (claim' = claim \/ claim' = Null)
      BY <2>3 DEF Opens
    <3>3. OneHolder'
      BY <3>1, <3>2 DEF OneHolder, Locked
    <3>4. ClaimServed'
      BY <3>1, <3>2, LaunchNullAssumption DEF ClaimServed, Claims
    <3> QED BY <3>3, <3>4
  <2>4. CASE Publishes(i)
    <3>1. PICK p \in {"serving", "closing"} : Phase(i, p)
      BY <2>4 DEF Publishes
    <3>2. service'[i].phase = p /\ \A j \in Services : j # i => service'[j] = service[j]
      BY <1>3, <3>1, PhaseMoves DEF Phases
    <3>3. service[i].phase = "publishing"
      BY <2>4 DEF Publishes
    <3>4. claim'.id = i \/ claim' = claim
      BY <2>4 DEF Publishes
    <3>5. OneHolder'
      BY <3>2, <3>3 DEF OneHolder, Locked
    <3> QED BY <3>2, <3>3, <3>4, <3>5, LaunchNullAssumption DEF ClaimServed, Claims
  <2>5. CASE Removes(i) \/ Stops(i) \/ Crashes(i)
    <3>1. PICK p \in {"gone", "closing"} : Phase(i, p) /\ (p = "closing" => service[i].phase = "serving")
      BY <2>5 DEF Removes, Stops, Crashes
    <3>2. service'[i].phase = p /\ \A j \in Services : j # i => service'[j] = service[j]
      BY <1>3, <3>1, PhaseMoves DEF Phases
    <3>3. claim' = claim \/ claim' = Null
      BY <2>5 DEF Removes, Stops, Crashes
    <3> QED BY <3>1, <3>2, <3>3, Ending
  <2> QED BY <2>1, <2>2, <2>3, <2>4, <2>5 DEF ServiceSteps, Opens
<1> QED BY <1>1, <1>2, <1>4, <1>5, <1>6

-----------------------------------------------------------------------------
(* A command of the launcher goes on.                                        *)

LEMMA OrderMoves ==
  ASSUME CommandsOK, NEW l \in Launchers, NEW n \in Orders, Knows(n),
         command' = [command EXCEPT ![l] = n]
  PROVE  CommandsOK'
BY DEF CommandsOK

LEMMA OrderEnds ==
  ASSUME CommandsOK, NEW l \in Launchers, Ends(l)
  PROVE  CommandsOK'
<1>1. NoCommand \in Orders /\ Knows(NoCommand)
  BY DEF NoCommand, Orders, Knows, Steps
<1> QED BY <1>1, OrderMoves DEF Ends

LEMMA OrderGoes ==
  ASSUME CommandsOK, NEW l \in Launchers, NEW s \in Steps, Goes(l, s),
         s \in {"check", "spawn"} => command[l].op = "open",
         s \in {"check", "decide", "strike", "await"} => command[l].found \in Claims
  PROVE  CommandsOK'
<1> DEFINE n == [command[l] EXCEPT !.step = s]
<1>1. command[l] \in Orders /\ Knows(command[l])
  BY DEF CommandsOK
<1>2. n \in Orders /\ n.step = s /\ n.op = command[l].op /\ n.catalog = command[l].catalog
      /\ n.found = command[l].found
  BY <1>1 DEF Orders
<1>3. command' = [command EXCEPT ![l] = n]
  BY DEF Goes
<1> HIDE DEF n
<1>4. Knows(n)
  BY <1>1, <1>2 DEF Knows
<1> QED BY <1>2, <1>3, <1>4, OrderMoves

\* what follows a stop
LEMMA OrderStopped ==
  ASSUME CommandsOK, RestOK, NEW l \in Launchers, Stopped(l)
  PROVE  CommandsOK'
<1> DEFINE n == [NoCommand EXCEPT !.op = "open", !.step = "look", !.catalog = config]
<1>1. CASE command[l].op = "restart" /\ config # Null
  <2>1. n \in Orders /\ Knows(n)
    BY <1>1 DEF RestOK, NoCommand, Orders, Knows, Steps
  <2>2. command' = [command EXCEPT ![l] = n]
    BY <1>1 DEF Stopped
  <2> HIDE DEF n
  <2> QED BY <2>1, <2>2, OrderMoves
<1>2. CASE ~(command[l].op = "restart" /\ config # Null)
  BY <1>2, OrderEnds DEF Stopped
<1> QED BY <1>1, <1>2

\* Most steps of a command read the services, and at most take the claim away.
LEMMA Quiet ==
  ASSUME LaunchInv, CommandsOK', UNCHANGED <<service, desktop, strangers, given>>,
         config' \in Catalogs \cup {Null}, claim' = claim \/ claim' = Null
  PROVE  LaunchInv'
<1> USE DEF LaunchInv
<1>1. ServicesOK' /\ OneHolder' /\ DesktopOK'
  BY DEF ServicesOK, OneHolder, DesktopOK
<1>2. RestOK'
  BY DEF RestOK
<1>3. ClaimServed'
  BY LaunchNullAssumption DEF ClaimServed
<1> QED BY <1>1, <1>2, <1>3

\* open: an order with its catalog, which is selected
LEMMA GivesKeeps ==
  ASSUME LaunchInv, NEW l \in Launchers, NEW op \in {"open", "restart", "stop"},
         NEW c \in Catalogs \cup {Null}, Gives(l, op, c)
  PROVE  LaunchInv'
<1> USE DEF LaunchInv
<1> DEFINE n == [NoCommand EXCEPT !.op = op, !.catalog = c, !.step = "lock"]
<1>1. c # Null => c \in Catalogs
  OBVIOUS
<1>2. n \in Orders /\ Knows(n)
  BY <1>1 DEF Gives, NoCommand, Orders, Knows, Steps
<1>3. command' = [command EXCEPT ![l] = n]
  BY DEF Gives
<1> HIDE DEF n
<1>4. CommandsOK'
  BY <1>2, <1>3, OrderMoves
<1>5. config' \in Catalogs \cup {Null} /\ claim' = claim
  BY DEF Gives, RestOK
<1>6. given' \in 0 .. MaxCommands
  BY LaunchBoundsAssumption DEF Gives, RestOK
<1>7. ServicesOK' /\ OneHolder' /\ DesktopOK' /\ ClaimServed'
  BY DEF Gives, ServicesOK, OneHolder, DesktopOK, ClaimServed
<1>8. RestOK'
  BY <1>5, <1>6 DEF Gives, RestOK
<1> QED BY <1>4, <1>7, <1>8

LEMMA LooksToOpenKeeps ==
  ASSUME LaunchInv, NEW l \in Launchers, LooksToOpen(l)
  PROVE  LaunchInv'
<1> USE DEF LaunchInv
<1> DEFINE s == IF claim \in {Null, Garbled} THEN "spawn" ELSE "check"
           n == [command[l] EXCEPT !.found = Seen, !.step = s]
<1>1. command[l] \in Orders /\ Knows(command[l])
  BY DEF CommandsOK
<1>2. Seen \in Claims \cup {Null} /\ (s = "check" => Seen \in Claims)
  BY DEF RestOK, Seen
<1>3. s \in Steps /\ s \in {"check", "spawn"}
  BY DEF Steps
<1>4. n \in Orders /\ n.step = s /\ n.op = command[l].op /\ n.catalog = command[l].catalog
      /\ n.found = Seen
  BY <1>1, <1>2, <1>3 DEF Orders
<1>5. command' = [command EXCEPT ![l] = n]
  <2>1. command' = [command EXCEPT ![l].found = Seen, ![l].step = s]
    BY DEF LooksToOpen
  <2> QED BY <2>1 DEF CommandsOK
<1>6. command[l].op = "open"
  BY DEF LooksToOpen
<1> HIDE DEF n, s
<1>7. Knows(n)
  BY <1>1, <1>2, <1>3, <1>4, <1>6 DEF Knows
<1>8. CommandsOK'
  BY <1>4, <1>5, <1>7, OrderMoves
<1>9. /\ UNCHANGED <<service, desktop, strangers, given>>
      /\ config' \in Catalogs \cup {Null} /\ (claim' = claim \/ claim' = Null)
  BY DEF LooksToOpen, RestOK
<1> QED BY <1>8, <1>9, Quiet

LEMMA ChecksKeeps ==
  ASSUME LaunchInv, NEW l \in Launchers, Checks(l)
  PROVE  LaunchInv'
<1> USE DEF LaunchInv
<1>1. Ends(l) \/ Goes(l, "spawn")
  BY DEF Checks
<1>2. command[l].op = "open"
  BY DEF Checks, At, CommandsOK, Knows
<1>3. CommandsOK'
  BY <1>1, <1>2, OrderEnds, OrderGoes DEF Steps
<1>4. /\ UNCHANGED <<service, desktop, strangers, given>>
      /\ config' \in Catalogs \cup {Null} /\ (claim' = claim \/ claim' = Null)
  BY DEF Checks, RestOK
<1> QED BY <1>3, <1>4, Quiet

LEMMA SpawnsKeeps ==
  ASSUME LaunchInv, NEW l \in Launchers, Spawns(l)
  PROVE  LaunchInv'
<1> USE DEF LaunchInv
<1>1. CASE \E i \in Services, p \in Pids :
             Spawned(i, command[l].catalog, p)
             /\ command' = [command EXCEPT ![l].child = i, ![l].step = "wait"]
  <2>1. PICK i \in Services, p \in Pids :
          Spawned(i, command[l].catalog, p)
          /\ command' = [command EXCEPT ![l].child = i, ![l].step = "wait"]
    BY <1>1
  <2>2. command[l] \in Orders /\ Knows(command[l])
    BY DEF CommandsOK
  <2>3. command[l].catalog \in Catalogs /\ command[l].op = "open"
    BY <2>2 DEF Spawns, At, Knows
  <2> DEFINE n == [command[l] EXCEPT !.child = i, !.step = "wait"]
  <2>4. n \in Orders /\ n.step = "wait" /\ n.op = command[l].op /\ n.catalog = command[l].catalog
    BY <2>2 DEF Orders, Steps
  <2>5. command' = [command EXCEPT ![l] = n]
    BY <2>1 DEF CommandsOK
  <2> HIDE DEF n
  <2>6. Knows(n)
    BY <2>3, <2>4 DEF Knows
  <2>7. CommandsOK'
    BY <2>4, <2>5, <2>6, OrderMoves
  <2>8. UNCHANGED <<claim, desktop, config, strangers, given>>
    BY DEF Spawns
  <2>9. ServicesOK' /\ OneHolder' /\ ClaimServed'
    BY <2>1, <2>3, <2>8, Spawning
  <2> QED BY <2>7, <2>8, <2>9 DEF DesktopOK, RestOK
<1>2. CASE Ends(l) /\ UNCHANGED service
  <2>1. CommandsOK'
    BY <1>2, OrderEnds
  <2>2. UNCHANGED <<claim, desktop, strangers, given>> /\ config' \in Catalogs \cup {Null}
    BY DEF Spawns, RestOK
  <2> QED BY <1>2, <2>1, <2>2, Quiet
<1> QED BY <1>1, <1>2 DEF Spawns

LEMMA WaitsKeeps ==
  ASSUME LaunchInv, NEW l \in Launchers, Waits(l)
  PROVE  LaunchInv'
<1> USE DEF LaunchInv
<1>1. CommandsOK'
  BY OrderEnds DEF Waits
<1> QED BY <1>1, Quiet DEF Waits, RestOK

LEMMA LocksKeeps ==
  ASSUME LaunchInv, NEW l \in Launchers, Locks(l)
  PROVE  LaunchInv'
<1> USE DEF LaunchInv
<1>1. CommandsOK'
  BY OrderGoes DEF Locks, Steps
<1> QED BY <1>1, Quiet DEF Locks, RestOK

LEMMA LooksToStopKeeps ==
  ASSUME LaunchInv, NEW l \in Launchers, LooksToStop(l)
  PROVE  LaunchInv'
<1> USE DEF LaunchInv
<1>1. command[l] \in Orders /\ Knows(command[l])
  BY DEF CommandsOK
<1>2. UNCHANGED <<service, claim, desktop, strangers, given>> /\ config' \in Catalogs \cup {Null}
  BY DEF LooksToStop, RestOK
<1>3. CASE claim \in Claims /\ command' =
             [command EXCEPT ![l].found = claim, ![l].catalog = config, ![l].step = "decide"]
  <2> DEFINE n == [command[l] EXCEPT !.found = claim, !.catalog = config, !.step = "decide"]
  <2>1. n \in Orders /\ n.step = "decide" /\ n.op = command[l].op /\ n.found = claim
    BY <1>1, <1>3 DEF Orders, Steps, RestOK
  <2>2. command' = [command EXCEPT ![l] = n]
    BY <1>3 DEF CommandsOK
  <2>3. command[l].op # "open"
    BY DEF LooksToStop
  <2> HIDE DEF n
  <2>4. Knows(n)
    BY <1>3, <2>1, <2>3 DEF Knows
  <2>5. CommandsOK'
    BY <2>1, <2>2, <2>4, OrderMoves
  <2> QED BY <1>2, <2>5, Quiet
<1>4. CASE config # Null /\ command' = [command EXCEPT ![l].op = "open", ![l].catalog = config]
  <2> DEFINE n == [command[l] EXCEPT !.op = "open", !.catalog = config]
  <2>1. n \in Orders /\ n.step = command[l].step /\ n.op = "open" /\ n.catalog = config
        /\ n.found = command[l].found
    BY <1>1 DEF Orders, RestOK
  <2>2. command' = [command EXCEPT ![l] = n]
    BY <1>4 DEF CommandsOK
  <2>3. config \in Catalogs
    BY <1>4 DEF RestOK
  <2> HIDE DEF n
  <2>4. Knows(n)
    BY <1>1, <2>1, <2>3 DEF Knows
  <2>5. CommandsOK'
    BY <2>1, <2>2, <2>4, OrderMoves
  <2> QED BY <1>2, <2>5, Quiet
<1>5. CASE Ends(l)
  BY <1>2, <1>5, OrderEnds, Quiet
<1>6. claim \in Claims \/ claim = Garbled \/ claim = Null
  BY DEF RestOK
<1> QED BY <1>3, <1>4, <1>5, <1>6 DEF LooksToStop

LEMMA DecidesKeeps ==
  ASSUME LaunchInv, NEW l \in Launchers, Decides(l)
  PROVE  LaunchInv'
<1> USE DEF LaunchInv
<1>1. command[l].found \in Claims
  BY DEF Decides, At, CommandsOK, Knows
<1>2. PICK answers \in Answers(command[l].found) :
        CASE Disposition(l, answers) = "refuse" -> Ends(l) /\ UNCHANGED claim
          [] Disposition(l, answers) = "stop"   -> Goes(l, "strike") /\ UNCHANGED claim
          [] OTHER -> (IF claim = Null THEN Ends(l) ELSE Stopped(l)) /\ claim' = Null
  BY DEF Decides
<1>3. /\ Ends(l) \/ Goes(l, "strike") \/ Stopped(l)
      /\ claim' = claim \/ claim' = Null
  BY <1>2
<1>4. CommandsOK'
  BY <1>1, <1>3, OrderEnds, OrderGoes, OrderStopped DEF Steps
<1>5. UNCHANGED <<service, desktop, strangers, given>> /\ config' \in Catalogs \cup {Null}
  BY DEF Decides, RestOK
<1> QED BY <1>3, <1>4, <1>5, Quiet

\* the processes of a pid are told to end, or ended: none gets the lock by it
LEMMA StrikesKeeps ==
  ASSUME LaunchInv, NEW l \in Launchers, Strikes(l)
  PROVE  LaunchInv'
<1> USE DEF LaunchInv
<1> DEFINE p == command[l].found.pid
<1>1. CASE Ends(l) /\ UNCHANGED <<service, strangers, desktop>>
  <2>1. CommandsOK'
    BY <1>1, OrderEnds DEF Strikes
  <2> QED BY <1>1, <2>1, Quiet DEF Strikes, RestOK
<1>2. CASE ~ (Ends(l) /\ UNCHANGED <<service, strangers, desktop>>)
  <2>1. PICK phase \in {"closing", "gone"} :
          service' = [i \in Services |->
            IF Alive(i) /\ service[i].pid = p
            THEN [service[i] EXCEPT !.phase =
                    IF phase = "closing" /\ @ # "serving" THEN @ ELSE phase]
            ELSE service[i]]
    BY <1>2 DEF Strikes
  <2>2. ASSUME NEW i \in Services
        PROVE  /\ service'[i] \in Rows
               /\ service'[i].catalog = service[i].catalog /\ service'[i].pid = service[i].pid
               /\ \/ service'[i].phase = service[i].phase
                  \/ service'[i].phase = "gone" /\ service[i].phase # "none"
                  \/ service[i].phase = "serving" /\ service'[i].phase = "closing"
    <3>1. service[i] \in Rows
      BY DEF ServicesOK
    <3>2. CASE Alive(i) /\ service[i].pid = p
      <4> DEFINE q == IF phase = "closing" /\ service[i].phase # "serving" THEN service[i].phase
                      ELSE phase
      <4>1. service'[i] = [service[i] EXCEPT !.phase = q]
        BY <2>1, <3>2
      <4>2. /\ q \in Phases
            /\ \/ q = service[i].phase
               \/ q = "gone" /\ service[i].phase # "none"
               \/ service[i].phase = "serving" /\ q = "closing"
        BY <3>1, <3>2 DEF Rows, Phases, Alive
      <4> HIDE DEF q
      <4> QED BY <3>1, <4>1, <4>2 DEF Rows
    <3>3. CASE ~(Alive(i) /\ service[i].pid = p)
      BY <2>1, <3>1, <3>3
    <3> QED BY <3>2, <3>3
  <2>3. ServicesOK'
    <3>1. service' \in [Services -> Rows]
      BY <2>1, <2>2
    <3> QED BY <3>1, <2>2 DEF ServicesOK
  <2>4. OneHolder' /\ ClaimServed'
    BY <2>2, Ending DEF Strikes
  <2>5. CommandsOK'
    BY <1>2, OrderGoes DEF Strikes, At, Steps, CommandsOK, Knows
  <2>6. DesktopOK'
    <3>1. desktop' = desktop \/ desktop' = NoDesktop
      BY <1>2 DEF Strikes
    <3>2. CASE desktop' = NoDesktop
      BY <3>2, NoDesktopOK
    <3> QED BY <3>1, <3>2 DEF DesktopOK
  <2>7. RestOK'
    BY <1>2 DEF Strikes, RestOK
  <2> QED BY <2>3, <2>4, <2>5, <2>6, <2>7
<1> QED BY <1>1, <1>2

LEMMA AwaitsKeeps ==
  ASSUME LaunchInv, NEW l \in Launchers, Awaits(l)
  PROVE  LaunchInv'
<1> USE DEF LaunchInv
<1>1. (Ends(l) \/ Stopped(l)) /\ (claim' = claim \/ claim' = Null)
  BY DEF Awaits
<1>2. CommandsOK'
  BY <1>1, OrderEnds, OrderStopped
<1> QED BY <1>1, <1>2, Quiet DEF Awaits, RestOK

LEMMA ReusesKeeps ==
  ASSUME LaunchInv, NEW p \in Pids, Reuses(p)
  PROVE  LaunchInv'
BY DEF LaunchInv, Reuses, ServicesOK, CommandsOK, DesktopOK, RestOK, OneHolder, ClaimServed

-----------------------------------------------------------------------------
(* The desktop shell.                                                        *)

DesktopSteps == DesktopOpens \/ DesktopFails \/ DesktopQuits \/ DesktopCloses \/ DesktopNotices
                \/ DesktopExits

LEMMA DesktopStartsKeeps ==
  ASSUME LaunchInv, NEW c \in Catalogs, NEW i \in Services, NEW p \in Pids, DesktopStarts(c, i, p)
  PROVE  LaunchInv'
<1> USE DEF LaunchInv
<1>1. ServicesOK' /\ OneHolder' /\ ClaimServed'
  BY Spawning DEF DesktopStarts
<1>2. DesktopOK'
  <2>1. (config = Null) \in BOOLEAN
    OBVIOUS
  <2>2. desktop' = [step |-> "starting", id |-> i, first |-> (config = Null)]
    BY DEF DesktopStarts, NoDesktop
  <2> QED BY <2>1, <2>2 DEF DesktopOK
<1> QED BY <1>1, <1>2 DEF DesktopStarts, CommandsOK, RestOK

LEMMA DesktopKeeps ==
  ASSUME LaunchInv, DesktopSteps
  PROVE  LaunchInv'
<1> USE DEF LaunchInv
<1>1. desktop.step # "off" /\ desktop.id \in Services
  BY DEF DesktopSteps, DesktopOpens, DesktopFails, DesktopQuits, DesktopCloses, DesktopNotices,
         DesktopExits, DesktopOK
<1>2. DesktopOK'
  <2>1. desktop' = NoDesktop \/ \E s \in {"open", "failing", "closing"} :
          desktop' = [desktop EXCEPT !.step = s]
    BY DEF DesktopSteps, DesktopOpens, DesktopFails, DesktopQuits, DesktopCloses, DesktopNotices,
           DesktopExits
  <2>2. CASE desktop' = NoDesktop
    BY <2>2, NoDesktopOK
  <2>3. CASE \E s \in {"open", "failing", "closing"} : desktop' = [desktop EXCEPT !.step = s]
    BY <1>1, <2>3 DEF DesktopOK
  <2> QED BY <2>1, <2>2, <2>3
<1>3. \/ UNCHANGED service
      \/ Alive(desktop.id) /\ Phase(desktop.id, "gone")
      \/ service[desktop.id].phase = "serving" /\ Phase(desktop.id, "closing")
  BY DEF DesktopSteps, DesktopOpens, DesktopFails, DesktopQuits, DesktopCloses, DesktopNotices,
         DesktopExits
<1>4. CommandsOK' /\ claim' = claim
  BY DEF DesktopSteps, DesktopOpens, DesktopFails, DesktopQuits, DesktopCloses, DesktopNotices,
         DesktopExits, CommandsOK
<1>5. RestOK'
  <2>1. service[desktop.id].phase = "serving" => service[desktop.id].catalog \in Catalogs
    BY <1>1 DEF ServicesOK
  <2>2. config' \in Catalogs \cup {Null}
    BY <2>1 DEF DesktopSteps, DesktopOpens, DesktopFails, DesktopQuits, DesktopCloses,
                DesktopNotices, DesktopExits, RestOK
  <2> QED BY <2>2 DEF DesktopSteps, DesktopOpens, DesktopFails, DesktopQuits, DesktopCloses,
                      DesktopNotices, DesktopExits, RestOK
<1>6. CASE UNCHANGED service
  BY <1>2, <1>4, <1>5, <1>6 DEF ServicesOK, OneHolder, ClaimServed
<1>7. CASE ~ UNCHANGED service
  <2>1. PICK q \in {"gone", "closing"} :
          /\ Phase(desktop.id, q) /\ service[desktop.id].phase # "none"
          /\ q = "closing" => service[desktop.id].phase = "serving"
    BY <1>3, <1>7 DEF Alive
  <2>2. q \in Phases \ {"none"}
    BY DEF Phases
  <2>3. /\ ServicesOK' /\ service'[desktop.id].phase = q
        /\ \A j \in Services : j # desktop.id => service'[j] = service[j]
    BY <1>1, <2>1, <2>2, PhaseMoves
  <2>4. OneHolder' /\ ClaimServed'
    BY <1>4, <2>1, <2>3, Ending
  <2> QED BY <1>2, <1>4, <1>5, <2>3, <2>4
<1> QED BY <1>6, <1>7

-----------------------------------------------------------------------------
LEMMA LaunchStep == LaunchInv /\ [LaunchNext]_launchVars => LaunchInv'
<1> SUFFICES ASSUME LaunchInv, [LaunchNext]_launchVars PROVE LaunchInv'
  OBVIOUS
<1>1. CASE UNCHANGED launchVars
  BY <1>1 DEF launchVars, LaunchInv, ServicesOK, CommandsOK, DesktopOK, RestOK, OneHolder,
              ClaimServed
<1>2. CASE \E i \in Services : ServiceSteps(i)
  BY <1>2, ServiceKeeps
<1>3. CASE \E p \in Pids : Reuses(p)
  BY <1>3, ReusesKeeps
<1>4. CASE \E l \in Launchers, op \in {"open", "restart", "stop"}, c \in Catalogs \cup {Null} :
             Gives(l, op, c)
  BY <1>4, GivesKeeps
<1>5. CASE \E l \in Launchers : Locks(l) \/ Commands(l)
  BY <1>5, LocksKeeps, LooksToOpenKeeps, ChecksKeeps, SpawnsKeeps, WaitsKeeps, LooksToStopKeeps,
     DecidesKeeps, StrikesKeeps, AwaitsKeeps DEF Commands
<1>6. CASE \E c \in Catalogs, i \in Services, p \in Pids : DesktopStarts(c, i, p)
  BY <1>6, DesktopStartsKeeps
<1>7. CASE DesktopSteps
  BY <1>7, DesktopKeeps
<1> QED BY <1>1, <1>2, <1>3, <1>4, <1>5, <1>6, <1>7 DEF LaunchNext, ServiceSteps, DesktopSteps

\* A service that is ending leaves the claims of those alone that run: it holds the lock, which
\* the service of a claim does, too, as long as it runs.
LEMMA EndsAlone ==
  ASSUME LaunchInv, [LaunchNext]_launchVars, NEW i \in Services,
         service[i].phase = "closing", claim \in Claims
  PROVE  claim.id = i \/ ~ Alive(claim.id)
<1>1. claim.id \in Services
  BY DEF Claims
<1>2. CASE Alive(claim.id)
  <2>1. service[claim.id].phase \in Locked /\ service[i].phase \in Locked
    BY <1>2 DEF LaunchInv, ClaimServed, Alive, Locked
  <2> QED BY <1>1, <2>1 DEF LaunchInv, OneHolder
<1> QED BY <1>2

\* Types: commands know what their steps need, claims name services, and the counter stays
\* within its bound, whoever interleaves with whom.
THEOREM LaunchTypesCorrect == LaunchSpec => []LaunchTypeOK
<1>1. LaunchInv => LaunchTypeOK
  BY DEF LaunchInv, LaunchTypeOK, ServicesOK, CommandsOK, DesktopOK, RestOK, Rows, Orders
<1> QED BY <1>1, LaunchInits, LaunchStep, PTL DEF LaunchSpec

\* A service that ends never takes away the claim of another one that runs (the guard of
\* run_service removes the claim before it lets the lock go), for any number of launchers.
THEOREM EndingKeepsClaims == LaunchSpec => EndingLeavesOthersClaims
<1>1. LaunchInv /\ [LaunchNext]_launchVars =>
        [\A i \in Services :
           service[i].phase = "closing" /\ service'[i].phase = "gone" /\ claim' # claim
             /\ claim \in Claims => claim.id = i \/ ~ Alive(claim.id)]_launchVars
  BY EndsAlone
<1> QED BY <1>1, LaunchInits, LaunchStep, PTL DEF LaunchSpec, EndingLeavesOthersClaims

-----------------------------------------------------------------------------
(* A stop strikes its own service.  The claims, and what commands found in   *)
(* them, name a service by the pid it really has; the processes that run     *)
(* have pids of their own; so a pid whose service has answered is no other's, *)
(* and none is given again before the blow.                                  *)

Names(c) == service[c.id].phase # "none" /\ service[c.id].pid = c.pid

PidsApart ==
  /\ \A i, j \in Services : Alive(i) /\ Alive(j) /\ service[i].pid = service[j].pid => i = j
  /\ \A i \in Services : Alive(i) => service[i].pid \notin strangers

ClaimNames == claim \in Claims => Names(claim)
FoundNames == \A l \in Launchers : command[l].step \in {"decide", "strike"} => Names(command[l].found)

StopInv == PidsApart /\ ClaimNames /\ FoundNames /\ StopStrikesItsService

\* processes keep their pids, and none is born
PidsKept == \A i \in Services : service[i].phase # "none" =>
              service'[i].phase # "none" /\ service'[i].pid = service[i].pid
NoneBorn == \A i \in Services : Alive(i)' => Alive(i)

\* how a command comes to decide and to strike
Aims(l) ==
  \/ command'[l].step \notin {"decide", "strike"}
  \/ /\ command'[l].step = command[l].step /\ command'[l].found = command[l].found
     /\ command'[l].catalog = command[l].catalog
  \/ command'[l].step = "decide" /\ claim \in Claims /\ command'[l].found = claim
  \/ /\ command'[l].step = "strike" /\ command[l].step = "decide"
     /\ command'[l].found = command[l].found /\ command'[l].catalog = command[l].catalog
     /\ command[l].found.catalog = command[l].catalog
     /\ service[command[l].found.id].phase = "serving"

LEMMA StopInits == LaunchInit => StopInv
BY LaunchNullAssumption
   DEF LaunchInit, StopInv, PidsApart, ClaimNames, FoundNames, StopStrikesItsService, Alive, At,
       NoService, NoCommand

LEMMA FoundKept ==
  ASSUME LaunchInv, StopInv, PidsKept, \A l \in Launchers : Aims(l)
  PROVE  FoundNames'
<1> SUFFICES ASSUME NEW l \in Launchers, command'[l].step \in {"decide", "strike"}
             PROVE  /\ service'[command'[l].found.id].phase # "none"
                    /\ service'[command'[l].found.id].pid = command'[l].found.pid
  BY DEF FoundNames, Names
<1> USE DEF StopInv
<1>1. command[l].step \in {"decide", "strike"} => command[l].found.id \in Services
  BY DEF LaunchInv, CommandsOK, Knows, Claims
<1>2. claim \in Claims => claim.id \in Services
  BY DEF Claims
<1>3. Aims(l)
  OBVIOUS
<1>4. CASE command[l].step \in {"decide", "strike"} /\ command'[l].found = command[l].found
  BY <1>1, <1>4 DEF FoundNames, Names, PidsKept
<1>5. CASE claim \in Claims /\ command'[l].found = claim
  BY <1>2, <1>5 DEF ClaimNames, Names, PidsKept
<1> QED BY <1>3, <1>4, <1>5 DEF Aims

\* No process is born: what runs has its pid still, and what a blow is aimed at has answered.
LEMMA StopQuiet ==
  ASSUME LaunchInv, StopInv, PidsKept, NoneBorn, strangers' \subseteq strangers,
         (claim' \in Claims => claim' = claim) \/ ClaimNames', \A l \in Launchers : Aims(l)
  PROVE  StopInv'
<1> USE DEF StopInv
<1>1. \A i \in Services : Alive(i)' => Alive(i) /\ service'[i].pid = service[i].pid
  BY DEF NoneBorn, PidsKept, Alive
<1>2. PidsApart'
  BY <1>1 DEF PidsApart
<1>3. ClaimNames'
  <2>1. CASE claim' \in Claims => claim' = claim
    BY <2>1 DEF ClaimNames, Names, PidsKept, Claims
  <2> QED BY <2>1
<1>4. FoundNames'
  BY FoundKept
<1>5. StopStrikesItsService'
  <2> SUFFICES ASSUME NEW l \in Launchers, command'[l].step = "strike"
               PROVE  /\ command'[l].found.catalog = command'[l].catalog
                      /\ command'[l].found.pid \notin strangers'
                      /\ \A i \in Services : Alive(i)' /\ service'[i].pid = command'[l].found.pid
                           => i = command'[l].found.id
    BY DEF StopStrikesItsService, At
  <2>1. /\ command'[l].found = command[l].found /\ command'[l].catalog = command[l].catalog
        /\ \/ command[l].step = "strike"
           \/ /\ command[l].step = "decide" /\ command[l].found.catalog = command[l].catalog
              /\ service[command[l].found.id].phase = "serving"
    BY DEF Aims
  <2>2. CASE command[l].step = "strike"
    BY <1>1, <2>1, <2>2 DEF StopStrikesItsService, At
  <2>3. CASE /\ command[l].step = "decide" /\ command[l].found.catalog = command[l].catalog
             /\ service[command[l].found.id].phase = "serving"
    <3> DEFINE f == command[l].found
    <3>1. f.id \in Services
      BY <2>3 DEF LaunchInv, CommandsOK, Knows, Claims
    <3>2. Alive(f.id) /\ service[f.id].pid = f.pid
      BY <2>3 DEF Alive, FoundNames, Names
    <3>3. /\ f.pid \notin strangers
          /\ \A i \in Services : Alive(i) /\ service[i].pid = f.pid => i = f.id
      BY <3>1, <3>2 DEF PidsApart
    <3> QED BY <1>1, <2>1, <2>3, <3>3
  <2> QED BY <2>1, <2>2, <2>3
<1> QED BY <1>2, <1>3, <1>4, <1>5

\* A process is born with a pid that is free, aimed at by nobody.
LEMMA StopSpawned ==
  ASSUME LaunchInv, StopInv, UNCHANGED <<claim, strangers>>,
         \A l \in Launchers : \/ command'[l].step \notin {"decide", "strike"}
                              \/ command'[l] = command[l],
         NEW i \in Services, NEW c \in Catalogs, NEW p \in Pids, Spawned(i, c, p)
  PROVE  StopInv'
<1> USE DEF StopInv
<1> DEFINE n == [phase |-> "starting", catalog |-> c, pid |-> p]
<1>1. service' = [service EXCEPT ![i] = n] /\ service[i].phase = "none"
  BY LaunchBoundsAssumption DEF Spawned, Following, Services
<1>2. n.phase = "starting" /\ n.pid = p
  OBVIOUS
<1> HIDE DEF n
<1>3. /\ service'[i].phase = "starting" /\ service'[i].pid = p
      /\ \A j \in Services : j # i => service'[j] = service[j]
  BY <1>1, <1>2 DEF LaunchInv, ServicesOK
<1>4. PidsKept
  BY <1>1, <1>3 DEF PidsKept
<1>5. /\ p \notin strangers /\ \A j \in Services : Alive(j) => service[j].pid # p
      /\ \A l \in Launchers : command[l].step = "strike" => command[l].found.pid # p
  BY DEF Spawned, Free, Running
<1>6. \A j \in Services : j # i => (Alive(j)' <=> Alive(j))
  BY <1>3 DEF Alive
<1>7. PidsApart'
  BY <1>3, <1>5, <1>6 DEF PidsApart
<1>8. ClaimNames'
  BY <1>4 DEF ClaimNames, Names, PidsKept, Claims
<1>9. FoundNames'
  BY <1>4, FoundKept DEF Aims
<1>10. StopStrikesItsService'
  <2> SUFFICES ASSUME NEW l \in Launchers, command'[l].step = "strike"
               PROVE  /\ command'[l].found.catalog = command'[l].catalog
                      /\ command'[l].found.pid \notin strangers'
                      /\ \A j \in Services : Alive(j)' /\ service'[j].pid = command'[l].found.pid
                           => j = command'[l].found.id
    BY DEF StopStrikesItsService, At
  <2>1. command'[l] = command[l] /\ command[l].step = "strike"
    OBVIOUS
  <2>2. /\ command[l].found.catalog = command[l].catalog /\ command[l].found.pid \notin strangers
        /\ \A j \in Services : Alive(j) /\ service[j].pid = command[l].found.pid
             => j = command[l].found.id
    BY <2>1 DEF StopStrikesItsService, At
  <2> QED BY <1>3, <1>5, <1>6, <2>1, <2>2
<1> QED BY <1>7, <1>8, <1>9, <1>10

\* A program that is no service gets a pid that is free.
LEMMA StopReused ==
  ASSUME LaunchInv, StopInv, NEW p \in Pids, Reuses(p)
  PROVE  StopInv'
<1>1. /\ p \notin strangers /\ \A j \in Services : Alive(j) => service[j].pid # p
      /\ \A l \in Launchers : command[l].step = "strike" => command[l].found.pid # p
  BY DEF Reuses, Free, Running
<1>2. strangers' = strangers \cup {p} /\ UNCHANGED <<claim, service, command>>
  BY DEF Reuses
<1>3. PidsApart' /\ ClaimNames' /\ FoundNames'
  BY <1>1, <1>2 DEF StopInv, PidsApart, ClaimNames, FoundNames, Names, Alive
<1>4. StopStrikesItsService'
  BY <1>1, <1>2 DEF StopInv, StopStrikesItsService, Alive, At
<1> QED BY <1>3, <1>4 DEF StopInv

LEMMA ServiceStops ==
  ASSUME LaunchInv, StopInv, NEW i \in Services, ServiceSteps(i)
  PROVE  StopInv'
<1>1. service[i].phase # "none" /\ \E p \in Phases \ {"none"} : Phase(i, p)
  BY DEF ServiceSteps, Acquires, Opens, Publishes, Removes, Stops, Crashes, Alive, Phases
<1>2. Alive(i)
  BY DEF ServiceSteps, Acquires, Opens, Publishes, Removes, Stops, Crashes, Alive
<1>3. /\ service'[i].phase # "none" /\ service'[i].pid = service[i].pid
      /\ \A j \in Services : j # i => service'[j] = service[j]
  BY <1>1, PhaseMoves DEF LaunchInv
<1>4. PidsKept /\ NoneBorn
  BY <1>2, <1>3 DEF PidsKept, NoneBorn, Alive
<1>5. (claim' \in Claims => claim' = claim) \/ ClaimNames'
  <2>1. CASE Publishes(i)
    <3>1. claim' = claim \/ (claim'.id = i /\ claim'.pid = service[i].pid)
      BY <2>1 DEF Publishes
    <3> QED BY <1>3, <3>1 DEF ClaimNames, Names
  <2>2. CASE ~ Publishes(i)
    BY <2>2, LaunchNullAssumption DEF ServiceSteps, Acquires, Opens, Removes, Stops, Crashes
  <2> QED BY <2>1, <2>2
<1>6. UNCHANGED <<command, strangers>>
  BY DEF ServiceSteps, Acquires, Opens, Publishes, Removes, Stops, Crashes
<1> QED BY <1>4, <1>5, <1>6, StopQuiet DEF Aims

-----------------------------------------------------------------------------
LEMMA OneOrder ==
  ASSUME LaunchInv, NEW l \in Launchers, NEW n, command' = [command EXCEPT ![l] = n]
  PROVE  command'[l] = n /\ \A m \in Launchers : m # l => command'[m] = command[m]
BY DEF LaunchInv, CommandsOK

LEMMA EndsAim ==
  ASSUME LaunchInv, NEW l \in Launchers, Ends(l)
  PROVE  \A m \in Launchers : command'[m].step \notin {"decide", "strike"} \/ command'[m] = command[m]
BY OneOrder DEF Ends, NoCommand

LEMMA GoesAim ==
  ASSUME LaunchInv, NEW l \in Launchers, NEW s \in Steps, Goes(l, s)
  PROVE  /\ \A m \in Launchers : m # l => command'[m] = command[m]
         /\ command'[l].step = s /\ command'[l].found = command[l].found
         /\ command'[l].catalog = command[l].catalog
<1> DEFINE n == [command[l] EXCEPT !.step = s]
<1>1. command[l] \in Orders
  BY DEF LaunchInv, CommandsOK
<1>2. n.step = s /\ n.found = command[l].found /\ n.catalog = command[l].catalog
  BY <1>1 DEF Orders
<1>3. command' = [command EXCEPT ![l] = n]
  BY DEF Goes
<1> HIDE DEF n
<1> QED BY <1>2, <1>3, OneOrder

LEMMA StoppedAim ==
  ASSUME LaunchInv, NEW l \in Launchers, Stopped(l)
  PROVE  \A m \in Launchers : command'[m].step \notin {"decide", "strike"} \/ command'[m] = command[m]
<1>1. CASE command[l].op = "restart" /\ config # Null
  <2> DEFINE n == [NoCommand EXCEPT !.op = "open", !.step = "look", !.catalog = config]
  <2>1. n.step = "look"
    BY DEF NoCommand
  <2>2. command' = [command EXCEPT ![l] = n]
    BY <1>1 DEF Stopped
  <2> HIDE DEF n
  <2> QED BY <2>1, <2>2, OneOrder
<1>2. CASE ~(command[l].op = "restart" /\ config # Null)
  BY <1>2, EndsAim DEF Stopped
<1> QED BY <1>1, <1>2

\* A command that leaves the processes alone.
LEMMA StopReads ==
  ASSUME LaunchInv, StopInv, UNCHANGED <<service, strangers>>, claim' = claim \/ claim' = Null,
         \A l \in Launchers : Aims(l)
  PROVE  StopInv'
<1>1. PidsKept /\ NoneBorn
  BY DEF PidsKept, NoneBorn, Alive
<1>2. claim' \in Claims => claim' = claim
  BY LaunchNullAssumption
<1> QED BY <1>1, <1>2, StopQuiet

LEMMA GivesStops ==
  ASSUME LaunchInv, StopInv, NEW l \in Launchers, NEW op \in {"open", "restart", "stop"},
         NEW c \in Catalogs \cup {Null}, Gives(l, op, c)
  PROVE  StopInv'
<1> DEFINE n == [NoCommand EXCEPT !.op = op, !.catalog = c, !.step = "lock"]
<1>1. n.step = "lock"
  BY DEF NoCommand
<1>2. command' = [command EXCEPT ![l] = n]
  BY DEF Gives
<1> HIDE DEF n
<1>3. \A m \in Launchers : Aims(m)
  BY <1>1, <1>2, OneOrder DEF Aims
<1> QED BY <1>3, StopReads DEF Gives

LEMMA LooksToOpenStops ==
  ASSUME LaunchInv, StopInv, NEW l \in Launchers, LooksToOpen(l)
  PROVE  StopInv'
<1> DEFINE s == IF claim \in {Null, Garbled} THEN "spawn" ELSE "check"
           n == [command[l] EXCEPT !.found = Seen, !.step = s]
<1>1. command' = [command EXCEPT ![l] = n]
  BY DEF LooksToOpen, LaunchInv, CommandsOK
<1>2. n.step = s /\ s \in {"check", "spawn"}
  BY DEF LaunchInv, CommandsOK, Orders
<1> HIDE DEF n, s
<1>3. \A m \in Launchers : Aims(m)
  BY <1>1, <1>2, OneOrder DEF Aims
<1> QED BY <1>3, StopReads DEF LooksToOpen

LEMMA SpawnsStops ==
  ASSUME LaunchInv, StopInv, NEW l \in Launchers, Spawns(l)
  PROVE  StopInv'
<1>1. CASE \E i \in Services, p \in Pids :
             Spawned(i, command[l].catalog, p)
             /\ command' = [command EXCEPT ![l].child = i, ![l].step = "wait"]
  <2>1. PICK i \in Services, p \in Pids :
          Spawned(i, command[l].catalog, p)
          /\ command' = [command EXCEPT ![l].child = i, ![l].step = "wait"]
    BY <1>1
  <2> DEFINE n == [command[l] EXCEPT !.child = i, !.step = "wait"]
  <2>2. n.step = "wait" /\ command[l].catalog \in Catalogs
    BY DEF LaunchInv, CommandsOK, Orders, Spawns, At, Knows
  <2>3. command' = [command EXCEPT ![l] = n]
    BY <2>1 DEF LaunchInv, CommandsOK
  <2> HIDE DEF n
  <2>4. \A m \in Launchers : command'[m].step \notin {"decide", "strike"} \/ command'[m] = command[m]
    BY <2>2, <2>3, OneOrder
  <2> QED BY <2>1, <2>2, <2>4, StopSpawned DEF Spawns
<1>2. CASE Ends(l) /\ UNCHANGED service
  BY <1>2, EndsAim, StopReads DEF Spawns, Aims
<1> QED BY <1>1, <1>2 DEF Spawns

LEMMA LooksToStopStops ==
  ASSUME LaunchInv, StopInv, NEW l \in Launchers, LooksToStop(l)
  PROVE  StopInv'
<1>1. command[l] \in Orders
  BY DEF LaunchInv, CommandsOK
<1>2. CASE claim \in Claims /\ command' =
             [command EXCEPT ![l].found = claim, ![l].catalog = config, ![l].step = "decide"]
  <2> DEFINE n == [command[l] EXCEPT !.found = claim, !.catalog = config, !.step = "decide"]
  <2>1. n.step = "decide" /\ n.found = claim
    BY <1>1 DEF Orders
  <2>2. command' = [command EXCEPT ![l] = n]
    BY <1>2 DEF LaunchInv, CommandsOK
  <2> HIDE DEF n
  <2>3. claim \in Claims
    BY <1>2
  <2>4. /\ command'[l].step = "decide" /\ command'[l].found = claim
        /\ \A m \in Launchers : m # l => command'[m] = command[m]
    BY <2>1, <2>2, OneOrder
  <2>5. \A m \in Launchers : Aims(m)
    BY <2>3, <2>4 DEF Aims
  <2> QED BY <2>5, StopReads DEF LooksToStop
<1>3. CASE command' = [command EXCEPT ![l].op = "open", ![l].catalog = config]
  <2> DEFINE n == [command[l] EXCEPT !.op = "open", !.catalog = config]
  <2>1. n.step = "look"
    BY <1>1 DEF Orders, LooksToStop, At
  <2>2. command' = [command EXCEPT ![l] = n]
    BY <1>3 DEF LaunchInv, CommandsOK
  <2> HIDE DEF n
  <2>3. \A m \in Launchers : Aims(m)
    BY <2>1, <2>2, OneOrder DEF Aims
  <2> QED BY <2>3, StopReads DEF LooksToStop
<1>4. CASE Ends(l)
  BY <1>4, EndsAim, StopReads DEF LooksToStop, Aims
<1>5. claim \in Claims \/ claim = Garbled \/ claim = Null
  BY DEF LaunchInv, RestOK
<1> QED BY <1>2, <1>3, <1>4, <1>5 DEF LooksToStop

\* the answer is the service's own: it serves, and for the catalog that is selected
LEMMA DecidesStops ==
  ASSUME LaunchInv, StopInv, NEW l \in Launchers, Decides(l)
  PROVE  StopInv'
<1>1. PICK answers \in Answers(command[l].found) :
        CASE Disposition(l, answers) = "refuse" -> Ends(l) /\ UNCHANGED claim
          [] Disposition(l, answers) = "stop"   -> Goes(l, "strike") /\ UNCHANGED claim
          [] OTHER -> (IF claim = Null THEN Ends(l) ELSE Stopped(l)) /\ claim' = Null
  BY DEF Decides
<1>2. UNCHANGED <<service, strangers>> /\ (claim' = claim \/ claim' = Null)
  BY <1>1 DEF Decides
<1>3. CASE Ends(l) \/ Stopped(l)
  BY <1>2, <1>3, EndsAim, StoppedAim, StopReads DEF Aims
<1>4. CASE Disposition(l, answers) = "stop" /\ Goes(l, "strike")
  <2>1. command[l].found.catalog = command[l].catalog /\ answers
    BY <1>4 DEF Disposition
  <2>2. service[command[l].found.id].phase = "serving"
    BY <2>1 DEF Answers, Healthy
  <2>3. /\ \A m \in Launchers : m # l => command'[m] = command[m]
        /\ command'[l].step = "strike" /\ command'[l].found = command[l].found
        /\ command'[l].catalog = command[l].catalog
    BY <1>4, GoesAim DEF Steps
  <2>4. \A m \in Launchers : Aims(m)
    BY <2>1, <2>2, <2>3 DEF Aims, Decides, At
  <2> QED BY <1>2, <2>4, StopReads
<1> QED BY <1>1, <1>3, <1>4

LEMMA StrikesStops ==
  ASSUME LaunchInv, StopInv, NEW l \in Launchers, Strikes(l)
  PROVE  StopInv'
<1> DEFINE p == command[l].found.pid
<1>1. CASE Ends(l) /\ UNCHANGED <<service, strangers, desktop>>
  <2>1. Ends(l) /\ UNCHANGED <<service, strangers, claim>>
    BY <1>1 DEF Strikes
  <2> QED BY <2>1, EndsAim, StopReads DEF Aims
<1>2. CASE ~ (Ends(l) /\ UNCHANGED <<service, strangers, desktop>>)
  <2>1. PICK phase \in {"closing", "gone"} :
          service' = [i \in Services |->
            IF Alive(i) /\ service[i].pid = p
            THEN [service[i] EXCEPT !.phase =
                    IF phase = "closing" /\ @ # "serving" THEN @ ELSE phase]
            ELSE service[i]]
    BY <1>2 DEF Strikes
  <2>2. ASSUME NEW i \in Services
        PROVE  /\ service[i].phase # "none" =>
                    service'[i].phase # "none" /\ service'[i].pid = service[i].pid
               /\ Alive(i)' => Alive(i)
    <3>1. service[i] \in Rows
      BY DEF LaunchInv, ServicesOK
    <3>2. CASE Alive(i) /\ service[i].pid = p
      <4> DEFINE q == IF phase = "closing" /\ service[i].phase # "serving" THEN service[i].phase
                      ELSE phase
      <4>1. service'[i] = [service[i] EXCEPT !.phase = q]
        BY <2>1, <3>2
      <4>2. q # "none"
        BY <3>2 DEF Alive
      <4> HIDE DEF q
      <4> QED BY <3>1, <3>2, <4>1, <4>2 DEF Rows
    <3>3. CASE ~(Alive(i) /\ service[i].pid = p)
      <4>1. service'[i] = service[i]
        BY <2>1, <3>3
      <4> QED BY <4>1 DEF Alive
    <3> QED BY <3>2, <3>3
  <2>3. PidsKept /\ NoneBorn
    BY <2>2 DEF PidsKept, NoneBorn
  <2>4. strangers' \subseteq strangers /\ claim' = claim
    BY <1>2 DEF Strikes
  <2>5. Goes(l, "await")
    BY <1>2 DEF Strikes
  <2>6. \A m \in Launchers : Aims(m)
    BY <2>5, GoesAim DEF Steps, Aims
  <2> QED BY <2>3, <2>4, <2>6, StopQuiet
<1> QED BY <1>1, <1>2

LEMMA CommandStops ==
  ASSUME LaunchInv, StopInv, NEW l \in Launchers, Locks(l) \/ Commands(l)
  PROVE  StopInv'
<1>1. CASE Locks(l)
  <2>1. Goes(l, "look") /\ UNCHANGED <<service, strangers, claim>>
    BY <1>1 DEF Locks
  <2>2. \A m \in Launchers : Aims(m)
    BY <2>1, GoesAim DEF Steps, Aims
  <2> QED BY <2>1, <2>2, StopReads
<1>2. CASE Checks(l)
  <2>1. /\ Ends(l) \/ Goes(l, "spawn")
        /\ UNCHANGED <<service, strangers>> /\ (claim' = claim \/ claim' = Null)
    BY <1>2 DEF Checks
  <2>2. \A m \in Launchers : Aims(m)
    BY <2>1, EndsAim, GoesAim DEF Steps, Aims
  <2> QED BY <2>1, <2>2, StopReads
<1>3. CASE Waits(l)
  BY <1>3, EndsAim, StopReads DEF Waits, Aims
<1>4. CASE Awaits(l)
  <2>1. /\ Ends(l) \/ Stopped(l)
        /\ UNCHANGED <<service, strangers>> /\ (claim' = claim \/ claim' = Null)
    BY <1>4 DEF Awaits
  <2> QED BY <2>1, EndsAim, StoppedAim, StopReads DEF Aims
<1> QED BY <1>1, <1>2, <1>3, <1>4, LooksToOpenStops, SpawnsStops, LooksToStopStops, DecidesStops,
           StrikesStops DEF Commands

LEMMA DesktopStops ==
  ASSUME LaunchInv, StopInv, DesktopSteps
  PROVE  StopInv'
<1>1. desktop.id \in Services
  BY DEF DesktopSteps, DesktopOpens, DesktopFails, DesktopQuits, DesktopCloses, DesktopNotices,
         DesktopExits, LaunchInv, DesktopOK
<1>2. \/ UNCHANGED service
      \/ Alive(desktop.id) /\ Phase(desktop.id, "gone")
      \/ service[desktop.id].phase = "serving" /\ Phase(desktop.id, "closing")
  BY DEF DesktopSteps, DesktopOpens, DesktopFails, DesktopQuits, DesktopCloses, DesktopNotices,
         DesktopExits
<1>3. UNCHANGED <<command, claim, strangers>>
  BY DEF DesktopSteps, DesktopOpens, DesktopFails, DesktopQuits, DesktopCloses, DesktopNotices,
         DesktopExits
<1>4. CASE UNCHANGED service
  BY <1>3, <1>4, StopReads DEF Aims
<1>5. CASE ~ UNCHANGED service
  <2>1. PICK q \in {"gone", "closing"} : Phase(desktop.id, q) /\ Alive(desktop.id)
    BY <1>2, <1>5 DEF Alive
  <2>2. /\ service'[desktop.id].phase = q /\ service'[desktop.id].pid = service[desktop.id].pid
        /\ \A j \in Services : j # desktop.id => service'[j] = service[j]
    BY <1>1, <2>1, PhaseMoves DEF LaunchInv, Phases, Alive
  <2>3. PidsKept /\ NoneBorn
    BY <2>1, <2>2 DEF PidsKept, NoneBorn, Alive
  <2> QED BY <1>3, <2>3, StopQuiet DEF Aims
<1> QED BY <1>4, <1>5

LEMMA StopStep == LaunchInv /\ StopInv /\ [LaunchNext]_launchVars => StopInv'
<1> SUFFICES ASSUME LaunchInv, StopInv, [LaunchNext]_launchVars PROVE StopInv'
  OBVIOUS
<1>1. CASE UNCHANGED launchVars
  BY <1>1, StopReads DEF launchVars, Aims
<1>2. CASE \E i \in Services : ServiceSteps(i)
  BY <1>2, ServiceStops
<1>3. CASE \E p \in Pids : Reuses(p)
  BY <1>3, StopReused
<1>4. CASE \E l \in Launchers, op \in {"open", "restart", "stop"}, c \in Catalogs \cup {Null} :
             Gives(l, op, c)
  BY <1>4, GivesStops
<1>5. CASE \E l \in Launchers : Locks(l) \/ Commands(l)
  BY <1>5, CommandStops
<1>6. CASE \E c \in Catalogs, i \in Services, p \in Pids : DesktopStarts(c, i, p)
  BY <1>6, StopSpawned DEF DesktopStarts
<1>7. CASE DesktopSteps
  BY <1>7, DesktopStops
<1> QED BY <1>1, <1>2, <1>3, <1>4, <1>5, <1>6, <1>7 DEF LaunchNext, ServiceSteps, DesktopSteps

\* A stop strikes its service only, of the selected catalog, though pids of services that have
\* ended are given again to others (stop_disposition asks the service before stop_process).
THEOREM StopsStrikeTheirOwn == LaunchSpec => []StopStrikesItsService
<1>1. StopInv => StopStrikesItsService
  BY DEF StopInv
<1> QED BY <1>1, LaunchInits, LaunchStep, StopInits, StopStep, PTL DEF LaunchSpec

-----------------------------------------------------------------------------
(* The migration.                                                           *)

\* what a run may have read: the roots of one version, the rest of another
LoadedWith(roots) == {[s EXCEPT !.roots = roots] : s \in Legacy}
Loaded == UNION {LoadedWith(t.roots) : t \in Legacy}

RunRows == [phase : RunPhases, status : Statuses, before : Nat, since : Nat,
            loaded : Loaded \cup {Nil}, agrees : BOOLEAN, alone : BOOLEAN]

IsContent(c) ==
  /\ c = [roots |-> c.roots, rows |-> c.rows, tags |-> c.tags, links |-> c.links]
  /\ \A root \in c.roots :
       root = [path |-> root.path, source |-> root.source, active |-> root.active]
  /\ \A row \in c.rows :
       /\ row = [id |-> row.id, path |-> row.path, kind |-> row.kind, root |-> row.root,
                 meta |-> row.meta]
       /\ row.root = Nil \/ \E root \in c.roots : root.path = row.root

\* Without sidecars the main file holds all there is.
IsTarget(t) ==
  /\ t = [content |-> t.content, version |-> t.version, main |-> t.main,
          sidecars |-> t.sidecars, open |-> t.open]
  /\ t.version \in Nat /\ t.open \in BOOLEAN /\ t.sidecars \in BOOLEAN /\ IsContent(t.content)
  /\ t.main.version \in 0 .. t.version /\ IsContent(t.main.content)
  /\ t.main.version = t.version => t.main.content = t.content
  /\ t.open => t.sidecars
  /\ ~ t.sidecars => t.main.version = t.version

Rewritten(t, c) == [t EXCEPT !.content = c, !.version = @ + 1]

AllEnded == \A r \in Runs : run[r].phase \in Ended

SourceOK ==
  /\ source = [history |-> source.history, main |-> source.main, open |-> source.open]
  /\ source.history \in Seq(Legacy) /\ source.open \in BOOLEAN
  /\ source.main \in 1 .. Version
  /\ ~ source.open => source.main = Version

\* what a run knows of the source, as long as its main file did not change
Reads(r) ==
  /\ run[r].before <= source.main /\ run[r].since <= Version
  /\ run[r].phase = "hashing" => run[r].since <= source.main
  /\ run[r].phase \in {"roots", "rows", "blocked", "open", "import", "validate", "finish"} =>
       run[r].since <= run[r].before
  /\ run[r].phase \in {"rows", "blocked", "open", "import", "validate", "finish"} =>
       run[r].loaded \in Loaded /\ (run[r].before = source.main => run[r].loaded = InMain)
  /\ run[r].phase \in {"open", "import", "validate", "finish"} => Clear(run[r].loaded)

\* nobody touches the target of a run that is alone
Fills(r) ==
  UnderWay(r) /\ run[r].alone =>
    /\ \A q \in Runs \ {r} : ~ UnderWay(q)
    /\ run[r].phase = "finish" => target # Nil
    /\ run[r].phase \in {"validate", "finish"} /\ target # Nil =>
         target.content = Prepared(run[r].loaded)

\* what an audit has seen of the catalog it has read
HasSeen(c) ==
  /\ audit.sound => \A root \in c.roots : root.active
  /\ \A row \in c.rows :
       \/ row \in audit.todo
       \/ audit.sound => /\ row \in audit.right /\ row.root # Nil
                         /\ IsStrictPrefix(row.root, row.path)

AuditOK ==
  /\ audit = [phase |-> audit.phase, before |-> audit.before, sound |-> audit.sound,
              todo |-> audit.todo, right |-> audit.right, began |-> audit.began]
  /\ audit.phase = "off" => audit.before = 0
  /\ audit.phase # "off" => /\ AllEnded /\ IsTarget(target)
                            /\ audit.before \in Nat /\ audit.before <= target.main.version
  /\ audit.phase \in {"reading", "looking"} /\ audit.before = target.main.version =>
       target.main.content = audit.began
  /\ audit.phase = "looking" =>
       /\ \A row \in audit.todo : disk[row.path] = row.kind => row \in audit.right
       /\ audit.before = target.main.version => HasSeen(audit.began)

MigrationInv ==
  /\ SourceOK
  /\ \A r \in Runs : HasOpen(r) => IsTarget(target) /\ ~ target.open /\ target.sidecars
  /\ run \in [Runs -> RunRows] /\ \A r \in Runs : Reads(r) /\ Fills(r)
  /\ target # Nil => IsTarget(target) /\ (target.open => AllEnded)
  /\ AuditOK

(* The owner of a path is the deepest of the roots that hold it, the last   *)
(* one of these.                                                            *)
LEMMA LeastOf ==
  ASSUME NEW S \in SUBSET Nat, S # {}
  PROVE  \E m \in S : \A n \in S : m <= n
<1>1. PICK m \in S : \A n \in S : <<n, m>> \notin OpToRel(<, Nat)
  BY WFMin, NatLessThanWellFounded
<1>2. \A n \in S : ~(n < m)
  BY <1>1, Zenon DEF OpToRel
<1> QED BY <1>2

\* What a sequence has at a place is an element.
LEMMA ElementOf == ASSUME NEW S, NEW s \in Seq(S), NEW i \in DOMAIN s PROVE s[i] \in S
OBVIOUS

LEMMA OwnerIs ==
  ASSUME NEW path \in Paths, NEW roots \in Seq([path : Paths, source : STRING, label : BOOLEAN]),
         Holding(path, roots) # {}
  PROVE  /\ Owner(path, roots) \in Holding(path, roots)
         /\ \A j \in Holding(path, roots) : Len(roots[j].path) <= Len(roots[Owner(path, roots)].path)
<1>0. PICK H, l, n : /\ H = Holding(path, roots) /\ l = [i \in H |-> Len(roots[i].path)]
                     /\ n = Len(roots)
  OBVIOUS
<1>1. n \in Nat /\ \A i \in H : i \in 1 .. n
  BY <1>0 DEF Holding
<1>2. \A i \in H : l[i] = Len(roots[i].path) /\ l[i] \in Nat /\ l[i] <= Len(path)
  <2> TAKE i \in H
  <2>1. i \in DOMAIN roots /\ IsStrictPrefix(roots[i].path, path)
    BY <1>0 DEF Holding
  <2>2. roots[i] \in [path : Paths, source : STRING, label : BOOLEAN]
    BY <2>1, ElementOf
  <2>3. roots[i].path \in Seq(STRING)
    BY <2>2, PathsAssumption
  <2>4. Len(roots[i].path) <= Len(path)
    BY <2>1 DEF IsStrictPrefix, IsPrefix
  <2> QED BY <1>0, <2>3, <2>4
<1>3. Len(path) \in Nat
  BY PathsAssumption
<1>4. PICK m \in H : \A i \in H : l[i] <= l[m]
  <2> DEFINE S == {Len(path) - l[i] : i \in H}
  <2>1. S \subseteq Nat /\ S # {}
    <3>1. H # {}
      BY <1>0
    <3>2. \A i \in H : Len(path) - l[i] \in Nat
      BY <1>2, <1>3
    <3> QED BY <3>1, <3>2, Zenon
  <2>2. PICK k \in S : \A j \in S : k <= j
    BY <2>1, LeastOf, Zenon
  <2>3. PICK m \in H : k = Len(path) - l[m]
    OBVIOUS
  <2>4. \A i \in H : Len(path) - l[m] <= Len(path) - l[i]
    BY <2>2, <2>3
  <2>5. \A i \in H : l[i] <= l[m]
    BY <1>2, <1>3, <2>4
  <2> QED BY <2>5
<1>5. PICK o \in H : l[o] = l[m] /\ \A i \in H : l[i] = l[m] => i <= o
  <2> DEFINE G == {i \in H : l[i] = l[m]}
             S == {n - i : i \in G}
  <2>1. S \subseteq Nat /\ S # {}
    BY <1>1
  <2>2. PICK k \in S : \A j \in S : k <= j
    BY <2>1, LeastOf, Zenon
  <2>3. PICK o \in H : l[o] = l[m] /\ k = n - o
    OBVIOUS
  <2>4. \A i \in H : l[i] = l[m] => n - o <= n - i
    BY <2>2, <2>3
  <2>5. \A i \in H : l[i] = l[m] => i <= o
    BY <1>1, <2>4
  <2> QED BY <2>3, <2>5
<1> DEFINE Deepest(i) == \A j \in H : \/ Len(roots[j].path) < Len(roots[i].path)
                                      \/ Len(roots[j].path) = Len(roots[i].path) /\ j <= i
<1>6. Deepest(o)
  <2> SUFFICES ASSUME NEW j \in H PROVE l[j] < l[o] \/ (l[j] = l[o] /\ j <= o)
    BY <1>2
  <2> QED BY <1>2, <1>4, <1>5
<1>7. Owner(path, roots) = CHOOSE i \in H : Deepest(i)
  BY <1>0 DEF Owner
<1>8. Owner(path, roots) \in H /\ Deepest(Owner(path, roots))
  <2> HIDE DEF Deepest
  <2> QED BY <1>6, <1>7
<1>9. \A j \in H : Len(roots[j].path) <= Len(roots[Owner(path, roots)].path)
  <2> TAKE j \in H
  <2>1. Len(roots[j].path) \in Nat /\ Len(roots[Owner(path, roots)].path) \in Nat
    BY <1>2, <1>8
  <2> QED BY <1>8, <2>1
<1> QED BY <1>0, <1>8, <1>9

(* What a row of a catalog that can be carried over says of its roots.      *)
LEMMA ClearRows ==
  ASSUME NEW s \in Legacy, Clear(s), NEW row \in s.rows
  PROVE  /\ RowFault(row, s.roots) = "none" /\ row.fault = "none"
         /\ Owner(row.path, s.roots) \in DOMAIN s.roots
         /\ IsStrictPrefix(s.roots[Owner(row.path, s.roots)].path, row.path)
         /\ row.source = s.roots[Owner(row.path, s.roots)].source
         /\ \A j \in DOMAIN s.roots : IsStrictPrefix(s.roots[j].path, row.path) =>
              Len(s.roots[j].path) <= Len(s.roots[Owner(row.path, s.roots)].path)
<1> DEFINE o == Owner(row.path, s.roots)
<1>1. s.roots \in Seq([path : Paths, source : STRING, label : BOOLEAN]) /\ row.path \in Paths
        /\ row.fault # "skipped"
  BY LegacyAssumption
<1>2. RowFault(row, s.roots) \in {"none", "skipped"}
  BY DEF Clear, Issues
<1>3. \A i \in DOMAIN s.roots : RootFault(i, s.roots) \in {"none", "skipped"}
  BY DEF Clear, Issues
<1>4. row.fault = "none"
  BY <1>1, <1>2 DEF RowFault
<1>5. Holding(row.path, s.roots) # {}
  BY <1>2, <1>4 DEF RowFault
<1>6. o \in Holding(row.path, s.roots) /\ \A j \in Holding(row.path, s.roots) :
        Len(s.roots[j].path) <= Len(s.roots[o].path)
  BY <1>1, <1>5, OwnerIs
<1>7. o \in DOMAIN s.roots /\ IsStrictPrefix(s.roots[o].path, row.path)
  BY <1>6 DEF Holding
<1>8. s.roots[o].source \in RootSources
  BY <1>3, <1>7 DEF RootFault
<1>9. RowFault(row, s.roots) = "none" /\ row.source = s.roots[o].source
  BY <1>2, <1>4, <1>5, <1>8 DEF RowFault
<1> QED BY <1>4, <1>6, <1>7, <1>9 DEF Holding

(* Nothing is left out of what a clear catalog is made into.                *)
LEMMA PreparedParts ==
  ASSUME NEW s \in Legacy, Clear(s)
  PROVE  /\ Prepared(s).rows = {Collection(row, s.roots) : row \in s.rows}
         /\ Prepared(s).roots = {[path |-> s.roots[i].path, source |-> s.roots[i].source,
                                  active |-> TRUE] : i \in DOMAIN s.roots}
         /\ Prepared(s).tags = s.tags /\ Prepared(s).links = s.links
<1>1. \A i \in DOMAIN s.roots : RootFault(i, s.roots) = "none"
  <2> TAKE i \in DOMAIN s.roots
  <2>1. RootFault(i, s.roots) \in {"none", "skipped"}
    BY DEF Clear, Issues
  <2>2. RootFault(i, s.roots) # "skipped"
    BY DEF RootFault
  <2> QED BY <2>1, <2>2
<1>2. \A row \in s.rows : RowFault(row, s.roots) = "none"
  BY ClearRows
<1>3. {row \in s.rows : RowFault(row, s.roots) = "none"} = s.rows
  BY <1>2
<1>4. {i \in DOMAIN s.roots : RootFault(i, s.roots) = "none"} = DOMAIN s.roots
  BY <1>1
<1> QED BY <1>3, <1>4 DEF Prepared

LEMMA PreparedCarries ==
  ASSUME NEW s \in Legacy, Clear(s)
  PROVE  Carries(Prepared(s), s)
<1>. PICK p : p = Prepared(s)
  OBVIOUS
<1> DEFINE f == [row \in s.rows |-> Collection(row, s.roots)]
<1>1. /\ p.rows = {Collection(row, s.roots) : row \in s.rows}
      /\ p.roots = {[path |-> s.roots[i].path, source |-> s.roots[i].source, active |-> TRUE] :
                       i \in DOMAIN s.roots}
      /\ p.tags = s.tags /\ p.links = s.links
  BY PreparedParts
<1>2. ASSUME NEW row \in s.rows
      PROVE  LET c == Collection(row, s.roots)
             IN /\ c.id = row.id /\ c.path = row.path /\ c.kind = row.kind /\ c.meta = row.meta
                /\ c.root = s.roots[Owner(row.path, s.roots)].path
  BY DEF Collection
<1>3. {[id |-> c.id, path |-> c.path, kind |-> c.kind, meta |-> c.meta] : c \in p.rows}
       = {[id |-> row.id, path |-> row.path, kind |-> row.kind, meta |-> row.meta] : row \in s.rows}
  BY <1>1, <1>2
<1>4. Cardinality(p.rows) = Cardinality(s.rows)
  <2>1. \A row, other \in s.rows : f[row] = f[other] => row = other
    BY <1>2, LegacyAssumption
  <2>2. \A row \in s.rows : f[row] \in p.rows
    BY <1>1
  <2>3. \A c \in p.rows : \E row \in s.rows : f[row] = c
    BY <1>1
  <2>4. DOMAIN f = s.rows /\ f = [row \in s.rows |-> f[row]]
    OBVIOUS
  <2> HIDE DEF f
  <2>5. f \in [s.rows -> p.rows]
    BY <2>2, <2>4
  <2>6. f \in Bijection(s.rows, p.rows)
    BY <2>1, <2>3, <2>5 DEF Bijection, Injection, Surjection, IsInjective
  <2>7. IsFiniteSet(s.rows)
    BY LegacyAssumption
  <2> QED BY <2>6, <2>7, FS_Bijection DEF ExistsBijection
<1>5. {<<root.path, root.source>> : root \in p.roots}
        = {<<s.roots[i].path, s.roots[i].source>> : i \in DOMAIN s.roots}
  <2>1. \A r \in p.roots : \E i \in DOMAIN s.roots :
          r.path = s.roots[i].path /\ r.source = s.roots[i].source
    BY <1>1
  <2>2. ASSUME NEW i \in DOMAIN s.roots
        PROVE  \E r \in p.roots : r.path = s.roots[i].path /\ r.source = s.roots[i].source
    <3>. PICK r : r = [path |-> s.roots[i].path, source |-> s.roots[i].source, active |-> TRUE]
      OBVIOUS
    <3>1. r \in p.roots
      BY <1>1
    <3> QED BY <3>1
  <2>3. ASSUME NEW x PROVE
          (\E r \in p.roots : x = <<r.path, r.source>>)
            <=> \E i \in DOMAIN s.roots : x = <<s.roots[i].path, s.roots[i].source>>
    BY <2>1, <2>2
  <2> QED BY <2>3, Zenon
<1>6. ASSUME NEW row \in s.rows, NEW c \in p.rows, row.id = c.id
      PROVE  \E root \in p.roots : /\ root.path = c.root /\ root.source = row.source
                                   /\ Innermost(row.path, root, p.roots)
  <2>1. PICK other \in s.rows : c = Collection(other, s.roots)
    BY <1>1
  <2>2. other = row
    BY <1>2, <1>6, <2>1, LegacyAssumption
  <2>. PICK o : o = Owner(row.path, s.roots)
    OBVIOUS
  <2>3. /\ o \in DOMAIN s.roots /\ IsStrictPrefix(s.roots[o].path, row.path)
        /\ row.source = s.roots[o].source
        /\ \A j \in DOMAIN s.roots : IsStrictPrefix(s.roots[j].path, row.path) =>
              Len(s.roots[j].path) <= Len(s.roots[o].path)
    BY ClearRows
  <2>4. c.root = s.roots[o].path
    BY <1>2, <2>1, <2>2
  <2>. PICK root : root = [path |-> s.roots[o].path, source |-> s.roots[o].source, active |-> TRUE]
    OBVIOUS
  <2>5. root \in p.roots /\ root.path = s.roots[o].path /\ root.source = s.roots[o].source
    BY <1>1, <2>3
  <2>6. \A r \in p.roots : \E j \in DOMAIN s.roots : r.path = s.roots[j].path
    BY <1>1
  <2>7. Innermost(row.path, root, p.roots)
    <3>1. ASSUME NEW r \in p.roots, IsStrictPrefix(r.path, row.path)
          PROVE  Len(r.path) <= Len(root.path)
      <4>1. PICK j \in DOMAIN s.roots : r.path = s.roots[j].path
        BY <2>6
      <4>2. IsStrictPrefix(s.roots[j].path, row.path)
        BY <3>1, <4>1
      <4>3. Len(s.roots[j].path) <= Len(s.roots[o].path)
        BY <2>3, <4>2
      <4> QED BY <2>5, <4>1, <4>3
    <3> QED BY <2>3, <2>5, <3>1 DEF Innermost
  <2> QED BY <2>3, <2>4, <2>5, <2>7
<1> QED BY <1>1, <1>3, <1>4, <1>5, <1>6 DEF Carries

(* What is imported is a content of a catalog.                              *)
LEMMA PreparedIsContent ==
  ASSUME NEW s, Importable(Prepared(s))
  PROVE  IsContent(Prepared(s))
<1>. PICK p : p = Prepared(s)
  OBVIOUS
<1>1. /\ p = [roots |-> p.roots, rows |-> p.rows, tags |-> p.tags, links |-> p.links]
      /\ \A root \in p.roots :
           root = [path |-> root.path, source |-> root.source, active |-> root.active]
  BY DEF Prepared
<1>2. \A row \in p.rows : row = [id |-> row.id, path |-> row.path, kind |-> row.kind,
                                 root |-> row.root, meta |-> row.meta]
  BY DEF Prepared, Collection
<1>3. \A row \in p.rows : \E root \in p.roots : root.path = row.root
  BY DEF Importable
<1> QED BY <1>1, <1>2, <1>3 DEF IsContent

\* The source has a version, which is a legacy catalog, and one in its main file.
LEMMA SourceIs ==
  ASSUME SourceOK
  PROVE  /\ Version \in Nat \ {0} /\ Current \in Legacy
         /\ source.main \in 1 .. Version /\ InMain \in Legacy
BY DEF SourceOK, Version, Current, InMain

(* A run is under way: nobody else is at the target, but other runs.        *)
LEMMA RunSteps ==
  ASSUME MigrationInv, NEW r \in Runs, UnderWay(r), NEW x \in RunRows,
         run' = [run EXCEPT ![r] = x], UNCHANGED <<source, disk, audit>>,
         \/ target' = target
         \/ /\ IsTarget(target') /\ ~ target'.open
            /\ target'.sidecars \/ \A q \in Runs \ {r} : ~ HasOpen(q)
         \/ target' = Nil /\ \A q \in Runs \ {r} : ~ HasOpen(q),
         x.phase = "import" => IsTarget(target') /\ ~ target'.open /\ target'.sidecars,
         Reads(r)',
         x.phase \notin Ended /\ x.alone =>
           /\ run[r].alone
           /\ x.phase = "finish" => target' # Nil
           /\ x.phase \in {"validate", "finish"} /\ target' # Nil =>
                target'.content = Prepared(x.loaded)
  PROVE  MigrationInv'
<1> USE DEF MigrationInv
<1>1. ~ AllEnded /\ audit.phase = "off"
  BY DEF UnderWay, AllEnded, AuditOK
<1>2. /\ run'[r] = x /\ \A q \in Runs \ {r} : run'[q] = run[q]
      /\ run' \in [Runs -> RunRows]
  OBVIOUS
<1>3. target' # Nil => IsTarget(target') /\ ~ target'.open
  BY <1>1
<1>4. ASSUME NEW q \in Runs, HasOpen(q)'
      PROVE  IsTarget(target') /\ ~ target'.open /\ target'.sidecars
  <2>1. CASE q = r
    BY <1>2, <1>4, <2>1 DEF HasOpen
  <2>2. CASE q # r
    <3>1. HasOpen(q)
      BY <1>2, <1>4, <2>2 DEF HasOpen
    <3>2. IsTarget(target) /\ ~ target.open /\ target.sidecars
      BY <3>1
    <3> QED BY <2>2, <3>1, <3>2
  <2> QED BY <2>1, <2>2
<1>5. ASSUME NEW q \in Runs \ {r} PROVE Reads(q)'
  BY <1>2 DEF Reads, Version, InMain
<1>6. Fills(r)'
  <2> SUFFICES ASSUME UnderWay(r)', x.alone
               PROVE  /\ \A q \in Runs \ {r} : ~ UnderWay(q)'
                      /\ x.phase = "finish" => target' # Nil
                      /\ x.phase \in {"validate", "finish"} /\ target' # Nil =>
                           target'.content = Prepared(x.loaded)
    BY <1>2 DEF Fills
  <2>1. x.phase \notin Ended
    BY <1>2 DEF UnderWay
  <2>2. run[r].alone
    BY <2>1
  <2>3. \A q \in Runs \ {r} : ~ UnderWay(q)
    BY <2>2 DEF Fills
  <2>4. \A q \in Runs \ {r} : ~ UnderWay(q)'
    BY <1>2, <2>3 DEF UnderWay
  <2> QED BY <2>1, <2>4
<1>7. ASSUME NEW q \in Runs \ {r} PROVE Fills(q)'
  <2>1. UnderWay(q) /\ run[q].alone => FALSE
    BY DEF Fills
  <2> QED BY <1>2, <2>1 DEF Fills, UnderWay
<1>8. AuditOK'
  BY <1>1 DEF AuditOK
<1>9. SourceOK'
  BY DEF SourceOK, Version
<1>10. \A q \in Runs : HasOpen(q)' => (IsTarget(target) /\ ~ target.open /\ target.sidecars)'
  BY <1>4
<1>11. target' # Nil => (IsTarget(target) /\ ~ target.open)'
  BY <1>3
<1> QED BY <1>2, <1>5, <1>6, <1>7, <1>8, <1>9, <1>10, <1>11

(* The end of a run, the target as it is or, if nobody has it open, removed. *)
LEMMA RunEnds ==
  ASSUME MigrationInv, NEW r \in Runs, UnderWay(r), NEW p \in Ended, StopsAs(r, p),
         UNCHANGED <<source, disk, audit>>, target' \in {target, Removed(r)}
  PROVE  MigrationInv'
<1> DEFINE x == [NoRun EXCEPT !.phase = p]
<1>1. x \in RunRows /\ x.phase = p /\ x.before = 0 /\ x.since = 0
  BY DEF NoRun, RunRows, Ended, RunPhases, Statuses
<1>2. run' = [run EXCEPT ![r] = x]
  BY DEF StopsAs
<1> HIDE DEF x
<1>3. run'[r] = x
  BY <1>2 DEF MigrationInv
<1>4. Version' = Version /\ Version \in Nat /\ source'.main \in Nat
  BY SourceIs DEF MigrationInv, Version
<1>5. Reads(r)'
  BY <1>1, <1>3, <1>4 DEF Reads, Ended
<1>6. \/ target' = target
      \/ target' = Nil /\ \A q \in Runs \ {r} : ~ HasOpen(q)
  BY DEF Removed
<1>7. x.phase # "import"
  BY <1>1 DEF Ended
<1> QED BY <1>1, <1>2, <1>5, <1>6, <1>7, RunSteps

\* A run that fails or is killed leaves the target or removes it.
LEMMA FailsWell ==
  ASSUME MigrationInv, NEW r \in Runs, LoadFails(r) \/ ImportFails(r) \/ Kill(r)
  PROVE  MigrationInv'
<1>1. CASE LoadFails(r)
  <2>1. UnderWay(r) /\ "failed" \in Ended
    BY <1>1 DEF LoadFails, UnderWay, Ended
  <2> QED BY <1>1, <2>1, RunEnds DEF LoadFails
<1>2. CASE ImportFails(r)
  <2>1. UnderWay(r) /\ "failed" \in Ended
    BY <1>2 DEF ImportFails, UnderWay, Ended
  <2> QED BY <1>2, <2>1, RunEnds DEF ImportFails
<1>3. CASE Kill(r)
  <2>1. UnderWay(r) /\ "killed" \in Ended
    BY <1>3 DEF Kill, Ended
  <2> QED BY <1>3, <2>1, RunEnds DEF Kill
<1> QED BY <1>1, <1>2, <1>3

\* A run that starts finds no target, and is not alone if others are under way.
LEMMA StartsWell ==
  ASSUME MigrationInv, NEW r \in Runs, Start(r)
  PROVE  MigrationInv'
<1> USE DEF MigrationInv
<1> DEFINE p == IF source.open \/ target # Nil THEN "refused" ELSE "hashing"
           x == [NoRun EXCEPT !.phase = p, !.since = Version,
                              !.alone = ~ \E o \in Runs : UnderWay(o)]
           y(q) == IF UnderWay(q) THEN [run[q] EXCEPT !.alone = FALSE] ELSE run[q]
<1>0. Version \in Nat /\ source.main \in Nat
  BY SourceIs
<1>1. /\ x \in RunRows /\ x.phase \in {"refused", "hashing"} /\ x.before = 0 /\ x.since = Version
      /\ x.alone => \A o \in Runs : ~ UnderWay(o)
      /\ x.phase = "hashing" => source.main = Version
  BY <1>0 DEF NoRun, RunRows, RunPhases, Ended, Statuses, SourceOK
<1>2. \A q \in Runs : /\ y(q) \in RunRows /\ y(q).phase = run[q].phase /\ y(q).before = run[q].before
                      /\ y(q).since = run[q].since
                      /\ y(q).loaded = run[q].loaded /\ (UnderWay(q) => ~ y(q).alone)
  BY DEF RunRows
<1> HIDE DEF x, p
<1>3. run[r].phase = "off" /\ UNCHANGED <<source, target, disk, audit>>
  BY DEF Start
<1>4. run'[r] = x /\ (\A q \in Runs \ {r} : run'[q] = y(q)) /\ run' \in [Runs -> RunRows]
  <2>1. run' = [q \in Runs |-> CASE q = r -> x
                                [] UnderWay(q) -> [run[q] EXCEPT !.alone = FALSE]
                                [] OTHER -> run[q]]
    BY DEF Start, x, p
  <2>2. ~ UnderWay(r)
    BY <1>3 DEF UnderWay
  <2>3. run' = [q \in Runs |-> IF q = r THEN x ELSE y(q)]
    BY <2>1, <2>2
  <2> HIDE DEF y
  <2> QED BY <1>1, <1>2, <2>3
<1> HIDE DEF y
<1>5. ~ AllEnded /\ audit.phase = "off"
  BY <1>3 DEF AllEnded, AuditOK, Ended
<1>6. Version' = Version /\ InMain' = InMain /\ source'.main = source.main
  BY <1>3 DEF Version, InMain
<1>7. \A q \in Runs : Reads(q)'
  <2>1. Reads(r)'
    BY <1>0, <1>1, <1>4, <1>6 DEF Reads
  <2>2. \A q \in Runs \ {r} : Reads(q)'
    BY <1>2, <1>4, <1>6 DEF Reads
  <2> QED BY <2>1, <2>2
<1>8. \A q \in Runs : Fills(q)'
  <2>1. Fills(r)'
    <3>1. x.alone => \A q \in Runs \ {r} : ~ UnderWay(q)'
      BY <1>1, <1>2, <1>4 DEF UnderWay
    <3> QED BY <1>1, <1>4, <3>1 DEF Fills
  <2>2. \A q \in Runs \ {r} : Fills(q)'
    <3> TAKE q \in Runs \ {r}
    <3>1. UnderWay(q)' => UnderWay(q)
      BY <1>2, <1>4 DEF UnderWay
    <3> QED BY <1>2, <1>4, <3>1 DEF Fills
  <2> QED BY <2>1, <2>2
<1>9. \A q \in Runs : HasOpen(q)' => (IsTarget(target) /\ ~ target.open /\ target.sidecars)'
  <2>1. \A q \in Runs : HasOpen(q)' => HasOpen(q)
    BY <1>1, <1>2, <1>4 DEF HasOpen
  <2> QED BY <1>3, <2>1
<1>10. target' # Nil => (IsTarget(target) /\ ~ target.open)'
  BY <1>3, <1>5
<1>11. AuditOK' /\ SourceOK'
  BY <1>3, <1>5 DEF AuditOK, SourceOK, Version
<1> QED BY <1>4, <1>7, <1>8, <1>9, <1>10, <1>11

\* A catalog read with other roots.
LEMMA RootsReplaced ==
  ASSUME NEW s \in Legacy, NEW t, NEW made, made = [s EXCEPT !.roots = t]
  PROVE  made.roots = t /\ (t = s.roots => made = s)
<1>1. s = [roots |-> s.roots, rows |-> s.rows, tags |-> s.tags, links |-> s.links]
  BY LegacyAssumption
<1>. PICK a, b, c, d : s = [roots |-> a, rows |-> b, tags |-> c, links |-> d]
  BY <1>1
<1> QED OBVIOUS

\* A target that is written stays one: what is written is not in the main file.
LEMMA Saved ==
  ASSUME NEW t, IsTarget(t), NEW c, IsContent(c), NEW made, made = Rewritten(t, c)
  PROVE  /\ made.content = c /\ made.open = t.open /\ made.main = t.main
         /\ t.sidecars => IsTarget(made) /\ made.sidecars
<1>. PICK a, v, m, w, o : t = [content |-> a, version |-> v, main |-> m, sidecars |-> w,
                               open |-> o]
  BY DEF IsTarget
<1>. PICK n : n = v + 1
  OBVIOUS
<1>1. made = [content |-> c, version |-> n, main |-> m, sidecars |-> w, open |-> o]
  BY DEF Rewritten
<1>2. /\ made.content = c /\ made.version = n /\ made.open = o /\ made.main = m
      /\ made.sidecars = w
  BY <1>1
<1>3. t.version = v /\ t.open = o /\ t.main = m /\ t.sidecars = w
  OBVIOUS
<1>4. made = [content |-> made.content, version |-> made.version, main |-> made.main,
              sidecars |-> made.sidecars, open |-> made.open]
  BY <1>1, <1>2
<1>5. /\ v \in Nat /\ m.version \in 0 .. v /\ IsContent(m.content)
      /\ w \in BOOLEAN /\ o \in BOOLEAN
  BY <1>3 DEF IsTarget
<1>6. m.version \in 0 .. n /\ m.version # n /\ n \in Nat
  BY <1>5
<1>7. w => IsTarget(made)
  BY <1>2, <1>4, <1>5, <1>6 DEF IsTarget
<1> QED BY <1>2, <1>3, <1>7

\* A target that is opened, left or checkpointed stays one, with what is committed to it.
Turns(t, made) ==
  /\ IsTarget(made) /\ made.content = t.content
  /\ made.main \in {t.main, [content |-> t.content, version |-> t.version]}

LEMMA Turned ==
  ASSUME NEW t, IsTarget(t), NEW made,
         \/ made = [t EXCEPT !.sidecars = TRUE]
         \/ made = [t EXCEPT !.open = TRUE, !.sidecars = TRUE]
         \/ made = Checkpointed(t)
         \/ made = Shut(t) /\ ~ t.open
         \/ made = Shut([t EXCEPT !.open = FALSE])
         \/ made = [t EXCEPT !.open = FALSE]
  PROVE  /\ Turns(t, made)
         /\ made = [t EXCEPT !.sidecars = TRUE] => made.open = t.open /\ made.sidecars
         /\ made = Shut(t) => made.open = t.open
<1>. PICK a, v, m, w, o : t = [content |-> a, version |-> v, main |-> m, sidecars |-> w,
                               open |-> o]
  BY DEF IsTarget
<1>1. /\ t.content = a /\ t.version = v /\ t.open = o /\ t.main = m /\ t.sidecars = w
  OBVIOUS
<1>. PICK n : n = [content |-> a, version |-> v]
  OBVIOUS
<1>2. n.content = a /\ n.version = v
  OBVIOUS
<1>3. /\ v \in Nat /\ m.version \in 0 .. v /\ IsContent(a) /\ IsContent(m.content)
      /\ (m.version = v => m.content = a) /\ (~ w => m.version = v) /\ (o => w)
      /\ o \in BOOLEAN /\ w \in BOOLEAN
  BY <1>1 DEF IsTarget
<1>4. v \in 0 .. v
  BY <1>3
<1>5. PICK k, x, y :
        /\ made = [content |-> a, version |-> v, main |-> k, sidecars |-> x, open |-> y]
        /\ k \in {m, n} /\ x \in BOOLEAN /\ y \in BOOLEAN /\ (y => x) /\ (x \/ k = n \/ ~ w)
  <2>1. CASE made = [t EXCEPT !.sidecars = TRUE]
    <3>1. made = [content |-> a, version |-> v, main |-> m, sidecars |-> TRUE, open |-> o]
      BY <2>1
    <3> QED BY <1>3, <3>1
  <2>2. CASE made = [t EXCEPT !.open = TRUE, !.sidecars = TRUE]
    <3>1. made = [content |-> a, version |-> v, main |-> m, sidecars |-> TRUE, open |-> TRUE]
      BY <2>2
    <3> QED BY <3>1
  <2>3. CASE made = Checkpointed(t)
    <3>1. made = [content |-> a, version |-> v, main |-> n, sidecars |-> w, open |-> o]
      BY <2>3 DEF Checkpointed
    <3> QED BY <1>3, <3>1
  <2>4. CASE made = Shut(t) /\ ~ t.open
    <3>1. made = [content |-> a, version |-> v, main |-> n, sidecars |-> FALSE, open |-> o]
      BY <2>4 DEF Checkpointed, Shut
    <3> QED BY <1>1, <1>3, <2>4, <3>1
  <2>. PICK c : c = [t EXCEPT !.open = FALSE]
    OBVIOUS
  <2>5. c = [content |-> a, version |-> v, main |-> m, sidecars |-> w, open |-> FALSE]
    OBVIOUS
  <2>6. CASE made = Shut(c)
    <3>1. made = [content |-> a, version |-> v, main |-> n, sidecars |-> FALSE, open |-> FALSE]
      BY <2>5, <2>6 DEF Checkpointed, Shut
    <3> QED BY <3>1
  <2>7. CASE made = c
    BY <1>3, <2>5, <2>7
  <2> QED BY <2>1, <2>2, <2>3, <2>4, <2>6, <2>7
<1>6. /\ made.content = a /\ made.version = v /\ made.open = y /\ made.main = k
      /\ made.sidecars = x
  BY <1>5
<1>7. made = [content |-> made.content, version |-> made.version, main |-> made.main,
              sidecars |-> made.sidecars, open |-> made.open]
  BY <1>5, <1>6
<1>8. /\ k.version \in 0 .. v /\ IsContent(k.content) /\ (k.version = v => k.content = a)
      /\ (~ x => k.version = v)
  BY <1>2, <1>3, <1>4, <1>5
<1>9. IsTarget(made)
  BY <1>3, <1>5, <1>6, <1>7, <1>8 DEF IsTarget
<1>10. Turns(t, made)
  BY <1>1, <1>5, <1>6, <1>9 DEF Turns
<1>11. made = [t EXCEPT !.sidecars = TRUE] => made.open = t.open /\ made.sidecars
  OBVIOUS
<1>12. made = Shut(t) => made.open = t.open
  BY DEF Shut, Checkpointed
<1> QED BY <1>10, <1>11, <1>12

\* What a run reads is of the source it hashed, as long as that has the version.
LEMMA ReadsWell ==
  ASSUME MigrationInv, NEW r \in Runs, Hash(r) \/ LoadRoots(r) \/ LoadRows(r) \/ Block(r)
  PROVE  MigrationInv'
<1> USE DEF MigrationInv
<1>0. /\ Version \in Nat \ {0} /\ InMain \in Legacy /\ source.main \in 1 .. Version
      /\ run[r] \in RunRows /\ Reads(r) /\ Fills(r)
  BY SourceIs
<1>1. /\ Version \in Nat \ {0} /\ InMain \in Legacy /\ source.main \in Nat
      /\ source.main <= Version /\ run[r] \in RunRows /\ Reads(r) /\ Fills(r)
  BY <1>0
<1>2. CASE Hash(r)
  <2> DEFINE x == [run[r] EXCEPT !.phase = "roots", !.before = source.main]
  <2>1. /\ x \in RunRows /\ x.phase = "roots" /\ x.before = source.main
        /\ x.since = run[r].since /\ x.alone = run[r].alone
        /\ run' = [run EXCEPT ![r] = x]
    BY <1>1, <1>2 DEF Hash, RunRows, RunPhases
  <2> HIDE DEF x
  <2>2. UnderWay(r) /\ UNCHANGED <<source, disk, audit, target>> /\ run'[r] = x
    BY <1>2, <2>1 DEF Hash, UnderWay, Ended
  <2>3. run[r].since <= source.main
    BY <1>1, <1>2 DEF Hash, Reads
  <2>4. Reads(r)'
    BY <1>1, <2>1, <2>2, <2>3 DEF Reads, Version, InMain
  <2> QED BY <2>1, <2>2, <2>4, RunSteps
<1>3. CASE LoadRoots(r)
  <2> DEFINE x == [run[r] EXCEPT !.phase = "rows", !.loaded = InMain]
  <2>0. InMain \in Loaded
    <3>. PICK u : u = InMain
      OBVIOUS
    <3>1. u = [u EXCEPT !.roots = u.roots]
      <4>. PICK v : v = [u EXCEPT !.roots = u.roots]
        OBVIOUS
      <4>1. v = u
        BY <1>1, RootsReplaced
      <4> QED BY <4>1
    <3>2. u \in LoadedWith(u.roots)
      BY <1>1, <3>1 DEF LoadedWith
    <3> QED BY <1>1, <3>2 DEF Loaded
  <2>1. /\ x \in RunRows /\ x.phase = "rows" /\ x.before = run[r].before /\ x.loaded = InMain
        /\ x.since = run[r].since /\ x.alone = run[r].alone /\ run' = [run EXCEPT ![r] = x]
    BY <1>1, <1>3, <2>0 DEF LoadRoots, RunRows, RunPhases
  <2> HIDE DEF x
  <2>2. UnderWay(r) /\ UNCHANGED <<source, disk, audit, target>> /\ run'[r] = x
    BY <1>3, <2>1 DEF LoadRoots, UnderWay, Ended
  <2>3. run[r].since <= run[r].before
    BY <1>1, <1>3 DEF LoadRoots, Reads
  <2>4. Reads(r)'
    BY <1>1, <2>0, <2>1, <2>2, <2>3 DEF Reads, Version, InMain
  <2> QED BY <2>1, <2>2, <2>4, RunSteps
<1>4. CASE LoadRows(r)
  <2> DEFINE read == [InMain EXCEPT !.roots = run[r].loaded.roots]
             p == IF Clear(read) THEN "open" ELSE "blocked"
             x == [run[r] EXCEPT !.loaded = read, !.phase = p]
  <2>0. run[r].phase = "rows" /\ run[r].loaded \in Loaded
          /\ (run[r].before = source.main => run[r].loaded = InMain)
          /\ run[r].since <= run[r].before
    BY <1>1, <1>4 DEF LoadRows, Reads
  <2>. PICK t \in Legacy : run[r].loaded \in LoadedWith(t.roots)
    BY <2>0 DEF Loaded
  <2>1. PICK s \in Legacy : run[r].loaded = [s EXCEPT !.roots = t.roots]
    BY DEF LoadedWith
  <2>2. run[r].loaded.roots = t.roots
    BY <2>1, RootsReplaced
  <2>3. read \in Loaded
    <3>1. read = [InMain EXCEPT !.roots = t.roots]
      BY <2>2
    <3>2. read \in LoadedWith(t.roots)
      BY <1>1, <3>1 DEF LoadedWith
    <3> QED BY <3>2 DEF Loaded
  <2>4. run[r].before = source.main => read = InMain
    <3> SUFFICES ASSUME run[r].before = source.main PROVE read = InMain
      OBVIOUS
    <3>. PICK u, v : u \in Legacy /\ u = InMain /\ v = read
      BY <1>1
    <3>1. v = [u EXCEPT !.roots = u.roots]
      BY <2>0
    <3> QED BY <3>1, RootsReplaced, Zenon
  <2>5. run' = [run EXCEPT ![r] = x]
    BY <1>4 DEF LoadRows
  <2>6. UnderWay(r) /\ UNCHANGED <<source, disk, audit, target>>
    BY <1>4 DEF LoadRows, UnderWay, Ended
  <2> HIDE DEF read
  <2>7. p \in {"open", "blocked"} /\ (p = "open" => Clear(read))
    OBVIOUS
  <2> HIDE DEF p
  <2>8. /\ x \in RunRows /\ x.phase = p /\ x.before = run[r].before /\ x.loaded = read
        /\ x.since = run[r].since /\ x.alone = run[r].alone
    BY <1>1, <2>3, <2>7 DEF RunRows, RunPhases
  <2> HIDE DEF x
  <2>9. run'[r] = x
    BY <2>5
  <2>10. Version' = Version /\ InMain' = InMain /\ source' = source
    BY <2>6 DEF Version, InMain
  <2>11. Reads(r)'
    BY <1>1, <2>0, <2>3, <2>4, <2>7, <2>8, <2>9, <2>10 DEF Reads
  <2> QED BY <2>5, <2>6, <2>7, <2>8, <2>11, RunSteps
<1>5. CASE Block(r)
  <2> DEFINE x == [NoRun EXCEPT !.phase = "done", !.status = "blocked"]
  <2>1. x \in RunRows /\ x.phase = "done" /\ x.before = 0 /\ x.since = 0
        /\ run' = [run EXCEPT ![r] = x]
    BY <1>5 DEF Block, NoRun, RunRows, RunPhases, Ended, Statuses
  <2> HIDE DEF x
  <2>2. UnderWay(r) /\ UNCHANGED <<source, disk, audit, target>> /\ run'[r] = x
    BY <1>5, <2>1 DEF Block, UnderWay, Ended
  <2>3. Reads(r)'
    BY <1>1, <2>1, <2>2 DEF Reads, Version
  <2>4. x.phase # "import" /\ x.phase \in Ended
    BY <2>1 DEF Ended
  <2> QED BY <2>1, <2>2, <2>3, <2>4, RunSteps
<1> QED BY <1>2, <1>3, <1>4, <1>5

\* A run makes its target of what it read.
LEMMA FillsWell ==
  ASSUME MigrationInv, NEW r \in Runs, OpenTarget(r) \/ Import(r) \/ Validate(r) \/ Finish(r)
  PROVE  MigrationInv'
<1> USE DEF MigrationInv
<1>1. /\ Version \in Nat \ {0} /\ source.main \in 1 .. Version
      /\ run[r] \in RunRows /\ Reads(r) /\ Fills(r)
  BY SourceIs
<1>2. CASE OpenTarget(r)
  <2> DEFINE x == [run[r] EXCEPT !.phase = "import"]
  <2>1. /\ x \in RunRows /\ x.phase = "import" /\ x.before = run[r].before
        /\ x.loaded = run[r].loaded /\ x.alone = run[r].alone /\ x.since = run[r].since
        /\ run' = [run EXCEPT ![r] = x]
    BY <1>1, <1>2 DEF OpenTarget, Enters, RunRows, RunPhases
  <2> HIDE DEF x
  <2>2. UnderWay(r) /\ UNCHANGED <<source, disk, audit>> /\ run'[r] = x /\ run[r].phase = "open"
    BY <1>2, <2>1 DEF OpenTarget, UnderWay, Ended
  <2>3. IsTarget(target') /\ ~ target'.open /\ target'.sidecars
    <3>1. CASE target = Nil
      <4>1. target' = NewTarget
        BY <1>2, <3>1 DEF OpenTarget
      <4>. PICK n, m, c : /\ n = NewTarget /\ c = NoContent
                          /\ m = [content |-> c, version |-> 0]
        OBVIOUS
      <4>a. /\ n = [content |-> c, version |-> 0, main |-> m, sidecars |-> TRUE, open |-> FALSE]
            /\ m.content = c /\ m.version = 0
        BY DEF NewTarget
      <4>b. /\ n.content = c /\ n.version = 0 /\ n.main = m /\ n.sidecars = TRUE
            /\ n.open = FALSE
        BY <4>a
      <4>2. /\ n.content = NoContent /\ n.version = 0 /\ n.main.content = NoContent
            /\ n.main.version = 0 /\ n.sidecars = TRUE /\ n.open = FALSE
            /\ n = [content |-> n.content, version |-> n.version, main |-> n.main,
                    sidecars |-> n.sidecars, open |-> n.open]
        BY <4>a, <4>b
      <4>3. IsContent(NoContent)
        BY DEF IsContent, NoContent
      <4>4. IsTarget(n)
        <5>1. n.main.version \in 0 .. n.version /\ n.version \in Nat
          BY <4>2
        <5>2. IsContent(n.content) /\ IsContent(n.main.content)
          BY <4>2, <4>3
        <5>3. n.open \in BOOLEAN /\ n.sidecars \in BOOLEAN /\ (n.open => n.sidecars)
                /\ (~ n.sidecars => n.main.version = n.version)
          BY <4>2
        <5>4. n.main.version = n.version => n.main.content = n.content
          BY <4>2
        <5> QED BY <4>2, <5>1, <5>2, <5>3, <5>4 DEF IsTarget
      <4> QED BY <4>1, <4>2, <4>4
    <3>2. CASE target # Nil
      <4>1. ~ AllEnded
        BY <2>2 DEF AllEnded, Ended
      <4>2. target' = [target EXCEPT !.sidecars = TRUE]
        BY <1>2, <3>2 DEF OpenTarget
      <4>. PICK t, made : t = target /\ made = target'
        OBVIOUS
      <4>3. IsTarget(t) /\ made = [t EXCEPT !.sidecars = TRUE] /\ ~ t.open
        BY <3>2, <4>1, <4>2
      <4>4. IsTarget(made) /\ made.open = t.open /\ made.sidecars
        BY <4>3, Turned DEF Turns
      <4> QED BY <4>3, <4>4
    <3> QED BY <3>1, <3>2
  <2>4. Reads(r)'
    BY <1>1, <2>1, <2>2 DEF Reads, Version, InMain
  <2> QED BY <2>1, <2>2, <2>3, <2>4, RunSteps
<1>3. CASE Import(r)
  <2> DEFINE x == [run[r] EXCEPT !.phase = "validate"]
  <2>1. /\ x \in RunRows /\ x.phase = "validate" /\ x.before = run[r].before
        /\ x.loaded = run[r].loaded /\ x.alone = run[r].alone /\ x.since = run[r].since
        /\ run' = [run EXCEPT ![r] = x]
    BY <1>1, <1>3 DEF Import, Enters, RunRows, RunPhases
  <2> HIDE DEF x
  <2>2. UnderWay(r) /\ UNCHANGED <<source, disk, audit>> /\ run'[r] = x /\ HasOpen(r)
          /\ run[r].phase = "import"
    BY <1>3, <2>1 DEF Import, UnderWay, Ended, HasOpen
  <2>3. IsTarget(target) /\ ~ target.open /\ target.sidecars
    BY <2>2
  <2>. PICK p : p = Prepared(run[r].loaded)
    OBVIOUS
  <2>4. IsContent(p)
    <3>. PICK s : s = run[r].loaded
      OBVIOUS
    <3>1. Importable(Prepared(s))
      BY <1>3 DEF Import, Ready
    <3> QED BY <3>1, PreparedIsContent
  <2>5. target' = IF \E q \in Runs \ {r} : HasOpen(q)
                  THEN Rewritten(target, p) ELSE Shut(Rewritten(target, p))
    BY <1>3 DEF Import, Rewritten
  <2>6. /\ IsTarget(target') /\ ~ target'.open /\ target'.content = p
        /\ target'.sidecars \/ \A q \in Runs \ {r} : ~ HasOpen(q)
    <3>. PICK t, filled, made : t = target /\ filled = Rewritten(target, p) /\ made = target'
      OBVIOUS
    <3>1. IsTarget(t) /\ filled = Rewritten(t, p) /\ t.sidecars /\ ~ t.open
      BY <2>3
    <3>2. IsTarget(filled) /\ filled.content = p /\ ~ filled.open /\ filled.sidecars
      BY <2>4, <3>1, Saved
    <3>. PICK shut : shut = Shut(filled)
      OBVIOUS
    <3>3. IsTarget(shut) /\ shut.content = p /\ ~ shut.open
      BY <3>2, Turned DEF Turns
    <3>4. made = IF \E q \in Runs \ {r} : HasOpen(q) THEN filled ELSE shut
      BY <2>5
    <3> QED BY <3>2, <3>3, <3>4
  <2>7. Reads(r)'
    BY <1>1, <2>1, <2>2 DEF Reads, Version, InMain
  <2>8. Prepared(x.loaded) = p
    BY <2>1
  <2> QED BY <2>1, <2>2, <2>6, <2>7, <2>8, RunSteps
<1>4. CASE Validate(r)
  <2>1. UnderWay(r) /\ UNCHANGED <<source, disk, audit, target>> /\ run[r].phase = "validate"
    BY <1>4 DEF Validate, UnderWay, Ended
  <2>2. CASE target = Nil
    <3>1. StopsAs(r, "failed") /\ "failed" \in Ended
      BY <1>4, <2>2 DEF Validate, StopsAs, Ended
    <3> QED BY <2>1, <3>1, RunEnds
  <2>3. CASE target # Nil
    <3>. PICK v \in BOOLEAN : v = Validates(target.content, Prepared(run[r].loaded))
      BY DEF Validates
    <3> DEFINE x == [run[r] EXCEPT !.phase = "finish", !.agrees = v]
    <3>0. run' = [run EXCEPT ![r] = x]
      BY <1>4, <2>3 DEF Validate
    <3>1. /\ x \in RunRows /\ x.phase = "finish" /\ x.before = run[r].before
          /\ x.loaded = run[r].loaded /\ x.alone = run[r].alone /\ x.since = run[r].since
      BY <1>1 DEF RunRows, RunPhases
    <3> HIDE DEF x
    <3>2. run'[r] = x
      BY <3>0
    <3>3. Reads(r)'
      BY <1>1, <2>1, <3>1, <3>2 DEF Reads, Version, InMain
    <3>4. x.alone => target.content = Prepared(x.loaded)
      BY <1>1, <2>1, <2>3, <3>1 DEF Fills
    <3> QED BY <2>1, <2>3, <3>0, <3>1, <3>3, <3>4, RunSteps
  <2> QED BY <2>2, <2>3
<1>5. CASE Finish(r)
  <2> DEFINE s == IF run[r].agrees /\ SourceUnchanged(r) THEN "completed" ELSE "validation_failed"
             x == [NoRun EXCEPT !.phase = "done", !.status = s]
  <2>0. run' = [run EXCEPT ![r] = x]
    BY <1>5 DEF Finish
  <2>1. x \in RunRows /\ x.phase = "done" /\ x.before = 0 /\ x.since = 0
    <3>1. s \in {"completed", "validation_failed"}
      OBVIOUS
    <3> HIDE DEF s
    <3> QED BY <3>1 DEF NoRun, RunRows, RunPhases, Ended, Statuses
  <2> HIDE DEF x
  <2>2. UnderWay(r) /\ UNCHANGED <<source, disk, audit, target>> /\ run'[r] = x
    BY <1>5, <2>0 DEF Finish, UnderWay, Ended
  <2>3. Reads(r)'
    BY <1>1, <2>1, <2>2 DEF Reads, Version
  <2>4. x.phase # "import" /\ x.phase \in Ended
    BY <2>1 DEF Ended
  <2> QED BY <2>0, <2>1, <2>2, <2>3, <2>4, RunSteps
<1> QED BY <1>2, <1>3, <1>4, <1>5

(* The others: no run is under way when the target or the disk change.     *)
LEMMA LegacyWell ==
  ASSUME MigrationInv, LegacyOpens \/ LegacySaves \/ LegacyCheckpoints \/ LegacyCloses
  PROVE  MigrationInv'
<1> USE DEF MigrationInv
<1>1. UNCHANGED <<target, run, disk, audit>>
  BY DEF LegacyOpens, LegacySaves, LegacyCheckpoints, LegacyCloses
<1>0. /\ Version \in Nat \ {0} /\ source.main \in 1 .. Version /\ InMain \in Legacy
      /\ source = [history |-> source.history, main |-> source.main, open |-> source.open]
      /\ source.history \in Seq(Legacy)
  BY SourceIs DEF SourceOK
<1>. PICK h, m, o : source = [history |-> h, main |-> m, open |-> o]
  BY <1>0
<1>2. /\ h = source.history /\ m = source.main /\ h \in Seq(Legacy)
      /\ Version = Len(h) /\ InMain = h[m] /\ Len(h) \in Nat \ {0} /\ m \in 1 .. Len(h)
      /\ source'.history = h => Version' = Version
      /\ source'.history = h /\ source'.main = m => InMain' = InMain
  BY <1>0 DEF Version, InMain
\* the main file stays what it was, or has a newer version
<1>3. /\ SourceOK' /\ Version <= Version' /\ source.main <= source'.main
      /\ source'.main = source.main => InMain' = InMain
  <2>1. CASE LegacyOpens
    <3>1. source' = [history |-> h, main |-> m, open |-> TRUE]
      BY <2>1 DEF LegacyOpens
    <3>2. source'.history = h /\ source'.main = m /\ source'.open
      BY <3>1
    <3> QED BY <1>0, <1>2, <3>1, <3>2 DEF SourceOK
  <2>2. CASE LegacyCheckpoints
    <3>1. source' = [history |-> h, main |-> Len(h), open |-> o] /\ o
      BY <1>2, <2>2 DEF LegacyCheckpoints
    <3>2. source'.history = h /\ source'.main = Len(h) /\ source'.open
      BY <3>1
    <3> QED BY <1>0, <1>2, <3>1, <3>2 DEF SourceOK
  <2>3. CASE LegacyCloses
    <3>1. source' = [history |-> h, main |-> Len(h), open |-> FALSE]
      BY <1>2, <2>3 DEF LegacyCloses
    <3>2. source'.history = h /\ source'.main = Len(h) /\ source'.open = FALSE
      BY <3>1
    <3> QED BY <1>0, <1>2, <3>1, <3>2 DEF SourceOK
  <2>4. CASE LegacySaves
    <3>1. PICK s \in Legacy : source' = [source EXCEPT !.history = Append(@, s)]
      BY <2>4 DEF LegacySaves
    <3>. PICK g : g = Append(h, s)
      OBVIOUS
    <3>2. source' = [history |-> g, main |-> m, open |-> o] /\ o
      BY <2>4, <3>1 DEF LegacySaves
    <3>3. g \in Seq(Legacy) /\ Len(g) = Len(h) + 1 /\ g[m] = h[m]
      BY <1>2
    <3>4. source'.history = g /\ source'.main = m /\ source'.open
      BY <3>2
    <3>5. Version' = Len(g) /\ InMain' = g[m]
      BY <3>4 DEF Version, InMain
    <3> QED BY <1>0, <1>2, <3>2, <3>3, <3>4, <3>5 DEF SourceOK
  <2> QED BY <2>1, <2>2, <2>3, <2>4
<1>4. \A r \in Runs : Reads(r)'
  <2> TAKE r \in Runs
  <2>1. /\ run[r].before \in Nat /\ run[r].since \in Nat /\ Reads(r) /\ run'[r] = run[r]
        /\ Version' \in Nat /\ source'.main \in Nat
    <3>1. run[r] \in RunRows
      OBVIOUS
    <3>2. SourceOK'
      BY <1>3
    <3>3. Version' \in Nat /\ source'.main \in 1 .. Version'
      BY <3>2 DEF SourceOK, Version
    <3> QED BY <1>1, <3>1, <3>3 DEF RunRows
  <2>2. run[r].before <= source'.main /\ run[r].since <= Version'
    BY <1>0, <1>3, <2>1 DEF Reads
  <2>3. run[r].phase = "hashing" => run[r].since <= source'.main
    BY <1>0, <1>3, <2>1 DEF Reads
  <2>4. run[r].phase \in {"rows", "blocked", "open", "import", "validate", "finish"} =>
          run[r].loaded \in Loaded /\ (run[r].before = source'.main => run[r].loaded = InMain')
    BY <1>0, <1>3, <2>1 DEF Reads
  <2> QED BY <2>1, <2>2, <2>3, <2>4 DEF Reads
<1>5. \A r \in Runs : Fills(r)' /\ (HasOpen(r)' => HasOpen(r))
  BY <1>1 DEF Fills, UnderWay, HasOpen
<1>6. AllEnded' = AllEnded
  BY <1>1 DEF AllEnded
<1>7. AuditOK'
  BY <1>1, <1>6 DEF AuditOK, HasSeen
<1> QED BY <1>1, <1>3, <1>4, <1>5, <1>6, <1>7

(* All runs have ended, and the service writes, or something happens on the *)
(* disk.                                                                    *)
LEMMA EndedStay ==
  ASSUME MigrationInv, AllEnded, UNCHANGED <<source, run>>, IsTarget(target'), AuditOK'
  PROVE  MigrationInv'
<1> USE DEF MigrationInv
<1>1. SourceOK' /\ Version' = Version /\ InMain' = InMain
  BY DEF SourceOK, Version, InMain
<1>2. AllEnded' /\ \A r \in Runs : ~ HasOpen(r)' /\ ~ UnderWay(r)'
  BY DEF AllEnded, HasOpen, UnderWay, Ended
<1>3. \A r \in Runs : Reads(r)' /\ Fills(r)'
  <2> TAKE r \in Runs
  <2>1. Reads(r)'
    BY <1>1 DEF Reads
  <2> QED BY <1>2, <2>1 DEF Fills
<1> QED BY <1>1, <1>2, <1>3

\* What is in the main file stays, or is a version as new as what is committed; the audit has
\* seen what it had seen.
LEMMA AuditStays ==
  ASSUME AuditOK, AllEnded, UNCHANGED run, IsTarget(target'),
         target'.main \in {target.main, [content |-> target.content, version |-> target.version]},
         (UNCHANGED <<audit, disk>>) \/ Notices
  PROVE  AuditOK'
<1>1. /\ audit'.phase = audit.phase /\ audit'.before = audit.before /\ audit'.todo = audit.todo
      /\ audit'.sound = audit.sound /\ audit'.began = audit.began
      /\ \A x : x \in audit.right => x \in audit'.right
      /\ audit' = [phase |-> audit'.phase, before |-> audit'.before, sound |-> audit'.sound,
                   todo |-> audit'.todo, right |-> audit'.right, began |-> audit'.began]
  <2>1. CASE UNCHANGED <<audit, disk>>
    BY <2>1 DEF AuditOK
  <2>2. CASE Notices
    <3>. PICK R : /\ R = audit.right \cup {r \in audit.todo : disk'[r.path] = r.kind}
                  /\ audit' = [audit EXCEPT !.right = R]
      BY <2>2 DEF Notices, AuditOK
    <3>1. audit' = [phase |-> audit.phase, before |-> audit.before, sound |-> audit.sound,
                    todo |-> audit.todo, right |-> R, began |-> audit.began]
      BY DEF AuditOK
    <3> QED BY <3>1
  <2> QED BY <2>1, <2>2
<1>2. \A r \in audit.todo : (audit.phase = "looking" /\ disk'[r.path] = r.kind) => r \in audit'.right
  <2>1. CASE UNCHANGED <<audit, disk>>
    BY <2>1 DEF AuditOK
  <2>2. CASE Notices
    <3>. PICK R : /\ R = audit.right \cup {r \in audit.todo : disk'[r.path] = r.kind}
                  /\ audit' = [audit EXCEPT !.right = R]
      BY <2>2 DEF Notices, AuditOK
    <3>1. audit'.right = R
      BY DEF AuditOK
    <3> QED BY <3>1
  <2> QED BY <2>1, <2>2
<1>3. AllEnded'
  BY DEF AllEnded
<1>4. CASE audit.phase = "off"
  BY <1>1, <1>4 DEF AuditOK
<1>5. CASE audit.phase # "off"
  <2>. PICK m, w : m = target.main /\ w = target'.main
    OBVIOUS
  <2>1. /\ IsTarget(target) /\ audit.before \in Nat /\ audit.before <= m.version
        /\ w \in {m, [content |-> target.content, version |-> target.version]}
    BY <1>5 DEF AuditOK
  <2>2. /\ m.version \in 0 .. target.version /\ target.version \in Nat
        /\ m.version = target.version => m.content = target.content
    BY <2>1 DEF IsTarget
  <2>3. /\ audit.before <= w.version
        /\ audit.before = w.version => audit.before = m.version /\ w.content = m.content
    <3>1. CASE w = m
      BY <2>1, <3>1
    <3>2. CASE w # m
      <4>1. w.content = target.content /\ w.version = target.version
        BY <2>1, <3>2
      <4> QED BY <2>1, <2>2, <4>1
    <3> QED BY <3>1, <3>2
  <2>4. HasSeen(audit.began) => HasSeen(audit.began)'
    BY <1>1 DEF HasSeen
  <2>5. audit.phase \in {"reading", "looking"} /\ audit.before = w.version =>
          w.content = audit.began
    BY <2>3 DEF AuditOK
  <2>6. audit.phase = "looking" /\ audit.before = w.version => HasSeen(audit.began)'
    BY <2>3, <2>4 DEF AuditOK
  <2> QED BY <1>1, <1>2, <1>3, <1>5, <2>1, <2>3, <2>5, <2>6 DEF AuditOK
<1> QED BY <1>4, <1>5

\* The service takes the catalog over, moves what it committed to the main file and leaves it.
LEMMA ServiceTurns ==
  ASSUME MigrationInv, ServiceOpens \/ ServiceCheckpoints \/ ServiceCloses
  PROVE  MigrationInv' /\ target # Nil /\ target'.content = target.content
<1>0. /\ target # Nil /\ IsTarget(target) /\ AllEnded /\ AuditOK
      /\ UNCHANGED <<source, run, disk, audit>>
  BY DEF MigrationInv, ServiceOpens, ServiceCheckpoints, ServiceCloses, Idle, AllEnded
<1>. PICK t, made : t = target /\ made = target'
  OBVIOUS
<1>1. made \in {[t EXCEPT !.open = TRUE, !.sidecars = TRUE], Checkpointed(t),
                Shut([t EXCEPT !.open = FALSE]), [t EXCEPT !.open = FALSE]}
  BY DEF ServiceOpens, ServiceCheckpoints, ServiceCloses
<1>2. IsTarget(t)
  BY <1>0
<1>3. /\ IsTarget(made) /\ made.content = t.content
      /\ made.main \in {t.main, [content |-> t.content, version |-> t.version]}
  BY <1>1, <1>2, Turned DEF Turns
<1>4. AuditOK'
  BY <1>0, <1>3, AuditStays
<1> QED BY <1>0, <1>3, <1>4, EndedStay

\* It moves a collection.
LEMMA MovesWell ==
  ASSUME MigrationInv, ServiceMoves
  PROVE  MigrationInv'
<1>0. target # Nil /\ IsTarget(target) /\ target.open /\ AllEnded /\ AuditOK
        /\ UNCHANGED <<source, run>> /\ Notices
  BY DEF ServiceMoves, MigrationInv
<1>1. PICK row \in target.content.rows, p \in Paths, root \in target.content.roots :
        LET in == IF IsStrictPrefix(root.path, p) THEN root.path ELSE Nil
        IN target' = Rewritten(target, [target.content EXCEPT !.rows = (@ \ {row}) \cup
                                    {[row EXCEPT !.path = p, !.root = in]}])
  BY DEF ServiceMoves, Saves, Rewritten
<1> DEFINE in == IF IsStrictPrefix(root.path, p) THEN root.path ELSE Nil
<1>. PICK c, moved, new : /\ c = target.content /\ moved = [row EXCEPT !.path = p, !.root = in]
                          /\ new = [c EXCEPT !.rows = (@ \ {row}) \cup {moved}]
  OBVIOUS
<1>2. target' = Rewritten(target, new)
  BY <1>1
<1>3. IsContent(c) /\ row \in c.rows /\ root \in c.roots /\ in \in {Nil, root.path}
  BY <1>0 DEF IsTarget
<1> HIDE DEF in
<1>4. /\ moved = [id |-> moved.id, path |-> moved.path, kind |-> moved.kind,
                  root |-> moved.root, meta |-> moved.meta]
      /\ moved.root = in
  <2>1. row = [id |-> row.id, path |-> row.path, kind |-> row.kind, root |-> row.root,
               meta |-> row.meta]
    BY <1>3 DEF IsContent
  <2>. PICK i, k, m : moved = [id |-> i, path |-> p, kind |-> k, root |-> in, meta |-> m]
    BY <2>1
  <2> QED OBVIOUS
<1>5. c = [roots |-> c.roots, rows |-> c.rows, tags |-> c.tags, links |-> c.links]
  BY <1>3 DEF IsContent
<1>6. new = [roots |-> c.roots, rows |-> (c.rows \ {row}) \cup {moved}, tags |-> c.tags,
             links |-> c.links]
  BY <1>5
<1>7. IsContent(new)
  <2>1. /\ new.roots = c.roots /\ new.rows = (c.rows \ {row}) \cup {moved}
        /\ new = [roots |-> new.roots, rows |-> new.rows, tags |-> new.tags, links |-> new.links]
    BY <1>6
  <2>2. \A r \in new.roots : r = [path |-> r.path, source |-> r.source, active |-> r.active]
    BY <1>3, <2>1 DEF IsContent
  <2>3. ASSUME NEW r \in new.rows
        PROVE  /\ r = [id |-> r.id, path |-> r.path, kind |-> r.kind, root |-> r.root,
                       meta |-> r.meta]
               /\ r.root = Nil \/ \E o \in new.roots : o.path = r.root
    <3>1. CASE r = moved
      BY <1>3, <1>4, <2>1, <3>1
    <3>2. CASE r # moved
      <4>1. r \in c.rows
        BY <2>1, <3>2
      <4> QED BY <1>3, <2>1, <4>1 DEF IsContent
    <3> QED BY <3>1, <3>2
  <2> QED BY <2>1, <2>2, <2>3 DEF IsContent
<1>8. IsTarget(target') /\ target'.main = target.main
  <2>. PICK t, made : t = target /\ made = target'
    OBVIOUS
  <2>1. IsTarget(t) /\ made = Rewritten(t, new) /\ t.sidecars
    BY <1>0, <1>2 DEF IsTarget
  <2>2. IsTarget(made) /\ made.main = t.main
    BY <1>7, <2>1, Saved
  <2> QED BY <2>2
<1>9. AuditOK'
  BY <1>0, <1>8, AuditStays
<1> QED BY <1>0, <1>8, <1>9, EndedStay

\* It switches a root.
LEMMA SwitchesWell ==
  ASSUME MigrationInv, ServiceSwitches
  PROVE  MigrationInv'
<1>0. target # Nil /\ IsTarget(target) /\ target.open /\ AllEnded /\ AuditOK
        /\ UNCHANGED <<source, run, disk, audit>>
  BY DEF ServiceSwitches, MigrationInv
<1>1. PICK root \in target.content.roots :
        target' = Rewritten(target, [target.content EXCEPT !.roots = (@ \ {root}) \cup
                                 {[root EXCEPT !.active = ~ @]}])
  BY DEF ServiceSwitches, Saves, Rewritten
<1>. PICK c, turned, new : /\ c = target.content /\ turned = [root EXCEPT !.active = ~ @]
                           /\ new = [c EXCEPT !.roots = (@ \ {root}) \cup {turned}]
  OBVIOUS
<1>2. target' = Rewritten(target, new)
  BY <1>1
<1>3. IsContent(c) /\ root \in c.roots
  BY <1>0 DEF IsTarget
<1>4. turned = [path |-> turned.path, source |-> turned.source, active |-> turned.active]
        /\ turned.path = root.path
  <2>1. root = [path |-> root.path, source |-> root.source, active |-> root.active]
    BY <1>3 DEF IsContent
  <2>. PICK s, a : turned = [path |-> root.path, source |-> s, active |-> a]
    BY <2>1
  <2> QED OBVIOUS
<1>5. c = [roots |-> c.roots, rows |-> c.rows, tags |-> c.tags, links |-> c.links]
  BY <1>3 DEF IsContent
<1>6. new = [roots |-> (c.roots \ {root}) \cup {turned}, rows |-> c.rows, tags |-> c.tags,
             links |-> c.links]
  BY <1>5
<1>7. IsContent(new)
  <2>1. /\ new.rows = c.rows /\ new.roots = (c.roots \ {root}) \cup {turned}
        /\ new = [roots |-> new.roots, rows |-> new.rows, tags |-> new.tags, links |-> new.links]
    BY <1>6
  <2>2. \A r \in new.roots : r = [path |-> r.path, source |-> r.source, active |-> r.active]
    BY <1>3, <1>4, <2>1 DEF IsContent
  <2>3. ASSUME NEW x, \E o \in c.roots : o.path = x
        PROVE  \E o \in new.roots : o.path = x
    BY <1>4, <2>1, <2>3
  <2>4. ASSUME NEW r \in new.rows
        PROVE  /\ r = [id |-> r.id, path |-> r.path, kind |-> r.kind, root |-> r.root,
                       meta |-> r.meta]
               /\ r.root = Nil \/ \E o \in new.roots : o.path = r.root
    BY <1>3, <2>1, <2>3 DEF IsContent
  <2> QED BY <2>1, <2>2, <2>4 DEF IsContent
<1>8. IsTarget(target') /\ target'.main = target.main
  <2>. PICK t, made : t = target /\ made = target'
    OBVIOUS
  <2>1. IsTarget(t) /\ made = Rewritten(t, new) /\ t.sidecars
    BY <1>0, <1>2 DEF IsTarget
  <2>2. IsTarget(made) /\ made.main = t.main
    BY <1>7, <2>1, Saved
  <2> QED BY <2>2
<1>9. AuditOK'
  BY <1>0, <1>8, AuditStays
<1> QED BY <1>0, <1>8, <1>9, EndedStay

\* The user changes the disk.
LEMMA TouchesWell ==
  ASSUME MigrationInv, UserTouches
  PROVE  MigrationInv'
<1>0. /\ audit.phase \in {"reading", "looking"} /\ AuditOK /\ Notices
      /\ UNCHANGED <<source, target, run>>
  BY DEF UserTouches, MigrationInv
<1>1. AllEnded /\ IsTarget(target)
  BY <1>0 DEF AuditOK
<1>2. AuditOK'
  BY <1>0, <1>1, AuditStays
<1> QED BY <1>0, <1>1, <1>2, EndedStay

\* An audit reads, looks and ends.
LEMMA AuditsWell ==
  ASSUME MigrationInv, AuditStarts \/ AuditReads \/ AuditLooks \/ AuditEnds
  PROVE  MigrationInv'
<1>0. UNCHANGED <<source, target, run, disk>>
  BY DEF AuditStarts, AuditReads, AuditLooks, AuditEnds
<1>. PICK m, c, v : m = target.main /\ c = m.content /\ v = m.version
  OBVIOUS
<1>1. /\ audit = [phase |-> audit.phase, before |-> audit.before, sound |-> audit.sound,
                  todo |-> audit.todo, right |-> audit.right, began |-> audit.began]
      /\ audit.phase = "off" => audit.before = 0
  BY DEF MigrationInv, AuditOK
<1>a. AllEnded /\ IsTarget(target)
  BY DEF MigrationInv, AuditOK, AuditStarts, AuditReads, AuditLooks, AuditEnds, Idle, AllEnded
<1>2. AllEnded /\ IsTarget(target) /\ v \in Nat
  BY <1>a DEF IsTarget
<1>3. AllEnded'
  BY <1>0, <1>2 DEF AllEnded
<1>4. AuditOK'
  <2>1. CASE AuditStarts
    <3>1. CASE target.sidecars
      <4>1. audit' = [audit EXCEPT !.phase = "refused"] /\ audit.before = 0
        BY <1>1, <2>1, <3>1 DEF AuditStarts
      <4>2. /\ audit'.phase = "refused" /\ audit'.before = 0
            /\ audit' = [phase |-> audit'.phase, before |-> audit'.before, sound |-> audit'.sound,
                         todo |-> audit'.todo, right |-> audit'.right, began |-> audit'.began]
        BY <1>1, <4>1
      <4> QED BY <1>0, <1>2, <1>3, <4>2 DEF AuditOK
    <3>2. CASE ~ target.sidecars
      <4>. PICK all : all = target.content
        OBVIOUS
      <4>1. audit' = [audit EXCEPT !.phase = "reading", !.before = v, !.began = all]
        BY <2>1, <3>2 DEF AuditStarts
      <4>2. /\ audit'.phase = "reading" /\ audit'.before = v /\ audit'.began = all
            /\ audit' = [phase |-> audit'.phase, before |-> audit'.before, sound |-> audit'.sound,
                         todo |-> audit'.todo, right |-> audit'.right, began |-> audit'.began]
        BY <1>1, <4>1
      <4>3. c = all
        BY <1>2, <3>2 DEF IsTarget
      <4> QED BY <1>0, <1>2, <1>3, <4>2, <4>3 DEF AuditOK
    <3> QED BY <3>1, <3>2
  <2>2. CASE AuditReads
    <3>1. /\ audit'.phase = "looking" /\ audit'.before = audit.before /\ audit'.todo = c.rows
          /\ audit'.right = {row \in c.rows : disk[row.path] = row.kind}
          /\ audit'.sound = (\A root \in c.roots : root.active /\ disk[root.path] = "folder")
          /\ audit'.began = audit.began
          /\ audit' = [phase |-> audit'.phase, before |-> audit'.before, sound |-> audit'.sound,
                       todo |-> audit'.todo, right |-> audit'.right, began |-> audit'.began]
      BY <1>1, <2>2 DEF AuditReads
    <3>2. audit'.sound => \A root \in c.roots : root.active
      BY <3>1
    <3>3. HasSeen(c)'
      BY <3>1, <3>2 DEF HasSeen
    <3>4. audit.before \in Nat /\ audit.before <= v /\ (audit.before = v => c = audit.began)
      BY <2>2 DEF MigrationInv, AuditOK, AuditReads
    <3>5. \A row \in audit'.todo : disk[row.path] = row.kind => row \in audit'.right
      BY <3>1
    <3>6. audit.before = v => HasSeen(audit.began)'
      BY <3>1, <3>3, <3>4
    <3> QED BY <1>0, <1>2, <1>3, <3>1, <3>4, <3>5, <3>6 DEF AuditOK
  <2>3. CASE AuditLooks
    <3>. PICK row \in audit.todo :
           audit' = [audit EXCEPT !.todo = @ \ {row}, !.sound = @ /\ Sound(row)]
      BY <2>3 DEF AuditLooks
    <3>. PICK b : b = audit.began
      OBVIOUS
    <3>1. /\ audit'.phase = audit.phase /\ audit'.before = audit.before
          /\ audit'.todo = audit.todo \ {row} /\ audit'.right = audit.right
          /\ audit'.sound = (audit.sound /\ Sound(row)) /\ audit'.began = b
          /\ audit' = [phase |-> audit'.phase, before |-> audit'.before, sound |-> audit'.sound,
                       todo |-> audit'.todo, right |-> audit'.right, began |-> audit'.began]
      BY <1>1
    <3>2. audit'.sound => audit.sound /\ Sound(row)
      BY <3>1
    <3>3. /\ audit.phase = "looking" /\ audit.before \in Nat /\ audit.before <= v
          /\ \A r \in audit.todo : disk[r.path] = r.kind => r \in audit.right
          /\ audit.before = v => HasSeen(b) /\ c = b
      BY <2>3 DEF MigrationInv, AuditOK, AuditLooks
    <3>4. HasSeen(b) => HasSeen(b)'
      <4> SUFFICES ASSUME HasSeen(b) PROVE HasSeen(b)'
        OBVIOUS
      <4>1. audit'.sound => \A root \in b.roots : root.active
        BY <3>2 DEF HasSeen
      <4>2. ASSUME NEW r \in b.rows, r \notin audit'.todo, audit'.sound
            PROVE  r \in audit'.right /\ r.root # Nil /\ IsStrictPrefix(r.root, r.path)
        <5>1. CASE r = row
          BY <3>1, <3>2, <3>3, <4>2, <5>1 DEF Sound
        <5>2. CASE r # row
          BY <3>1, <3>2, <4>2, <5>2 DEF HasSeen
        <5> QED BY <5>1, <5>2
      <4> QED BY <4>1, <4>2 DEF HasSeen
    <3>5. audit.before = v => HasSeen(audit.began)'
      BY <3>1, <3>3, <3>4
    <3>6. \A r \in audit'.todo : disk'[r.path] = r.kind => r \in audit'.right
      BY <1>0, <3>1, <3>3
    <3> QED BY <1>0, <1>2, <1>3, <3>1, <3>3, <3>5, <3>6 DEF AuditOK
  <2>4. CASE AuditEnds
    <3>. PICK p \in {"refused", "passed", "found"} : audit' = [audit EXCEPT !.phase = p]
      BY <2>4 DEF AuditEnds
    <3>1. /\ audit'.phase = p /\ audit'.before = audit.before
          /\ audit' = [phase |-> audit'.phase, before |-> audit'.before, sound |-> audit'.sound,
                       todo |-> audit'.todo, right |-> audit'.right, began |-> audit'.began]
      BY <1>1
    <3>2. audit.before \in Nat /\ audit.before <= v
      BY <2>4 DEF MigrationInv, AuditOK, AuditEnds
    <3> QED BY <1>0, <1>2, <1>3, <3>1, <3>2 DEF AuditOK
  <2> QED BY <2>1, <2>2, <2>3, <2>4
<1>5. IsTarget(target')
  BY <1>0, <1>2
<1> QED BY <1>0, <1>2, <1>4, <1>5, EndedStay

\* The invariant holds at first, and every step keeps it.
LEMMA MigrationStarts == Init => MigrationInv
<1> SUFFICES ASSUME Init PROVE MigrationInv
  OBVIOUS
<1>1. PICK s \in Legacy : source = [history |-> <<s>>, main |-> 1, open |-> FALSE]
  BY DEF Init
<1>2. SourceOK /\ Version = 1
  BY <1>1 DEF SourceOK, Version
<1>3. NoRun \in RunRows /\ NoRun.phase = "off" /\ NoRun.before = 0 /\ NoRun.since = 0
  BY DEF NoRun, RunRows, RunPhases, Statuses
<1>4. run = [r \in Runs |-> NoRun] /\ target = Nil /\ audit = NoAudit
  BY DEF Init
<1>5. \A r \in Runs : run[r] = NoRun
  BY <1>4
<1>6. \A r \in Runs : Reads(r) /\ ~ UnderWay(r) /\ ~ HasOpen(r)
  BY <1>1, <1>2, <1>3, <1>5 DEF Reads, UnderWay, HasOpen, Ended
<1>7. AuditOK
  BY <1>4 DEF AuditOK, NoAudit
<1> QED BY <1>2, <1>3, <1>4, <1>6, <1>7 DEF MigrationInv, Fills

LEMMA MigrationKeeps == MigrationInv /\ [Next]_vars => MigrationInv'
<1> SUFFICES ASSUME MigrationInv, [Next]_vars PROVE MigrationInv'
  OBVIOUS
<1>1. CASE \E r \in Runs : Step(r)
  BY <1>1, StartsWell, ReadsWell, FillsWell, FailsWell DEF Step
<1>2. CASE LegacyOpens \/ LegacySaves \/ LegacyCheckpoints \/ LegacyCloses
  BY <1>2, LegacyWell
<1>3. CASE ServiceOpens \/ ServiceCheckpoints \/ ServiceCloses
  BY <1>3, ServiceTurns
<1>4. CASE ServiceMoves \/ ServiceSwitches \/ UserTouches
  BY <1>4, MovesWell, SwitchesWell, TouchesWell
<1>5. CASE AuditStarts \/ AuditReads \/ AuditLooks \/ AuditEnds
  BY <1>5, AuditsWell
<1>6. CASE UNCHANGED vars
  <2>1. UNCHANGED <<source, target, run, disk, audit>>
    BY <1>6 DEF vars
  <2>2. \A r \in Runs : Reads(r)' = Reads(r) /\ Fills(r)' = Fills(r) /\ HasOpen(r)' = HasOpen(r)
    BY <2>1 DEF Reads, Fills, HasOpen, UnderWay, Version, InMain
  <2>3. SourceOK' = SourceOK /\ AuditOK' = AuditOK /\ AllEnded' = AllEnded
    BY <2>1 DEF SourceOK, AuditOK, AllEnded, HasSeen, Version
  <2> QED BY <2>1, <2>2, <2>3 DEF MigrationInv
<1> QED BY <1>1, <1>2, <1>3, <1>4, <1>5, <1>6 DEF Next

(* Only the end of a run makes it one that is completed.                    *)
LEMMA FinishCompletes ==
  ASSUME MigrationInv, [Next]_vars, NEW r \in Runs, r \in Completed' \ Completed
  PROVE  Finish(r) /\ run[r].agrees /\ SourceUnchanged(r)
<1>1. run \in [Runs -> RunRows] /\ run[r].status # "completed" /\ run'[r].status = "completed"
  BY DEF MigrationInv, Completed
<1>2. NoRun.status = "none"
  BY DEF NoRun
<1>3. PICK q \in Runs : Step(q)
  <2>1. ~ UNCHANGED run
    BY <1>1
  <2> QED BY <2>1 DEF Next, vars, LegacyOpens, LegacyCheckpoints, LegacyCloses, LegacySaves, ServiceOpens, ServiceCheckpoints, ServiceCloses,
                      ServiceMoves, ServiceSwitches, UserTouches, AuditStarts, AuditReads,
                      AuditLooks, AuditEnds
<1>4. ~ Start(q)
  <2> SUFFICES ASSUME Start(q) PROVE FALSE
    OBVIOUS
  <2> DEFINE x == [NoRun EXCEPT !.phase = IF source.open \/ target # Nil THEN "refused" ELSE "hashing",
                                !.since = Version, !.alone = ~ \E o \in Runs : UnderWay(o)]
             y == [run[r] EXCEPT !.alone = FALSE]
  <2>1. x.status = "none" /\ y.status = run[r].status
    BY <1>1 DEF NoRun, RunRows
  <2>2. run' = [o \in Runs |-> CASE o = q -> x
                                 [] UnderWay(o) -> [run[o] EXCEPT !.alone = FALSE]
                                 [] OTHER -> run[o]]
    BY DEF Start
  <2>3. ~ UnderWay(q)
    BY DEF Start, UnderWay
  <2> HIDE DEF x
  <2>4. CASE r = q
    <3>1. run'[r] = x
      BY <2>2, <2>3, <2>4
    <3> QED BY <1>1, <2>1, <3>1
  <2>5. CASE r # q /\ UnderWay(r)
    <3>1. run'[r] = y
      BY <2>2, <2>5
    <3> HIDE DEF y
    <3> QED BY <1>1, <2>1, <3>1
  <2>6. CASE r # q /\ ~ UnderWay(r)
    <3>1. run'[r] = run[r]
      BY <2>2, <2>6
    <3> QED BY <1>1, <3>1
  <2> QED BY <2>4, <2>5, <2>6
<1>5. ASSUME NEW x, x.status # "completed" \/ x.status = run[q].status, run' = [run EXCEPT ![q] = x]
      PROVE  FALSE
  <2>1. run'[q] = x /\ \A o \in Runs \ {q} : run'[o] = run[o]
    BY <1>1, <1>5
  <2> QED BY <1>1, <1>5, <2>1
<1>6. run[q] \in RunRows
  BY <1>1
<1>7. ~ (LoadFails(q) \/ ImportFails(q) \/ Kill(q) \/ Block(q))
  <2>1. ASSUME NEW p, StopsAs(q, p) PROVE FALSE
    <3>. PICK x : x = [NoRun EXCEPT !.phase = p]
      OBVIOUS
    <3>1. x.status # "completed" /\ run' = [run EXCEPT ![q] = x]
      BY <2>1 DEF NoRun, StopsAs
    <3> QED BY <1>5, <3>1
  <2>2. ~ Block(q)
    <3> SUFFICES ASSUME Block(q) PROVE FALSE
      OBVIOUS
    <3>. PICK x : x = [NoRun EXCEPT !.phase = "done", !.status = "blocked"]
      OBVIOUS
    <3>1. x.status # "completed" /\ run' = [run EXCEPT ![q] = x]
      BY DEF NoRun, Block
    <3> QED BY <1>5, <3>1
  <2> QED BY <2>1, <2>2 DEF LoadFails, ImportFails, Kill
<1>8. ~ Hash(q) /\ ~ LoadRoots(q) /\ ~ LoadRows(q) /\ ~ OpenTarget(q) /\ ~ Import(q)
  <2>1. ASSUME NEW p, run' = [run EXCEPT ![q].phase = p] PROVE FALSE
    <3>. PICK x : x = [run[q] EXCEPT !.phase = p]
      OBVIOUS
    <3>1. x.status = run[q].status /\ run' = [run EXCEPT ![q] = x]
      BY <1>6, <2>1 DEF RunRows
    <3> QED BY <1>5, <3>1
  <2>2. ASSUME NEW p, NEW b, run' = [run EXCEPT ![q].phase = p, ![q].before = b] PROVE FALSE
    <3>. PICK x : x = [run[q] EXCEPT !.phase = p, !.before = b]
      OBVIOUS
    <3>1. x.status = run[q].status /\ run' = [run EXCEPT ![q] = x]
      BY <1>1, <1>6, <2>2 DEF RunRows
    <3> QED BY <1>5, <3>1
  <2>3. ASSUME NEW p, NEW l, run' = [run EXCEPT ![q].phase = p, ![q].loaded = l] PROVE FALSE
    <3>. PICK x : x = [run[q] EXCEPT !.phase = p, !.loaded = l]
      OBVIOUS
    <3>1. x.status = run[q].status /\ run' = [run EXCEPT ![q] = x]
      BY <1>1, <1>6, <2>3 DEF RunRows
    <3> QED BY <1>5, <3>1
  <2>4. ASSUME NEW p, NEW l, run' = [run EXCEPT ![q].loaded = l, ![q].phase = p] PROVE FALSE
    <3>. PICK x : x = [run[q] EXCEPT !.loaded = l, !.phase = p]
      OBVIOUS
    <3>1. x.status = run[q].status /\ run' = [run EXCEPT ![q] = x]
      BY <1>1, <1>6, <2>4 DEF RunRows
    <3> QED BY <1>5, <3>1
  <2>5. ~ LoadRows(q)
    <3> SUFFICES ASSUME LoadRows(q) PROVE FALSE
      OBVIOUS
    <3>. PICK p, l : run' = [run EXCEPT ![q].loaded = l, ![q].phase = p]
      BY DEF LoadRows
    <3> QED BY <2>4
  <2> QED BY <2>1, <2>2, <2>3, <2>5 DEF Hash, LoadRoots, OpenTarget, Import, Enters
<1>9. ~ Validate(q)
  <2> SUFFICES ASSUME Validate(q) PROVE FALSE
    OBVIOUS
  <2>1. CASE target = Nil
    <3>. PICK x : x = [NoRun EXCEPT !.phase = "failed"]
      OBVIOUS
    <3>1. x.status # "completed"
      BY DEF NoRun
    <3> QED BY <1>5, <2>1, <3>1 DEF Validate
  <2>2. CASE target # Nil
    <3>. PICK x, v : x = [run[q] EXCEPT !.phase = "finish", !.agrees = v] /\ run' = [run EXCEPT ![q] = x]
      BY <2>2 DEF Validate
    <3>1. x.status = run[q].status
      BY <1>6 DEF RunRows
    <3>2. run'[q] = x /\ \A o \in Runs \ {q} : run'[o] = run[o]
      BY <1>1
    <3> QED BY <1>1, <3>1, <3>2
  <2> QED BY <2>1, <2>2
<1>10. Finish(q)
  BY <1>3, <1>4, <1>7, <1>8, <1>9 DEF Step
<1>11. q = r
  BY <1>1, <1>10 DEF Finish
<1>12. run[r].agrees /\ SourceUnchanged(r)
  <2> SUFFICES ASSUME ~ (run[r].agrees /\ SourceUnchanged(r)) PROVE FALSE
    OBVIOUS
  <2>. PICK x : x = [NoRun EXCEPT !.phase = "done", !.status = "validation_failed"]
    OBVIOUS
  <2>1. x.status # "completed"
    BY DEF NoRun
  <2>2. run' = [run EXCEPT ![q] = x]
    BY <1>10, <1>11 DEF Finish
  <2> QED BY <1>5, <2>1, <2>2
<1> QED BY <1>10, <1>11, <1>12

(* A migration nobody interfered with that reports itself completed has     *)
(* carried over every row of one state of the source, at its path under the *)
(* innermost of its roots, and nothing else.  That state is no older than   *)
(* what the run found when it looked for sidecars, and the newest one if    *)
(* the source has none at the end (run_migration).                          *)
THEOREM MigrationIsWhole == Spec => CompletedIsWhole
<1>1. ASSUME MigrationInv, [Next]_vars, NEW r \in Runs, r \in Completed' \ Completed, run[r].alone
      PROVE  /\ target # Nil /\ Carries(target.content, source.history[run[r].before])
             /\ run[r].before >= run[r].since
             /\ ~ source.open => run[r].before = Version
  <2>1. run[r].phase = "finish" /\ run[r].before = source.main
    BY <1>1, FinishCompletes DEF Finish, SourceUnchanged
  <2>2. UnderWay(r) /\ Fills(r) /\ Reads(r) /\ InMain \in Legacy /\ SourceOK /\ run[r] \in RunRows
    BY <1>1, <2>1, SourceIs DEF MigrationInv, UnderWay, Ended
  <2>3. target # Nil /\ target.content = Prepared(run[r].loaded)
    BY <1>1, <2>1, <2>2 DEF Fills
  <2>4. run[r].loaded = InMain /\ Clear(InMain)
    BY <2>1, <2>2 DEF Reads
  <2>. PICK s : s = InMain
    OBVIOUS
  <2>5. Carries(Prepared(s), s)
    BY <2>2, <2>4, PreparedCarries
  <2>6. source.history[run[r].before] = s
    BY <2>1 DEF InMain
  <2>7. target.content = Prepared(s)
    BY <2>3, <2>4
  <2>8. run[r].before >= run[r].since
    BY <2>1, <2>2 DEF Reads, RunRows
  <2>9. ~ source.open => run[r].before = Version
    BY <2>1, <2>2 DEF SourceOK
  <2> QED BY <2>3, <2>5, <2>6, <2>7, <2>8, <2>9
<1>2. MigrationInv /\ [Next]_vars =>
        [\A r \in Runs : r \in Completed' \ Completed /\ run[r].alone =>
           /\ target # Nil /\ Carries(target.content, source.history[run[r].before])
           /\ run[r].before >= run[r].since
           /\ ~ source.open => run[r].before = Version]_vars
  BY <1>1
<1> QED BY <1>2, MigrationStarts, MigrationKeeps, PTL DEF Spec, CompletedIsWhole

(* What one run imported is never mixed with what another imports: it       *)
(* stays as it is until the service takes it over, or is removed whole      *)
(* (reject_existing_target_artifacts, ensure_empty_target).                 *)
THEOREM SnapshotsStayApart == Spec => OneSnapshot
<1>1. ASSUME MigrationInv, [Next]_vars, target # Nil, target.content # NoContent, ~ target.open
      PROVE  target' = Nil \/ target'.content = target.content
  <2>1. CASE UNCHANGED target
    BY <2>1
  <2>2. CASE \E r \in Runs : OpenTarget(r) \/ Import(r) \/ ImportFails(r)
    <3>1. IsTarget(target)
      BY <1>1 DEF MigrationInv
    <3>2. [target EXCEPT !.sidecars = TRUE].content = target.content
      BY <3>1 DEF IsTarget
    <3> QED BY <1>1, <2>2, <3>2 DEF OpenTarget, Import, Ready, ImportFails, Removed
  <2>3. CASE ServiceOpens \/ ServiceCheckpoints \/ ServiceCloses
    BY <1>1, <2>3, ServiceTurns
  <2>4. CASE ServiceMoves \/ ServiceSwitches
    BY <1>1, <2>4 DEF ServiceMoves, ServiceSwitches
  <2> QED BY <1>1, <2>1, <2>2, <2>3, <2>4
          DEF Next, Step, vars, Start, Hash, LoadRoots, LoadRows, LoadFails, Block, Validate,
              Finish, Kill, LegacyOpens, LegacyCheckpoints, LegacyCloses, LegacySaves, UserTouches, AuditStarts,
              AuditReads, AuditLooks, AuditEnds
<1>2. MigrationInv /\ [Next]_vars =>
        [target # Nil /\ target.content # NoContent /\ ~ target.open =>
           target' = Nil \/ target'.content = target.content]_vars
  BY <1>1
<1> QED BY <1>2, MigrationStarts, MigrationKeeps, PTL DEF Spec, OneSnapshot

(* A path audit that passes speaks for every collection of the catalog as   *)
(* it was when the audit looked for sidecars: under a root in use, and      *)
(* found at its path since the audit read the catalog.  If there are no     *)
(* sidecars at the end the catalog still is what it was (audit_v2_paths).   *)
THEOREM AuditsAreTrue == Spec => PassedAuditIsTrue
<1>1. ASSUME MigrationInv, [Next]_vars, audit.phase = "looking", audit'.phase = "passed"
      PROVE  /\ \A row \in audit.began.rows :
                  /\ row \in audit.right
                  /\ \E root \in audit.began.roots :
                       root.active /\ root.path = row.root /\ IsStrictPrefix(root.path, row.path)
             /\ ~ target.sidecars => target.content = audit.began
  <2>0. AuditOK
    BY <1>1 DEF MigrationInv
  <2>1. AllEnded /\ IsTarget(target)
    BY <1>1, <2>0 DEF AuditOK
  <2>2. AuditEnds
    <3>1. audit' # audit
      BY <1>1
    <3>2. ~ AuditStarts /\ ~ AuditReads
      BY <1>1 DEF AuditStarts, AuditReads
    <3>3. ~ AuditLooks
      BY <1>1, <2>0 DEF AuditLooks, AuditOK
    <3>4. ~ Notices
      BY <1>1, <2>0 DEF Notices, AuditOK
    <3> QED BY <1>1, <3>1, <3>2, <3>3, <3>4
            DEF Next, Step, vars, Start, Hash, LoadRoots, LoadRows, LoadFails, Block, OpenTarget,
                Import, ImportFails, Validate, Finish, Kill, LegacyOpens, LegacyCheckpoints, LegacyCloses,
                LegacySaves, ServiceOpens, ServiceCheckpoints, ServiceCloses, ServiceMoves, ServiceSwitches, UserTouches
  <2>3. audit.todo = {} /\ audit.before = target.main.version /\ audit.sound
    <3>. PICK p : /\ audit' = [audit EXCEPT !.phase = p]
                  /\ p = IF audit.before # target.main.version THEN "refused"
                         ELSE IF audit.sound THEN "passed" ELSE "found"
      BY <2>2 DEF AuditEnds
    <3>1. p = "passed"
      BY <1>1, <2>0 DEF AuditOK
    <3> QED BY <2>2, <3>1 DEF AuditEnds
  <2>. PICK c : c = audit.began
    OBVIOUS
  <2>4. HasSeen(c) /\ target.main.content = c /\ IsContent(c)
    BY <1>1, <2>0, <2>1, <2>3 DEF AuditOK, IsTarget
  <2>5. \A row \in c.rows : row \in audit.right /\ row.root # Nil /\ IsStrictPrefix(row.root, row.path)
    BY <2>3, <2>4 DEF HasSeen
  <2>6. \A row \in c.rows : \E root \in c.roots : root.path = row.root /\ root.active
    BY <2>3, <2>4, <2>5 DEF IsContent, HasSeen
  <2>7. ~ target.sidecars => target.content = c
    BY <2>1, <2>4 DEF IsTarget
  <2> QED BY <2>5, <2>6, <2>7
<1>2. MigrationInv /\ [Next]_vars =>
        [audit.phase = "looking" /\ audit'.phase = "passed" =>
           /\ \A row \in audit.began.rows :
                /\ row \in audit.right
                /\ \E root \in audit.began.roots :
                     root.active /\ root.path = row.root /\ IsStrictPrefix(root.path, row.path)
           /\ ~ target.sidecars => target.content = audit.began]_vars
  BY <1>1
<1> QED BY <1>2, MigrationStarts, MigrationKeeps, PTL DEF Spec, PassedAuditIsTrue

-----------------------------------------------------------------------------
(* The types of what the runs, the service and the audit leave.              *)

AuditPhases == {"off", "reading", "looking", "passed", "found", "refused"}

DiskTyped    == disk \in [Paths -> Kinds]
BoundsKept   == edits \in 0 .. MaxEdits /\ touches \in 0 .. MaxTouches
AuditTyped   == audit.phase \in AuditPhases /\ audit.sound \in BOOLEAN
KindsCarried == target # Nil => \A row \in target.content.rows : row.kind \in Kinds

MigrationTypesInv ==
  MigrationInv /\ DiskTyped /\ BoundsKept /\ AuditTyped /\ KindsCarried

LEMMA MigrationTypesStart == Init => MigrationTypesInv
<1> SUFFICES ASSUME Init PROVE MigrationTypesInv
  OBVIOUS
<1>1. PICK s \in Legacy : source = [history |-> <<s>>, main |-> 1, open |-> FALSE]
  BY DEF Init
<1>2. Current = s
  BY <1>1 DEF Current, Version
<1>3. DiskTyped
  <2> SUFFICES ASSUME NEW p \in Paths PROVE disk[p] \in Kinds
    BY DEF Init, DiskTyped
  <2>1. CASE \E row \in s.rows : row.path = p
    <3>1. PICK first : first = (CHOOSE row \in s.rows : row.path = p)
      OBVIOUS
    <3>2. first \in s.rows
      BY <2>1, <3>1
    <3>3. disk[p] = first.kind
      BY <1>2, <2>1, <3>1 DEF Init
    <3> QED BY <1>1, <3>2, <3>3, KindsAssumption
  <2>2. CASE ~ \E row \in s.rows : row.path = p
    BY <1>2, <2>2 DEF Init, Kinds
  <2> QED BY <2>1, <2>2
<1>4. BoundsKept
  BY EditsAssumption DEF Init, BoundsKept
<1>5. AuditTyped /\ KindsCarried
  BY <1>1 DEF Init, AuditTyped, AuditPhases, NoAudit, KindsCarried
<1> QED BY <1>3, <1>4, <1>5, MigrationStarts DEF MigrationTypesInv

LEMMA BoundsGoOn ==
  ASSUME BoundsKept, [Next]_vars
  PROVE  BoundsKept'
<1>1. \/ edits' = edits /\ touches' = touches
      \/ Another
      \/ Touches
  BY ZenonT(60)
  DEF Next, Step, vars, Start, Hash, LoadRoots, LoadRows, LoadFails, Block, OpenTarget, Import,
      ImportFails, Validate, Finish, Kill, LegacyOpens, LegacyCheckpoints, LegacyCloses, LegacySaves, ServiceOpens, ServiceCheckpoints,
      ServiceCloses, ServiceMoves, ServiceSwitches, UserTouches, AuditStarts, AuditReads,
      AuditLooks, AuditEnds
<1> QED BY <1>1, EditsAssumption DEF BoundsKept, Another, Touches

LEMMA LoadedKinds ==
  ASSUME NEW s \in Loaded
  PROVE  \A row \in Prepared(s).rows : row.kind \in Kinds
<1>1. PICK t \in Legacy : \E roots : s = [t EXCEPT !.roots = roots]
  BY DEF Loaded, LoadedWith
<1>2. s.rows = t.rows
  BY <1>1, LegacyAssumption
<1>3. \A row \in Prepared(s).rows : \E r \in s.rows : row.kind = r.kind
  BY DEF Prepared, Collection
<1> QED BY <1>2, <1>3, KindsAssumption

LEMMA TargetTyped ==
  ASSUME MigrationTypesInv, [Next]_vars
  PROVE  KindsCarried'
<1> USE DEF MigrationTypesInv
<1>0. target # Nil => target = [content |-> target.content, version |-> target.version,
                                main |-> target.main, sidecars |-> target.sidecars,
                                open |-> target.open]
  BY DEF MigrationInv, IsTarget
<1>1. CASE target' = target \/ target' = Nil
  BY <1>1 DEF KindsCarried
<1>2. CASE \E r \in Runs : OpenTarget(r)
  <2>1. (target # Nil /\ target'.content = target.content) \/ target' = NewTarget
    BY <1>0, <1>2 DEF OpenTarget
  <2>2. NewTarget.content.rows = {}
    BY DEF NewTarget, NoContent
  <2> QED BY <1>1, <2>1, <2>2 DEF KindsCarried
<1>3. CASE \E r \in Runs : Import(r)
  <2>1. PICK r \in Runs : Import(r)
    BY <1>3
  <2>2. IsTarget(target) /\ run[r].loaded \in Loaded
    <3>1. run[r].phase = "import"
      BY <2>1 DEF Import
    <3>2. IsTarget(target) /\ Reads(r)
      BY <3>1 DEF MigrationInv, HasOpen
    <3> QED BY <3>1, <3>2 DEF Reads
  <2>3. target'.content = Prepared(run[r].loaded)
    <3>. PICK c, filled : /\ c = Prepared(run[r].loaded)
                          /\ filled = [target EXCEPT !.content = c, !.version = @ + 1]
                          /\ target' \in {filled, Shut(filled)}
      BY <2>1 DEF Import
    <3>1. filled.content = c /\ Shut(filled).content = c
      BY <2>2 DEF IsTarget, Shut, Checkpointed
    <3> QED BY <3>1
  <2> QED BY <2>2, <2>3, LoadedKinds DEF KindsCarried
<1>4. CASE ServiceOpens \/ ServiceCheckpoints \/ ServiceCloses
  <2>1. target # Nil /\ target'.content = target.content
    BY <1>4, ServiceTurns
  <2> QED BY <2>1 DEF KindsCarried
<1>5. ASSUME NEW c, target # Nil, Saves(c), \A row \in c.rows : row.kind \in Kinds
      PROVE  KindsCarried'
  <2>1. target'.content = c
    BY <1>0, <1>5 DEF Saves
  <2> QED BY <1>5, <2>1 DEF KindsCarried
<1>6. CASE ServiceMoves
  <2>1. PICK row \in target.content.rows, p \in Paths : \E in :
          Saves([target.content EXCEPT !.rows = (@ \ {row}) \cup
                                                {[row EXCEPT !.path = p, !.root = in]}])
    BY <1>6 DEF ServiceMoves
  <2> PICK in : Saves([target.content EXCEPT !.rows = (@ \ {row}) \cup
                                                      {[row EXCEPT !.path = p, !.root = in]}])
    BY <2>1
  <2>2. target # Nil /\ IsContent(target.content)
    BY <1>6 DEF ServiceMoves, MigrationInv, IsTarget
  <2> DEFINE c == [target.content EXCEPT !.rows = (@ \ {row}) \cup
                                                  {[row EXCEPT !.path = p, !.root = in]}]
  <2>3. \A x \in c.rows : x \in target.content.rows \/ x = [row EXCEPT !.path = p, !.root = in]
    BY <2>2 DEF IsContent
  <2>4. [row EXCEPT !.path = p, !.root = in].kind = row.kind
    BY <2>2 DEF IsContent
  <2>5. \A x \in c.rows : x.kind \in Kinds
    BY <2>2, <2>3, <2>4 DEF KindsCarried
  <2> HIDE DEF c
  <2> QED BY <1>5, <2>1, <2>2, <2>5 DEF c
<1>7. CASE ServiceSwitches
  <2>1. PICK roots : Saves([target.content EXCEPT !.roots = roots])
    <3>1. PICK root \in target.content.roots :
            Saves([target.content EXCEPT !.roots = (@ \ {root}) \cup {[root EXCEPT !.active = ~ @]}])
      BY <1>7 DEF ServiceSwitches
    <3>2. [target.content EXCEPT !.roots = (@ \ {root}) \cup {[root EXCEPT !.active = ~ @]}]
            = [target.content EXCEPT !.roots = (target.content.roots \ {root})
                                               \cup {[root EXCEPT !.active = ~ @]}]
      BY <1>7 DEF ServiceSwitches, MigrationInv, IsTarget, IsContent
    <3> QED BY <3>1, <3>2
  <2>2. target # Nil /\ IsContent(target.content)
    BY <1>7 DEF ServiceSwitches, MigrationInv, IsTarget
  <2>3. [target.content EXCEPT !.roots = roots].rows = target.content.rows
    BY <2>2 DEF IsContent
  <2> QED BY <1>5, <2>1, <2>2, <2>3 DEF KindsCarried
<1>8. (\E r \in Runs : ImportFails(r)) => target' = target \/ target' = Nil
  BY DEF ImportFails, Removed
<1> QED
  BY <1>1, <1>2, <1>3, <1>4, <1>6, <1>7, <1>8, ZenonT(60)
  DEF Next, Step, vars, Start, Hash, LoadRoots, LoadRows, LoadFails, Block, Validate, Finish, Kill,
      LegacyOpens, LegacyCheckpoints, LegacyCloses, LegacySaves, UserTouches, AuditStarts, AuditReads, AuditLooks,
      AuditEnds

LEMMA DiskGoesOn ==
  ASSUME MigrationTypesInv, [Next]_vars
  PROVE  DiskTyped'
<1> USE DEF MigrationTypesInv
<1>1. CASE disk' = disk
  BY <1>1 DEF DiskTyped
<1>2. CASE ServiceMoves
  <2>1. PICK row \in target.content.rows, p \in Paths :
          disk' = [disk EXCEPT ![p] = row.kind, ![row.path] = "none"]
    BY <1>2 DEF ServiceMoves
  <2>2. row.kind \in Kinds /\ "none" \in Kinds
    BY <1>2 DEF ServiceMoves, KindsCarried, Kinds
  <2> QED BY <2>1, <2>2 DEF DiskTyped
<1>3. CASE UserTouches
  BY <1>3 DEF UserTouches, DiskTyped
<1> QED
  BY <1>1, <1>2, <1>3, ZenonT(60)
  DEF Next, Step, vars, Start, Hash, LoadRoots, LoadRows, LoadFails, Block, OpenTarget, Import,
      ImportFails, Validate, Finish, Kill, LegacyOpens, LegacyCheckpoints, LegacyCloses, LegacySaves, ServiceOpens, ServiceCheckpoints,
      ServiceCloses, ServiceSwitches, AuditStarts, AuditReads, AuditLooks, AuditEnds

LEMMA AuditGoesOn ==
  ASSUME MigrationTypesInv, [Next]_vars
  PROVE  AuditTyped'
<1> USE DEF MigrationTypesInv
<1>0. audit = [phase |-> audit.phase, before |-> audit.before, sound |-> audit.sound,
               todo |-> audit.todo, right |-> audit.right, began |-> audit.began]
  BY DEF MigrationInv, AuditOK
<1>1. CASE audit' = audit
  BY <1>1 DEF AuditTyped
<1>2. CASE Notices
  <2>1. PICK R : audit' = [audit EXCEPT !.right = R]
    <3>1. audit' = [audit EXCEPT !.right = audit.right
                                  \cup {row \in audit.todo : disk'[row.path] = row.kind}]
      BY <1>0, <1>2 DEF Notices
    <3> QED BY <3>1
  <2> QED BY <1>0, <2>1 DEF AuditTyped
<1>3. CASE AuditStarts
  BY <1>0, <1>3 DEF AuditStarts, AuditTyped, AuditPhases
<1>4. CASE AuditReads
  <2> DEFINE b == \A root \in target.main.content.roots : root.active /\ disk[root.path] = "folder"
             R == {row \in target.main.content.rows : disk[row.path] = row.kind}
             T == target.main.content.rows
  <2>1. audit' = [audit EXCEPT !.phase = "looking", !.todo = T, !.right = R, !.sound = b]
    BY <1>4 DEF AuditReads
  <2>2. b \in BOOLEAN
    OBVIOUS
  <2> HIDE DEF b, R, T
  <2>3. audit'.phase = "looking" /\ audit'.sound = b
    BY <1>0, <2>1
  <2> QED BY <2>2, <2>3 DEF AuditTyped, AuditPhases
<1>5. CASE AuditLooks
  <2>1. PICK row \in audit.todo :
          audit' = [audit EXCEPT !.todo = @ \ {row}, !.sound = @ /\ Sound(row)]
    BY <1>5 DEF AuditLooks
  <2> DEFINE b == audit.sound /\ Sound(row)
  <2>2. b \in BOOLEAN
    OBVIOUS
  <2>3. audit' = [audit EXCEPT !.todo = audit.todo \ {row}, !.sound = b]
    BY <1>0, <2>1
  <2> HIDE DEF b
  <2>4. audit'.phase = audit.phase /\ audit'.sound = b
    BY <1>0, <2>3
  <2> QED BY <2>2, <2>4 DEF AuditTyped
<1>6. CASE AuditEnds
  <2>1. PICK p \in {"refused", "passed", "found"} : audit' = [audit EXCEPT !.phase = p]
    BY <1>6 DEF AuditEnds
  <2> QED BY <1>0, <2>1 DEF AuditTyped, AuditPhases
<1> QED
  BY <1>1, <1>2, <1>3, <1>4, <1>5, <1>6, ZenonT(60)
  DEF Next, Step, vars, Start, Hash, LoadRoots, LoadRows, LoadFails, Block, OpenTarget, Import,
      ImportFails, Validate, Finish, Kill, LegacyOpens, LegacyCheckpoints, LegacyCloses, LegacySaves, ServiceOpens, ServiceCheckpoints,
      ServiceCloses, ServiceMoves, ServiceSwitches, UserTouches

(* Every run, the catalog it makes and the audit are of their kinds, however *)
(* runs, the legacy program, the new service and the user interleave; a run  *)
(* goes on to make a target only for a source it found nothing wrong with.   *)
THEOREM MigrationTypesCorrect == Spec => []TypeOK
<1>1. MigrationTypesInv => TypeOK
  <2> SUFFICES ASSUME MigrationTypesInv PROVE TypeOK
    OBVIOUS
  <2> USE DEF MigrationTypesInv
  <2>1. /\ source.history \in Seq(Legacy) /\ source.open \in BOOLEAN /\ Version \in Nat
        /\ source.main \in 1 .. Version
    BY DEF MigrationInv, SourceOK, Version
  <2>2. target # Nil => /\ target.version \in Nat /\ target.open \in BOOLEAN
                        /\ target.main.version \in 0 .. target.version
                        /\ target.sidecars \in BOOLEAN
    BY DEF MigrationInv, IsTarget
  <2>3. ASSUME NEW r \in Runs
        PROVE  /\ run[r].phase \in RunPhases /\ run[r].status \in Statuses
               /\ run[r].before \in 0 .. Version /\ run[r].since \in 0 .. Version
               /\ run[r].agrees \in BOOLEAN /\ run[r].alone \in BOOLEAN
               /\ run[r].phase \in {"open", "import", "validate", "finish"} =>
                    Issues(run[r].loaded) = {} /\ Conflicts(run[r].loaded) = {}
    <3>1. run[r] \in RunRows /\ Reads(r)
      BY DEF MigrationInv
    <3>2. /\ run[r].phase \in RunPhases /\ run[r].status \in Statuses /\ run[r].before \in Nat
          /\ run[r].since \in Nat /\ run[r].agrees \in BOOLEAN /\ run[r].alone \in BOOLEAN
      BY <3>1 DEF RunRows
    <3> QED BY <2>1, <3>1, <3>2 DEF Reads, Clear
  <2> QED BY <2>1, <2>2, <2>3 DEF TypeOK, DiskTyped, BoundsKept, AuditTyped, AuditPhases
<1>2. MigrationTypesInv /\ [Next]_vars => MigrationTypesInv'
  BY MigrationKeeps, BoundsGoOn, TargetTyped, DiskGoesOn, AuditGoesOn DEF MigrationTypesInv
<1> QED BY <1>1, <1>2, MigrationTypesStart, PTL DEF Spec
=============================================================================
