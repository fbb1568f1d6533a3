---------------------------- MODULE ServiceLaunch ----------------------------
(***************************************************************************)
(* Who runs the service.  The launcher's commands and the desktop shell    *)
(* start and stop services that share a state directory: launcher.json     *)
(* names the selected catalog, instance.json (here: the claim) the running *)
(* service, a launch lock lets one command at a time work, a service lock  *)
(* one service at a time.  The services read and write the claim, too.     *)
(*                                                                         *)
(* Abstractions.  A service is the number of its instance identity, which  *)
(* also stands for its port.  A health check reaches a service that        *)
(* serves, and may time out when it is busy or about to serve (Busy).      *)
(* Files are written aside and renamed; the moment in which the renaming   *)
(* leaves no claim is kept, that of launcher.json is not.  Timeouts pass,  *)
(* they have no length.  The browser, the window and the status command,   *)
(* which changes nothing, are not modelled, nor is a first catalog that is *)
(* chosen in a dialog told from one given as an argument.                  *)
(***************************************************************************)
EXTENDS Naturals, FiniteSets

CONSTANTS
  Launchers,    \* launcher processes
  Catalogs,
  Damaged,      \* catalogs no service can open
  Pids,
  MaxServices,  \* bound on the services ever started
  MaxCommands,  \* bound on the commands ever given
  Busy,         \* whether a health check can time out
  Garbled, Null

Services == 1 .. MaxServices

VARIABLES
  config,     \* launcher.json: the selected catalog, or Null
  claim,      \* instance.json: Null, Garbled or what a service published
  service,    \* the services, by identity
  strangers,  \* pids in use by other programs
  command,    \* what each launcher is doing
  desktop,    \* the desktop shell
  given       \* number of commands given

launchVars == <<config, claim, service, strangers, command, desktop, given>>

Claims == [id : Services, pid : Pids, catalog : Catalogs]

ASSUME LaunchBoundsAssumption == MaxServices \in Nat /\ MaxCommands \in Nat
ASSUME LaunchNullAssumption == Null \notin Claims /\ Garbled \notin Claims

NoService == [phase |-> "none", catalog |-> Null, pid |-> Null]
NoCommand == [op |-> "none", step |-> "idle", catalog |-> Null, found |-> Null, child |-> Null]
NoDesktop == [step |-> "off", id |-> Null, first |-> FALSE]

Phases == {"none", "starting", "opening", "publishing", "serving", "closing",
           "gone"}

\* mutant: the guard lets go of the lock before it removes the claim
LockedTooShort == {"opening", "publishing", "serving"}

\* the phases in which a service holds the service lock
Locked == {"opening", "publishing", "serving", "closing"}

Steps  == {"idle", "lock", "look", "check", "spawn", "wait", "decide", "strike", "await"}

LaunchTypeOK ==
  /\ config \in Catalogs \cup {Null} /\ claim \in Claims \cup {Null, Garbled}
  /\ service \in [Services -> [phase : Phases, catalog : Catalogs \cup {Null},
                               pid : Pids \cup {Null}]]
  /\ strangers \subseteq Pids
  /\ command \in [Launchers ->
       [op : {"none", "open", "restart", "stop"}, step : Steps,
        catalog : Catalogs \cup {Null}, found : Claims \cup {Null}, child : Services \cup {Null}]]
  /\ desktop \in [step : {"off", "starting", "open", "failing", "closing"},
                  id : Services \cup {Null}, first : BOOLEAN]
  /\ given \in 0 .. MaxCommands

Alive(i)    == service[i].phase \notin {"none", "gone"}
Running(p)  == p \in strangers \/ \E i \in Services : Alive(i) /\ service[i].pid = p
\* pids to give: none is given again in the moment between the answer of a service to a stop
\* and the blow
Free        == {p \in Pids : ~ Running(p) /\ \A l \in Launchers :
                  command[l].step = "strike" => command[l].found.pid # p}
LockHeld    == \E i \in Services : service[i].phase \in Locked
LaunchHeld  == \E l \in Launchers : command[l].step \notin {"idle", "lock"}
Healthy(c)  == service[c.id].phase = "serving"
Following(i) == \A j \in Services : (service[j].phase = "none") <=> (j >= i)

\* health_check: the identity is that of the service which answers; a busy one may not answer
Answers(c) == IF Healthy(c) THEN {TRUE} \cup (IF Busy THEN {FALSE} ELSE {}) ELSE {FALSE}

LaunchInit ==
  /\ config \in Catalogs \cup {Null} /\ claim \in {Null, Garbled}
  /\ service = [i \in Services |-> NoService]
  /\ strangers = {}
  /\ command = [l \in Launchers |-> NoCommand]
  /\ desktop = NoDesktop /\ given = 0

Phase(i, phase) == service' = [service EXCEPT ![i].phase = phase]
At(l, step)     == command[l].step = step
Goes(l, step)   == command' = [command EXCEPT ![l].step = step]
Ends(l)         == command' = [command EXCEPT ![l] = NoCommand]

\* spawn_http, start_service: a process and its identity
Spawned(i, c, p) ==
  /\ Following(i) /\ p \in Free
  /\ service' = [service EXCEPT ![i] = [phase |-> "starting", catalog |-> c, pid |-> p]]

-----------------------------------------------------------------------------
(* The service: run_service and its ServiceInstanceGuard. *)

\* acquire: only one service holds the lock; a second one ends, without a guard to drop
Acquires(i) ==
  /\ service[i].phase = "starting"
  /\ Phase(i, IF LockHeld THEN "gone" ELSE "opening")
  /\ UNCHANGED <<config, claim, strangers, command, desktop, given>>

\* CatalogRepository::open, the recoveries and the port; an error drops the guard
Opens(i) ==
  /\ service[i].phase = "opening"
  /\ \/ service[i].catalog \notin Damaged /\ Phase(i, "publishing") /\ claim' = Null
     \/ Phase(i, "closing") /\ UNCHANGED claim
  /\ UNCHANGED <<config, strangers, command, desktop, given>>

\* publish renames the claim into place, or fails with the old one removed; the session and the
\* workers are the last that can fail, then on_ready is told and the service serves
Publishes(i) ==
  /\ service[i].phase = "publishing"
  /\ \/ /\ claim' = [id |-> i, pid |-> service[i].pid, catalog |-> service[i].catalog]
        /\ Phase(i, "serving") \/ Phase(i, "closing")
     \/ UNCHANGED claim /\ Phase(i, "closing")
  /\ UNCHANGED <<config, strangers, command, desktop, given>>

\* Drop of the guard removes the claim, whosever it is; the lock goes with the guard
Removes(i) ==
  /\ service[i].phase = "closing"
  /\ claim' = Null /\ Phase(i, "gone")
  /\ UNCHANGED <<config, strangers, command, desktop, given>>

\* serve ends, or the process does, without a Drop; the desktop's service ends with its shell
Stops(i) ==
  /\ service[i].phase = "serving" /\ Phase(i, "closing")
  /\ UNCHANGED <<config, claim, strangers, command, desktop, given>>

Crashes(i) ==
  /\ Alive(i) /\ Phase(i, "gone")
  /\ desktop' = IF desktop.id = i THEN NoDesktop ELSE desktop
  /\ UNCHANGED <<config, claim, strangers, command, given>>

\* the system gives the pid of a process that has ended to another program
Reuses(p) ==
  /\ p \in Free /\ \E i \in Services : service[i].pid = p
  /\ strangers' = strangers \cup {p}
  /\ UNCHANGED <<config, claim, service, command, desktop, given>>

-----------------------------------------------------------------------------
(* The launcher: execute. *)

\* open selects its catalog before it takes the launch lock; without one it is the selected one
Gives(l, op, c) ==
  /\ command[l] = NoCommand /\ given < MaxCommands /\ given' = given + 1
  /\ (op = "open") <=> (c # Null)
  /\ config' = IF op = "open" THEN c ELSE config
  /\ command' = [command EXCEPT ![l] =
       [NoCommand EXCEPT !.op = op, !.catalog = c, !.step = "lock"]]
  /\ UNCHANGED <<claim, service, strangers, desktop>>

Locks(l) ==
  /\ At(l, "lock") /\ ~ LaunchHeld
  /\ Goes(l, "look")
  /\ UNCHANGED <<config, claim, service, strangers, desktop, given>>

\* read_instance: what cannot be read tells of no service
Seen == IF claim = Garbled THEN Null ELSE claim

\* open_catalog reads the claim; what cannot be read is removed
LooksToOpen(l) ==
  /\ At(l, "look") /\ command[l].op = "open"
  /\ command' = [command EXCEPT ![l].found = Seen,
                                ![l].step = IF claim \in {Null, Garbled} THEN "spawn" ELSE "check"]
  /\ claim' = IF claim = Garbled THEN Null ELSE claim
  /\ UNCHANGED <<config, service, strangers, desktop, given>>

\* the healthy service of the same catalog is reused; any other claim is removed
Checks(l) ==
  /\ At(l, "check")
  /\ LET found == command[l].found IN
     \E answers \in Answers(found) :
       IF found.catalog = command[l].catalog /\ answers
       THEN Ends(l) /\ UNCHANGED claim
       ELSE /\ IF claim = Null THEN Ends(l) ELSE Goes(l, "spawn")
            /\ claim' = Null
  /\ UNCHANGED <<config, service, strangers, desktop, given>>

Spawns(l) ==
  /\ At(l, "spawn")
  /\ \/ \E i \in Services, p \in Pids :
          /\ Spawned(i, command[l].catalog, p)
          /\ command' = [command EXCEPT ![l].child = i, ![l].step = "wait"]
     \/ Ends(l) /\ UNCHANGED service
  /\ UNCHANGED <<config, claim, strangers, desktop, given>>

\* mutant: waits for the child without a limit
WaitsForever(l) ==
  /\ At(l, "wait")
  /\ \/ service[command[l].child].phase = "gone"
     \/ claim \in Claims /\ (claim.id # command[l].child \/ TRUE \in Answers(claim))
  /\ Ends(l)
  /\ UNCHANGED <<config, claim, service, strangers, desktop, given>>

\* wait_for_service: the child ends, another service has the claim, it is healthy, or time is up
Waits(l) ==
  /\ At(l, "wait")
  /\ Ends(l)
  /\ UNCHANGED <<config, claim, service, strangers, desktop, given>>

\* stop_selected: what cannot be read, or no selection, is an error; nothing claimed, nothing to do
LooksToStop(l) ==
  /\ At(l, "look") /\ command[l].op \in {"stop", "restart"}
  /\ IF claim = Garbled \/ (claim # Null /\ config = Null) THEN Ends(l)
     ELSE IF claim # Null
     THEN command' = [command EXCEPT ![l].found = claim, ![l].catalog = config, ![l].step = "decide"]
     ELSE IF command[l].op = "restart" /\ config # Null
     THEN command' = [command EXCEPT ![l].op = "open", ![l].catalog = config]
     ELSE Ends(l)
  /\ UNCHANGED <<config, claim, service, strangers, desktop, given>>

\* what follows a stop: nothing, or the opening of the selected catalog
Stopped(l) ==
  IF command[l].op = "restart" /\ config # Null
  THEN command' = [command EXCEPT ![l] = [NoCommand EXCEPT !.op = "open", !.step = "look",
                                                            !.catalog = config]]
  ELSE Ends(l)

\* mutant: a process with the pid is taken for the service without asking it
DispositionByPid(l, answers) ==
  IF command[l].found.catalog # command[l].catalog THEN "refuse"
  ELSE IF Running(command[l].found.pid) THEN "stop" ELSE "clean"

\* stop_disposition
Disposition(l, answers) ==
  IF command[l].found.catalog # command[l].catalog THEN "refuse"
  ELSE IF answers THEN "stop"
  ELSE IF Running(command[l].found.pid) THEN "refuse" ELSE "clean"

Decides(l) ==
  /\ At(l, "decide")
  /\ \E answers \in Answers(command[l].found) :
       CASE Disposition(l, answers) = "refuse" -> Ends(l) /\ UNCHANGED claim
         [] Disposition(l, answers) = "stop"   -> Goes(l, "strike") /\ UNCHANGED claim
         [] OTHER -> (IF claim = Null THEN Ends(l) ELSE Stopped(l)) /\ claim' = Null
  /\ UNCHANGED <<config, service, strangers, desktop, given>>

\* stop_process: whoever has the pid is told to end, or ended; a command for it that fails is an
\* error and strikes nobody
Strikes(l) ==
  /\ At(l, "strike")
  /\ \/ Ends(l) /\ UNCHANGED <<service, strangers, desktop>>
     \/ LET p == command[l].found.pid IN
        /\ Running(p) /\ Goes(l, "await")
        /\ \E phase \in {"closing", "gone"} :
             service' = [i \in Services |->
               IF Alive(i) /\ service[i].pid = p
               THEN [service[i] EXCEPT !.phase =
                       IF phase = "closing" /\ @ # "serving" THEN @ ELSE phase]
               ELSE service[i]]
        /\ strangers' = strangers \ {p}
        /\ desktop' = IF desktop.id # Null /\ service[desktop.id].pid = p THEN NoDesktop
                      ELSE desktop
  /\ UNCHANGED <<config, claim, given>>

\* the process has ended within its time, and its claim is removed, or it has not
Awaits(l) ==
  /\ At(l, "await")
  /\ \/ ~ Running(command[l].found.pid) /\ claim' = Null /\ Stopped(l)
     \/ Running(command[l].found.pid) /\ Ends(l) /\ UNCHANGED claim
  /\ UNCHANGED <<config, service, strangers, desktop, given>>

-----------------------------------------------------------------------------
(* The desktop shell: it runs the service in its own process. *)

\* start, start_service: the selected catalog, or one chosen at the first launch, which is not
\* written down before the service is known to work
DesktopStarts(c, i, p) ==
  /\ desktop = NoDesktop
  /\ config # Null => c = config
  /\ Spawned(i, c, p)
  /\ desktop' = [NoDesktop EXCEPT !.step = "starting", !.id = i, !.first = (config = Null)]
  /\ UNCHANGED <<config, claim, strangers, command, given>>

\* on_ready within its time: the choice of a first launch is kept, and the window opens
DesktopOpens ==
  /\ desktop.step = "starting" /\ service[desktop.id].phase = "serving"
  /\ config' = IF desktop.first THEN service[desktop.id].catalog ELSE config
  /\ desktop' = [desktop EXCEPT !.step = "open"]
  /\ UNCHANGED <<claim, service, strangers, command, given>>

\* fail: the service ended before it was ready, or its time is up; an error is shown
DesktopFails ==
  /\ desktop.step = "starting"
  /\ desktop' = [desktop EXCEPT !.step = "failing"]
  /\ UNCHANGED <<config, claim, service, strangers, command, given>>

\* process::exit after the dialog: nothing is tidied up
DesktopQuits ==
  /\ desktop.step = "failing"
  /\ desktop' = NoDesktop
  /\ IF Alive(desktop.id) THEN Phase(desktop.id, "gone") ELSE UNCHANGED service
  /\ UNCHANGED <<config, claim, strangers, command, given>>

\* the window is closed; stop_service tells the service to end
DesktopCloses ==
  /\ desktop.step = "open"
  /\ desktop' = [desktop EXCEPT !.step = "closing"]
  /\ IF service[desktop.id].phase = "serving" THEN Phase(desktop.id, "closing")
     ELSE UNCHANGED service
  /\ UNCHANGED <<config, claim, strangers, command, given>>

\* watch_service: a service that ends unasked is reported and ends the shell
DesktopNotices ==
  /\ desktop.step = "open" /\ service[desktop.id].phase = "gone"
  /\ desktop' = [desktop EXCEPT !.step = "closing"]
  /\ UNCHANGED <<config, claim, service, strangers, command, given>>

\* the service has ended, or its time is up and it ends with the process
DesktopExits ==
  /\ desktop.step = "closing"
  /\ desktop' = NoDesktop
  /\ IF Alive(desktop.id) THEN Phase(desktop.id, "gone") ELSE UNCHANGED service
  /\ UNCHANGED <<config, claim, strangers, command, given>>

-----------------------------------------------------------------------------
Commands(l) ==
  \/ LooksToOpen(l) \/ Checks(l) \/ Spawns(l) \/ Waits(l)
  \/ LooksToStop(l) \/ Decides(l) \/ Strikes(l) \/ Awaits(l)

LaunchNext ==
  \/ \E i \in Services :
       \/ Acquires(i) \/ Opens(i) \/ Publishes(i) \/ Removes(i)
       \/ Stops(i) \/ Crashes(i)
  \/ \E p \in Pids : Reuses(p)
  \/ \E l \in Launchers :
       \/ \E op \in {"open", "restart", "stop"}, c \in Catalogs \cup {Null} : Gives(l, op, c)
       \/ Locks(l) \/ Commands(l)
  \/ \E c \in Catalogs, i \in Services, p \in Pids : DesktopStarts(c, i, p)
  \/ DesktopOpens \/ DesktopFails \/ DesktopQuits \/ DesktopCloses \/ DesktopNotices
  \/ DesktopExits

LaunchSpec == LaunchInit /\ [][LaunchNext]_launchVars

\* The system runs the launchers, every wait of theirs ends, and a lock that is free time and
\* again is granted.  Nothing is assumed of the services.
FairLaunchSpec ==
  /\ LaunchSpec
  /\ \A l \in Launchers : WF_launchVars(Commands(l)) /\ SF_launchVars(Locks(l))

-----------------------------------------------------------------------------
\* A stop strikes its service only, of the selected catalog: a pid that another program or
\* another service has got since the claim was written authorizes nothing (stop_disposition
\* and its test; that a pid is not given again between answer and blow is assumed of the
\* system).
StopStrikesItsService ==
  \A l \in Launchers : At(l, "strike") =>
    LET found == command[l].found IN
      /\ found.catalog = command[l].catalog /\ found.pid \notin strangers
      /\ \A i \in Services : Alive(i) /\ service[i].pid = found.pid => i = found.id

\* A service that ends, or that another one kept from starting, never takes away the claim of
\* one that runs (ServiceInstanceGuard: the claim goes before the lock does).
EndingLeavesOthersClaims ==
  [][\A i \in Services :
       service[i].phase = "closing" /\ service'[i].phase = "gone" /\ claim' # claim /\ claim \in Claims
         => claim.id = i \/ ~ Alive(claim.id)]_launchVars

\* Every command of the launcher ends, though the service it starts may hang: no lock is
\* waited for while another is held (with_launch_lock, wait_for_service, stop_selected).
CommandsEnd == \A l \in Launchers : (command[l] # NoCommand) ~> (command[l] = NoCommand)

\* Violated: the claim of a service that serves stands, so that open can reuse it.
HealthyServiceIsListed ==
  \A i \in Services : service[i].phase = "serving" => claim \in Claims /\ claim.id = i

\* Violated: where fail ends the desktop, no service is left to tidy up.
NothingToTidyUp == desktop.step = "failing" => service[desktop.id].phase # "serving"

=============================================================================
