----------------------------- MODULE JobsProofs -----------------------------
(***************************************************************************)
(* For any configurations, requests and edits, however often a command is  *)
(* killed, fails or meets a reboot: what schedule and unschedule leave in  *)
(* systemd, and what they have done in each scheduler when they end well.  *)
(***************************************************************************)
EXTENDS Jobs, FiniteSetTheorems, TLAPS

SystemdPlaces ==
  {"idle", "ended", "collect", "profile", "job", "query", "denied",
   "write service", "write timer", "reload", "enable", "start",
   "stop", "disable", "remove timer", "remove service"}

(* A process that was started is a record of what it was asked for.        *)
ProcShape ==
  proc.at # "idle" =>
    /\ proc = [at |-> proc.at, request |-> proc.request, child |-> proc.child,
               config |-> proc.config, titles |-> proc.titles, jobs |-> proc.jobs,
               job |-> proc.job, touched |-> proc.touched, outcome |-> proc.outcome]
    /\ proc.request \in Requests

TimersServed ==
  \A f \in DOMAIN disk : /\ f = <<f[1], f[2]>>
                         /\ f[2] = "timer" => <<f[1], "service">> \in DOMAIN disk
UnitsFiled == \A u \in enabled \cup DOMAIN active : <<u, "timer">> \in DOMAIN disk

(* What the steps of a job have established so far.                        *)
JobSoFar ==
  /\ proc.at = "write timer" => File("service") \in DOMAIN disk
  /\ proc.at \in {"reload", "enable", "start"} => File("timer") \in DOMAIN disk
  /\ proc.at = "disable" => Unit \notin DOMAIN active
  /\ proc.at \in {"remove timer", "remove service"} => Unit \notin enabled \cup DOMAIN active
  /\ proc.at = "remove service" => File("timer") \notin DOMAIN disk

Placed == ProcShape /\ proc.at \in SystemdPlaces
UnitInv == Placed /\ TimersServed /\ UnitsFiled /\ JobSoFar

LEMMA Moves ==
  ASSUME ProcShape, proc.at # "idle", NEW x, x # "idle", Goto(x)
  PROVE  ProcShape' /\ proc'.at = x /\ UNCHANGED <<proc.job, Elevated>>
BY DEF ProcShape, Goto, Elevated

LEMMA Fails ==
  ASSUME ProcShape, proc.at # "idle", NEW x, FailJob(x)
  PROVE  ProcShape' /\ proc'.at \in {"profile", "denied", "ended"}
BY DEF ProcShape, FailJob, Goto, End

LEMMA Starts ==
  ASSUME NEW request \in Requests, NEW child, Start(request, child)
  PROVE  ProcShape' /\ proc'.at = "collect"
BY DEF ProcShape, Start

LEMMA SameUnit ==
  ASSUME UNCHANGED <<system, proc.job, Elevated>>
  PROVE  Unit' = Unit /\ \A s : File(s)' = File(s)
BY DEF Unit, File

(* Functions that gain or lose an element.                                 *)
LEMMA Gains ==
  ASSUME NEW f, NEW k, NEW v
  PROVE  DOMAIN With(f, k, v) = DOMAIN f \cup {k} /\ DOMAIN Unless(f, k, v) = DOMAIN f \cup {k}
BY DEF With, Unless

LEMMA Loses ==
  ASSUME NEW f, NEW k
  PROVE  DOMAIN Restrict(f, DOMAIN f \ {k}) = DOMAIN f \ {k}
BY DEF Restrict

(* A step that leaves the units alone and goes where nothing is known.     *)
Elsewhere == SystemdPlaces \ {"write timer", "reload", "enable", "start", "disable", "remove timer", "remove service"}

LEMMA Leaves ==
  ASSUME UnitInv, UNCHANGED <<disk, enabled, active>>, ProcShape', proc'.at \in Elsewhere
  PROVE  UnitInv'
BY DEF UnitInv, Placed, TimersServed, UnitsFiled, JobSoFar, Elsewhere

LEMMA QuietSteps ==
  ASSUME RequestAssumption, system = "systemd", UnitInv,
         \/ \E request \in Requests : Command(request)
         \/ Collect \/ NextProfile \/ NextJob \/ Query \/ Elevate \/ Kill
  PROVE  UnitInv'
<1> USE DEF machine
<1> SUFFICES ProcShape' /\ proc'.at \in Elsewhere /\ UNCHANGED <<disk, enabled, active>>
  BY Leaves
<1>1. ProcShape
  BY DEF UnitInv, Placed
<1>2. ASSUME NEW request \in Requests, Command(request)
      PROVE  ProcShape' /\ proc'.at \in Elsewhere /\ UNCHANGED <<disk, enabled, active>>
  BY <1>2, Starts DEF Command, Elsewhere, SystemdPlaces
<1>3. CASE Collect
  BY <1>1, <1>3 DEF Collect, End, ProcShape, Elsewhere, SystemdPlaces
<1>4. CASE NextProfile
  BY <1>1, <1>4, Fails DEF NextProfile, End, ProcShape, Elsewhere, SystemdPlaces
<1>5. CASE NextJob
  <2>1. FirstStep \in {"query", "write service", "stop"}
    <3>1. proc.request \in Requests
      BY <1>1, <1>5 DEF NextJob, ProcShape
    <3>2. proc.request.op \in {"schedule", "unschedule", "status"}
      BY <3>1 DEF RequestAssumption
    <3>3. QED
      BY <3>2 DEF FirstStep
  <2>2. /\ proc.at = "job"
        /\ FirstStep # "idle" /\ FirstStep \in Elsewhere
    BY <1>5, <2>1 DEF NextJob, Elsewhere, SystemdPlaces
  <2>3. CASE proc.jobs = {}
    BY <1>1, <1>5, <2>2, <2>3 DEF NextJob, Goto, ProcShape, Elsewhere, SystemdPlaces
  <2>4. ASSUME NEW job, proc' = [proc EXCEPT !.at = FirstStep, !.job = job, !.jobs = @ \ {job}, !.touched = TRUE]
        PROVE  ProcShape' /\ proc'.at = FirstStep
    BY <1>1, <2>2, <2>4 DEF ProcShape
  <2>5. ASSUME FailJob("not allowed")
        PROVE  ProcShape' /\ proc'.at \in Elsewhere
    BY <1>1, <2>2, <2>5, Fails DEF Elsewhere, SystemdPlaces
  <2>6. CASE proc.jobs # {}
    <3>1. FailJob("not allowed") \/ \E job : proc' = [proc EXCEPT !.at = FirstStep, !.job = job, !.jobs = @ \ {job}, !.touched = TRUE]
      BY <1>5, <2>6 DEF NextJob
    <3>2. QED
      BY <1>5, <2>2, <2>4, <2>5, <3>1 DEF NextJob
  <2>7. QED
    BY <2>3, <2>6
<1>6. CASE Query
  <2>1. Goto("job") \/ FailJob("error")
    BY <1>6 DEF Query
  <2>2. proc.at = "query" /\ UNCHANGED <<disk, enabled, active>>
    BY <1>6 DEF Query
  <2>3. CASE Goto("job")
    BY <1>1, <2>2, <2>3 DEF Goto, ProcShape, Elsewhere, SystemdPlaces
  <2>4. CASE FailJob("error")
    BY <1>1, <2>2, <2>4, Fails DEF Elsewhere, SystemdPlaces
  <2>5. QED
    BY <2>1, <2>2, <2>3, <2>4
<1>7. CASE Elevate
  <2>1. proc.at = "denied" /\ proc.request \in Requests
    BY <1>1, <1>7 DEF Elevate, ProcShape
  <2>2. QED
    BY <1>1, <1>7, <2>1, Starts DEF Elevate, End, ProcShape, Elsewhere, SystemdPlaces
<1>8. CASE Kill
  BY <1>8 DEF Kill, Idle, ProcShape, Elsewhere, SystemdPlaces
<1>9. QED
  BY <1>2, <1>3, <1>4, <1>5, <1>6, <1>7, <1>8

-----------------------------------------------------------------------------
(* The steps of a job.  Each goes on to a place (Goes), or fails.          *)
Goes(place) ==
  ProcShape' /\ proc'.at = place /\ UNCHANGED <<Unit, File("service"), File("timer")>>
Gone == ProcShape' /\ proc'.at \in Elsewhere

LEMMA GoesOrFails ==
  ASSUME ProcShape, proc.at # "idle", UNCHANGED system
  PROVE  /\ \A x \in SystemdPlaces \ {"idle"} : Goto(x) => Goes(x)
         /\ \A x : FailJob(x) => Gone
<1>1. ASSUME NEW x \in SystemdPlaces \ {"idle"}, Goto(x)
      PROVE  Goes(x)
  <2>1. ProcShape' /\ proc'.at = x /\ UNCHANGED <<proc.job, Elevated>>
    BY <1>1, Moves
  <2>2. Unit' = Unit /\ \A s : File(s)' = File(s)
    BY <2>1, SameUnit
  <2>3. QED
    BY <2>1, <2>2 DEF Goes
<1>2. ASSUME NEW x, FailJob(x)
      PROVE  Gone
  BY <1>2, Fails DEF Gone, Elsewhere, SystemdPlaces
<1>3. QED
  BY <1>1, <1>2

LEMMA ServiceStep ==
  ASSUME system = "systemd", UnitInv, WriteService
  PROVE  UnitInv'
<1>1. /\ proc.at = "write service" /\ ProcShape /\ TimersServed /\ UnitsFiled
      /\ UNCHANGED <<system, enabled, active>>
  BY DEF WriteService, UnitInv, Placed
<1>2. CASE disk' = disk /\ FailJob("error")
  BY <1>1, <1>2, GoesOrFails, Leaves DEF Gone
<1>3. ASSUME NEW content, disk' = With(disk, File("service"), content)
      PROVE  TimersServed' /\ UnitsFiled' /\ File("service") \in DOMAIN disk'
  <2>1. DOMAIN disk' = DOMAIN disk \cup {<<Unit, "service">>}
    BY <1>3, Gains DEF File
  <2>2. TimersServed'
    <3> SUFFICES ASSUME NEW f \in DOMAIN disk'
                 PROVE  f = <<f[1], f[2]>> /\ (f[2] = "timer" => <<f[1], "service">> \in DOMAIN disk')
      BY DEF TimersServed
    <3>1. CASE f \in DOMAIN disk
      BY <1>1, <2>1, <3>1 DEF TimersServed
    <3>2. CASE f = <<Unit, "service">>
      BY <3>2
    <3>3. QED
      BY <2>1, <3>1, <3>2
  <2>3. QED
    BY <1>1, <2>1, <2>2 DEF UnitsFiled, File
<1>4. CASE Goto("write timer") /\ disk' = With(disk, File("service"), Arguments(proc.job))
  <2>1. Goes("write timer")
    BY <1>1, <1>4, GoesOrFails DEF SystemdPlaces
  <2>2. TimersServed' /\ UnitsFiled' /\ File("service")' \in DOMAIN disk'
    BY <1>3, <1>4, <2>1 DEF Goes
  <2>3. QED
    BY <2>1, <2>2 DEF Goes, UnitInv, Placed, JobSoFar, SystemdPlaces
<1>5. CASE FailJob("error") /\ disk' = With(disk, File("service"), Torn)
  <2>1. Gone
    BY <1>1, <1>5, GoesOrFails
  <2>2. TimersServed' /\ UnitsFiled'
    BY <1>3, <1>5
  <2>3. QED
    BY <2>1, <2>2 DEF Gone, Elsewhere, UnitInv, Placed, JobSoFar, SystemdPlaces
<1>6. QED
  BY <1>2, <1>4, <1>5 DEF WriteService, Write

LEMMA TimerStep ==
  ASSUME system = "systemd", UnitInv, WriteTimer
  PROVE  UnitInv'
<1>1. /\ proc.at = "write timer" /\ ProcShape /\ TimersServed /\ UnitsFiled
      /\ File("service") \in DOMAIN disk /\ UNCHANGED <<system, enabled, active>>
  BY DEF WriteTimer, UnitInv, Placed, JobSoFar
<1>2. CASE disk' = disk /\ FailJob("error")
  BY <1>1, <1>2, GoesOrFails, Leaves DEF Gone
<1>3. ASSUME NEW content, disk' = With(disk, File("timer"), content)
      PROVE  TimersServed' /\ UnitsFiled' /\ File("timer") \in DOMAIN disk'
  <2>1. DOMAIN disk' = DOMAIN disk \cup {<<Unit, "timer">>} /\ <<Unit, "service">> \in DOMAIN disk
    BY <1>1, <1>3, Gains DEF File
  <2>2. TimersServed'
    <3> SUFFICES ASSUME NEW f \in DOMAIN disk'
                 PROVE  f = <<f[1], f[2]>> /\ (f[2] = "timer" => <<f[1], "service">> \in DOMAIN disk')
      BY DEF TimersServed
    <3>1. CASE f \in DOMAIN disk
      BY <1>1, <2>1, <3>1 DEF TimersServed
    <3>2. CASE f = <<Unit, "timer">>
      BY <2>1, <3>2
    <3>3. QED
      BY <2>1, <3>1, <3>2
  <2>3. QED
    BY <1>1, <2>1, <2>2 DEF UnitsFiled, File
<1>4. ASSUME NEW x \in {"reload", "enable"}, Goto(x),
             disk' = With(disk, File("timer"), proc.job.section.when)
      PROVE  UnitInv'
  <2>1. Goes(x)
    BY <1>1, <1>4, GoesOrFails DEF SystemdPlaces
  <2>2. TimersServed' /\ UnitsFiled' /\ File("timer")' \in DOMAIN disk'
    BY <1>3, <1>4, <2>1 DEF Goes
  <2>3. QED
    BY <2>1, <2>2 DEF Goes, UnitInv, Placed, JobSoFar, SystemdPlaces
<1>5. CASE FailJob("error") /\ disk' = With(disk, File("timer"), Torn)
  <2>1. Gone
    BY <1>1, <1>5, GoesOrFails
  <2>2. TimersServed' /\ UnitsFiled'
    BY <1>3, <1>5
  <2>3. QED
    BY <2>1, <2>2 DEF Gone, Elsewhere, UnitInv, Placed, JobSoFar, SystemdPlaces
<1>6. QED
  BY <1>2, <1>4, <1>5 DEF WriteTimer, Write

(* Steps that change which timers are enabled or active.                   *)
LEMMA ReloadKeeps ==
  ASSUME NEW place
  PROVE  DOMAIN Reloaded(place) = DOMAIN active
BY DEF Reloaded

LEMMA StartSteps ==
  ASSUME system = "systemd", UnitInv, Reload \/ Enable \/ StartTimer
  PROVE  UnitInv'
<1>1. /\ proc.at \in {"reload", "enable", "start"} /\ ProcShape /\ TimersServed /\ UnitsFiled
      /\ File("timer") \in DOMAIN disk /\ UNCHANGED <<system, disk>>
  BY DEF Reload, Enable, StartTimer, UnitInv, Placed, JobSoFar
<1>2. CASE UNCHANGED <<enabled, active>> /\ FailJob("error")
  BY <1>1, <1>2, GoesOrFails, Leaves DEF Gone
<1>3. CASE /\ enabled' \cup DOMAIN active' \subseteq enabled \cup DOMAIN active \cup {Unit}
           /\ \E x \in {"enable", "start", "job"} : Goto(x)
  <2>1. PICK x \in {"enable", "start", "job"} : Goes(x)
    BY <1>1, <1>3, GoesOrFails DEF SystemdPlaces
  <2>2. File("timer")' \in DOMAIN disk'
    BY <1>1, <2>1 DEF Goes
  <2>3. TimersServed' /\ UnitsFiled'
    BY <1>1, <1>3 DEF TimersServed, UnitsFiled, File
  <2>4. QED
    BY <2>1, <2>2, <2>3 DEF Goes, UnitInv, Placed, JobSoFar, SystemdPlaces
<1>4. CASE Reload
  BY <1>2, <1>3, <1>4, ReloadKeeps DEF Reload
<1>5. CASE Enable
  <2>1. CASE enabled' = enabled \cup {Unit} /\ active' = Reloaded(Unit[1])
    BY <1>2, <1>3, <1>5, <2>1, ReloadKeeps DEF Enable
  <2>2. QED
    BY <1>2, <1>5, <2>1 DEF Enable
<1>6. CASE StartTimer
  <2>1. CASE active' = Unless(active, Unit, disk[File("timer")])
    <3>1. DOMAIN active' = DOMAIN active \cup {Unit}
      BY <2>1, Gains
    <3>2. QED
      BY <1>2, <1>3, <1>6, <3>1 DEF StartTimer
  <2>2. QED
    BY <1>2, <1>6, <2>1 DEF StartTimer
<1>7. QED
  BY <1>4, <1>5, <1>6

LEMMA StopStep ==
  ASSUME system = "systemd", UnitInv, StopTimer
  PROVE  UnitInv'
<1>1. /\ proc.at = "stop" /\ ProcShape /\ TimersServed /\ UnitsFiled
      /\ UNCHANGED <<system, disk, enabled>>
  BY DEF StopTimer, UnitInv, Placed
<1>2. CASE active' = active /\ FailJob("error")
  BY <1>1, <1>2, GoesOrFails, Leaves DEF Gone
<1>3. CASE active' = active /\ Goto("job")
  <2>1. Goes("job")
    BY <1>1, <1>3, GoesOrFails DEF SystemdPlaces
  <2>2. QED
    BY <1>1, <1>3, <2>1, Leaves DEF Goes, Elsewhere, SystemdPlaces
<1>4. CASE active' = Restrict(active, DOMAIN active \ {Unit}) /\ Goto("disable")
  <2>1. Goes("disable")
    BY <1>1, <1>4, GoesOrFails DEF SystemdPlaces
  <2>2. DOMAIN active' = DOMAIN active \ {Unit}
    BY <1>4, Loses
  <2>3. TimersServed' /\ UnitsFiled' /\ Unit' \notin DOMAIN active'
    BY <1>1, <2>1, <2>2 DEF TimersServed, UnitsFiled, Goes
  <2>4. QED
    BY <2>1, <2>3 DEF Goes, UnitInv, Placed, JobSoFar, SystemdPlaces
<1>5. QED
  BY <1>2, <1>3, <1>4 DEF StopTimer

LEMMA DisableStep ==
  ASSUME system = "systemd", UnitInv, Disable
  PROVE  UnitInv'
<1>1. /\ proc.at = "disable" /\ ProcShape /\ TimersServed /\ UnitsFiled
      /\ Unit \notin DOMAIN active /\ UNCHANGED <<system, disk, active>>
  BY DEF Disable, UnitInv, Placed, JobSoFar
<1>2. CASE enabled' = enabled /\ FailJob("error")
  BY <1>1, <1>2, GoesOrFails, Leaves DEF Gone
<1>3. CASE enabled' = enabled \ {Unit} /\ Goto("remove timer")
  <2>1. Goes("remove timer")
    BY <1>1, <1>3, GoesOrFails DEF SystemdPlaces
  <2>2. TimersServed' /\ UnitsFiled' /\ Unit' \notin enabled' \cup DOMAIN active'
    BY <1>1, <1>3, <2>1 DEF TimersServed, UnitsFiled, Goes
  <2>3. QED
    BY <2>1, <2>2 DEF Goes, UnitInv, Placed, JobSoFar, SystemdPlaces
<1>4. QED
  BY <1>2, <1>3 DEF Disable

LEMMA RemoveSteps ==
  ASSUME system = "systemd", UnitInv, RemoveTimer \/ RemoveService
  PROVE  UnitInv'
<1>1. /\ proc.at \in {"remove timer", "remove service"} /\ ProcShape /\ TimersServed /\ UnitsFiled
      /\ Unit \notin enabled \cup DOMAIN active /\ UNCHANGED <<system, enabled, active>>
  BY DEF RemoveTimer, RemoveService, UnitInv, Placed, JobSoFar
<1>2. CASE disk' = disk /\ Goto("job")
  <2>1. Goes("job")
    BY <1>1, <1>2, GoesOrFails DEF SystemdPlaces
  <2>2. QED
    BY <1>1, <1>2, <2>1, Leaves DEF Goes, Elsewhere, SystemdPlaces
<1>3. CASE /\ proc.at = "remove timer"
           /\ disk' = Restrict(disk, DOMAIN disk \ {File("timer")}) /\ Goto("remove service")
  <2>1. Goes("remove service")
    BY <1>1, <1>3, GoesOrFails DEF SystemdPlaces
  <2>2. DOMAIN disk' = DOMAIN disk \ {File("timer")}
    BY <1>3, Loses
  <2>3. TimersServed'
    BY <1>1, <2>2 DEF TimersServed, File
  <2>4. UnitsFiled'
    BY <1>1, <2>2 DEF UnitsFiled, File
  <2>5. Unit' \notin enabled' \cup DOMAIN active' /\ File("timer")' \notin DOMAIN disk'
    BY <1>1, <2>1, <2>2 DEF Goes
  <2>6. QED
    BY <2>1, <2>3, <2>4, <2>5 DEF Goes, UnitInv, Placed, JobSoFar, SystemdPlaces
<1>4. CASE /\ proc.at = "remove service"
           /\ disk' = Restrict(disk, DOMAIN disk \ {File("service")}) /\ Goto("job")
  <2>1. Goes("job")
    BY <1>1, <1>4, GoesOrFails DEF SystemdPlaces
  <2>2. DOMAIN disk' = DOMAIN disk \ {File("service")}
    BY <1>4, Loses
  <2>3. File("timer") \notin DOMAIN disk
    BY <1>4 DEF UnitInv, JobSoFar
  <2>4. TimersServed'
    <3> SUFFICES ASSUME NEW f \in DOMAIN disk', f[2] = "timer"
                 PROVE  <<f[1], "service">> \in DOMAIN disk'
      BY <1>1, <2>2 DEF TimersServed
    <3>1. f \in DOMAIN disk /\ f = <<f[1], f[2]>> /\ <<f[1], "service">> \in DOMAIN disk
      BY <1>1, <2>2 DEF TimersServed
    <3>2. f[1] # Unit
      BY <2>3, <3>1 DEF File
    <3>3. QED
      BY <2>2, <3>1, <3>2 DEF File
  <2>5. UnitsFiled'
    BY <1>1, <2>2 DEF UnitsFiled, File
  <2>6. QED
    BY <2>1, <2>4, <2>5 DEF Goes, UnitInv, Placed, JobSoFar, SystemdPlaces
<1>5. QED
  BY <1>2, <1>3, <1>4 DEF RemoveTimer, RemoveService, RemoveFile

LEMMA MachineSteps ==
  ASSUME system = "systemd", UnitInv,
         Reboot \/ Done \/ ParentReturns \/ KillParent \/ Edit \/ UNCHANGED vars
  PROVE  UnitInv'
<1>1. ProcShape /\ proc.at \in SystemdPlaces /\ TimersServed /\ UnitsFiled
  BY DEF UnitInv, Placed
<1>2. CASE Reboot
  <2>1. proc' = Idle /\ UNCHANGED <<disk, enabled>> /\ DOMAIN active' \subseteq enabled
    BY <1>2 DEF Reboot
  <2>2. TimersServed' /\ UnitsFiled'
    BY <1>1, <2>1 DEF TimersServed, UnitsFiled
  <2>3. QED
    BY <2>1, <2>2 DEF Idle, UnitInv, Placed, ProcShape, SystemdPlaces, JobSoFar
<1>3. ASSUME Done \/ ParentReturns \/ KillParent \/ Edit \/ UNCHANGED vars
      PROVE  UnitInv'
  <2>1. UNCHANGED <<system, disk, enabled, active, proc>>
    BY <1>3 DEF Done, ParentReturns, KillParent, Edit, vars, machine
  <2>2. UNCHANGED <<proc.job, Elevated>>
    BY <2>1 DEF Elevated
  <2>3. Unit' = Unit /\ \A s : File(s)' = File(s)
    BY <2>1, <2>2, SameUnit
  <2>4. ProcShape' /\ TimersServed' /\ UnitsFiled'
    BY <1>1, <2>1 DEF ProcShape, TimersServed, UnitsFiled
  <2>5. QED
    BY <1>1, <2>1, <2>3, <2>4 DEF UnitInv, Placed, JobSoFar
<1>4. QED
  BY <1>2, <1>3

(* The steps for the other schedulers begin where none of systemd's ends.  *)
LEMMA OthersIdle ==
  ASSUME UnitInv
  PROVE  ~(WritePlist \/ Load \/ StartAgent \/ StopAgent \/ Unload \/ RemovePlist \/ CreateTask \/ DeleteTask)
BY DEF UnitInv, Placed, SystemdPlaces, WritePlist, Load, StartAgent, StopAgent, Unload,
       RemovePlist, CreateTask, DeleteTask

LEMMA UnitStep ==
  ASSUME RequestAssumption, system = "systemd", UnitInv, [Next]_vars
  PROVE  UnitInv'
<1>1. ASSUME \/ \E request \in Requests : Command(request)
             \/ Collect \/ NextProfile \/ NextJob \/ Query \/ Elevate \/ Kill
      PROVE  UnitInv'
  BY <1>1, QuietSteps
<1>2. ASSUME \/ WriteService \/ WriteTimer \/ Reload \/ Enable \/ StartTimer
             \/ StopTimer \/ Disable \/ RemoveTimer \/ RemoveService
      PROVE  UnitInv'
  BY <1>2, ServiceStep, TimerStep, StartSteps, StopStep, DisableStep, RemoveSteps
<1>3. ASSUME Reboot \/ Done \/ ParentReturns \/ KillParent \/ Edit \/ UNCHANGED vars
      PROVE  UnitInv'
  BY <1>3, MachineSteps
<1>4. QED
  BY <1>1, <1>2, <1>3, OthersIdle DEF Next, Work

LEMMA UnitStart ==
  ASSUME Init
  PROVE  UnitInv
<1>1. proc = Idle /\ DOMAIN disk = {} /\ DOMAIN active = {} /\ enabled = {}
  BY DEF Init
<1>2. QED
  BY <1>1 DEF Idle, UnitInv, Placed, ProcShape, SystemdPlaces, TimersServed, UnitsFiled, JobSoFar

LEMMA SystemStays ==
  ASSUME [Next]_vars
  PROVE  system' = system
BY DEF Next, Work, Command, Collect, NextProfile, NextJob, WriteService, WriteTimer, Reload, Enable,
       StartTimer, StopTimer, Disable, RemoveTimer, RemoveService, WritePlist, Load, StartAgent,
       StopAgent, Unload, RemovePlist, CreateTask, DeleteTask, Query, Elevate, Done, ParentReturns,
       Kill, KillParent, Reboot, Edit, vars, machine

-----------------------------------------------------------------------------
(* For any configurations, requests and number of commands, wherever a     *)
(* command of schedule or unschedule is killed, fails or meets a reboot:   *)
(* a timer of systemd is never without the service it starts, and none is  *)
(* enabled or active without its file (systemd/generate.go, and            *)
(* schedule/handler_systemd.go).                                           *)
THEOREM NoneDangles ==
  ASSUME RequestAssumption
  PROVE  Spec => []NothingDangles
<1> DEFINE Inv == system = "systemd" => UnitInv
<1>1. Init => Inv
  BY UnitStart
<1>2. Inv /\ [Next]_vars => Inv'
  BY UnitStep, SystemStays
<1>3. Inv => NothingDangles
  BY DEF UnitInv, TimersServed, UnitsFiled, NothingDangles
<1>4. QED
  BY <1>1, <1>2, <1>3, PTL DEF Spec

-----------------------------------------------------------------------------
(* The titles that a command works through.                                *)

LEMMA ListsAll ==
  ASSUME NEW S, IsFiniteSet(S), NEW c \in SetToSeqs(S)
  PROVE  c \in Seq(S) /\ ToSet(c) = S
<1> DEFINE n == Cardinality(S)
<1>1. n \in Nat
  BY FS_CardinalityType
<1>2. c \in [1..n -> S] /\ \A i, j \in 1..n : i # j => c[i] # c[j]
  BY DEF SetToSeqs
<1>3. c \in Seq(S)
  BY <1>1, <1>2
<1>4. ASSUME NEW x \in S, x \notin ToSet(c)
      PROVE  FALSE
  <2>1. IsFiniteSet(S \ {x}) /\ Cardinality(S \ {x}) = n - 1
    BY FS_RemoveElement
  <2>2. IsFiniteSet(1..n) /\ Cardinality(1..n) = n
    <3>1. 1 \in Int /\ n \in Int
      BY <1>1
    <3>2. IsFiniteSet(1..n) /\ Cardinality(1..n) = IF 1 > n THEN 0 ELSE n - 1 + 1
      BY <3>1, FS_Interval
    <3>3. QED
      BY <1>1, <3>2
  <2>3. c \in [1..n -> S \ {x}]
    <3>1. \A i \in 1..n : c[i] \in ToSet(c)
      <4>1. DOMAIN c = 1..n
        BY <1>2
      <4>2. QED
        BY <4>1 DEF ToSet
    <3>2. \A i \in 1..n : c[i] \in S \ {x}
      BY <1>2, <1>4, <3>1
    <3>3. QED
      BY <1>2, <3>2
  <2>4. Cardinality(S \ {x}) < Cardinality(1..n)
    BY <1>1, <2>1, <2>2
  <2>5. \E i, j \in 1..n : i # j /\ c[i] = c[j]
    <3> DEFINE D == 1..n
               T == S \ {x}
    <3>1. IsFiniteSet(D) /\ IsFiniteSet(T) /\ Cardinality(T) < Cardinality(D) /\ c \in [D -> T]
      BY <2>1, <2>2, <2>3, <2>4
    <3>2. \E i, j \in D : i # j /\ c[i] = c[j]
      <4> HIDE DEF D, T
      <4> QED BY <3>1, FS_PigeonHole
    <3>3. QED
      BY <3>2
  <2>6. QED
    BY <1>2, <2>5
<1>5. ToSet(c) \subseteq S
  BY <1>2 DEF ToSet
<1>6. QED
  BY <1>3, <1>4, <1>5

LEMMA OwnElements ==
  ASSUME NEW S, NEW s \in Seq(S)
  PROVE  s \in Seq(ToSet(s)) /\ ToSet(s) \subseteq S
BY DEF ToSet

LEMMA FirstOf ==
  ASSUME NEW S, NEW s \in Seq(S), s # <<>>
  PROVE  /\ Head(s) \in S /\ Head(s) \in ToSet(s) /\ Tail(s) \in Seq(S)
         /\ ToSet(s) = ToSet(Tail(s)) \cup {Head(s)}
<1>1. Head(s) = s[1] /\ Len(s) \in Nat \ {0} /\ DOMAIN s = 1..Len(s)
  OBVIOUS
<1>2. Tail(s) \in Seq(S) /\ DOMAIN Tail(s) = 1..(Len(s) - 1)
  BY <1>1
<1>3. \A i \in 1..(Len(s) - 1) : Tail(s)[i] = s[i + 1]
  BY <1>1
<1>4. ASSUME NEW x \in ToSet(s), x # s[1]
      PROVE  x \in ToSet(Tail(s))
  <2>1. PICK i \in 1..Len(s) : x = s[i]
    BY <1>1 DEF ToSet
  <2>2. i - 1 \in 1..(Len(s) - 1) /\ Tail(s)[i - 1] = x
    BY <1>1, <1>3, <1>4, <2>1
  <2>3. QED
    BY <1>2, <2>2 DEF ToSet
<1>5. ASSUME NEW x \in ToSet(Tail(s))
      PROVE  x \in ToSet(s)
  <2>1. PICK i \in 1..(Len(s) - 1) : x = s[i + 1]
    BY <1>2, <1>3, <1>5 DEF ToSet
  <2>2. i + 1 \in 1..Len(s)
    BY <1>1
  <2>3. QED
    BY <1>1, <2>1, <2>2 DEF ToSet
<1>6. QED
  BY <1>1, <1>2, <1>4, <1>5 DEF ToSet

(* No group lists a profile under two spellings of its name.               *)
SpelledOnce ==
  \A c \in Configs : \A g \in DOMAIN c.groups :
    \A s, t \in ToSet(c.groups[g]) : KeyOf[s] = KeyOf[t] => s = t

(* Whichever order --all takes the profiles in, it takes the same ones.    *)
LEMMA Chosen ==
  ASSUME ConfigAssumption, NEW c \in Configs, NEW request, NEW titles \in TitlesOf(c, request)
  PROVE  /\ titles \in Seq(ToSet(titles))
         /\ \A others \in TitlesOf(c, request) : ToSet(others) = ToSet(titles)
         /\ SpelledOnce => \A s, t \in ToSet(titles) : KeyOf[s] = KeyOf[t] => s = t
<1> DEFINE one == <<request.name>>
           names == DOMAIN c.profiles
           group == IF KeyOf[request.name] \notin names /\ request.name \in DOMAIN c.groups
                    THEN c.groups[request.name] ELSE <<>>
           Listed(s) == IF s = <<>> THEN one ELSE s
<1>1. one \in Seq(ToSet(one)) /\ ToSet(one) = {request.name}
  <2>1. DOMAIN one = {1} /\ one[1] = request.name
    OBVIOUS
  <2>2. ToSet(one) = {request.name}
    BY <2>1 DEF ToSet
  <2>3. one \in Seq({request.name})
    OBVIOUS
  <2>4. QED
    BY <2>2, <2>3
<1>2. ASSUME TitlesOf(c, request) \subseteq {one}
      PROVE  /\ titles \in Seq(ToSet(titles))
             /\ \A others \in TitlesOf(c, request) : ToSet(others) = ToSet(titles)
             /\ \A s, t \in ToSet(titles) : s = t
  <2>1. titles = one /\ \A others \in TitlesOf(c, request) : others = one
    BY <1>2
  <2>2. \A s, t \in ToSet(one) : s = t
    BY <1>1
  <2>3. QED
    BY <1>1, <2>1, <2>2
<1>3. CASE TitlesOf(c, request) = {Listed(group)}
  <2>1. CASE group = <<>>
    BY <1>2, <1>3, <2>1
  <2>2. CASE group # <<>>
    <3>1. titles = group /\ request.name \in DOMAIN c.groups /\ group = c.groups[request.name]
      BY <1>3, <2>2
    <3>2. group \in Seq(DOMAIN KeyOf)
      BY <3>1 DEF ConfigAssumption
    <3>3. group \in Seq(ToSet(group))
      BY <3>2, OwnElements
    <3>4. QED
      BY <1>3, <2>2, <3>1, <3>3 DEF SpelledOnce
  <2>3. QED
    BY <2>1, <2>2
<1>4. CASE TitlesOf(c, request) = {Listed(s) : s \in SetToSeqs(names)}
  <2>1. IsFiniteSet(names) /\ \A name \in names : KeyOf[name] = name
    BY DEF ConfigAssumption
  <2>2. \A s \in SetToSeqs(names) : s \in Seq(names) /\ ToSet(s) = names
    BY <2>1, ListsAll
  <2>3. \A s \in SetToSeqs(names) : s = <<>> <=> names = {}
    <3> SUFFICES ASSUME NEW s \in SetToSeqs(names) PROVE s = <<>> <=> names = {}
      OBVIOUS
    <3>1. s \in Seq(names) /\ ToSet(s) = names
      BY <2>2
    <3>2. QED
      BY <3>1 DEF ToSet
  <2>4. PICK s \in SetToSeqs(names) : titles = Listed(s)
    BY <1>4
  <2>5. CASE names = {}
    <3>1. TitlesOf(c, request) \subseteq {one}
      BY <1>4, <2>3, <2>5
    <3>2. QED
      BY <1>2, <3>1
  <2>6. CASE names # {}
    <3>1. \A t \in TitlesOf(c, request) : t \in Seq(names) /\ ToSet(t) = names
      BY <1>4, <2>2, <2>3, <2>6
    <3>2. QED
      BY <2>1, <3>1
  <2>7. QED
    BY <2>5, <2>6
<1>5. QED
  BY <1>2, <1>3, <1>4 DEF TitlesOf, SelectProfiles

-----------------------------------------------------------------------------
(* What schedule and unschedule have done when they end well.              *)

ScheduleSteps ==
  CASE system = "systemd" -> {"write service", "write timer", "reload", "enable", "start"}
    [] system = "launchd" -> {"write plist", "load", "start agent"}
    [] system = "windows" -> {"create task"}
UnscheduleSteps ==
  CASE system = "systemd" -> {"stop", "disable", "remove timer", "remove service"}
    [] system = "launchd" -> {"stop agent", "unload", "remove plist"}
    [] system = "windows" -> {"delete task"}
Steps ==
  CASE proc.request.op = "schedule" -> ScheduleSteps
    [] proc.request.op = "unschedule" -> UnscheduleSteps
    [] proc.request.op = "status" -> {"query"}

Sorts ==
  /\ system \in {"systemd", "launchd", "windows"}
  /\ config \in Configs
  /\ ProcShape
  /\ proc.at # "idle" =>
       /\ proc.config \in Configs
       /\ proc.request.op \in {"schedule", "unschedule", "status"}
       /\ proc.at \in {"collect", "profile", "job", "denied", "ended"} \cup Steps

(* A job is touched only once all profiles are known to load.              *)
Untouched == (proc.at = "collect" => proc.jobs = {} /\ ~proc.touched) /\ CollectsFirst

(* A command that changes something, on its way or at its good end.        *)
Changing ==
  /\ proc.at # "idle" /\ proc.request.op # "status"
  /\ proc.at \in {"profile", "job"} \cup Steps \/ (proc.at = "ended" /\ proc.outcome = "ok")

JobsAsked == UNION {JobsFor(proc.config, proc.request, title) : title \in Asked}
Where(job) == UnitOf(system, job, Elevated)

(* What it has before it.                                                  *)
Queue ==
  Changing =>
    /\ proc.titles \in Seq(Asked)
    /\ proc.jobs \subseteq JobsAsked
    /\ proc.at \in Steps => proc.job \in JobsAsked
    /\ proc.at \in {"profile", "ended"} => proc.jobs = {}
    /\ proc.at = "ended" => proc.titles = <<>>
    /\ proc.request.op = "schedule" => \A title \in ToSet(proc.titles) : Loads(proc.config, title)

(* What it has behind it: every job of a title it has got to is still to   *)
(* be done, at hand, or as was asked for.  An agent of launchd is kept     *)
(* under the name of its profile, with the title in its command line.      *)
Removed(u) ==
  /\ u \notin enabled
  /\ <<u, "plist">> \notin DOMAIN disk
  /\ system # "launchd" => u \notin DOMAIN active
Wanted(job) == IF proc.request.op = "schedule" THEN InForce(job) ELSE Removed(Where(job))
Accounted(job) == job \in proc.jobs \/ (proc.at \in Steps /\ Where(job) = Unit) \/ Wanted(job)
Tracked == Changing /\ (proc.request.op = "schedule" /\ system = "launchd" => SpelledOnce)
SoFar ==
  Tracked =>
    \A title \in Asked :
      \/ title \in ToSet(proc.titles)
      \/ \A job \in JobsFor(proc.config, proc.request, title) : Accounted(job)

(* What the steps of the job at hand have established.                     *)
Has(suffix, content) == File(suffix) \in DOMAIN disk /\ disk[File(suffix)] = content
AtHand ==
  /\ proc.at \in {"write timer", "reload", "enable", "start"} => Has("service", Arguments(proc.job))
  /\ proc.at \in {"reload", "enable", "start"} => Has("timer", proc.job.section.when)
  /\ proc.at = "start" => Unit \in enabled /\ (Unit \in DOMAIN active => active[Unit] = proc.job.section.when)
  /\ proc.at \in {"load", "start agent"} => Has("plist", LaunchdJob(proc.job))
  /\ proc.at = "start agent" => Unit \in DOMAIN active

(* What each scheduler never has.                                          *)
Apart ==
  /\ system # "systemd" => enabled = {}
  /\ system # "launchd" => \A u : <<u, "plist">> \notin DOMAIN disk

JobsInv == Sorts /\ Untouched /\ Queue /\ SoFar /\ AtHand /\ Apart

-----------------------------------------------------------------------------
(* Steps that end the work, or begin it.                                   *)

Outcomes == {"error", "denied", "not allowed", "no scheduler"}

LEMMA OutOfWork ==
  ASSUME Sorts', Untouched', ~Changing', Apart',
         proc'.at \in {"idle", "collect", "profile", "job", "denied", "ended", "query"}
  PROVE  JobsInv'
BY DEF JobsInv, Queue, SoFar, Tracked, AtHand

LEMMA Retires ==
  ASSUME JobsInv, UNCHANGED <<system, config>>, proc' = Idle, Apart'
  PROVE  JobsInv'
BY OutOfWork DEF JobsInv, Sorts, Untouched, CollectsFirst, Changing, Idle, ProcShape

LEMMA Begins ==
  ASSUME JobsInv, UNCHANGED <<system, config>>, NEW request \in Requests, NEW child,
         RequestAssumption, Start(request, child), Apart'
  PROVE  JobsInv'
<1>1. ProcShape' /\ proc'.at = "collect" /\ proc'.config \in Configs /\ ~proc'.touched
      /\ proc'.request = request /\ proc'.jobs = {}
  BY Starts DEF Start, JobsInv, Sorts
<1>2. Sorts'
  BY <1>1 DEF JobsInv, Sorts, RequestAssumption
<1>3. Untouched'
  BY <1>1 DEF Untouched, CollectsFirst
<1>4. "collect" \notin {"profile", "job"} \cup Steps'
  BY <1>2, <1>1 DEF Sorts, Steps, ScheduleSteps, UnscheduleSteps
<1>5. ~Changing'
  BY <1>1, <1>4 DEF Changing
<1>6. QED
  BY <1>1, <1>2, <1>3, <1>5, OutOfWork

LEMMA Places ==
  ASSUME Sorts, proc.at # "idle"
  PROVE  /\ Steps \cap {"collect", "profile", "job", "denied", "ended"} = {}
         /\ proc.request.op = "status" => Steps = {"query"}
BY DEF Sorts, Steps, ScheduleSteps, UnscheduleSteps

LEMMA Ends ==
  ASSUME JobsInv, UNCHANGED <<system, config>>, proc.at \notin {"idle", "collect"}, Apart',
         NEW x \in Outcomes, End(x) \/ FailJob(x)
  PROVE  JobsInv'
<1>1. ProcShape /\ Sorts
  BY DEF JobsInv, Sorts
<1>2. /\ ProcShape' /\ proc'.at \in {"profile", "denied", "ended"}
      /\ UNCHANGED <<proc.request, proc.config, proc.touched>>
      /\ proc'.at = "profile" => proc.request.op = "status"
      /\ proc'.at = "ended" => proc'.outcome = x
  <2>1. ProcShape'
    BY <1>1, Fails DEF ProcShape, End
  <2>2. CASE End(x)
    BY <1>1, <2>1, <2>2 DEF ProcShape, End
  <2>3. CASE proc.request.op = "status" /\ proc' = [proc EXCEPT !.at = "profile", !.jobs = {}]
    BY <1>1, <2>1, <2>3 DEF ProcShape
  <2>4. CASE Goto("denied")
    BY <1>1, <2>1, <2>4 DEF ProcShape, Goto
  <2>5. QED
    BY <2>2, <2>3, <2>4 DEF FailJob
<1>3. Sorts'
  BY <1>1, <1>2 DEF Sorts, Steps, ScheduleSteps, UnscheduleSteps
<1>4. Untouched'
  BY <1>2 DEF Untouched, CollectsFirst, Outcomes
<1>5. ~Changing'
  <2>1. proc'.at \notin Steps' /\ (proc'.at = "profile" => proc'.request.op = "status")
    BY <1>2, <1>3 DEF Sorts, Steps, ScheduleSteps, UnscheduleSteps
  <2>2. QED
    BY <1>2, <2>1 DEF Changing, Outcomes
<1>6. QED
  BY <1>2, <1>3, <1>4, <1>5, OutOfWork

LEMMA Unmoved ==
  ASSUME UNCHANGED <<system, proc.config, proc.request, proc.child>>
  PROVE  /\ UNCHANGED <<Asked, JobsAsked, Elevated, Steps>>
         /\ \A title : JobsFor(proc.config, proc.request, title)' = JobsFor(proc.config, proc.request, title)
         /\ \A job : Where(job)' = Where(job)
BY DEF Asked, JobsAsked, Elevated, Steps, ScheduleSteps, UnscheduleSteps, Where

LEMMA Waits ==
  ASSUME JobsInv, UNCHANGED <<system, disk, enabled, active, proc>>, config' \in Configs
  PROVE  JobsInv'
<1>1. /\ UNCHANGED <<Asked, JobsAsked, Elevated, Steps, Unit>>
      /\ \A title : JobsFor(proc.config, proc.request, title)' = JobsFor(proc.config, proc.request, title)
      /\ \A job : Where(job)' = Where(job)
      /\ \A suffix : File(suffix)' = File(suffix)
  BY Unmoved DEF Unit, File
<1>2. Sorts'
  BY <1>1 DEF JobsInv, Sorts, ProcShape
<1>3. Untouched' /\ Queue' /\ Apart'
  BY <1>1 DEF JobsInv, Untouched, CollectsFirst, Queue, Changing, Apart
<1>4. \A job : Wanted(job)' = Wanted(job)
  BY <1>1 DEF Wanted, Removed, InForce, Where
<1>5. SoFar'
  <2>1. Tracked' = Tracked /\ \A job : Accounted(job)' = Accounted(job)
    BY <1>1, <1>4 DEF Tracked, Changing, Accounted
  <2>2. QED
    BY <1>1, <2>1 DEF JobsInv, SoFar
<1>6. AtHand'
  BY <1>1 DEF JobsInv, AtHand, Has
<1>7. QED
  BY <1>2, <1>3, <1>5, <1>6 DEF JobsInv

-----------------------------------------------------------------------------
(* The steps between jobs.                                                 *)

LEMMA Collects ==
  ASSUME ConfigAssumption, JobsInv, Collect
  PROVE  JobsInv'
<1>1. /\ proc.at = "collect" /\ ProcShape /\ Sorts /\ Apart /\ ~proc.touched
      /\ UNCHANGED <<system, config, disk, enabled, active>>
  BY DEF Collect, machine, JobsInv, Sorts, Untouched
<1>2. Apart'
  BY <1>1 DEF Apart
<1>3. PICK titles \in TitlesOf(proc.config, proc.request) :
        IF Collected(proc.request, titles)
        THEN proc' = [proc EXCEPT !.at = "profile", !.titles = titles]
        ELSE End("not collected")
  BY DEF Collect
<1>4. CASE End("not collected")
  <2>1. /\ ProcShape' /\ proc'.at = "ended" /\ UNCHANGED <<proc.request, proc.config, proc.touched>>
        /\ proc'.outcome = "not collected"
    BY <1>1, <1>4 DEF ProcShape, End
  <2>2. Sorts'
    BY <1>1, <2>1 DEF Sorts
  <2>3. Untouched'
    BY <1>1, <2>1 DEF Untouched, CollectsFirst
  <2>4. ~Changing'
    BY <2>1, <2>2, <1>1 DEF Changing, Sorts, Steps, ScheduleSteps, UnscheduleSteps
  <2>5. QED
    BY <1>2, <2>1, <2>2, <2>3, <2>4, OutOfWork
<1>5. CASE Collected(proc.request, titles) /\ proc' = [proc EXCEPT !.at = "profile", !.titles = titles]
  <2>1. /\ ProcShape' /\ proc'.at = "profile" /\ proc'.titles = titles
        /\ UNCHANGED <<proc.request, proc.config, proc.child, proc.touched, proc.jobs>>
    BY <1>1, <1>5 DEF ProcShape
  <2>2. /\ UNCHANGED <<Asked, JobsAsked, Elevated, Steps>>
        /\ \A title : JobsFor(proc.config, proc.request, title)' = JobsFor(proc.config, proc.request, title)
    BY <1>1, <2>1, Unmoved
  <2>3. Asked = ToSet(titles) /\ titles \in Seq(ToSet(titles))
    <3>1. titles \in TitlesOf(proc.config, proc.request) /\ proc.config \in Configs
      BY <1>1, <1>3 DEF Sorts
    <3>2. /\ titles \in Seq(ToSet(titles))
          /\ \A others \in TitlesOf(proc.config, proc.request) : ToSet(others) = ToSet(titles)
      BY <3>1, Chosen
    <3> DEFINE Lists == TitlesOf(proc.config, proc.request)
    <3>3. titles \in Lists /\ Asked = UNION {ToSet(t) : t \in Lists} /\ \A others \in Lists : ToSet(others) = ToSet(titles)
      BY <3>1, <3>2 DEF Asked
    <3>4. Asked = ToSet(titles)
      <4> HIDE DEF Lists
      <4> QED BY <3>3
    <3>5. QED
      BY <3>2, <3>4
  <2>4. Sorts'
    BY <1>1, <2>1, <2>2 DEF Sorts
  <2>5. Untouched' /\ AtHand'
    BY <2>1 DEF Untouched, CollectsFirst, AtHand
  <2>6. SoFar'
    BY <2>1, <2>2, <2>3 DEF SoFar
  <2>7. Queue'
    <3>1. "profile" \notin Steps'
      BY <2>4, <2>1 DEF Sorts, Steps, ScheduleSteps, UnscheduleSteps
    <3>2. proc'.request.op = "schedule" => \A title \in ToSet(titles) : Loads(proc'.config, title)
      BY <1>5, <2>1 DEF Collected, ToSet
    <3>3. proc.jobs = {}
      BY <1>1 DEF JobsInv, Untouched
    <3>4. QED
      BY <2>1, <2>2, <2>3, <3>1, <3>2, <3>3 DEF Queue
  <2>8. QED
    BY <1>2, <2>4, <2>5, <2>6, <2>7 DEF JobsInv
<1>6. QED
  BY <1>3, <1>4, <1>5

LEMMA NextProfiles ==
  ASSUME JobsInv, NextProfile
  PROVE  JobsInv'
<1>1. /\ proc.at = "profile" /\ ProcShape /\ Sorts /\ Untouched /\ Apart
      /\ UNCHANGED <<system, config, disk, enabled, active>>
  BY DEF NextProfile, machine, JobsInv, Sorts
<1>2. Apart' /\ "no scheduler" \in Outcomes
  BY <1>1 DEF Apart, Outcomes
<1>3. ASSUME UNCHANGED <<proc.request, proc.config, proc.child>>
      PROVE  /\ UNCHANGED <<Asked, JobsAsked, Elevated, Steps>>
             /\ \A title : JobsFor(proc.config, proc.request, title)' = JobsFor(proc.config, proc.request, title)
             /\ \A job : Where(job)' = Where(job)
             /\ \A job : Wanted(job)' = Wanted(job)
  <2>1. /\ UNCHANGED <<Asked, JobsAsked, Elevated, Steps>>
        /\ \A title : JobsFor(proc.config, proc.request, title)' = JobsFor(proc.config, proc.request, title)
        /\ \A job : Where(job)' = Where(job)
    BY <1>1, <1>3, Unmoved
  <2>2. \A job : Wanted(job)' = Wanted(job)
    BY <1>1, <1>3, <2>1 DEF Wanted, Removed, InForce, Where
  <2>3. QED
    BY <2>1, <2>2
<1>4. "profile" \notin Steps /\ "job" \notin Steps /\ "ended" \notin Steps
  BY <1>1, Places
<1>5. CASE FailJob("no scheduler")
  BY <1>1, <1>2, <1>5, Ends
<1>6. CASE proc.request.op = "status" /\ ~FailJob("no scheduler")
  <2>1. /\ ProcShape' /\ proc'.at \in {"ended", "job"}
        /\ UNCHANGED <<proc.request, proc.config, proc.touched>>
    <3>1. CASE End("ok") \/ End("not loaded")
      BY <1>1, <3>1 DEF ProcShape, End
    <3>2. CASE proc' = [proc EXCEPT !.at = "job", !.titles = Tail(@),
                          !.jobs = JobsFor(proc.config, proc.request, Head(proc.titles))]
      BY <1>1, <3>2 DEF ProcShape
    <3>3. QED
      BY <1>6, <3>1, <3>2 DEF NextProfile
  <2>2. Sorts' /\ Untouched' /\ ~Changing'
    BY <1>1, <1>6, <2>1 DEF Sorts, Untouched, CollectsFirst, Changing
  <2>3. QED
    BY <1>2, <2>1, <2>2, OutOfWork
<1>7. CASE proc.request.op # "status" /\ ~FailJob("no scheduler")
  <2>1. Changing
    BY <1>1, <1>7 DEF Changing
  <2>2. /\ proc.titles \in Seq(Asked) /\ proc.jobs = {}
        /\ proc.request.op = "schedule" => \A title \in ToSet(proc.titles) : Loads(proc.config, title)
    BY <1>1, <2>1 DEF JobsInv, Queue
  <2>3. ToSet(<<>>) = {}
    BY DEF ToSet
  <2>4. CASE proc.titles = <<>> /\ End("ok")
    <3>1. /\ ProcShape' /\ proc'.at = "ended" /\ proc'.outcome = "ok"
          /\ UNCHANGED <<proc.request, proc.config, proc.child, proc.touched, proc.jobs, proc.titles>>
      BY <1>1, <2>4 DEF ProcShape, End
    <3>2. Sorts' /\ Untouched' /\ AtHand'
      BY <1>1, <3>1 DEF Sorts, Untouched, CollectsFirst, AtHand
    <3>3. Queue'
      BY <1>3, <1>4, <2>2, <2>3, <2>4, <3>1 DEF Queue
    <3>4. SoFar'
      <4>1. Tracked' => Tracked
        BY <1>1, <2>1, <3>1 DEF Tracked
      <4>2. \A job : Accounted(job) => Accounted(job)'
        BY <1>1, <1>3, <1>4, <2>2, <3>1 DEF Accounted
      <4>3. QED
        BY <1>3, <3>1, <4>1, <4>2 DEF JobsInv, SoFar
    <3>5. QED
      BY <1>2, <3>2, <3>3, <3>4 DEF JobsInv
  <2>5. CASE proc.titles # <<>> /\ ~Loads(proc.config, Head(proc.titles)) /\ End("not loaded")
    <3>1. Head(proc.titles) \in ToSet(proc.titles)
      BY <2>2, <2>5, FirstOf
    <3>2. proc.request.op = "unschedule"
      BY <1>1, <1>7, <2>2, <2>5, <3>1 DEF Sorts
    <3>3. /\ ProcShape' /\ proc'.at = "ended" /\ proc'.outcome = "not loaded"
          /\ UNCHANGED <<proc.request, proc.config>>
      BY <1>1, <2>5 DEF ProcShape, End
    <3>4. Sorts' /\ Untouched'
      BY <1>1, <3>2, <3>3 DEF Sorts, Untouched, CollectsFirst
    <3>5. ~Changing'
      BY <1>1, <3>3, <3>4 DEF Changing, Sorts, Steps, ScheduleSteps, UnscheduleSteps
    <3>6. QED
      BY <1>2, <3>3, <3>4, <3>5, OutOfWork
  <2>6. CASE /\ proc.titles # <<>>
             /\ proc' = [proc EXCEPT !.at = "job", !.titles = Tail(@),
                           !.jobs = JobsFor(proc.config, proc.request, Head(proc.titles))]
    <3>1. /\ ProcShape' /\ proc'.at = "job" /\ proc'.titles = Tail(proc.titles)
          /\ proc'.jobs = JobsFor(proc.config, proc.request, Head(proc.titles))
          /\ UNCHANGED <<proc.request, proc.config, proc.child, proc.touched>>
      BY <1>1, <2>6 DEF ProcShape
    <3>2. /\ Head(proc.titles) \in Asked /\ Tail(proc.titles) \in Seq(Asked)
          /\ ToSet(proc.titles) = ToSet(Tail(proc.titles)) \cup {Head(proc.titles)}
      BY <2>2, <2>6, FirstOf
    <3>3. Sorts' /\ Untouched' /\ AtHand'
      BY <1>1, <3>1 DEF Sorts, Untouched, CollectsFirst, AtHand
    <3>4. Queue'
      <4>1. proc'.jobs \subseteq JobsAsked
        BY <3>1, <3>2 DEF JobsAsked
      <4>2. proc'.titles \in Seq(Asked)'
        BY <1>3, <3>1, <3>2
      <4>3. QED
        BY <1>3, <1>4, <2>2, <3>1, <3>2, <4>1, <4>2 DEF Queue
    <3>5. SoFar'
      <4>1. Tracked' => Tracked
        BY <1>1, <2>1, <3>1 DEF Tracked
      <4>2. \A job : Accounted(job) => Accounted(job)'
        BY <1>1, <1>3, <1>4, <2>2, <3>1 DEF Accounted
      <4>3. ASSUME Tracked', NEW title \in Asked
            PROVE  \/ title \in ToSet(proc'.titles)
                   \/ \A job \in JobsFor(proc.config, proc.request, title) : Accounted(job)'
        <5>1. CASE title = Head(proc.titles)
          BY <3>1, <5>1 DEF Accounted
        <5>2. CASE title \in ToSet(Tail(proc.titles))
          BY <3>1, <5>2
        <5>3. CASE title \notin ToSet(proc.titles)
          BY <4>1, <4>2, <4>3, <5>3 DEF JobsInv, SoFar
        <5>4. QED
          BY <3>2, <5>1, <5>2, <5>3
      <4>4. QED
        BY <1>3, <3>1, <4>3 DEF SoFar
    <3>6. QED
      BY <1>2, <3>3, <3>4, <3>5 DEF JobsInv
  <2>7. QED
    BY <1>7, <2>4, <2>5, <2>6 DEF NextProfile
<1>8. QED
  BY <1>5, <1>6, <1>7

LEMMA FirstSteps ==
  ASSUME Sorts, proc.at # "idle"
  PROVE  /\ FirstStep \in Steps
         /\ FirstStep \in {"query", "write service", "write plist", "create task", "stop", "stop agent", "delete task"}
<1>1. CASE system = "systemd"
  BY <1>1 DEF Sorts, FirstStep, Steps, ScheduleSteps, UnscheduleSteps
<1>2. CASE system = "launchd"
  BY <1>2 DEF Sorts, FirstStep, Steps, ScheduleSteps, UnscheduleSteps
<1>3. CASE system = "windows"
  BY <1>3 DEF Sorts, FirstStep, Steps, ScheduleSteps, UnscheduleSteps
<1>4. QED
  BY <1>1, <1>2, <1>3 DEF Sorts

LEMMA NextJobs ==
  ASSUME JobsInv, NextJob
  PROVE  JobsInv'
<1>1. /\ proc.at = "job" /\ ProcShape /\ Sorts /\ Untouched /\ Apart
      /\ UNCHANGED <<system, config, disk, enabled, active>>
  BY DEF NextJob, machine, JobsInv, Sorts
<1>2. Apart' /\ "not allowed" \in Outcomes
  BY <1>1 DEF Apart, Outcomes
<1>3. /\ "profile" \notin Steps /\ "job" \notin Steps /\ "ended" \notin Steps /\ "collect" \notin Steps
      /\ proc.request.op = "status" => Steps = {"query"}
  BY <1>1, Places
<1>4. CASE FailJob("not allowed")
  BY <1>1, <1>2, <1>4, Ends
<1>5. ASSUME UNCHANGED <<proc.request, proc.config, proc.child, proc.titles>>, ProcShape',
             proc'.at \in {"profile"} \cup Steps,
             proc'.jobs \subseteq proc.jobs,
             proc'.at = "profile" => proc'.jobs = {} /\ AtHand',
             proc'.at \in Steps => proc'.job \in proc.jobs /\ AtHand',
             \A job \in proc.jobs : job \in proc'.jobs \/ (proc'.at \in Steps /\ job = proc'.job)
      PROVE  JobsInv'
  <2>1. /\ UNCHANGED <<Asked, JobsAsked, Elevated, Steps>>
        /\ \A title : JobsFor(proc.config, proc.request, title)' = JobsFor(proc.config, proc.request, title)
        /\ \A job : Where(job)' = Where(job)
    BY <1>1, <1>5, Unmoved
  <2>2. \A job : Wanted(job)' = Wanted(job)
    BY <1>1, <1>5, <2>1 DEF Wanted, Removed, InForce, Where
  <2>3. Sorts' /\ Untouched'
    BY <1>1, <1>3, <1>5, <2>1 DEF Sorts, Untouched, CollectsFirst
  <2>4. Changing' => Changing
    BY <1>1, <1>5 DEF Changing
  <2>5. Queue'
    BY <1>1, <1>3, <1>5, <2>1, <2>4 DEF JobsInv, Queue
  <2>6. AtHand'
    BY <1>5
  <2>7. SoFar'
    <3>1. Tracked' => Tracked
      BY <1>1, <1>5, <2>4 DEF Tracked
    <3>2. ASSUME NEW job, Accounted(job) PROVE Accounted(job)'
      <4>1. CASE job \in proc.jobs
        <5>1. CASE proc'.at \in Steps /\ job = proc'.job
          BY <2>1, <5>1 DEF Accounted, Unit, Where
        <5>2. QED
          BY <1>5, <4>1, <5>1 DEF Accounted
      <4>2. CASE Wanted(job)
        BY <2>2, <4>2 DEF Accounted
      <4>3. QED
        BY <1>1, <1>3, <3>2, <4>1, <4>2 DEF Accounted
    <3>3. QED
      BY <1>5, <2>1, <3>1, <3>2 DEF JobsInv, SoFar
  <2>8. QED
    BY <1>2, <2>3, <2>5, <2>6, <2>7 DEF JobsInv
<1>6. CASE proc.jobs = {} /\ Goto("profile")
  <2>1. /\ UNCHANGED <<proc.request, proc.config, proc.child, proc.titles, proc.jobs>> /\ ProcShape'
        /\ proc'.at = "profile"
    BY <1>1, <1>6 DEF ProcShape, Goto
  <2>2. AtHand'
    BY <2>1 DEF AtHand
  <2>3. QED
    BY <1>3, <1>5, <1>6, <2>1, <2>2
<1>7. ASSUME NEW job \in proc.jobs,
             proc' = [proc EXCEPT !.at = FirstStep, !.job = job, !.jobs = @ \ {job}, !.touched = TRUE]
      PROVE  JobsInv'
  <2>1. /\ FirstStep \in Steps
        /\ FirstStep \in {"query", "write service", "write plist", "create task", "stop", "stop agent", "delete task"}
    BY <1>1, FirstSteps
  <2>2. /\ UNCHANGED <<proc.request, proc.config, proc.child, proc.titles>>
        /\ proc'.at = FirstStep /\ proc'.job = job /\ proc'.jobs = proc.jobs \ {job}
    BY <1>1, <1>7 DEF ProcShape
  <2>3. ProcShape'
    BY <1>1, <1>7, <2>1 DEF ProcShape
  <2>4. AtHand'
    BY <2>1, <2>2 DEF AtHand
  <2>5. QED
    BY <1>3, <1>5, <1>7, <2>1, <2>2, <2>3, <2>4
<1>8. QED
  BY <1>4, <1>6, <1>7 DEF NextJob
-----------------------------------------------------------------------------
(* The steps of a job.                                                     *)

(* schedule leaves the units of other jobs alone, but that systemd reads   *)
(* their files again; unschedule takes away.                               *)
Spares ==
  \A u : u # Unit =>
    /\ \A s : <<u, s>> \in DOMAIN disk => <<u, s>> \in DOMAIN disk' /\ disk'[<<u, s>>] = disk[<<u, s>>]
    /\ u \in enabled => u \in enabled'
    /\ u \in DOMAIN active' <=> u \in DOMAIN active
    /\ u \in DOMAIN active =>
         \/ active'[u] = active[u]
         \/ /\ system = "systemd" /\ <<u, "timer">> \in DOMAIN disk
            /\ active'[u] = disk[<<u, "timer">>]
Shrinks ==
  enabled' \subseteq enabled /\ DOMAIN disk' \subseteq DOMAIN disk /\ DOMAIN active' \subseteq DOMAIN active
Careful == IF proc.request.op = "schedule" THEN Spares ELSE Shrinks

LEMMA OthersStay ==
  ASSUME Sorts, Careful, proc.at # "idle",
         UNCHANGED <<system, proc.config, proc.request, proc.child>>,
         NEW job, Wanted(job), Where(job) # Unit
  PROVE  Wanted(job)'
<1>1. Where(job)' = Where(job)
  BY Unmoved
<1>2. CASE proc.request.op = "schedule"
  <2>1. Spares /\ InForce(job)
    BY <1>2 DEF Careful, Wanted
  <2>2. InForce(job)'
    <3>1. CASE system = "systemd"
      BY <1>1, <2>1, <3>1 DEF Spares, InForce, Where
    <3>2. CASE system = "launchd"
      BY <1>1, <2>1, <3>2 DEF Spares, InForce, Where
    <3>3. CASE system = "windows"
      BY <1>1, <2>1, <3>3 DEF Spares, InForce, Where
    <3>4. QED
      BY <3>1, <3>2, <3>3 DEF Sorts
  <2>3. QED
    BY <1>2, <2>2 DEF Wanted
<1>3. CASE proc.request.op # "schedule"
  BY <1>1, <1>3 DEF Careful, Shrinks, Wanted, Removed
<1>4. QED
  BY <1>2, <1>3

LEMMA SameJob ==
  ASSUME ConfigAssumption, Sorts, proc.at # "idle", proc.request.op = "schedule",
         system = "launchd" => SpelledOnce,
         NEW j \in JobsAsked, NEW k \in JobsAsked, Where(j) = Where(k)
  PROVE  j.section = k.section /\ (system # "windows" => j = k)
<1> DEFINE Sections(title) == proc.config.profiles[KeyOf[title]].sections
<1>1. PICK s \in Asked : j \in Schedules(proc.config, s)
  BY DEF JobsAsked, JobsFor
<1>2. PICK t \in Asked : k \in Schedules(proc.config, t)
  BY DEF JobsAsked, JobsFor
<1>3. PICK c \in DOMAIN Sections(s) : j = Job(s, c, Sections(s)[c], FALSE)
  BY <1>1 DEF Schedules
<1>4. PICK d \in DOMAIN Sections(t) : k = Job(t, d, Sections(t)[d], FALSE)
  BY <1>2 DEF Schedules
<1>5. /\ j.title = s /\ j.command = c /\ j.section = Sections(s)[c]
      /\ k.title = t /\ k.command = d /\ k.section = Sections(t)[d]
  BY <1>3, <1>4 DEF Job
<1>6. c = d /\ UnitName(system, s) = UnitName(system, t)
  BY <1>5 DEF Where, UnitOf
<1>7. CASE system = "systemd"
  BY <1>3, <1>4, <1>5, <1>6, <1>7 DEF UnitName
<1>8. CASE system # "systemd"
  <2>1. KeyOf[s] = KeyOf[t]
    BY <1>6, <1>8 DEF UnitName
  <2>2. j.section = k.section
    BY <1>5, <1>6, <2>1
  <2>3. system # "windows" => s = t
    <3>1. SpelledOnce => s = t
      <4>1. PICK u \in TitlesOf(proc.config, proc.request) : s \in ToSet(u)
        BY DEF Asked
      <4>2. PICK v \in TitlesOf(proc.config, proc.request) : t \in ToSet(v)
        BY DEF Asked
      <4>3. ToSet(v) = ToSet(u) /\ (SpelledOnce => \A x, y \in ToSet(u) : KeyOf[x] = KeyOf[y] => x = y)
        BY Chosen DEF Sorts
      <4>4. QED
        BY <2>1, <4>1, <4>2, <4>3
    <3>2. QED
      BY <1>8, <3>1 DEF Sorts
  <2>4. QED
    BY <1>3, <1>4, <1>6, <2>2, <2>3
<1>9. QED
  BY <1>7, <1>8

LEMMA Onward ==
  ASSUME ConfigAssumption, JobsInv, UNCHANGED <<system, config>>,
         proc.at \in Steps, proc.at # "idle", proc.request.op # "status",
         NEW x \in Steps \cup {"job"}, Goto(x), Careful,
         x = "job" => Wanted(proc.job)', AtHand', Apart'
  PROVE  JobsInv'
<1>1. /\ ProcShape /\ Sorts /\ Untouched /\ Changing
      /\ "profile" \notin Steps /\ "job" \notin Steps /\ "ended" \notin Steps /\ "collect" \notin Steps
  BY Places DEF JobsInv, Sorts, Changing
<1>2. /\ UNCHANGED <<proc.request, proc.config, proc.child, proc.titles, proc.jobs, proc.job, proc.touched>>
      /\ ProcShape' /\ proc'.at = x
  BY <1>1, Moves DEF ProcShape, Goto, Sorts, Steps, ScheduleSteps, UnscheduleSteps
<1>3. /\ UNCHANGED <<Asked, JobsAsked, Elevated, Steps, Unit>>
      /\ \A title : JobsFor(proc.config, proc.request, title)' = JobsFor(proc.config, proc.request, title)
      /\ \A job : Where(job)' = Where(job)
  BY <1>2, Unmoved DEF Unit
<1>4. Sorts' /\ Untouched'
  BY <1>1, <1>2, <1>3 DEF Sorts, Untouched, CollectsFirst
<1>5. Queue'
  <2>1. /\ proc.titles \in Seq(Asked) /\ proc.jobs \subseteq JobsAsked /\ proc.job \in JobsAsked
        /\ proc.request.op = "schedule" => \A title \in ToSet(proc.titles) : Loads(proc.config, title)
    BY <1>1 DEF JobsInv, Queue
  <2>2. proc'.titles \in Seq(Asked)'
    BY <1>2, <1>3, <2>1
  <2>3. QED
    BY <1>1, <1>2, <1>3, <2>1, <2>2 DEF Queue
<1>6. ASSUME Tracked'
      PROVE  \A job \in JobsAsked : Accounted(job) => Accounted(job)'
  <2>1. Tracked
    BY <1>1, <1>2, <1>6 DEF Tracked
  <2>2. proc.job \in JobsAsked /\ Where(proc.job) = Unit
    BY <1>1 DEF JobsInv, Queue, Where, Unit
  <2> SUFFICES ASSUME NEW job \in JobsAsked, Accounted(job)
               PROVE  Accounted(job)'
    OBVIOUS
  <2>3. CASE job \in proc.jobs
    BY <1>2, <2>3 DEF Accounted
  <2>4. CASE Where(job) = Unit /\ x \in Steps
    BY <1>2, <1>3, <2>4 DEF Accounted
  <2>5. CASE Where(job) = Unit /\ x = "job"
    <3>1. Wanted(proc.job)' /\ Where(job) = Where(proc.job)
      BY <2>2, <2>5
    <3>2. CASE proc.request.op = "schedule"
      <4>1. job.section = proc.job.section /\ (system # "windows" => job = proc.job)
        BY <1>1, <2>1, <2>2, <3>1, <3>2, SameJob DEF Tracked
      <4>2. InForce(proc.job)'
        BY <1>2, <3>1, <3>2 DEF Wanted
      <4>3. Where(job)' = Where(proc.job)'
        BY <1>2, <3>1, Unmoved DEF Where
      <4>4. InForce(job)'
        <5>1. CASE system = "windows"
          BY <1>2, <4>1, <4>2, <4>3, <5>1 DEF InForce, Where
        <5>2. CASE system # "windows"
          BY <1>2, <4>1, <4>2, <5>2 DEF InForce
        <5>3. QED
          BY <5>1, <5>2
      <4>5. QED
        BY <1>2, <3>2, <4>4 DEF Wanted, Accounted
    <3>3. CASE proc.request.op # "schedule"
      BY <1>2, <1>3, <3>1, <3>3 DEF Wanted, Removed, Accounted
    <3>4. QED
      BY <3>2, <3>3
  <2>6. CASE Wanted(job) /\ Where(job) # Unit
    BY <1>1, <1>2, <2>6, OthersStay DEF Accounted
  <2>7. QED
    BY <2>3, <2>4, <2>5, <2>6 DEF Accounted
<1>7. SoFar'
  <2>1. Tracked' => Tracked
    BY <1>1, <1>2 DEF Tracked
  <2>2. \A title \in Asked : JobsFor(proc.config, proc.request, title) \subseteq JobsAsked
    BY DEF JobsAsked
  <2>3. QED
    BY <1>2, <1>3, <1>6, <2>1, <2>2 DEF JobsInv, SoFar
<1>8. QED
  BY <1>4, <1>5, <1>7 DEF JobsInv

(* Where the place of a process tells the scheduler and the command.       *)
LEMMA PlaceTells ==
  ASSUME Sorts, proc.at # "idle"
  PROVE  /\ proc.at \in {"write service", "write timer", "reload", "enable", "start"} =>
              system = "systemd" /\ proc.request.op = "schedule"
         /\ proc.at \in {"stop", "disable", "remove timer", "remove service"} =>
              system = "systemd" /\ proc.request.op = "unschedule"
         /\ proc.at \in {"write plist", "load", "start agent"} =>
              system = "launchd" /\ proc.request.op = "schedule"
         /\ proc.at \in {"stop agent", "unload", "remove plist"} =>
              system = "launchd" /\ proc.request.op = "unschedule"
         /\ proc.at = "create task" => system = "windows" /\ proc.request.op = "schedule"
         /\ proc.at = "delete task" => system = "windows" /\ proc.request.op = "unschedule"
         /\ proc.at = "query" => proc.request.op = "status"
         /\ system = "systemd" /\ proc.request.op = "schedule" =>
              Steps = {"write service", "write timer", "reload", "enable", "start"}
         /\ system = "systemd" /\ proc.request.op = "unschedule" =>
              Steps = {"stop", "disable", "remove timer", "remove service"}
         /\ system = "launchd" /\ proc.request.op = "schedule" => Steps = {"write plist", "load", "start agent"}
         /\ system = "launchd" /\ proc.request.op = "unschedule" => Steps = {"stop agent", "unload", "remove plist"}
         /\ system = "windows" /\ proc.request.op = "schedule" => Steps = {"create task"}
         /\ system = "windows" /\ proc.request.op = "unschedule" => Steps = {"delete task"}
BY DEF Sorts, Steps, ScheduleSteps, UnscheduleSteps

LEMMA Follows ==
  ASSUME JobsInv, proc.at # "idle", UNCHANGED system, NEW x, Goto(x)
  PROVE  /\ proc'.at = x
         /\ UNCHANGED <<proc.job, proc.request, proc.config, proc.child, Unit>>
         /\ \A s : File(s)' = File(s)
         /\ Where(proc.job) = Unit /\ Where(proc.job)' = Unit
<1>1. proc'.at = x /\ UNCHANGED <<proc.job, proc.request, proc.config, proc.child>>
  BY DEF JobsInv, Sorts, ProcShape, Goto
<1>2. QED
  BY <1>1 DEF Unit, File, Where, Elevated

LEMMA Writes ==
  ASSUME NEW suffix, NEW content, disk' = With(disk, File(suffix), content)
  PROVE  /\ DOMAIN disk' = DOMAIN disk \cup {File(suffix)} /\ disk'[File(suffix)] = content
         /\ \A f \in DOMAIN disk : f # File(suffix) => disk'[f] = disk[f]
         /\ UNCHANGED <<enabled, active>> => Spares
<1>1. DOMAIN disk' = DOMAIN disk \cup {File(suffix)} /\ disk'[File(suffix)] = content
  BY DEF With
<1>2. \A f \in DOMAIN disk : f # File(suffix) => disk'[f] = disk[f]
  BY DEF With
<1>3. \A u, s : u # Unit => <<u, s>> # File(suffix)
  BY DEF File
<1>4. QED
  BY <1>1, <1>2, <1>3 DEF Spares

LEMMA NoPlist ==
  ASSUME Apart, UNCHANGED <<system, enabled>>, NEW suffix, system = "launchd" \/ suffix # "plist",
         DOMAIN disk' \subseteq DOMAIN disk \cup {File(suffix)}
  PROVE  Apart'
<1>1. suffix # "plist" => \A u : <<u, "plist">> # File(suffix)
  BY DEF File
<1>2. QED
  BY <1>1 DEF Apart

(* systemd *)

LEMMA ServiceWritten ==
  ASSUME ConfigAssumption, JobsInv, WriteService
  PROVE  JobsInv'
<1>1. /\ proc.at = "write service" /\ UNCHANGED <<system, config, enabled, active>> /\ Sorts /\ Apart
      /\ "error" \in Outcomes
  BY DEF WriteService, JobsInv, Outcomes
<1>2. system = "systemd" /\ proc.request.op = "schedule" /\ {"write service", "write timer"} \subseteq Steps
  BY <1>1, PlaceTells
<1>3. \A content : disk' = With(disk, File("service"), content) => Apart'
  BY <1>1, Writes, NoPlist
<1>4. CASE FailJob("error")
  BY <1>1, <1>3, <1>4, Ends DEF WriteService, Write, Apart
<1>5. CASE disk' = With(disk, File("service"), Arguments(proc.job)) /\ Goto("write timer")
  <2>1. AtHand'
    <3>1. proc'.at = "write timer" /\ UNCHANGED <<proc.job, Unit>>
      BY <1>1, <1>5, Follows
    <3>2. File("service") \in DOMAIN disk' /\ disk'[File("service")] = Arguments(proc.job)
      BY <1>5, Writes
    <3>3. QED
      BY <3>1, <3>2 DEF AtHand, Has, File
  <2>2. Careful
    BY <1>1, <1>2, <1>5, Writes DEF Careful
  <2>3. QED
    BY <1>1, <1>2, <1>3, <1>5, <2>1, <2>2, Onward
<1>6. QED
  BY <1>4, <1>5 DEF WriteService, Write

LEMMA TimerWritten ==
  ASSUME ConfigAssumption, JobsInv, WriteTimer
  PROVE  JobsInv'
<1>1. /\ proc.at = "write timer" /\ UNCHANGED <<system, config, enabled, active>> /\ Sorts /\ Apart
      /\ "error" \in Outcomes /\ Has("service", Arguments(proc.job))
  BY DEF WriteTimer, JobsInv, Outcomes, AtHand
<1>2. system = "systemd" /\ proc.request.op = "schedule" /\ {"write timer", "reload", "enable"} \subseteq Steps
  BY <1>1, PlaceTells
<1>3. \A content : disk' = With(disk, File("timer"), content) => Apart'
  BY <1>1, Writes, NoPlist
<1>4. CASE FailJob("error")
  BY <1>1, <1>3, <1>4, Ends DEF WriteTimer, Write, Apart
<1>5. ASSUME NEW x \in {"reload", "enable"}, Goto(x),
             disk' = With(disk, File("timer"), proc.job.section.when)
      PROVE  JobsInv'
  <2>1. File("service") # File("timer")
    BY DEF File
  <2>2. AtHand'
    <3>1. proc'.at = x /\ UNCHANGED <<proc.job, Unit>>
      BY <1>1, <1>5, Follows
    <3>2. /\ File("service") \in DOMAIN disk' /\ disk'[File("service")] = Arguments(proc.job)
          /\ File("timer") \in DOMAIN disk' /\ disk'[File("timer")] = proc.job.section.when
      <4>1. /\ DOMAIN disk' = DOMAIN disk \cup {File("timer")} /\ disk'[File("timer")] = proc.job.section.when
            /\ \A f \in DOMAIN disk : f # File("timer") => disk'[f] = disk[f]
        BY <1>5 DEF With
      <4>2. QED
        BY <1>1, <2>1, <4>1 DEF Has
    <3>3. Has("service", Arguments(proc.job))' /\ Has("timer", proc.job.section.when)'
      BY <3>1, <3>2 DEF Has, File
    <3>4. QED
      BY <1>5, <3>1, <3>3 DEF AtHand
  <2>3. Careful
    BY <1>1, <1>2, <1>5, Writes DEF Careful
  <2>4. QED
    BY <1>1, <1>2, <1>3, <1>5, <2>2, <2>3, Onward
<1>6. QED
  BY <1>4, <1>5 DEF WriteTimer, Write

LEMMA Rereads ==
  ASSUME NEW place
  PROVE  /\ DOMAIN Reloaded(place) = DOMAIN active
         /\ \A u \in DOMAIN active :
              \/ Reloaded(place)[u] = active[u]
              \/ <<u, "timer">> \in DOMAIN disk /\ Reloaded(place)[u] = disk[<<u, "timer">>]
         /\ \A u \in DOMAIN active :
              u[1] = place /\ <<u, "timer">> \in DOMAIN disk => Reloaded(place)[u] = disk[<<u, "timer">>]
BY DEF Reloaded

LEMMA TimerStarted ==
  ASSUME ConfigAssumption, JobsInv, Reload \/ Enable \/ StartTimer
  PROVE  JobsInv'
<1>1. /\ proc.at \in {"reload", "enable", "start"} /\ UNCHANGED <<system, config, disk>> /\ Sorts /\ Apart
      /\ "error" \in Outcomes
      /\ Has("service", Arguments(proc.job)) /\ Has("timer", proc.job.section.when)
  BY DEF Reload, Enable, StartTimer, JobsInv, Outcomes, AtHand
<1>2. /\ system = "systemd" /\ proc.request.op = "schedule"
      /\ Steps = {"write service", "write timer", "reload", "enable", "start"}
  BY <1>1, PlaceTells
<1>3. Apart'
  BY <1>1, <1>2 DEF Apart
<1>4. CASE FailJob("error")
  BY <1>1, <1>3, <1>4, Ends
<1>5. CASE active' = Reloaded("system") /\ Goto("enable") /\ enabled' = enabled
  <2>1. AtHand'
    <3>1. proc'.at = "enable" /\ UNCHANGED <<proc.job, Unit>>
      BY <1>1, <1>5, Follows
    <3>2. QED
      BY <1>1, <3>1 DEF AtHand, Has, File
  <2>2. Careful
    BY <1>1, <1>2, <1>5, Rereads DEF Careful, Spares
  <2>3. QED
    BY <1>1, <1>2, <1>3, <1>5, <2>1, <2>2, Onward
<1>6. CASE /\ Enable /\ enabled' = enabled \cup {Unit} /\ active' = Reloaded(Unit[1])
           /\ Goto(IF proc.request.noStart THEN "job" ELSE "start")
  <2> DEFINE x == IF proc.request.noStart THEN "job" ELSE "start"
  <2>1. Unit \in enabled' /\ (Unit \in DOMAIN active' => active'[Unit] = proc.job.section.when)
    BY <1>1, <1>6, Rereads DEF Has, File
  <2>2. AtHand'
    <3>1. proc'.at = x /\ UNCHANGED <<proc.job, Unit>>
      BY <1>1, <1>6, Follows
    <3>2. QED
      BY <1>1, <2>1, <3>1 DEF AtHand, Has, File
  <2>3. Careful
    BY <1>1, <1>2, <1>6, Rereads DEF Careful, Spares
  <2>4. x = "job" => Wanted(proc.job)'
    BY <1>1, <1>2, <1>6, <2>1, Follows DEF Wanted, InForce, Where, Has, File
  <2>5. x \in Steps \cup {"job"} /\ Goto(x)
    BY <1>2, <1>6
  <2>6. QED
    BY <1>1, <1>2, <1>3, <2>2, <2>3, <2>4, <2>5, Onward
<1>7. CASE StartTimer /\ active' = Unless(active, Unit, disk[File("timer")]) /\ Goto("job")
  <2>1. enabled' = enabled /\ Unit \in enabled /\ (Unit \in DOMAIN active => active[Unit] = proc.job.section.when)
    BY <1>7 DEF StartTimer, JobsInv, AtHand
  <2>2. /\ DOMAIN active' = DOMAIN active \cup {Unit} /\ \A u \in DOMAIN active : active'[u] = active[u]
        /\ Unit \notin DOMAIN active => active'[Unit] = disk[File("timer")]
    BY <1>7 DEF Unless, With
  <2>3. active'[Unit] = proc.job.section.when
    BY <1>1, <2>1, <2>2 DEF Has
  <2>4. AtHand'
    <3>1. proc'.at = "job"
      BY <1>1, <1>7, Follows
    <3>2. QED
      BY <3>1 DEF AtHand
  <2>5. Careful
    BY <1>1, <1>2, <2>1, <2>2 DEF Careful, Spares
  <2>6. Wanted(proc.job)'
    BY <1>1, <1>2, <1>7, <2>1, <2>2, <2>3, Follows DEF Wanted, InForce, Where, Has, File
  <2>7. QED
    BY <1>1, <1>2, <1>3, <1>7, <2>4, <2>5, <2>6, Onward
<1>8. QED
  BY <1>4, <1>5, <1>6, <1>7 DEF Reload, Enable, StartTimer

LEMMA TimerRemoved ==
  ASSUME ConfigAssumption, JobsInv, UnitInv, StopTimer \/ Disable \/ RemoveTimer \/ RemoveService
  PROVE  JobsInv'
<1>1. /\ proc.at \in {"stop", "disable", "remove timer", "remove service"}
      /\ UNCHANGED <<system, config>> /\ Sorts /\ Apart /\ "error" \in Outcomes
  BY DEF StopTimer, Disable, RemoveTimer, RemoveService, JobsInv, Outcomes
<1>2. /\ system = "systemd" /\ proc.request.op = "unschedule"
      /\ Steps = {"stop", "disable", "remove timer", "remove service"}
  BY <1>1, PlaceTells
<1>3. Shrinks /\ DOMAIN disk' \subseteq DOMAIN disk
  BY Loses DEF Shrinks, StopTimer, Disable, RemoveTimer, RemoveService, RemoveFile, FailJob
<1>4. Apart' /\ Careful
  BY <1>1, <1>2, <1>3 DEF Apart, Careful
<1>5. CASE FailJob("error")
  BY <1>1, <1>4, <1>5, Ends
<1>6. ASSUME NEW x \in Steps \cup {"job"}, Goto(x), x = "job" => Unit \notin enabled' \cup DOMAIN active'
      PROVE  JobsInv'
  <2>1. proc'.at = x /\ UNCHANGED proc.request /\ Where(proc.job)' = Unit
    BY <1>1, <1>6, Follows
  <2>2. AtHand'
    BY <1>2, <1>6, <2>1 DEF AtHand
  <2>3. x = "job" => Wanted(proc.job)'
    BY <1>1, <1>2, <1>4, <1>6, <2>1 DEF Wanted, Removed, Apart
  <2>4. QED
    BY <1>1, <1>2, <1>4, <1>6, <2>2, <2>3, Onward
<1>7. CASE StopTimer
  <2>1. CASE File("timer") \notin DOMAIN disk /\ Unit \notin DOMAIN active /\ Goto("job") /\ active' = active
    <3>1. Unit \notin enabled
      BY <2>1 DEF UnitInv, UnitsFiled, File
    <3>2. QED
      BY <1>6, <1>7, <2>1, <3>1 DEF StopTimer
  <2>2. QED
    BY <1>2, <1>5, <1>6, <1>7, <2>1 DEF StopTimer
<1>8. CASE Disable
  BY <1>2, <1>5, <1>6, <1>8 DEF Disable
<1>9. CASE RemoveTimer \/ RemoveService
  <2>1. Unit \notin enabled' \cup DOMAIN active' /\ \E x \in {"remove service", "job"} : Goto(x)
    BY <1>9 DEF UnitInv, JobSoFar, RemoveTimer, RemoveService, RemoveFile
  <2>2. QED
    BY <1>2, <1>6, <2>1
<1>10. QED
  BY <1>7, <1>8, <1>9

(* launchd *)

LEMMA PlistWritten ==
  ASSUME ConfigAssumption, JobsInv, WritePlist
  PROVE  JobsInv'
<1>1. /\ proc.at = "write plist" /\ UNCHANGED <<system, config, enabled, active>> /\ Sorts /\ Apart
      /\ "error" \in Outcomes
  BY DEF WritePlist, JobsInv, Outcomes
<1>2. /\ system = "launchd" /\ proc.request.op = "schedule" /\ {"write plist", "load"} \subseteq Steps
  BY <1>1, PlaceTells
<1>3. Apart'
  BY <1>1, <1>2 DEF Apart
<1>4. CASE FailJob("error")
  BY <1>1, <1>3, <1>4, Ends
<1>5. CASE disk' = With(disk, File("plist"), LaunchdJob(proc.job)) /\ Goto("load")
  <2>1. AtHand'
    <3>1. proc'.at = "load" /\ UNCHANGED <<proc.job, Unit>>
      BY <1>1, <1>5, Follows
    <3>2. File("plist") \in DOMAIN disk' /\ disk'[File("plist")] = LaunchdJob(proc.job)
      BY <1>5, Writes
    <3>3. QED
      BY <3>1, <3>2 DEF AtHand, Has, File
  <2>2. Careful
    BY <1>1, <1>2, <1>5, Writes DEF Careful
  <2>3. QED
    BY <1>1, <1>2, <1>3, <1>5, <2>1, <2>2, Onward
<1>6. QED
  BY <1>4, <1>5 DEF WritePlist

LEMMA AgentStarted ==
  ASSUME ConfigAssumption, JobsInv, Load \/ StartAgent
  PROVE  JobsInv'
<1>1. /\ proc.at \in {"load", "start agent"} /\ UNCHANGED <<system, config, disk, enabled>> /\ Sorts /\ Apart
      /\ "error" \in Outcomes /\ Has("plist", LaunchdJob(proc.job))
  BY DEF Load, StartAgent, machine, JobsInv, Outcomes, AtHand
<1>2. /\ system = "launchd" /\ proc.request.op = "schedule" /\ {"load", "start agent"} \subseteq Steps
  BY <1>1, PlaceTells
<1>3. Apart'
  BY <1>1, <1>2 DEF Apart
<1>4. CASE FailJob("error")
  BY <1>1, <1>3, <1>4, Ends
<1>5. ASSUME NEW x \in {"start agent", "job"}, Goto(x), Unit \in DOMAIN active',
             \A u : u # Unit => (u \in DOMAIN active' <=> u \in DOMAIN active),
             \A u \in DOMAIN active : active'[u] = active[u]
      PROVE  JobsInv'
  <2>1. proc'.at = x /\ UNCHANGED <<proc.job, proc.request, Unit>>
    BY <1>1, <1>5, Follows
  <2>2. AtHand'
    BY <1>1, <1>5, <2>1 DEF AtHand, Has, File
  <2>3. Careful
    BY <1>1, <1>2, <1>5 DEF Careful, Spares
  <2>4. Wanted(proc.job)'
    BY <1>1, <1>2, <1>5, <2>1, Follows DEF Wanted, InForce, Where, Has, File
  <2>5. QED
    BY <1>1, <1>2, <1>3, <1>5, <2>2, <2>3, <2>4, Onward
<1>6. CASE Load /\ ~FailJob("error")
  <2>1. /\ active' = Unless(active, Unit, disk[File("plist")])
        /\ Goto(IF proc.request.noStart THEN "job" ELSE "start agent")
    BY <1>6 DEF Load
  <2>2. DOMAIN active' = DOMAIN active \cup {Unit} /\ \A u \in DOMAIN active : active'[u] = active[u]
    BY <2>1 DEF Unless, With
  <2>3. QED
    BY <1>5, <2>1, <2>2
<1>7. CASE StartAgent /\ ~FailJob("error")
  <2>1. Goto("job") /\ active' = active /\ Unit \in DOMAIN active
    BY <1>7 DEF StartAgent, machine, JobsInv, AtHand
  <2>2. QED
    BY <1>5, <2>1
<1>8. QED
  BY <1>4, <1>6, <1>7

LEMMA AgentRemoved ==
  ASSUME ConfigAssumption, JobsInv, StopAgent \/ Unload \/ RemovePlist
  PROVE  JobsInv'
<1>1. /\ proc.at \in {"stop agent", "unload", "remove plist"}
      /\ UNCHANGED <<system, config>> /\ Sorts /\ Apart /\ "error" \in Outcomes
  BY DEF StopAgent, Unload, RemovePlist, machine, JobsInv, Outcomes
<1>2. /\ system = "launchd" /\ proc.request.op = "unschedule"
      /\ Steps = {"stop agent", "unload", "remove plist"} /\ enabled = {}
  BY <1>1, PlaceTells DEF Apart
<1>3. Shrinks
  BY Loses DEF Shrinks, StopAgent, Unload, RemovePlist, machine
<1>4. Apart' /\ Careful
  BY <1>1, <1>2, <1>3 DEF Apart, Careful, Shrinks
<1>5. CASE FailJob("error")
  BY <1>1, <1>4, <1>5, Ends
<1>6. ASSUME NEW x \in Steps \cup {"job"}, Goto(x), x = "job" => File("plist") \notin DOMAIN disk'
      PROVE  JobsInv'
  <2>1. proc'.at = x /\ UNCHANGED proc.request /\ Where(proc.job)' = Unit
    BY <1>1, <1>6, Follows
  <2>2. AtHand'
    BY <1>2, <1>6, <2>1 DEF AtHand
  <2>3. x = "job" => Wanted(proc.job)'
    BY <1>1, <1>2, <1>3, <1>6, <2>1 DEF Wanted, Removed, Shrinks, File
  <2>4. QED
    BY <1>1, <1>2, <1>4, <1>6, <2>2, <2>3, Onward
<1>7. CASE StopAgent
  <2>1. disk' = disk /\ Goto(IF File("plist") \in DOMAIN disk THEN "unload" ELSE "job")
    BY <1>7 DEF StopAgent, machine
  <2>2. QED
    BY <1>2, <1>6, <2>1
<1>8. CASE Unload
  BY <1>2, <1>5, <1>6, <1>8 DEF Unload
<1>9. CASE RemovePlist /\ ~FailJob("error")
  <2>1. Goto("job") /\ File("plist") \notin DOMAIN disk'
    BY <1>9, Loses DEF RemovePlist
  <2>2. QED
    BY <1>2, <1>6, <2>1
<1>10. QED
  BY <1>5, <1>7, <1>8, <1>9

(* Windows *)

LEMMA TaskCreated ==
  ASSUME ConfigAssumption, JobsInv, CreateTask
  PROVE  JobsInv'
<1> DEFINE registered == IF Unit \in DOMAIN active THEN active[Unit].account ELSE None
           task == TaskOf(proc.job, Permission, registered)
<1>1. /\ proc.at = "create task" /\ UNCHANGED <<system, config, disk, enabled>> /\ Sorts /\ Apart
      /\ "error" \in Outcomes /\ "denied" \in Outcomes
  BY DEF CreateTask, JobsInv, Outcomes
<1>2. system = "windows" /\ proc.request.op = "schedule"
  BY <1>1, PlaceTells
<1>3. Apart'
  BY <1>1 DEF Apart
<1>4. CASE FailJob("error") \/ FailJob("denied")
  BY <1>1, <1>3, <1>4, Ends
<1>5. CASE active' = With(active, Unit, task) /\ Goto("job")
  <2>1. proc'.at = "job" /\ UNCHANGED <<proc.job, proc.request, Unit>> /\ Where(proc.job)' = Unit
    BY <1>1, <1>5, Follows
  <2>2. /\ DOMAIN active' = DOMAIN active \cup {Unit} /\ active'[Unit] = task
        /\ \A u \in DOMAIN active : u # Unit => active'[u] = active[u]
    BY <1>5 DEF With
  <2>3. task.when = proc.job.section.when
    BY DEF TaskOf
  <2>4. /\ proc.job.section.permission = "user" => task.account = "user's" /\ task.logon = "password"
        /\ proc.job.section.permission \in {"user_logged_on", "user_logged_in"} => task.logon = "interactive"
        /\ proc.job.section.permission \notin {"user", "user_logged_on", "user_logged_in"}
             => task.account = "SYSTEM" /\ task.logon = "service"
    BY <1>2 DEF TaskOf, Permission, DetectPermission
  <2>5. InForce(proc.job)'
    BY <1>1, <1>2, <2>1, <2>2, <2>3, <2>4 DEF InForce, Where
  <2>6. AtHand' /\ Careful
    BY <1>1, <1>2, <2>1, <2>2 DEF AtHand, Careful, Spares
  <2>7. Wanted(proc.job)'
    BY <1>2, <2>1, <2>5 DEF Wanted
  <2>8. proc.at \in Steps
    BY <1>1, <1>2, PlaceTells
  <2>9. QED
    BY <1>1, <1>2, <1>3, <1>5, <2>6, <2>7, <2>8, Onward
<1>6. QED
  BY <1>4, <1>5 DEF CreateTask, FailTask

LEMMA TaskDeleted ==
  ASSUME ConfigAssumption, JobsInv, DeleteTask
  PROVE  JobsInv'
<1>1. /\ proc.at = "delete task" /\ UNCHANGED <<system, config, disk, enabled>> /\ Sorts /\ Apart
      /\ "error" \in Outcomes /\ "denied" \in Outcomes
  BY DEF DeleteTask, JobsInv, Outcomes
<1>2. system = "windows" /\ proc.request.op = "unschedule" /\ Steps = {"delete task"}
  BY <1>1, PlaceTells
<1>3. Apart'
  BY <1>1 DEF Apart
<1>4. CASE FailJob("error") \/ FailJob("denied")
  BY <1>1, <1>3, <1>4, Ends
<1>5. CASE DOMAIN active' = DOMAIN active \ {Unit} /\ Goto("job")
  <2>1. proc'.at = "job" /\ UNCHANGED proc.request /\ Where(proc.job)' = Unit
    BY <1>1, <1>5, Follows
  <2>2. Wanted(proc.job)'
    BY <1>1, <1>2, <1>5, <2>1 DEF Wanted, Removed, Apart
  <2>3. AtHand' /\ Careful
    BY <1>1, <1>2, <1>5, <2>1 DEF AtHand, Careful, Shrinks
  <2>4. QED
    BY <1>1, <1>2, <1>3, <1>5, <2>2, <2>3, Onward
<1>6. QED
  BY <1>4, <1>5, Loses DEF DeleteTask, FailTask

(* The others *)

LEMMA Queried ==
  ASSUME JobsInv, Query
  PROVE  JobsInv'
<1>1. /\ proc.at = "query" /\ UNCHANGED <<system, config, disk, enabled>> /\ Sorts /\ Untouched /\ Apart /\ ProcShape
      /\ "error" \in Outcomes
  BY DEF Query, machine, JobsInv, Outcomes, Sorts
<1>2. proc.request.op = "status"
  BY <1>1, PlaceTells
<1>3. Apart'
  BY <1>1 DEF Apart
<1>4. CASE FailJob("error")
  BY <1>1, <1>3, <1>4, Ends
<1>5. CASE Goto("job")
  <2>1. ProcShape' /\ proc'.at = "job" /\ UNCHANGED <<proc.request, proc.config>>
    BY <1>1, <1>5 DEF ProcShape, Goto
  <2>2. Sorts' /\ Untouched' /\ ~Changing'
    BY <1>1, <1>2, <2>1 DEF Sorts, Untouched, CollectsFirst, Changing
  <2>3. QED
    BY <1>3, <2>1, <2>2, OutOfWork
<1>6. QED
  BY <1>4, <1>5 DEF Query

LEMMA OtherJobSteps ==
  ASSUME RequestAssumption, JobsInv,
         \/ \E request \in Requests : Command(request)
         \/ Elevate \/ Kill \/ Reboot \/ Done \/ ParentReturns \/ KillParent \/ Edit \/ UNCHANGED vars
  PROVE  JobsInv'
<1>1. Sorts /\ Apart /\ ProcShape
  BY DEF JobsInv, Sorts
<1>2. ASSUME NEW request \in Requests, Command(request)
      PROVE  JobsInv'
  BY <1>1, <1>2, Begins DEF Command, machine, Apart
<1>3. CASE Elevate
  <2>1. proc.at = "denied" /\ UNCHANGED <<system, config, disk, enabled>> /\ proc.request \in Requests
    BY <1>1, <1>3 DEF Elevate, machine, ProcShape
  <2>2. Apart' /\ "denied" \in Outcomes
    BY <1>1, <2>1 DEF Apart, Outcomes
  <2>3. QED
    BY <1>3, <2>1, <2>2, Begins, Ends DEF Elevate
<1>4. CASE Kill \/ Reboot
  BY <1>1, <1>4, Retires DEF Kill, Reboot, machine, Apart
<1>5. CASE Done \/ ParentReturns \/ KillParent \/ Edit \/ UNCHANGED vars
  BY <1>1, <1>5, Waits DEF Done, ParentReturns, KillParent, Edit, vars, machine, Sorts
<1>6. QED
  BY <1>2, <1>3, <1>4, <1>5

LEMMA JobsStep ==
  ASSUME ConfigAssumption, RequestAssumption, JobsInv, system = "systemd" => UnitInv, [Next]_vars
  PROVE  JobsInv'
<1>1. ASSUME StopTimer \/ Disable \/ RemoveTimer \/ RemoveService
      PROVE  UnitInv
  <2>1. proc.at \in {"stop", "disable", "remove timer", "remove service"} /\ Sorts
    BY <1>1 DEF StopTimer, Disable, RemoveTimer, RemoveService, JobsInv
  <2>2. QED
    BY <2>1, PlaceTells
<1>2. ASSUME \/ WriteService \/ WriteTimer \/ Reload \/ Enable \/ StartTimer
             \/ StopTimer \/ Disable \/ RemoveTimer \/ RemoveService
      PROVE  JobsInv'
  BY <1>1, <1>2, ServiceWritten, TimerWritten, TimerStarted, TimerRemoved
<1>3. ASSUME \/ WritePlist \/ Load \/ StartAgent \/ StopAgent \/ Unload \/ RemovePlist
             \/ CreateTask \/ DeleteTask \/ Query
      PROVE  JobsInv'
  BY <1>3, PlistWritten, AgentStarted, AgentRemoved, TaskCreated, TaskDeleted, Queried
<1>4. ASSUME Collect \/ NextProfile \/ NextJob
      PROVE  JobsInv'
  BY <1>4, Collects, NextProfiles, NextJobs
<1>5. QED
  BY <1>2, <1>3, <1>4, OtherJobSteps DEF Next, Work

LEMMA JobsTracked ==
  ASSUME SystemAssumption, ConfigAssumption, RequestAssumption
  PROVE  Spec => [](system \in Systems /\ JobsInv)
<1> DEFINE Inv == system \in Systems /\ JobsInv /\ (system = "systemd" => UnitInv)
<1>1. Init => Inv
  <2> SUFFICES ASSUME Init PROVE Inv
    OBVIOUS
  <2>1. proc = Idle /\ DOMAIN disk = {} /\ enabled = {} /\ config \in Configs
    BY DEF Init
  <2> system \in Systems /\ system \in {"systemd", "launchd", "windows"}
    BY DEF Init, SystemAssumption
  <2>2. JobsInv
    BY <2>1 DEF Idle, JobsInv, Sorts, ProcShape, Untouched, CollectsFirst, Queue, SoFar, Tracked, Changing,
                AtHand, Apart
  <2>3. QED
    BY <2>1, <2>2, UnitStart
<1>2. Inv /\ [Next]_vars => Inv'
  BY UnitStep, SystemStays, JobsStep
<1>3. QED
  BY <1>1, <1>2, PTL DEF Spec

-----------------------------------------------------------------------------
(* For any configurations and requests: schedule touches no job before it  *)
(* has read the jobs of all profiles it was asked for (createSchedule in   *)
(* commands.go), so one that cannot be loaded leaves the others as they    *)
(* are.                                                                    *)
THEOREM ReadsBeforeItWrites ==
  ASSUME SystemAssumption, ConfigAssumption, RequestAssumption
  PROVE  Spec => []CollectsFirst
<1>1. JobsInv => CollectsFirst
  BY DEF JobsInv, Untouched
<1>2. QED
  BY <1>1, JobsTracked, PTL

(* At the end there is nothing before it and nothing at hand.              *)
LEMMA EndOfWork ==
  ASSUME JobsInv, EndedWell("schedule") \/ EndedWell("unschedule"),
         proc.request.op = "schedule" /\ system = "launchd" => SpelledOnce
  PROVE  \A title \in Asked : \A job \in JobsFor(proc.config, proc.request, title) : Wanted(job)
<1>1. /\ proc.at = "ended" /\ proc.outcome = "ok" /\ proc.request.op # "status" /\ Sorts
  BY DEF EndedWell, JobsInv
<1>2. Changing /\ Tracked
  BY <1>1 DEF Changing, Tracked
<1>3. proc.jobs = {} /\ ToSet(proc.titles) = {}
  BY <1>1, <1>2 DEF JobsInv, Queue, ToSet
<1>4. "ended" \notin Steps
  BY <1>1, Places
<1>5. QED
  BY <1>1, <1>2, <1>3, <1>4 DEF JobsInv, SoFar, Accounted

(* For any configurations and requests, whatever was left of earlier       *)
(* commands that were killed or failed: when schedule ends well, each job  *)
(* of each profile it was asked for is in force as the configuration has   *)
(* it (scheduleJobs in schedule_jobs.go, the CreateJob of each handler),   *)
(* on Windows with the log on of its permission and, but for               *)
(* user_logged_on, with its account.                                       *)
(* For launchd no group may list a profile under two spellings, as both    *)
(* have one agent.                                                         *)
THEOREM ScheduleSchedules ==
  ASSUME SystemAssumption, ConfigAssumption, RequestAssumption, "launchd" \in Systems => SpelledOnce
  PROVE  Spec => []SuccessMeansScheduled
<1>1. system \in Systems /\ JobsInv => SuccessMeansScheduled
  BY EndOfWork DEF SuccessMeansScheduled, EndedWell, JobsFor, Wanted
<1>2. QED
  BY <1>1, JobsTracked, PTL

(* For any configurations and requests: when unschedule ends well, nothing *)
(* of the profiles it was asked for is left to start restic, at the place  *)
(* of their permission and of the user now, also of what is no longer      *)
(* declared (removeJobs in schedule_jobs.go, the RemoveJob of each         *)
(* handler).                                                               *)
THEOREM UnscheduleRemoves ==
  ASSUME SystemAssumption, ConfigAssumption, RequestAssumption
  PROVE  Spec => []SuccessMeansRemoved
<1> SUFFICES ASSUME JobsInv, EndedWell("unschedule"), NEW title \in Asked, NEW command \in Schedulable
             PROVE  LET sections == proc.config.profiles[KeyOf[title]].sections
                        permission == IF command \in DOMAIN sections THEN sections[command].permission ELSE ""
                        place == Place(system, DetectPermission(system, permission, Elevated), Elevated)
                        u == <<place, UnitName(system, title), command>>
                    IN  Removed(u)
  <2>1. JobsInv => SuccessMeansRemoved
    BY DEF SuccessMeansRemoved, Removed
  <2>2. QED
    BY <2>1, JobsTracked, PTL
<1> DEFINE sections == proc.config.profiles[KeyOf[title]].sections
           permission == IF command \in DOMAIN sections THEN sections[command].permission ELSE ""
           place == Place(system, DetectPermission(system, permission, Elevated), Elevated)
<1>1. \A job \in RemovableJobs(proc.config, title) : Removed(Where(job))
  BY EndOfWork DEF EndedWell, JobsFor, Wanted
<1>2. \E job \in RemovableJobs(proc.config, title) :
        job.title = title /\ job.command = command /\ job.section.permission = permission
  <2> DEFINE declared == Schedules(proc.config, title)
             Undeclared == [permission |-> "", when |-> None, log |-> None, lockMode |-> "", lockWait |-> 0]
  <2>1. CASE command \in DOMAIN sections
    <3>1. Job(title, command, sections[command], FALSE) \in declared
      BY <2>1 DEF Schedules
    <3>2. declared \subseteq RemovableJobs(proc.config, title)
      BY DEF RemovableJobs
    <3>3. QED
      BY <2>1, <3>1, <3>2 DEF Job
  <2>2. CASE command \notin DOMAIN sections
    <3>1. \A j \in declared : j.command \in DOMAIN sections
      BY DEF Schedules, Job
    <3>2. Job(title, command, Undeclared, TRUE) \in RemovableJobs(proc.config, title)
      BY <2>2, <3>1 DEF RemovableJobs
    <3>3. QED
      BY <2>2, <3>2 DEF Job
  <2>3. QED
    BY <2>1, <2>2
<1>3. QED
  BY <1>1, <1>2 DEF Where, UnitOf
=============================================================================
