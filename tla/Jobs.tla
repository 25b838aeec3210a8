------------------------------- MODULE Jobs --------------------------------
(***************************************************************************)
(* The commands schedule, unschedule and status of resticprofile, one      *)
(* after the other, against systemd, launchd or the Windows task           *)
(* scheduler.  A command works through the profiles it selects and the     *)
(* jobs of each; a job takes one step for every file and every call of the *)
(* scheduler, and each of them may fail.  Between commands the             *)
(* configuration is edited; at any time the process may be killed or the   *)
(* machine rebooted.                                                       *)
(*                                                                         *)
(* On Windows a process that is denied starts another one, elevated, which *)
(* does everything again and tells the first when it is done.              *)
(*                                                                         *)
(* Definitions whose comment begins with "If" are deviations: what a       *)
(* plausible slip would make of the definition they precede.               *)
(***************************************************************************)
EXTENDS ScheduledJobs

CONSTANTS
  Systems,        \* of "systemd", "launchd" and "windows"
  Configs,        \* configurations that the file may hold
  Requests,       \* [op, name, all, noStart, root] commands that may be given
  Torn,           \* the content of a file whose writing failed
  MaxCommands     \* bound: commands given

ASSUME SystemAssumption == Systems \subseteq {"systemd", "launchd", "windows"}
ASSUME ConfigAssumption ==
  \A c \in Configs :
    /\ IsFiniteSet(DOMAIN c.profiles) /\ \A name \in DOMAIN c.profiles : KeyOf[name] = name
    /\ \A g \in DOMAIN c.groups : c.groups[g] \in Seq(DOMAIN KeyOf)
ASSUME RequestAssumption == \A r \in Requests : r.op \in {"schedule", "unschedule", "status"}

VARIABLES
  system,         \* the scheduler of this machine
  config,         \* the configuration file
  disk,           \* unit files and plists: <<unit, suffix>> -> content
  enabled,        \* systemd's enabled timers
  active,         \* units in force -> what they were read from; a Windows task
  proc,           \* the process that works
  parent,         \* the one that waits for it: "none", "waits", "told"
  given           \* commands given
machine == <<system, config, disk, enabled, active>>
vars == <<machine, proc, parent, given>>

Idle == [at |-> "idle"]

Init ==
  /\ system \in Systems
  /\ config \in Configs
  /\ disk = <<>> /\ active = <<>> /\ enabled = {}
  /\ proc = Idle /\ parent = "none" /\ given = 0

(* The process: where it is, titles and jobs to go, the job it works on. *)

Elevated == proc.request.root \/ proc.child
Unit == UnitOf(system, proc.job, Elevated)
Permission == DetectPermission(system, proc.job.section.permission, Elevated)
File(suffix) == <<Unit, suffix>>
Running == proc.at \notin {"idle", "ended"}

\* A file is replaced, or a unit that is in force stays what it is.
With(f, x, value) == [y \in DOMAIN f \cup {x} |-> IF y = x THEN value ELSE f[y]]
Unless(f, x, value) == IF x \in DOMAIN f THEN f ELSE With(f, x, value)

Goto(at) == proc' = [proc EXCEPT !.at = at]
End(outcome) == proc' = [proc EXCEPT !.at = "ended", !.outcome = outcome]
\* If a job that fails were passed over.
FailurePassedOver(outcome) == Goto("job")

\* A job that fails ends the command; status with --all goes on to the next profile.
FailJob(outcome) ==
  IF proc.request.op = "status" /\ proc.request.all /\ outcome # "denied"
  THEN proc' = [proc EXCEPT !.at = "profile", !.jobs = {}]
  ELSE IF outcome = "denied" /\ system = "windows" /\ ~proc.child THEN Goto("denied")
  ELSE End(outcome)

Start(request, child) ==
  proc' = [at |-> "collect", request |-> request, child |-> child, config |-> config,
           titles |-> <<>>, jobs |-> {}, job |-> None, touched |-> FALSE, outcome |-> None]

Command(request) ==
  /\ ~Running /\ parent = "none" /\ given < MaxCommands
  /\ Start(request, FALSE)
  /\ given' = given + 1
  /\ UNCHANGED <<machine, parent>>

\* If schedule loaded each profile when it gets there, as unschedule does.
CollectsLater(request, titles) == TRUE

\* Step 1 of createSchedule; the others load each profile when they get there.
Collected(request, titles) ==
  request.op = "schedule" =>
    \A i \in DOMAIN titles :
      Loads(proc.config, titles[i])
      /\ (request.all \/ Schedules(proc.config, titles[i]) # {})

Collect ==
  /\ proc.at = "collect"
  /\ \E titles \in TitlesOf(proc.config, proc.request) :
       IF Collected(proc.request, titles)
       THEN proc' = [proc EXCEPT !.at = "profile", !.titles = titles]
       ELSE End("not collected")
  /\ UNCHANGED <<machine, parent, given>>

NextProfile ==
  /\ proc.at = "profile"
  /\ IF proc.titles = <<>> THEN End("ok")
     ELSE LET title == Head(proc.titles) IN
          IF ~Loads(proc.config, title) THEN End("not loaded")
          ELSE \/ proc' = [proc EXCEPT !.at = "job", !.titles = Tail(@),
                             !.jobs = JobsFor(proc.config, proc.request, title)]
               \/ FailJob("no scheduler")
  /\ UNCHANGED <<machine, parent, given>>

\* The first step of a job, for each system
FirstStep ==
  CASE proc.request.op = "status" -> "query"
    [] proc.request.op = "schedule" ->
         [systemd |-> "write service", launchd |-> "write plist", windows |-> "create task"][system]
    [] proc.request.op = "unschedule" ->
         [systemd |-> "stop", launchd |-> "stop agent", windows |-> "delete task"][system]

\* Create and Remove check the permission; Status does on launchd.
MayDo(job) ==
  \/ CheckPermission(system, DetectPermission(system, job.section.permission, Elevated), Elevated)
  \/ proc.request.op = "status" /\ system # "launchd"

NextJob ==
  /\ proc.at = "job"
  /\ IF proc.jobs = {} THEN Goto("profile")
     ELSE \E job \in proc.jobs :
            /\ job.removeOnly => \A j \in proc.jobs : j.removeOnly
            /\ IF MayDo(job)
               THEN proc' = [proc EXCEPT !.at = FirstStep, !.job = job,
                               !.jobs = @ \ {job}, !.touched = TRUE]
               ELSE FailJob("not allowed")
  /\ UNCHANGED <<machine, parent, given>>

(* Steps of a job.  Write either writes the file, or fails and may leave   *)
(* it torn.                                                                *)

Write(suffix, content, next) ==
  \/ disk' = With(disk, File(suffix), content) /\ Goto(next)
  \/ disk' = With(disk, File(suffix), Torn) /\ FailJob("error")
  \/ disk' = disk /\ FailJob("error")

\* What the timers of a place run once systemd has read their files again
Reloaded(place) ==
  [u \in DOMAIN active |->
     IF u[1] = place /\ <<u, "timer">> \in DOMAIN disk THEN disk[<<u, "timer">>] ELSE active[u]]

(* systemd *)

WriteService ==
  /\ proc.at = "write service"
  /\ Write("service", Arguments(proc.job), "write timer")
  /\ UNCHANGED <<system, config, enabled, active, parent, given>>

WriteTimer ==
  /\ proc.at = "write timer"
  /\ Write("timer", proc.job.section.when, IF Unit[1] = "system" THEN "reload" ELSE "enable")
  /\ UNCHANGED <<system, config, enabled, active, parent, given>>

Reload ==
  /\ proc.at = "reload"
  /\ \/ active' = Reloaded("system") /\ Goto("enable")
     \/ active' = active /\ FailJob("error")
  /\ UNCHANGED <<system, config, disk, enabled, parent, given>>

Enable ==
  /\ proc.at = "enable"
  /\ \/ /\ enabled' = enabled \cup {Unit}
        /\ active' = Reloaded(Unit[1])
        /\ Goto(IF proc.request.noStart THEN "job" ELSE "start")
     \/ UNCHANGED <<enabled, active>> /\ FailJob("error")
  /\ UNCHANGED <<system, config, disk, parent, given>>

StartTimer ==
  /\ proc.at = "start"
  /\ \/ active' = Unless(active, Unit, disk[File("timer")]) /\ Goto("job")
     \/ active' = active /\ FailJob("error")
  /\ UNCHANGED <<system, config, disk, enabled, parent, given>>

StopTimer ==
  /\ proc.at = "stop"
  /\ IF File("timer") \notin DOMAIN disk /\ Unit \notin DOMAIN active
     THEN active' = active /\ Goto("job")     \* ErrorServiceNotFound
     ELSE \/ active' = Restrict(active, DOMAIN active \ {Unit}) /\ Goto("disable")
          \/ active' = active /\ FailJob("error")
  /\ UNCHANGED <<system, config, disk, enabled, parent, given>>

Disable ==
  /\ proc.at = "disable"
  /\ \/ enabled' = enabled \ {Unit} /\ Goto("remove timer")
     \/ enabled' = enabled /\ FailJob("error")
  /\ UNCHANGED <<system, config, disk, active, parent, given>>

\* An error ends the job, as if it had gone well.
RemoveFile(suffix, next) ==
  \/ disk' = Restrict(disk, DOMAIN disk \ {File(suffix)}) /\ Goto(next)
  \/ disk' = disk /\ Goto("job")

\* If the service were removed before the timer.
ServiceFirst ==
  /\ proc.at = "remove timer"
  /\ RemoveFile("service", "remove service")
  /\ UNCHANGED <<system, config, enabled, active, parent, given>>

RemoveTimer ==
  /\ proc.at = "remove timer"
  /\ RemoveFile("timer", "remove service")
  /\ UNCHANGED <<system, config, enabled, active, parent, given>>

RemoveService ==
  /\ proc.at = "remove service"
  /\ RemoveFile("service", "job")
  /\ UNCHANGED <<system, config, enabled, active, parent, given>>

(* launchd *)

WritePlist ==
  /\ proc.at = "write plist"
  /\ \/ disk' = With(disk, File("plist"), LaunchdJob(proc.job)) /\ Goto("load")
     \/ disk' = disk /\ FailJob("error")
     \/ disk' = Restrict(disk, DOMAIN disk \ {File("plist")}) /\ FailJob("error")
  /\ UNCHANGED <<system, config, enabled, active, parent, given>>

\* An agent that is loaded stays what it was.
Load ==
  /\ proc.at = "load"
  /\ \/ /\ active' = Unless(active, Unit, disk[File("plist")])
        /\ Goto(IF proc.request.noStart THEN "job" ELSE "start agent")
     \/ active' = active /\ FailJob("error")
  /\ UNCHANGED <<system, config, disk, enabled, parent, given>>

\* Only if the user says so; it runs restic now, and changes no schedule.
StartAgent ==
  /\ proc.at = "start agent"
  /\ Goto("job") \/ FailJob("error")
  /\ UNCHANGED <<machine, parent, given>>

StopAgent ==
  /\ proc.at = "stop agent"
  /\ Goto(IF File("plist") \in DOMAIN disk THEN "unload" ELSE "job")
  /\ UNCHANGED <<machine, parent, given>>

Unload ==
  /\ proc.at = "unload"
  /\ \/ active' = Restrict(active, DOMAIN active \ {Unit}) /\ Goto("remove plist")
     \/ active' = active /\ FailJob("error")
  /\ UNCHANGED <<system, config, disk, enabled, parent, given>>

RemovePlist ==
  /\ proc.at = "remove plist"
  /\ \/ disk' = Restrict(disk, DOMAIN disk \ {File("plist")}) /\ Goto("job")
     \/ disk' = disk /\ FailJob("error")
  /\ UNCHANGED <<system, config, enabled, active, parent, given>>

(* Windows *)

\* Without elevation Windows may deny anything, and SYSTEM's tasks it does.
Allowed(account) == Elevated \/ account # "SYSTEM"
FailTask ==
  /\ active' = active
  /\ FailJob("error") \/ (~Elevated /\ FailJob("denied"))

CreateTask ==
  /\ proc.at = "create task"
  /\ LET registered == IF Unit \in DOMAIN active THEN active[Unit].account ELSE None
         task == TaskOf(proc.job, Permission, registered) IN
     \/ /\ Allowed(registered) /\ Allowed(task.account)
        /\ active' = With(active, Unit, task)
        /\ Goto("job")
     \/ FailTask
  /\ UNCHANGED <<system, config, disk, enabled, parent, given>>

DeleteTask ==
  /\ proc.at = "delete task"
  /\ IF Unit \notin DOMAIN active
     THEN active' = active /\ Goto("job")     \* ErrorServiceNotFound
     ELSE \/ /\ Allowed(active[Unit].account)
             /\ active' = Restrict(active, DOMAIN active \ {Unit})
             /\ Goto("job")
          \/ FailTask
  /\ UNCHANGED <<system, config, disk, enabled, parent, given>>

(* Status: a unit that is not there or not running is only a warning. *)

Query ==
  /\ proc.at = "query"
  /\ \/ Goto("job")
     \/ StatusUnit(system, proc.job, Elevated) \in DOMAIN active /\ FailJob("error")
  /\ UNCHANGED <<machine, parent, given>>

(* Elevation *)

Elevate ==
  /\ proc.at = "denied"
  /\ \/ End("denied") /\ parent' = parent
     \/ Start(proc.request, TRUE) /\ parent' = "waits"
  /\ UNCHANGED <<machine, given>>

\* If a child that failed did not say that it is done.
DoneIfWell ==
  /\ proc.at = "ended" /\ proc.child /\ parent = "waits" /\ proc.outcome = "ok"
  /\ parent' = "told"
  /\ UNCHANGED <<machine, proc, given>>

\* Whatever its outcome the child says so when it ends, and the parent ends well.
Done ==
  /\ proc.at = "ended" /\ proc.child /\ parent = "waits"
  /\ parent' = "told"
  /\ UNCHANGED <<machine, proc, given>>

ParentReturns ==
  /\ parent = "told"
  /\ parent' = "none"
  /\ UNCHANGED <<machine, proc, given>>

(* What happens to the machine *)

Kill ==
  /\ Running
  /\ proc' = Idle
  /\ UNCHANGED <<machine, parent, given>>

KillParent ==
  /\ parent # "none"
  /\ parent' = "none"
  /\ UNCHANGED <<machine, proc, given>>

Reboot ==
  /\ proc' = Idle /\ parent' = "none"
  /\ active' = CASE system = "systemd" ->
                      [u \in {v \in enabled : <<v, "timer">> \in DOMAIN disk} |-> disk[<<u, "timer">>]]
                 [] system = "launchd" -> [u \in {f[1] : f \in DOMAIN disk} |-> disk[<<u, "plist">>]]
                 [] OTHER -> active
  /\ UNCHANGED <<system, config, disk, enabled, given>>

Edit ==
  /\ ~Running /\ parent = "none"
  /\ config' \in Configs
  /\ UNCHANGED <<system, disk, enabled, active, proc, parent, given>>

Work ==
  \/ Collect \/ NextProfile \/ NextJob
  \/ WriteService \/ WriteTimer \/ Reload \/ Enable \/ StartTimer
  \/ StopTimer \/ Disable \/ RemoveTimer \/ RemoveService
  \/ WritePlist \/ Load \/ StartAgent \/ StopAgent \/ Unload \/ RemovePlist
  \/ CreateTask \/ DeleteTask \/ Query \/ Elevate \/ Done

Next ==
  \/ \E request \in Requests : Command(request)
  \/ Work \/ ParentReturns \/ Kill \/ KillParent \/ Reboot \/ Edit

Spec == Init /\ [][Next]_vars /\ WF_vars(Work) /\ WF_vars(ParentReturns)

(* Properties *)

Asked == UNION {ToSet(t) : t \in TitlesOf(proc.config, proc.request)}
EndedWell(op) == proc.at = "ended" /\ proc.request.op = op /\ proc.outcome = "ok"
\* Held against the configuration as the process read it
InForce(job) ==
  LET u == UnitOf(system, job, Elevated) IN
  CASE system = "systemd" ->
         /\ <<u, "service">> \in DOMAIN disk /\ disk[<<u, "service">>] = Arguments(job)
         /\ <<u, "timer">> \in DOMAIN disk /\ disk[<<u, "timer">>] = job.section.when
         /\ u \in enabled
         /\ u \in DOMAIN active \/ proc.request.noStart
         /\ u \in DOMAIN active => active[u] = job.section.when
    [] system = "launchd" ->
         /\ <<u, "plist">> \in DOMAIN disk /\ disk[<<u, "plist">>] = LaunchdJob(job)
         /\ u \in DOMAIN active
    [] system = "windows" ->
         /\ u \in DOMAIN active
         /\ active[u].when = job.section.when
         /\ LET permission == job.section.permission IN
            IF permission \in {"user_logged_on", "user_logged_in"}
            THEN active[u].logon = "interactive"
            ELSE /\ active[u].logon = IF permission = "user" THEN "password" ELSE "service"
                 /\ active[u].account = IF permission = "user" THEN "user's" ELSE "SYSTEM"

\* When schedule ends well, every job of every profile it was asked for is in
\* force with the times and the command line of the configuration, will be
\* after a reboot, and on Windows is logged on as its permission says, with that
\* account (but for user_logged_on: a task that was SYSTEM's stays SYSTEM's, and
\* the documentation asks to unschedule a job before its permission changes); a job that was scheduled before has changed to the new times, but for an
\* agent of launchd, which is replaced at the next reboot.  Jobs, files and
\* calls that go wrong in between are not passed over.
SuccessMeansScheduled ==
  EndedWell("schedule") =>
    \A title \in Asked : \A job \in Schedules(proc.config, title) : InForce(job)

\* When unschedule ends well, nothing of the profiles it was asked for is left
\* to start restic, now or after a reboot, at the place that the permission of
\* the configuration and the user have now: also what the configuration no
\* longer schedules, and what a process that was killed or failed has left
\* half done.  An agent of launchd whose plist is already gone is not looked
\* for, and runs until the reboot.
SuccessMeansRemoved ==
  EndedWell("unschedule") =>
    \A title \in Asked : \A command \in Schedulable :
      LET sections == proc.config.profiles[KeyOf[title]].sections
          permission == IF command \in DOMAIN sections THEN sections[command].permission ELSE ""
          place == Place(system, DetectPermission(system, permission, Elevated), Elevated)
          u == <<place, UnitName(system, title), command>> IN
      /\ u \notin enabled
      /\ <<u, "plist">> \notin DOMAIN disk
      /\ system # "launchd" => u \notin DOMAIN active

\* A timer of systemd never is without the service it starts, nor enabled or
\* active without a file, wherever schedule and unschedule were interrupted.
NothingDangles ==
  system = "systemd" =>
    /\ \A f \in DOMAIN disk : f[2] = "timer" => <<f[1], "service">> \in DOMAIN disk
    /\ \A u \in enabled \cup DOMAIN active : <<u, "timer">> \in DOMAIN disk

\* schedule touches no job before it has read all of them: a profile that cannot
\* be loaded, or has no schedule, leaves those of the others as they are.
CollectsFirst ==
  (proc.at = "ended" /\ proc.request.op = "schedule"
     /\ proc.outcome \in {"not collected", "not loaded"}) => ~proc.touched

\* Every command ends, and with it the process that waits for an elevated one,
\* unless that one is killed before it has said that it is done.
CommandEnds ==
  (Running \/ parent # "none")
    ~> ((~Running /\ parent = "none") \/ (parent = "waits" /\ proc = Idle))
=============================================================================
