--------------------------- MODULE ScheduledJobs ----------------------------
(***************************************************************************)
(* What a schedule command works on: the profiles it selects, the jobs     *)
(* that their sections declare, the command line that each job runs, and   *)
(* where systemd, launchd and the Windows task scheduler keep it.          *)
(*                                                                         *)
(* A profile is found whatever the case of its name (KeyOf), and a job has *)
(* the name that was typed for title.                                      *)
(*                                                                         *)
(* Definitions whose comment begins with "If" are deviations: what a       *)
(* plausible slip would make of the definition they precede.               *)
(***************************************************************************)
EXTENDS Naturals, Sequences, SequencesExt

CONSTANTS
  KeyOf,          \* titles -> the names of the profiles in the configuration
  Schedulable,    \* the commands that a profile may schedule
  None

ASSUME KeyOfAssumption == \A t \in DOMAIN KeyOf : KeyOf[KeyOf[t]] = KeyOf[t]

(* A configuration has "profiles", from names to [valid, sections] with    *)
(* sections from commands to what is declared, and "groups", from names to *)
(* the titles in them.                                                     *)

\* selectProfiles: the lists it may return, as the names of all profiles come in
\* the order of a map
SelectProfiles(config, request) ==
  LET group == IF KeyOf[request.name] \notin DOMAIN config.profiles
                  /\ request.name \in DOMAIN config.groups
               THEN config.groups[request.name] ELSE <<>>
      chosen == IF request.all THEN SetToSeqs(DOMAIN config.profiles) ELSE {group}
  IN {IF c = <<>> THEN <<request.name>> ELSE c : c \in chosen}

\* statusSchedule only selects with --all.
TitlesOf(config, request) ==
  IF request.op = "status" /\ ~request.all THEN {<<request.name>>}
  ELSE SelectProfiles(config, request)

\* getScheduleJobs, when it ends well
Loads(config, title) ==
  /\ KeyOf[title] \in DOMAIN config.profiles
  /\ config.profiles[KeyOf[title]].valid

Job(title, command, section, removeOnly) ==
  [title |-> title, command |-> command, section |-> section, removeOnly |-> removeOnly]

\* Profile.Schedules: map order, so a set
Schedules(config, title) ==
  LET sections == config.profiles[KeyOf[title]].sections
  IN {Job(title, c, sections[c], FALSE) : c \in DOMAIN sections}

\* If unschedule only looked for what is scheduled now.
DeclaredOnly(config, title) == Schedules(config, title)

\* getRemovableScheduleJobs
RemovableJobs(config, title) ==
  LET declared == Schedules(config, title)
      Undeclared == [permission |-> "", when |-> None, log |-> None,
                     lockMode |-> "", lockWait |-> 0]
  IN declared \cup {Job(title, c, Undeclared, TRUE) :
                      c \in Schedulable \ {j.command : j \in declared}}

JobsFor(config, request, title) ==
  IF request.op = "unschedule" THEN RemovableJobs(config, title)
  ELSE Schedules(config, title)

(* The command line. *)

GetLockWait(section) == IF section.lockWait <= 2 THEN 0 ELSE section.lockWait
LockArguments(section) ==
  IF section.lockMode = "ignore" THEN {<<"--no-lock">>}
  ELSE IF section.lockMode # "fail" /\ GetLockWait(section) > 0
       THEN {<<"--lock-wait", GetLockWait(section)>>} ELSE {}

ResticCommand(command) == IF command = "retention" THEN "forget" ELSE command

Arguments(job) ==
  {<<"--name", job.title>>, <<ResticCommand(job.command)>>}
  \cup (IF job.section.log = None THEN {} ELSE {<<"--log", job.section.log>>})
  \cup LockArguments(job.section)

\* launchd writes the log itself, unless it is an address.
LaunchdJob(job) ==
  LET log == IF job.section.log = "url" THEN None ELSE job.section.log
  IN [when |-> job.section.when,
      arguments |-> Arguments(job) \ {<<"--log", log>>},
      output |-> log]

(* Who may do it, and where. *)

DetectPermission(system, permission, elevated) ==
  IF system = "windows"
  THEN CASE permission = "user" -> "user"
         [] permission \in {"user_logged_on", "user_logged_in"} -> "user_logged_on"
         [] OTHER -> "system"
  ELSE IF permission \in {"user", "system"} THEN permission
       ELSE IF elevated THEN "system" ELSE "user"

CheckPermission(system, permission, elevated) ==
  system = "windows" \/ permission = "user" \/ elevated

\* systemd looks at the user only, launchd at the permission.
Place(system, permission, elevated) ==
  CASE system = "systemd" -> IF elevated THEN "system" ELSE "user"
    [] system = "launchd" -> IF permission = "system" THEN "system"
                             ELSE IF elevated THEN "root's" ELSE "user"
    [] system = "windows" -> "tasks"

\* Names of units keep the case of the title; getJobName lowers it and tasks ignore it.
UnitName(system, title) == IF system = "systemd" THEN title ELSE KeyOf[title]

UnitOf(system, job, elevated) ==
  <<Place(system, DetectPermission(system, job.section.permission, elevated), elevated),
    UnitName(system, job.title), job.command>>

\* The unit that DisplayJobStatus asks about: by permission on systemd too.
StatusUnit(system, job, elevated) ==
  LET permission == DetectPermission(system, job.section.permission, elevated)
  IN IF system = "systemd" THEN <<permission, job.title, job.command>>
     ELSE UnitOf(system, job, elevated)

\* The task: who runs it, how that one is logged on, when and what.  One that is
\* registered is updated, and for user_logged_on it keeps its account.
TaskOf(job, permission, registered) ==
  [account |-> CASE permission = "user_logged_on" /\ registered # None -> registered
                 [] permission \in {"user", "user_logged_on"} -> "user's"
                 [] OTHER -> "SYSTEM",
   logon |-> CASE permission = "user" -> "password"
               [] permission = "user_logged_on" -> "interactive"
               [] OTHER -> "service",
   when |-> job.section.when, arguments |-> Arguments(job)]
=============================================================================
