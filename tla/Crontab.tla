------------------------------ MODULE Crontab -------------------------------
(***************************************************************************)
(* Scheduling with crond: the schedule and unschedule commands             *)
(* (commands.go, schedule_jobs.go) change the jobs of a profile one after  *)
(* the other, each by reading the user's crontab, replacing its lines in   *)
(* the section of resticprofile, and writing it back as a whole            *)
(* (schedule/handler_crond.go, crond/crontab.go).                          *)
(*                                                                         *)
(* A crontab is a sequence of lines: the two markers of the section, an    *)
(* empty line, lines of the user, and entries of resticprofile.  An entry  *)
(* is what deleteLine's pattern can tell of it: the value of --name and    *)
(* the command at its end.  The profiles are those of one configuration    *)
(* file.                                                                   *)
(*                                                                         *)
(* Definitions whose comment begins with "If" are deviations: what a       *)
(* plausible slip would make of the definition they precede.               *)
(***************************************************************************)
EXTENDS Naturals, Sequences, SequencesExt

CONSTANTS
  Process,      \* resticprofile processes that change schedules
  Profile,      \* names of profiles
  Beginnings,   \* pairs of names, the first a proper prefix of the second
  Section,      \* names of schedulable sections
  Declarable,   \* pairs of a profile and a section that may have a schedule
  Schedules,    \* the number of schedules of a section, when it has any
  Foreign,      \* lines of the user
  Start, End,   \* the markers of the section
  Blank,        \* an empty line
  NoSection,    \* no job being changed
  TakeTurns,    \* whether only one process or user at a time uses the crontab
  Redeclaring,  \* whether schedules come and go in the configuration
  MaxForeign,   \* lines the user adds, at most
  MaxDamage     \* marker lines the user deletes, at most

\* getResticCommand: the command on the line is not always the section's name.
ResticCommand(section) == IF section = "retention" THEN "forget" ELSE section

Entry == [profile : Profile, command : {ResticCommand(s) : s \in Section},
          schedule : UNION {1 .. Schedules[s] : s \in Section}]

ASSUME CrontabAssumption ==
  /\ Beginnings \subseteq Profile \X Profile
  /\ Declarable \subseteq Profile \X Section
  /\ Schedules \in [Section -> Nat \ {0}]
  /\ Start # End
  /\ {Start, End, Blank} \cap (Entry \cup Foreign) = {}
  /\ Blank \notin {Start, End}
  /\ Foreign \cap Entry = {}
  /\ NoSection \notin Section
  /\ TakeTurns \in BOOLEAN
  /\ Redeclaring \in BOOLEAN
  /\ MaxForeign \in Nat
  /\ MaxDamage \in Nat

VARIABLES
  crontab,    \* the lines of the user's crontab
  declared,   \* per profile, the sections with a schedule
  op,         \* the command a process runs
  profile,    \* the profile it was given
  todo,       \* the jobs it has still to change
  job,        \* the job it is changing, its crontab being loaded
  copy,       \* the crontab it has loaded
  installed,  \* the jobs the commands have scheduled and not unscheduled since
  foreign,    \* the lines of the user, as the user left them
  damage      \* marker lines deleted so far

process == <<op, profile, todo, job, copy>>
vars == <<crontab, declared, process, installed, foreign, damage>>

Job == Profile \X Section

Line == Entry \cup Foreign \cup {Start, End, Blank}

Entries(name, section) ==
  [i \in 1 .. Schedules[section] |->
     [profile |-> name, command |-> ResticCommand(section), schedule |-> i]]

\* If the command were left out of the pattern.
MatchesAnyCommand(line, configFile, name, section) ==
  /\ configFile
  /\ line \in Entry
  /\ line.profile = name \/ <<name, line.profile>> \in Beginnings

\* deleteLine's pattern: --config and its value, --name and what starts with
\* its value, anything, and the name of the section at the end of the line.
\* configFile is FALSE for a remove-only job, which names no configuration file.
Matches(line, configFile, name, section) ==
  /\ configFile
  /\ line \in Entry
  /\ line.profile = name \/ <<name, line.profile>> \in Beginnings
  /\ line.command = section

\* The lines of a crontab that are in a set, in their order, as one gets them
\* by reading it line after line.
Keep(lines, line, set) == IF line \in set THEN Append(lines, line) ELSE lines

Kept(lines, set) ==
  LET kept[n \in 0 .. Len(lines)] ==
        IF n = 0 THEN <<>> ELSE Keep(kept[n - 1], lines[n], set)
  IN  kept[Len(lines)]

First(lines, marker) == SelectInSeq(lines, LAMBDA line : line = marker)

\* extractOwnSection slices backwards, and panics, when the first end marker
\* comes before the first start marker.
Inverted(lines) == First(lines, End) # 0 /\ First(lines, End) < First(lines, Start)

\* If adding the entries did not delete the ones before.
OwnLinesAll(lines, configFile, name, section) ==
  SubSeq(lines, First(lines, Start) + 1, First(lines, End) - 1)

\* The lines of the section, those that deleteLine matches left out.
OwnLines(lines, configFile, name, section) ==
  Kept(SubSeq(lines, First(lines, Start) + 1, First(lines, End) - 1),
       {line \in Line : ~Matches(line, configFile, name, section)})

\* If what follows the section were not written back.
RestDropped(lines) == <<End>>

Rest(lines) == SubSeq(lines, First(lines, End), Len(lines))

\* Update: the matching lines of the section deleted, the new ones added at its
\* end; a section is made when there is none.
Update(lines, configFile, name, section, entries) ==
  IF First(lines, Start) = 0 \/ First(lines, End) = 0
  THEN lines \o <<Blank, Start>> \o entries \o <<End>>
  ELSE SubSeq(lines, 1, First(lines, Start))
         \o OwnLines(lines, configFile, name, section) \o entries \o Rest(lines)

-----------------------------------------------------------------------------
\* What a configuration may declare.
Declarations ==
  {d \in [Profile -> SUBSET Section] :
     \A name \in Profile : {name} \X d[name] \subseteq Declarable}

Init ==
  /\ crontab = <<>>
  /\ declared \in Declarations
  /\ op = [p \in Process |-> "schedule"]
  /\ profile \in {[p \in Process |-> name] : name \in Profile}
  /\ todo = [p \in Process |-> {}]
  /\ job = [p \in Process |-> NoSection]
  /\ copy = [p \in Process |-> <<>>]
  /\ installed = {}
  /\ foreign = <<>>
  /\ damage = 0

Idle(p) == todo[p] = {}
MayUseCrontab == TakeTurns => \A p \in Process : Idle(p)

\* A command starts: createSchedule collects the jobs of the profile that have
\* a schedule; removeSchedule all that could have one.
Begin(p, command, name, sections) ==
  /\ Idle(p)
  /\ MayUseCrontab
  /\ op' = [op EXCEPT ![p] = command]
  /\ profile' = [profile EXCEPT ![p] = name]
  /\ todo' = [todo EXCEPT ![p] = sections]
  /\ UNCHANGED <<crontab, declared, job, copy, installed, foreign, damage>>

CreateSchedule(p) ==
  \E name \in Profile :
    /\ declared[name] # {}
    /\ Begin(p, "schedule", name, declared[name])

RemoveSchedule(p) ==
  \E name \in Profile : Begin(p, "unschedule", name, Section)

\* LoadCurrent.  The jobs of a profile come out of a map, in any order.
LoadCurrent(p) ==
  /\ job[p] = NoSection
  /\ \E section \in todo[p] : job' = [job EXCEPT ![p] = section]
  /\ copy' = [copy EXCEPT ![p] = crontab]
  /\ UNCHANGED <<crontab, declared, op, profile, todo, installed, foreign, damage>>

\* If a removal wrote the entries too.
NewEntriesAlways(p) == Entries(profile[p], job[p])

\* What Generate adds: nothing for Remove.
NewEntries(p) == IF op[p] = "schedule" THEN Entries(profile[p], job[p]) ELSE <<>>

\* A remove-only job, of a section with no schedule any more, has no ConfigFile.
HasConfigFile(p) == op[p] = "schedule" \/ job[p] \in declared[profile[p]]

\* The process is done with its job, and has these left.
Leave(p, sections) ==
  /\ todo' = [todo EXCEPT ![p] = sections]
  /\ job' = [job EXCEPT ![p] = NoSection]
  /\ copy' = [copy EXCEPT ![p] = <<>>]

\* CreateJob and RemoveJob end: "crontab -" replaces the user's crontab by what
\* was made of the copy.
Write(p) ==
  /\ job[p] # NoSection
  /\ ~Inverted(copy[p])
  /\ crontab' = Update(copy[p], HasConfigFile(p), profile[p], job[p], NewEntries(p))
  /\ installed' = IF op[p] = "schedule" THEN installed \cup {<<profile[p], job[p]>>}
                  ELSE installed \ {<<profile[p], job[p]>>}
  /\ Leave(p, todo[p] \ {job[p]})
  /\ UNCHANGED <<declared, op, profile, foreign, damage>>

\* An error before or at the write, or the panic of an inverted section, ends
\* the command; the jobs before keep what was made of them.
Fail(p) ==
  /\ job[p] # NoSection
  /\ Leave(p, {})
  /\ UNCHANGED <<crontab, declared, op, profile, installed, foreign, damage>>

\* The user edits the configuration, or adds a line to the crontab, or deletes
\* a marker of it.
Redeclare ==
  /\ Redeclaring
  /\ MayUseCrontab
  /\ declared' \in Declarations
  /\ UNCHANGED <<crontab, process, installed, foreign, damage>>

AddLine ==
  /\ MayUseCrontab
  /\ Len(foreign) < MaxForeign
  /\ \E i \in 1 .. Len(crontab) + 1, line \in Foreign :
       crontab' = InsertAt(crontab, i, line)
  /\ foreign' = Kept(crontab', Foreign)
  /\ UNCHANGED <<declared, process, installed, damage>>

DeleteMarker ==
  /\ MayUseCrontab
  /\ damage < MaxDamage
  /\ \E i \in 1 .. Len(crontab) :
       crontab[i] \in {Start, End} /\ crontab' = RemoveAt(crontab, i)
  /\ damage' = damage + 1
  /\ UNCHANGED <<declared, process, installed, foreign>>

Next ==
  \/ \E p \in Process :
       CreateSchedule(p) \/ RemoveSchedule(p) \/ LoadCurrent(p) \/ Write(p) \/ Fail(p)
  \/ Redeclare \/ AddLine \/ DeleteMarker

Spec == Init /\ [][Next]_vars

-----------------------------------------------------------------------------
TypeOK ==
  /\ crontab \in Seq(Line)
  /\ declared \in [Profile -> SUBSET Section]
  /\ op \in [Process -> {"schedule", "unschedule"}]
  /\ profile \in [Process -> Profile]
  /\ todo \in [Process -> SUBSET Section]
  /\ job \in [Process -> Section \cup {NoSection}]
  /\ \A p \in Process : job[p] = NoSection \/ job[p] \in todo[p]
  /\ copy \in [Process -> Seq(Line)]
  /\ installed \subseteq Job
  /\ foreign \in Seq(Foreign)
  /\ damage \in 0 .. MaxDamage

EntriesIn(lines) == {lines[i] : i \in {j \in 1 .. Len(lines) : lines[j] \in Entry}}

EntriesOf(name, section) ==
  {Entries(name, section)[i] : i \in 1 .. Schedules[section]}

\* "Schedules are always independent of each other" (docs, schedules/commands):
\* a job that was scheduled is in the crontab, with all its schedules, until it
\* is unscheduled, whatever is done to other jobs.
NothingLost ==
  \A j \in installed : EntriesOf(j[1], j[2]) \subseteq EntriesIn(crontab)

\* unschedule removes "all the schedules defined on the selected profile"
\* (docs, schedules/commands), those no longer declared included
\* (commands.go:559): an entry belongs to a job that is scheduled.
NothingLeft ==
  EntriesIn(crontab) \subseteq UNION {EntriesOf(j[1], j[2]) : j \in installed}

\* What unschedule is asked to remove is gone after it, if it is still declared
\* and the markers were left alone.
Unscheduled ==
  [][\A j \in installed \ installed' :
       damage = 0 /\ j[2] \in declared[j[1]]
         => EntriesOf(j[1], j[2]) \cap EntriesIn(crontab') = {}]_vars

\* Update "will delete and add all new entries" (crond/crontab.go:36):
\* scheduling a job again does not make it run twice, as long as the user
\* leaves the markers intact.
NoDuplicates ==
  damage = 0 =>
    \A i, k \in 1 .. Len(crontab) :
      crontab[i] \in Entry /\ crontab[i] = crontab[k] => i = k

\* Whatever is scheduled, with the section's markers or without, the lines of
\* the user are kept, and stay in their order.
ForeignKept == Kept(crontab, Foreign) = foreign

\* Schedules and the user's lines come through every command, each of them once.
CrontabKept == NothingLost /\ NoDuplicates /\ ForeignKept
=============================================================================
