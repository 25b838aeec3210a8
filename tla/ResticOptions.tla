--------------------------- MODULE ResticOptions ----------------------------
(***************************************************************************)
(* Which flags a version of restic knows (restic/commands.go), and the     *)
(* filter of a restic command line (wrapper.go).                           *)
(*                                                                         *)
(* The table of commands is made by reading the manuals of restic, version *)
(* after version.  A manual maps commands to their sets of flags; versions *)
(* are numbers, 0 standing for no version.  Descriptions, aliases and      *)
(* defaults are left out, and so are flags of one operating system.        *)
(***************************************************************************)
EXTENDS Naturals, Sequences, FiniteSets, TLC, SequencesExt

CONSTANT Manuals     \* per version, its manual; the first one is the base version

ASSUME ManualsAssumption == Manuals \in Seq({Manuals[v] : v \in DOMAIN Manuals})

DefaultCommand == "__default"

Since(version) == [from |-> version, removed |-> 0]

IncludedInVersion(item, includeRemoved, actual) ==
  actual # 0 =>
    /\ item.from <= actual
    /\ item.removed # 0 /\ ~includeRemoved => actual < item.removed

Gone(item, version) == IF item.removed = 0 THEN [item EXCEPT !.removed = version] ELSE item
FromTheStart(item, base) ==
  IF IncludedInVersion(item, TRUE, base) THEN [item EXCEPT !.from = 0] ELSE item

ParseManual(manual, version) ==
  [name \in DOMAIN manual |->
     [span |-> Since(version), options |-> [o \in manual[name] |-> Since(version)]]]

\* A flag that is there again stays removed.
MergeOptions(options, source, version) ==
  [o \in DOMAIN options \cup DOMAIN source |->
     IF o \notin DOMAIN options THEN source[o]
     ELSE IF o \in DOMAIN source THEN options[o]
     ELSE Gone(options[o], version)]

MergeCommand(command, name, source, version) ==
  CASE name \notin DOMAIN source -> [command EXCEPT !.span = Gone(@, version)]
    [] DOMAIN command.options = {} -> source[name]
    [] OTHER -> [command EXCEPT !.options = MergeOptions(@, source[name].options, version)]
MergeCommands(source, target, version) ==
  [name \in DOMAIN target \cup DOMAIN source |->
     IF name \in DOMAIN target THEN MergeCommand(target[name], name, source, version)
     ELSE source[name]]

ForgetBase(commands, base) ==
  [name \in DOMAIN commands |->
     [span |-> FromTheStart(commands[name].span, base),
      options |-> [o \in DOMAIN commands[name].options |->
                     FromTheStart(commands[name].options[o], base)]]]

MergeManual(commands, version) ==
  LET merged == MergeCommands(ParseManual(Manuals[version], version), commands, version)
  IN IF version = 1 THEN ForgetBase(merged, version) ELSE merged

Commands ==
  LET commands[version \in 0..Len(Manuals)] ==
        IF version = 0 THEN <<>> ELSE MergeManual(commands[version - 1], version)
  IN commands[Len(Manuals)]

\* The options of a command in a version; the flags that restic has removed
\* are still let through.
GetCommandForVersion(name, version) ==
  name \in DOMAIN Commands /\ IncludedInVersion(Commands[name].span, FALSE, version)
\* If they were not.
OptionsStillThere(name, version) ==
  IF ~GetCommandForVersion(name, version) THEN {}
  ELSE {o \in DOMAIN Commands[name].options :
          IncludedInVersion(Commands[name].options[o], FALSE, version)}
OptionsOf(name, version) ==
  IF ~GetCommandForVersion(name, version) THEN {}
  ELSE {o \in DOMAIN Commands[name].options :
          IncludedInVersion(Commands[name].options[o], TRUE, version)}

ValidArguments(command, version) ==
  OptionsOf(command, version) \cup OptionsOf(DefaultCommand, version)

(* The filter.  An argument is a flag with its value, or without one, or a  *)
(* value on its own (a flag without a value has the value "").              *)

NoFlag == ""
FilterStep(valid, allowExtraValues, state, arg) ==
  IF arg.flag = NoFlag
    THEN [kept |-> IF state.skip THEN state.kept ELSE Append(state.kept, arg),
          skip |-> ~allowExtraValues]
  ELSE IF arg.flag \in valid
    THEN [kept |-> Append(state.kept, arg), skip |-> state.skip /\ arg.value # <<>>]
  ELSE [state EXCEPT !.skip = IF allowExtraValues THEN @ ELSE arg.value = <<>>]

FilterArguments(valid, allowExtraValues, args) ==
  LET state[n \in 0..Len(args)] ==
        IF n = 0 THEN [kept |-> <<>>, skip |-> ~allowExtraValues]
        ELSE FilterStep(valid, allowExtraValues, state[n - 1], args[n])
  IN state[Len(args)].kept
=============================================================================
