---------------------------- MODULE ProfileFlags ----------------------------
(***************************************************************************)
(* A profile (config/profile.go): its sections, how what one of them leaves *)
(* open is taken from another, the files and directories it names, and the *)
(* flags that each restic command gets from it (config/flag.go,            *)
(* shell/args.go).                                                         *)
(*                                                                         *)
(* A section maps keys to values; "" is the profile outside its sections.  *)
(* Paths and tags are sequences of names, the path of a root directory     *)
(* begins with "/".  A value is as in ConfigTree.                          *)
(***************************************************************************)
EXTENDS ConfigTree, ResticOptions

CONSTANTS
  Hostname,
  RootPath           \* the directory of the configuration file

(* Sections *)

\* The settings that are not flags of restic.
Settings ==
  {"description", "inherit", "use", "base-dir", "source", "source-base",
   "before-backup", "after-backup", "check-before", "check-after"}
\* The settings that have another name as a flag, and those of the section
\* "copy", which only its own functions turn into flags.
ArgAlias == [repository |-> "repo"]
CopySettings == {"repository", "password-file", "initialize-copy-chunker-params"}
FilepathFlags == {"password-file", "repository-file", "cache-dir", "cacert"}

\* Every command of any restic is a section; a group of settings with
\* another name is not sent to restic.
Sections == {"retention"} \cup (DOMAIN Commands \ {DefaultCommand})

NewProfile(tree, name) ==
  LET defined == {p[1] : p \in {q \in DOMAIN tree : Len(q) = 2 /\ q[1] \in Sections}}
      keys(path) == {p[1] : p \in {q \in DOMAIN Below(tree, path) : Len(q) = 1}}
      section(path) == [k \in keys(path) |-> tree[Append(path, k)]]
  IN [name |-> name,
      sections |-> [s \in {""} \cup defined |-> section(IF s = "" THEN <<>> ELSE <<s>>)]]

Has(profile, s) == s \in DOMAIN profile.sections
Setting(profile, s, key, default) ==
  IF ~Has(profile, s) THEN default
  ELSE IF key \in DOMAIN profile.sections[s] THEN profile.sections[s][key] ELSE default
IsSetIn(profile, s, key) == Has(profile, s) /\ key \in DOMAIN profile.sections[s]
SetFlag(section, key, value) == (key :> value) @@ section
SetIn(profile, s, key, value) ==
  [profile EXCEPT !.sections[s] = SetFlag(@, key, value)]

\* The sections that have flags: the profile itself is not one of them.
FlagsSections(profile) == DOMAIN profile.sections \ {""}
\* A boolean is replaced by the values, or removed when there are none.
ReplaceTrueValue(section, key, values) ==
  IF key \notin DOMAIN section \/ section[key] # True THEN section
  ELSE IF values = <<>> THEN [k \in DOMAIN section \ {key} |-> section[k]]
  ELSE [section EXCEPT ![key] = values]
InAllSections(profile, Change(_)) ==
  [profile EXCEPT !.sections =
     [s \in DOMAIN @ |-> IF s \in FlagsSections(profile) THEN Change(@[s]) ELSE @[s]]]

(* Paths *)

IsAbs(path) == path # <<>> /\ path[1] = "/"
AbsolutePrefix(prefix, path) == IF path = <<>> \/ IsAbs(path) THEN path ELSE prefix \o path
Scalar(value) == IF value = <<>> THEN <<>> ELSE value[1]
BaseDir(profile) == Scalar(Setting(profile, "", "base-dir", <<>>))

\* Globs are not expanded.  What is not set is the empty path: no prefix.
ResolveSourcePath(profile, path) ==
  AbsolutePrefix(BaseDir(profile),
    AbsolutePrefix(Scalar(Setting(profile, "backup", "source-base", <<>>)), path))
UnresolvedSource(profile) == Setting(profile, "backup", "source", <<>>)
GetBackupSource(profile) ==
  [i \in DOMAIN UnresolvedSource(profile) |->
     ResolveSourcePath(profile, UnresolvedSource(profile)[i])]

(* What the sections take from each other *)

\* Version 2: the host of the snapshots is told to restic.
ResolveBackup(profile, version) ==
  IF version = 1 \/ IsSetIn(profile, "backup", "host") THEN profile
  ELSE SetIn(profile, "backup", "host", True)

KeepFlags == {"keep-last", "keep-daily"}
\* Version 2: retention runs after the backup if it says what to keep.
EnableAfterBackup(profile) ==
  IF /\ ~IsSetIn(profile, "retention", "after-backup")
     /\ ~IsSetIn(profile, "retention", "before-backup")
     /\ \E k \in KeepFlags : IsSetIn(profile, "retention", k)
  THEN SetIn(profile, "retention", "after-backup", True)
  ELSE profile

TagFromBackup(profile) ==
  IF /\ IsSetIn(profile, "backup", "tag")
     /\ ~IsSetIn(profile, "retention", "tag")
  THEN SetIn(profile, "retention", "tag", True)
  ELSE profile

\* If the host of the profile were not looked at.
HostOfMachine(profile) ==
  IF IsSetIn(profile, "retention", "host") THEN profile
  ELSE SetIn(profile, "retention", "host", True)
\* From backup, else from the profile, else the one of the machine.
HostFromBackup(profile) ==
  IF IsSetIn(profile, "retention", "host") THEN profile
  ELSE IF IsSetIn(profile, "backup", "host")
    THEN SetIn(profile, "retention", "host", profile.sections["backup"]["host"])
  ELSE IF IsSetIn(profile, "", "host") THEN profile
  ELSE SetIn(profile, "retention", "host", True)

PathFromSource(profile) ==
  IF Has(profile, "backup") /\ ~IsSetIn(profile, "retention", "path")
  THEN SetIn(profile, "retention", "path", True)
  ELSE profile

ResolveRetention(profile, version) ==
  LET withPath == PathFromSource(profile)
  IN IF version = 1 THEN withPath
     ELSE HostFromBackup(TagFromBackup(EnableAfterBackup(withPath)))

\* The tags of a backup, all of which a snapshot must have.  The tag "true" of a
\* backup has no text: it leaves an empty value, the flag on its own.
SetTag(profile) ==
  LET tags == Setting(profile, "backup", "tag", <<>>)
      joined == CASE tags \in {<<>>, False} -> <<>>
                  [] tags = True -> <<<<>>>>
                  [] OTHER -> <<FlattenSeq(tags)>>
  IN InAllSections(profile, LAMBDA s : ReplaceTrueValue(s, "tag", joined))

\* Snapshots are only selected by absolute paths.
SetPath(profile, cwd) ==
  LET sources == [i \in DOMAIN GetBackupSource(profile) |->
                    AbsolutePrefix(cwd, GetBackupSource(profile)[i])]
      absolute(paths) == [i \in DOMAIN paths |-> AbsolutePrefix(cwd, paths[i])]
      path(value) == CASE value = True -> sources
                       [] value = False -> value
                       [] OTHER -> absolute(value)
  IN InAllSections(profile,
       LAMBDA s : IF "path" \in DOMAIN s THEN [s EXCEPT !["path"] = path(@)] ELSE s)

SetRootPath(profile) ==
  LET fixed(section) ==
        [k \in DOMAIN section |->
           IF k \in FilepathFlags /\ section[k] \notin {True, False}
             THEN [i \in DOMAIN section[k] |-> AbsolutePrefix(RootPath, section[k][i])]
             ELSE section[k]]
  IN [profile EXCEPT !.sections = [s \in DOMAIN @ |-> fixed(@[s])]]

SetHost(profile) ==
  InAllSections(profile, LAMBDA s : ReplaceTrueValue(s, "host", <<Hostname>>))

(* Flags: they map names to lists of values, a flag without any to <<>>. *)

Named(k) == IF k \in DOMAIN ArgAlias THEN ArgAlias[k] ELSE k
FlagsOf(section, settings) ==
  LET shown == {k \in DOMAIN section \ settings : section[k] \notin {False, <<>>}}
      key(flag) == CHOOSE k \in shown : Named(k) = flag
  IN [flag \in {Named(k) : k \in shown} |->
        IF section[key(flag)] = True THEN <<>> ELSE section[key(flag)]]
AddArgs(args, section, settings) == FlagsOf(section, settings) @@ args

\* Of several values only the last one is left, of no value nothing.
Rename(args, old, new) ==
  IF old \notin DOMAIN args THEN args
  ELSE LET others == [k \in DOMAIN args \ {old} |-> args[k]]
       IN IF args[old] = <<>> THEN others ELSE (new :> <<Last(args[old])>>) @@ others
RenameAll(args, names) ==
  FoldSet(LAMBDA old, flags : Rename(flags, old, names[old]), args, DOMAIN names)

GetCommonFlags(profile) == AddArgs(<<>>, profile.sections[""], Settings)
SectionFlags(profile, s) ==
  IF Has(profile, s) THEN AddArgs(GetCommonFlags(profile), profile.sections[s], Settings)
  ELSE GetCommonFlags(profile)

\* The version of restic that gave new names to the flags of two repositories.
NewNames == 14
OldNames(version) == version < NewNames   \* no version is before all others
Endpoint == {"repo", "password-file"}
Second == [e \in Endpoint |-> IF e = "repo" THEN "repo2" ELSE "password-file2"]
From == [e \in Endpoint |-> IF e = "repo" THEN "from-repo" ELSE "from-password-file"]
FromToSecond == [f \in {From[e] : e \in Endpoint} |->
                   Second[CHOOSE e \in Endpoint : From[e] = f]]

\* The endpoint of a section of settings, without what it does not say.
EndpointOf(section) == FlagsOf([k \in CopySettings \cap DOMAIN section |-> section[k]],
                               {"initialize-copy-chunker-params"})
WithNames(args, names) ==
  [f \in {names[e] : e \in DOMAIN args} |-> args[CHOOSE e \in DOMAIN args : names[e] = f]]

\* If the source were renamed after the destination is added.
RenameLast(args, destination) == RenameAll(destination @@ args, From)
RenameFirst(args, destination) == destination @@ RenameAll(args, From)

GetCopyFlags(profile, version) ==
  LET destination == EndpointOf(profile.sections["copy"])
      flags == AddArgs(GetCommonFlags(profile), profile.sections["copy"],
                       Settings \cup CopySettings)
  IN IF OldNames(version) THEN WithNames(destination, Second) @@ flags
     ELSE RenameFirst(flags, destination)

\* The profile's settings that have a field, unlike its other flags.
ProfileFields == {"repository", "password-file", "cache-dir", "quiet"}
Fields(section) == [k \in DOMAIN section \cap ProfileFields |-> section[k]]
Others(section) == [k \in DOMAIN section \ ProfileFields |-> section[k]]

GetInitFlags(profile, version) ==
  LET own == profile.sections[""]
      copy == profile.sections["copy"]
      common == AddArgs(EndpointOf(copy) @@ FlagsOf(Fields(own), CopySettings),
                        copy, Settings \cup CopySettings)
      flags == AddArgs(WithNames(EndpointOf(own), From) @@ ("copy-chunker-params" :> <<>>)
                         @@ common,
                       Others(own), Settings)
  IN IF Setting(profile, "copy", "initialize-copy-chunker-params", True) = False THEN common
     ELSE IF OldNames(version) THEN RenameAll(flags, FromToSecond)
     ELSE flags

\* Retention has a section of its own for the command forget.
CommandOf(run) ==
  CASE run = "retention" -> "forget" [] run = "init-copy" -> "init" [] OTHER -> run
Runs == {"backup", "retention", "check", "copy", "init-copy"}
\* No version of restic has lost one of their commands (restic/commands.json).
ASSUME CommandsAssumption ==
  \A c \in {CommandOf(run) : run \in Runs} \cup {DefaultCommand} :
    \A m, n \in DOMAIN Manuals : m <= n /\ c \in DOMAIN Manuals[m] => c \in DOMAIN Manuals[n]
GetCommandFlags(profile, run, version) ==
  CASE run = "copy" /\ Has(profile, "copy") -> GetCopyFlags(profile, version)
    [] run = "init-copy" -> GetInitFlags(profile, version)
    [] OTHER -> SectionFlags(profile, run)

\* The command line.  The filter lets values on their own pass at the end, so
\* flags that have their value with them are kept when they are known.
PrepareCommand(profile, run, version, moreArgs, allowExtraValues) ==
  LET valid == ValidArguments(CommandOf(run), version)
      flags == GetCommandFlags(profile, run, version)
      value(path) == [flag |-> NoFlag, value |-> path]
      sources == IF run = "backup"
                 THEN [i \in DOMAIN GetBackupSource(profile) |-> value(GetBackupSource(profile)[i])]
                 ELSE <<>>
  IN [for |-> run,
      command |-> CommandOf(run),
      flags |-> [f \in DOMAIN flags \cap valid |-> flags[f]],
      more |-> FilterArguments(valid, TRUE,
                 FilterArguments(valid, allowExtraValues, moreArgs) \o sources)]
=============================================================================
