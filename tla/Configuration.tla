--------------------------- MODULE Configuration ----------------------------
(***************************************************************************)
(* The configuration of one resticprofile process (config/config.go,       *)
(* profile.go): the main file and its includes are loaded, profiles are    *)
(* opened one after the other, and restic is run with the flags they get.  *)
(* Every profile that is opened loads all the files again, as templates    *)
(* for that profile, and then changes the tree of settings in place.  What *)
(* becomes of the tree, of the flags and of restic's own table of flags is *)
(* in ConfigTree, ProfileFlags and ResticOptions.                          *)
(*                                                                         *)
(* Go visits the keys of a map in any order: so do the mixins of one file  *)
(* and the sections that are resolved.                                     *)
(***************************************************************************)
EXTENDS ProfileFlags

CONSTANTS
  Worlds,         \* sets of files: a main file and its includes, each with its
                  \* format and its content, and the version of restic that the
                  \* global section tells, 0 for none
  HomeDir,        \* where resticprofile is started
  ExtraArgs,      \* arguments of the user for restic
  MaxLoads,       \* the number of times a profile is opened
  None

ASSUME WorldAssumption ==
  /\ \A w \in Worlds : w.resticVersion \in 0..Len(Manuals)
  /\ ExtraArgs \in Seq({ExtraArgs[i] : i \in DOMAIN ExtraArgs})

VARIABLES
  world,                            \* what is given
  tree, version, mixins, mixinUses, \* Config
  included,                         \* the includes that are accepted
  applying, after,                  \* mixins to apply now, and where to go then
  stack,                            \* profiles being put together, the deepest last
  place,                            \* where the process is
  asked, settings,                  \* the profile and what is decoded of it
  profile, unresolved,              \* Profile, and its sections left to resolve
  cwd, line, loads

config == <<tree, version, mixins, mixinUses>>
putting == <<applying, after, stack>>
opened == <<settings, profile, unresolved>>
run == <<cwd, line, loads>>
configVars == <<world, config, included, putting, place, asked, opened, run>>

ConfigInit ==
  /\ world \in Worlds
  /\ tree = <<>> /\ version = 0 /\ mixins = <<>> /\ mixinUses = <<>>
  /\ included = <<>>
  /\ applying = <<>> /\ after = "start" /\ stack = <<>>
  /\ place = "start"
  /\ asked = None /\ settings = <<>> /\ profile = None /\ unresolved = {}
  /\ cwd = HomeDir /\ line = None /\ loads = 0

Fail ==
  /\ place' = "failed"
  /\ UNCHANGED <<config, applying, after>>

(* Loading *)

\* If the uses of mixins of an earlier load were kept.
UsesOfBefore(c, replace) == c.uses
UsesBefore(c, replace) == IF replace THEN <<>> ELSE c.uses

\* load: the main file replaces what is there, an include is merged into it.
Load(c, file, name, replace) ==
  LET content == ExecuteTemplate(file.content, name)
      merged == IF replace THEN content ELSE MergeConfigMap(c.tree, content)
      uses == CollectAllMixinUses(content)
      loaded == VersionOf(merged)
  IN [tree |-> merged,
      version |-> loaded,
      uses |-> UsesBefore(c, replace)
               \o (IF loaded = 2 /\ uses # <<>> THEN <<uses>> ELSE <<>>),
      ok |-> c.ok /\ file.readable /\ c.version \in {0, loaded}]

Config == [tree |-> tree, version |-> version, uses |-> mixinUses, ok |-> TRUE]
Reload(name, includes) ==
  FoldLeft(LAMBDA c, file : IF c.ok THEN Load(c, file, name, FALSE) ELSE c,
           Load(Config, world.main, name, TRUE), includes)

Some(uses) == SelectSeq(uses, LAMBDA u : u # <<>>)
PathsOf(uses) == UNION {DOMAIN uses[i] : i \in DOMAIN uses}
Matching(uses, paths) ==
  [i \in DOMAIN uses |-> [k \in DOMAIN uses[i] \cap paths |-> uses[i][k]]]

\* The uses that match are applied, file by file, and taken off the list.
ApplyMatchingMixinsOnce(uses, paths, then) ==
  LET now == Some(Matching(uses, paths))
  IN /\ applying' = now
     /\ mixinUses' = Matching(uses, PathsOf(uses) \ paths)
     /\ after' = then
     /\ place' = IF now = <<>> THEN then ELSE "apply"

\* reloadTemplates, then what is next.
ReloadTemplates(name, includes, then) ==
  LET c == Reload(name, includes)
  IN IF ~c.ok THEN Fail
     ELSE /\ tree' = c.tree
          /\ version' = c.version
          /\ IF c.version = 2
             THEN /\ mixins' = ParseMixins(c.tree)
                  /\ ApplyMatchingMixinsOnce(c.uses, {p \in PathsOf(c.uses) : OutsideProfiles(p)}, then)
             ELSE /\ mixins' = <<>> /\ mixinUses' = <<>> /\ applying' = <<>>
                  /\ after' = then
                  /\ place' = then

LoadMain ==
  /\ place = "start"
  /\ ReloadTemplates("default", <<>>, "includes")
  /\ UNCHANGED <<world, included, stack, asked, opened, run>>

NextInclude == world.includes[Len(included) + 1]

AddInclude ==
  /\ place = "includes" /\ Len(included) < Len(world.includes)
  /\ (NextInclude.format = "hcl") = (world.main.format = "hcl")
  /\ included' = Append(included, NextInclude)
  /\ UNCHANGED <<world, config, putting, place, asked, opened, run>>

RefuseInclude ==
  /\ place = "includes" /\ Len(included) < Len(world.includes)
  /\ (NextInclude.format = "hcl") # (world.main.format = "hcl")
  /\ Fail
  /\ UNCHANGED <<world, included, stack, asked, opened, run>>

LoadIncludes ==
  /\ place = "includes" /\ included = world.includes
  /\ IF included = <<>> THEN place' = "idle" /\ UNCHANGED <<config, applying, after>>
     ELSE ReloadTemplates("default", included, "idle")
  /\ UNCHANGED <<world, included, stack, asked, opened, run>>

(* Mixins *)

ApplyUse(path, uses) ==
  IF Defined(uses, mixins)
    THEN LET rest == [applying EXCEPT ![1] = [k \in DOMAIN @ \ {path} |-> @[k]]]
         IN /\ tree' = ApplyMixins(tree, path, uses, mixins)
            /\ applying' = Some(rest)
            /\ place' = IF Some(rest) = <<>> THEN after ELSE place
            /\ UNCHANGED <<version, mixins, mixinUses, after>>
    ELSE Fail

ApplyUses ==
  /\ place = "apply"
  /\ \E path \in DOMAIN applying[1] : ApplyUse(path, applying[1][path])
  /\ UNCHANGED <<world, included, stack, asked, opened, run>>

(* Opening a profile *)

Names(t, v) ==
  IF v = 1 THEN {p[1] : p \in DOMAIN t} \ {"version", "groups", "global", "mixins"}
  ELSE {p[2] : p \in {q \in DOMAIN t : q[1] = "profiles" /\ Len(q) > 1}}

GetProfile(name) ==
  /\ asked' = name
  /\ stack' = <<name>>
  /\ ReloadTemplates(name, included, "inherit")

OpenProfile ==
  /\ place = "idle" /\ loads < MaxLoads
  /\ loads' = loads + 1
  /\ \E name \in Names(tree, version) : GetProfile(name)
  /\ UNCHANGED <<world, included, opened, cwd, line>>

Deepest == stack[Len(stack)]
PathOf(name) == ProfilePath(version, name)
ScalarOr(value, default) == IF value = <<>> THEN default ELSE value[1]
ParentOf(name) == ScalarOr(ValueAt(tree, Append(PathOf(name), "inherit"), <<>>), None)
\* HCL has no version 2: nothing is found in its sections.
Found(name) == IsSet(tree, PathOf(name)) /\ ~(version = 2 /\ world.main.format = "hcl")

MixinsOf(name, then) ==
  IF version = 1 THEN place' = then /\ UNCHANGED <<mixinUses, applying, after>>
  ELSE ApplyMatchingMixinsOnce(mixinUses, {p \in PathsOf(mixinUses) : HasPrefix(p, name)}, then)

NotFound ==
  /\ place = "inherit" /\ ~Found(Deepest)
  /\ Fail
  /\ UNCHANGED <<world, included, stack, asked, opened, run>>

InheritFirst ==
  /\ place = "inherit" /\ Found(Deepest) /\ ParentOf(Deepest) # None
  /\ stack' = Append(stack, ParentOf(Deepest))
  /\ UNCHANGED <<world, config, included, applying, after, place, asked, opened, run>>

StartWithoutParent ==
  /\ place = "inherit" /\ Found(Deepest) /\ ParentOf(Deepest) = None
  /\ settings' = Below(tree, PathOf(Deepest))
  /\ MixinsOf(Deepest, "joined")
  /\ UNCHANGED <<world, tree, version, mixins, included, stack, asked, profile, unresolved, run>>

\* A profile is complete: the one that inherits from it, if any, is next.  In
\* version 1 settings is what has been decoded so far.
JoinParent ==
  /\ place = "joined" /\ Len(stack) > 1
  /\ LET derived == stack[Len(stack) - 1]
         own == Below(tree, PathOf(derived))
         others == {p \in DOMAIN tree : ~IsPrefix(PathOf(derived), p)}
         joined == InheritFrom(Below(tree, PathOf(Deepest)), own)
     IN /\ IF version = 1
           THEN settings' = Decode(settings, own) /\ UNCHANGED tree
           ELSE /\ tree' = Under(PathOf(derived), joined) @@ [p \in others |-> tree[p]]
                /\ UNCHANGED settings
        /\ MixinsOf(derived, "joined")
  /\ stack' = Front(stack)
  /\ UNCHANGED <<world, version, mixins, included, asked, profile, unresolved, run>>

DecodeProfile ==
  /\ place = "joined" /\ Len(stack) = 1
  /\ settings' = IF version = 1 THEN settings ELSE Below(tree, PathOf(asked))
  /\ profile' = NewProfile(settings', asked)
  /\ unresolved' = {"backup", "retention"} \cap DOMAIN profile'.sections
  /\ stack' = <<>>
  /\ place' = "resolve"
  /\ UNCHANGED <<world, config, included, applying, after, asked, run>>

ResolveSection ==
  /\ place = "resolve"
  /\ \E s \in unresolved :
       /\ profile' = IF s = "backup" THEN ResolveBackup(profile, version)
                     ELSE ResolveRetention(profile, version)
       /\ unresolved' = unresolved \ {s}
  /\ UNCHANGED <<world, config, included, putting, place, asked, settings, run>>

\* Tags are only looked at when there is a backup.
ResolveFlags ==
  /\ place = "resolve" /\ unresolved = {}
  /\ LET tagged == IF Has(profile, "backup") THEN SetTag(profile) ELSE profile
     IN profile' = SetRootPath(SetPath(tagged, cwd))
  /\ place' = "opened"
  /\ UNCHANGED <<world, config, included, putting, asked, settings, unresolved, run>>

\* openProfile: in its own directory the profile is loaded again.
ChangeDir ==
  /\ place = "opened" /\ BaseDir(profile) \notin {<<>>, cwd}
  /\ cwd' = BaseDir(profile)
  /\ GetProfile(asked)
  /\ UNCHANGED <<world, included, opened, line, loads>>

TellHost ==
  /\ place = "opened" /\ BaseDir(profile) \in {<<>>, cwd}
  /\ profile' = SetHost(profile)
  /\ place' = "ready"
  /\ UNCHANGED <<world, config, included, putting, asked, settings, unresolved, run>>

(* Running restic *)

\* The user's arguments are for the command that was asked for; a run that
\* comes before or after it only gets those it knows.
RunRestic ==
  /\ place = "ready"
  /\ \E what \in Runs, main \in BOOLEAN :
       /\ what \in {"copy", "init-copy"} => Has(profile, "copy")
       /\ what = "retention" => Has(profile, "retention")
       /\ line' = PrepareCommand(profile, what, world.resticVersion, ExtraArgs, main)
  /\ place' = "ran"
  /\ UNCHANGED <<world, config, included, putting, asked, opened, cwd, loads>>

\* The next profile of a group, back in the first directory: after an error too,
\* if the group is to continue.
CloseProfile ==
  /\ place \in {"ready", "ran"} \/ (place = "failed" /\ asked # None)
  /\ place' = "idle"
  /\ cwd' = HomeDir /\ line' = None
  /\ UNCHANGED <<world, config, included, putting, asked, opened, loads>>

ConfigNext ==
  \/ LoadMain \/ AddInclude \/ RefuseInclude \/ LoadIncludes
  \/ ApplyUses
  \/ OpenProfile \/ NotFound \/ InheritFirst \/ StartWithoutParent \/ JoinParent
  \/ DecodeProfile \/ ResolveSection \/ ResolveFlags \/ ChangeDir \/ TellHost
  \/ RunRestic \/ CloseProfile

ConfigSpec == ConfigInit /\ [][ConfigNext]_configVars

(***************************************************************************)
(* What the files say                                                      *)
(***************************************************************************)

Files == <<world.main>> \o world.includes
Contents(name) == [i \in DOMAIN Files |-> ExecuteTemplate(Files[i].content, name)]
Together(name) == FoldLeft(MergeConfigMap, <<>>, Contents(name))
Version == VersionOf(world.main.content)
Own(t, name) == Below(t, ProfilePath(Version, name))
Parent(t, name) == ScalarOr(ValueAt(Own(t, name), <<"inherit">>, <<>>), None)

\* The profile and all it inherits from.
Chain(t, name) ==
  LET chain[n \in 1..Cardinality(Names(t, Version))] ==
        IF n = 1 THEN {name}
        ELSE chain[n - 1] \cup ({Parent(t, p) : p \in chain[n - 1]} \ {None})
  IN chain[Cardinality(Names(t, Version))]

\* The uses of mixins in the profile, file after file.
UsesIn(name, p) ==
  [i \in DOMAIN Files |->
     LET uses == CollectAllMixinUses(Contents(name)[i])
     IN [k \in {path \in DOMAIN uses : IsPrefix(ProfilePath(Version, p), path)} |-> uses[k]]]

UseAll(settingsOf, p, uses, definitions) ==
  FoldSet(LAMBDA path, s :
            Below(ApplyMixins(Under(ProfilePath(Version, p), s), path, uses[path], definitions),
                  ProfilePath(Version, p)),
          settingsOf, DOMAIN uses)

AsWritten(name) ==
  LET t == Together(name)
      definitions == ParseMixins(t)
      mixed(p, s) == IF Version = 1 THEN s
                     ELSE FoldLeft(LAMBDA r, uses : UseAll(r, p, uses, definitions), s, UsesIn(name, p))
      of[p \in Chain(t, name)] ==
        IF Parent(t, p) = None THEN mixed(p, Own(t, p))
        ELSE LET own == Own(t, p)
                 inherited == Without(of[Parent(t, p)], NotInherited)
             IN IF Version = 1 THEN Decode(of[Parent(t, p)], own)
                ELSE mixed(p, MergeConfigMap(inherited,
                       RevolveAppendToListKeys(inherited, [own EXCEPT ![<<"inherit">>] = <<>>])))
  IN of[name]

SameVersion ==
  \A i \in DOMAIN Files : VersionOf(FoldLeft(MergeConfigMap, <<>>,
                             [j \in 1..i |-> Files[j].content])) = Version
SameFormat ==
  \A i \in DOMAIN Files : (Files[i].format = "hcl") = (world.main.format = "hcl")
Readable == \A i \in DOMAIN Files : Files[i].readable

MixinsDefined(name, names) ==
  LET t == Together(name)
      defined(i, match(_)) ==
        LET uses == CollectAllMixinUses(Contents(name)[i])
        IN \A path \in DOMAIN uses :
             match(path) => Defined(uses[path], ParseMixins(t))
  IN Version = 2 =>
       \A i \in DOMAIN Files :
         /\ defined(i, OutsideProfiles)
         /\ \A p \in names : defined(i, LAMBDA path : IsPrefix(<<"profiles", p>>, path))

\* The lists of a profile that its mixins append to.
MixedLists(name) ==
  LET definitions == ParseMixins(Together(name))
      lists(path, uses) ==
        {SubSeq(path, Len(ProfilePath(Version, name)) + 1, Len(path)) \o Front(s) :
           s \in UNION {{p \in DOMAIN definitions[u.name].source : ChangesList(p)} : u \in uses}}
  IN UNION {LET uses == UsesIn(name, name)[i]
            IN UNION {lists(path, {uses[path][j] : j \in DOMAIN uses[path]}) : path \in DOMAIN uses} :
              i \in DOMAIN Files}
ChangesLists(name) ==
  MixedLists(name) # {} \/ \E p \in DOMAIN Own(Together(name), name) : ChangesList(p)

\* A profile in the chain is mixed with a list before it inherits it: its name
\* begins like the one of a profile that it inherits from.
MixedEarly(name) ==
  /\ Version = 2
  /\ \E p \in Chain(Together(name), name) :
       /\ \E i \in DOMAIN Files : DOMAIN UsesIn(name, p)[i] # {}
       /\ ChangesLists(p)
       /\ \E q \in Chain(Together(name), p) : <<p, q>> \in NamePrefixes

Loadable(name) ==
  LET t == Together(name)
      chain == Chain(t, name)
  IN /\ \A p \in chain : IsSet(t, ProfilePath(Version, p))
     /\ Version = 2 => world.main.format # "hcl"
     /\ MixinsDefined(name, chain)

\* What restic makes of a command line, an external matter: the snapshot of a
\* backup, and whether forget selects a snapshot.
AsSet(list) == {list[i] : i \in DOMAIN list}
FlagOf(args, f) == IF f \in DOMAIN args THEN args[f] ELSE <<>>
Absolute(paths) == {AbsolutePrefix(cwd, paths[i]) : i \in DOMAIN paths}
Snapshot(args, sources) ==
  [host |-> IF FlagOf(args, "host") = <<>> THEN Hostname ELSE FlagOf(args, "host")[1],
   tags |-> UNION {AsSet(t) : t \in AsSet(FlagOf(args, "tag"))},
   paths |-> Absolute(sources)]
Selects(args, snapshot) ==
  /\ FlagOf(args, "host") # <<>> => snapshot.host \in AsSet(FlagOf(args, "host"))
  /\ FlagOf(args, "tag") # <<>> =>
       \E t \in AsSet(FlagOf(args, "tag")) : AsSet(t) \subseteq snapshot.tags
  /\ AsSet(FlagOf(args, "path")) \subseteq snapshot.paths

(***************************************************************************)
(* Properties                                                              *)
(***************************************************************************)

\* Whatever was loaded before, and failed to, an opened profile has the settings
\* that the files say: of its parents, of their mixins, of itself and of its
\* mixins.  Loading fails exactly when a file, a parent or a mixin of the profile
\* is missing, or the files do not go together.  Left out are the settings of
\* profiles that are mixed too early.
ProfileAsWritten ==
  /\ place \in {"resolve", "opened", "ready"} =>
       Loadable(asked) /\ (MixedEarly(asked) \/ settings = AsWritten(asked))
  /\ place = "failed" =>
       \/ ~Readable \/ ~SameVersion \/ ~SameFormat
       \/ ~MixinsDefined(IF asked = None THEN "default" ELSE asked, {})
       \/ asked # None /\ ~Loadable(asked)

\* The documentation (inheritance/_index.md:303): list properties inherited from
\* a parent can be modified (append/prepend) by a mixin.  The program replaces
\* the list when the profile is mixed too early.
MixinsChangeInherited ==
  place \in {"resolve", "opened", "ready"} =>
    \A list \in MixedLists(asked) :
      ValueAt(settings, list, <<>>) = ValueAt(AsWritten(asked), list, <<>>)

\* forget, run as the retention of a backup, selects the snapshots of that
\* backup, and none of another machine or of other directories, unless the
\* section retention has its own idea of one of them.  In version 1 it is only
\* told the directories.  A host outside the sections is left out: which one
\* the two commands get depends on the order of the sections.  So is a tag "true"
\* of the backup: both commands get --tag without a value.
RetentionSelectsBackup ==
  (/\ place = "ready" /\ Has(profile, "backup") /\ Has(profile, "retention")
   /\ <<"host">> \notin DOMAIN settings
   /\ ValueAt(settings, <<"backup", "tag">>, <<>>) # True
   /\ <<"retention", "host">> \notin DOMAIN settings
   /\ \A f \in {"tag", "path"} : ValueAt(settings, <<"retention", f>>, True) = True
   /\ version = 1 => \A f \in {"host", "tag"} : \A p \in DOMAIN settings : p[Len(p)] # f)
  => LET forget == GetCommandFlags(profile, "retention", world.resticVersion)
         snapshot == Snapshot(GetCommandFlags(profile, "backup", world.resticVersion),
                              GetBackupSource(profile))
     IN /\ Selects(forget, snapshot)
        /\ GetBackupSource(profile) # <<>> => ~Selects(forget, [snapshot EXCEPT !.paths = {}])
        /\ version = 2 /\ ValueAt(settings, <<"backup", "host">>, True) # False
             => ~Selects(forget, [snapshot EXCEPT !.host = None])

\* copy copies from the repository of the profile into the one of the section
\* copy, each with its own password, by the names of the version of restic;
\* what is initialized for it is that repository, like the first one.
RepoAt(s) == FlagsOf([k \in CopySettings \cap DOMAIN profile.sections[s] |-> profile.sections[s][k]],
                     {"initialize-copy-chunker-params"})
TellsOf(name, s) ==
  \A e \in Endpoint : FlagOf(line.flags, name[e]) = FlagOf(RepoAt(s), e)
Plain == [e \in Endpoint |-> e]
CopyGoesOneWay ==
  (place = "ran" /\ line.for \in {"copy", "init-copy"}) =>
    LET renamed == ~OldNames(world.resticVersion)
        second == IF renamed THEN From ELSE Second
        fresh == line.for = "init-copy"
        alike == ValueAt(settings, <<"copy", "initialize-copy-chunker-params">>, True) # False
    IN /\ fresh \/ renamed => TellsOf(Plain, "copy")
       /\ (fresh /\ alike) \/ (~fresh /\ renamed) => TellsOf(second, "")
       /\ ~fresh /\ ~renamed => TellsOf(Plain, "") /\ TellsOf(Second, "copy")

\* restic gets the flags of the profile that its version, or one before it,
\* has in its manual for the command, and no others.
InManual(command, v, f) ==
  \E m \in 1..(IF v = 0 THEN Len(Manuals) ELSE v) :
    \E name \in {command, DefaultCommand} \cap DOMAIN Manuals[m] : f \in Manuals[m][name]
OnlyKnownFlags ==
  place = "ran" =>
    /\ \A f \in DOMAIN GetCommandFlags(profile, line.for, world.resticVersion) :
         f \in DOMAIN line.flags <=> InManual(line.command, world.resticVersion, f)
    /\ \A i \in DOMAIN line.more :
         line.more[i].flag # NoFlag => InManual(line.command, world.resticVersion, line.more[i].flag)
=============================================================================
