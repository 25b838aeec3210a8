----------------------------- MODULE ConfigTree -----------------------------
(***************************************************************************)
(* The configuration as a tree of settings (config/config.go,              *)
(* config_mixins.go, config_v1.go, on top of the library viper), and what  *)
(* includes, inheritance and mixins do to it.                              *)
(*                                                                         *)
(* A tree maps paths, sequences of keys, to values: a value is a list of   *)
(* scalars (a scalar is a list of one), or a boolean.  No path of a tree   *)
(* extends another one.  The last key of a path may be one of the two      *)
(* suffixes that change a list instead of setting it.  The values at "use" *)
(* are lists of mixin uses, which have a name and variables.               *)
(***************************************************************************)
EXTENDS Naturals, Sequences, FiniteSets, SequencesExt, FiniteSetsExt

CONSTANTS
  True, False,     \* the booleans of the configuration, unlike any list
  ProfileName,     \* the scalar that a template expands to the profile's name
  Variables,       \* the scalars that a mixin expands to a variable
  NamePrefixes     \* <<name, prefix>>: pairs of profiles

(* Trees *)

Tails(tree, path) ==
  {SubSeq(p, Len(path) + 1, Len(p)) : p \in {q \in DOMAIN tree : IsStrictPrefix(path, q)}}
Below(tree, path) == [s \in Tails(tree, path) |-> tree[path \o s]]
Under(path, tree) ==
  [p \in {path \o s : s \in DOMAIN tree} |-> tree[SubSeq(p, Len(path) + 1, Len(p))]]
IsSet(tree, path) == \E p \in DOMAIN tree : IsPrefix(path, p)
Without(tree, paths) == [p \in DOMAIN tree \ paths |-> tree[p]]
MergeConfigMap(tree, content) == content @@ tree
ValueAt(tree, path, default) == IF path \in DOMAIN tree THEN tree[path] ELSE default
ToSlice(value) == IF value \in {True, False} THEN <<value>> ELSE value

\* Templates are executed with the name of the profile that is loaded.
ExecuteTemplate(content, name) ==
  [p \in DOMAIN content |->
     IF content[p] \in {True, False} THEN content[p]
     ELSE [i \in DOMAIN content[p] |->
             IF content[p][i] = ProfileName THEN name ELSE content[p][i]]]

VersionOf(tree) == IF ValueAt(tree, <<"version">>, <<"1">>) = <<"2">> THEN 2 ELSE 1
ProfilePath(version, name) == IF version = 1 THEN <<name>> ELSE <<"profiles", name>>

(* Lists that are appended to *)

AppendSuffix == "__APPEND"
PrependSuffix == "__PREPEND"
ChangesList(path) == path[Len(path)] \in {AppendSuffix, PrependSuffix}

\* The list that is changed is the one of content, or else the one of base.
RevolveAppendToListKeys(base, content) ==
  LET changes == {p \in DOMAIN content : ChangesList(p)}
      targets == {Front(p) : p \in changes}
      kept == DOMAIN content \ changes
      slice(tree, path) == ToSlice(ValueAt(tree, path, <<>>))
      list(path) == slice(content, Append(path, PrependSuffix))
                    \o slice(IF path \in kept THEN content ELSE base, path)
                    \o slice(content, Append(path, AppendSuffix))
  IN [p \in kept \cup targets |-> IF p \in targets THEN list(p) ELSE content[p]]

(* Mixins *)

ParseMixins(tree) ==
  LET names == {p[2] : p \in {q \in DOMAIN tree : q[1] = "mixins" /\ Len(q) > 2}}
      definition(name) == Below(tree, <<"mixins", name>>)
      default(p) == p[1] = "default-vars"
  IN [name \in names |->
        [defaultVariables |-> Below(definition(name), <<"default-vars">>),
         source |-> Without(definition(name), {p \in DOMAIN definition(name) : default(p)})]]

\* A variable without a value is left for the environment.
ExpandVariables(mixin, variables, x) ==
  IF x \notin Variables THEN x
  ELSE IF x \in DOMAIN variables THEN variables[x]
  ELSE IF <<x>> \in DOMAIN mixin.defaultVariables THEN mixin.defaultVariables[<<x>>][1]
  ELSE x

Resolve(mixin, variables) ==
  [p \in DOMAIN mixin.source |->
     IF mixin.source[p] \in {True, False} THEN mixin.source[p]
     ELSE [i \in DOMAIN mixin.source[p] |->
             ExpandVariables(mixin, variables, mixin.source[p][i])]]

\* The uses, by the path of the section they are in.
CollectAllMixinUses(tree) ==
  LET keys == {p \in DOMAIN tree : p[Len(p)] = "use" /\ Len(p) > 1}
  IN [path \in {Front(p) : p \in keys} |-> tree[Append(path, "use")]]

ApplyMixin(tree, path, mixin, variables) ==
  MergeConfigMap(tree,
    Under(path, RevolveAppendToListKeys(Below(tree, path), Resolve(mixin, variables))))

Defined(uses, mixins) == \A i \in DOMAIN uses : uses[i].name \in DOMAIN mixins
ApplyMixins(tree, path, uses, mixins) ==
  FoldLeft(LAMBDA t, use : ApplyMixin(t, path, mixins[use.name], use.vars), tree, uses)

\* Uses are matched by the beginning of their key as a text: those of the
\* profile "ab" too, when the profile is "a".
HasPrefix(path, name) ==
  /\ Len(path) > 1 /\ path[1] = "profiles"
  /\ path[2] = name \/ <<path[2], name>> \in NamePrefixes
OutsideProfiles(path) == path[1] # "profiles"

(* Inheritance *)

NotInherited == {<<"description">>, <<"use">>, <<"inherit">>}

\* What follows is what is read of a profile.  Here its parent, into which
\* it is merged, keeps its own settings; the code shares parts of them, which
\* nothing reads before the files are loaded again.
InheritFrom(parent, derived) ==
  LET base == Without(parent, NotInherited)
      own == [derived EXCEPT ![<<"inherit">>] = <<>>]
  IN MergeConfigMap(base, RevolveAppendToListKeys(base, own))

\* Version 1: a profile is decoded onto its parent, which leaves the end of a
\* longer list of the parent.
Decode(parent, own) ==
  [p \in DOMAIN own \cup (DOMAIN parent \ {<<"description">>}) |->
     IF p \notin DOMAIN own THEN parent[p]
     ELSE IF p[Len(p)] = "source" /\ p \in DOMAIN parent
       THEN own[p] \o SubSeq(parent[p], Len(own[p]) + 1, Len(parent[p]))
     ELSE own[p]]
=============================================================================
