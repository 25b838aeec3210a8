-------------------------- MODULE MCConfiguration ---------------------------
(***************************************************************************)
(* Files for Configuration.  Some worlds are about the tree: a chain of    *)
(* three profiles with lists that are appended to, mixins in profiles, in  *)
(* their sections, outside profiles and in includes, with and without      *)
(* variables, templates, and each way to fail.  The others are one profile *)
(* with every combination of what its sections may leave to each other, or *)
(* a profile with a copy.                                                  *)
(***************************************************************************)
EXTENDS Configuration

CONSTANTS Var, Name

T(x) == <<x>>               \* a tag
Tags(x, y) == <<<<x>>, <<y>>>>
Rel(x) == <<<<x>>>>         \* a relative path on its own
Abs(x) == <<<<"/", x>>>>
File(content) == [format |-> "yaml", readable |-> TRUE, content |-> content]
Two == <<"version">> :> <<"2">>
Prof(name, key, value) == <<"profiles", name, key>> :> value
Sec(name, section, key, value) == <<"profiles", name, section, key>> :> value
Mixin(name, key, value) == <<"mixins", name, key>> :> value
Use(name) == [name |-> name, vars |-> <<>>]
UseWith(name, x) == [name |-> name, vars |-> (Var :> x)]

Family ==
  Two
  @@ Prof("a", "repository", <<Name>>) @@ Prof("a", "description", <<"of a">>)
  @@ Sec("a", "backup", "tag", <<T("x")>>) @@ Sec("a", "backup", "source", Rel("s"))
  @@ Sec("a", "backup", "use", <<Use("more")>>)
  @@ Prof("b", "inherit", <<"a">>) @@ Prof("b", "use", <<Use("quiet")>>)
  @@ <<"profiles", "b", "backup", "tag", AppendSuffix>> :> <<T("y")>>
  @@ Prof("c", "inherit", <<"b">>) @@ Prof("c", "base-dir", Abs("work"))
  @@ <<"profiles", "c", "backup", "tag", PrependSuffix>> :> <<T("z")>>
  @@ Sec("c", "backup", "use", <<UseWith("more", T("v")), Use("quiet")>>)
  @@ <<"mixins", "more", "tag", AppendSuffix>> :> <<Var>>
  @@ <<"mixins", "more", "default-vars", Var>> :> <<T("w")>>
  @@ Mixin("quiet", "quiet", True)

Extension ==
  Two
  @@ Sec("a", "backup", "source", Rel("t"))
  @@ Prof("c", "use", <<Use("cached")>>) @@ Prof("b", "cache-dir", Rel("cache"))
  @@ <<"global", "use">> :> <<Use("quiet")>>
  @@ Mixin("cached", "cache-dir", Rel("other"))

\* "ab" begins like "a": it has nothing to do with it, or inherits from it.
Alike ==
  Two @@ Prof("a", "repository", <<Name>>) @@ Prof("ab", "repository", <<"r">>)
  @@ Prof("ab", "use", <<Use("quiet")>>) @@ Mixin("quiet", "quiet", True)
AlikeChild ==
  Alike @@ Prof("ab", "inherit", <<"a">>) @@ Sec("a", "backup", "tag", <<T("x")>>)
  @@ Prof("a", "quiet", False)
AlikeMixed ==
  AlikeChild @@ Sec("ab", "backup", "use", <<Use("more")>>)
  @@ (<<"mixins", "more", "tag", AppendSuffix>> :> <<T("y")>>)

WorldWith(v, main, includes) ==
  [main |-> main, includes |-> includes, resticVersion |-> v]
World(main, includes) == WorldWith(10, main, includes)
NoRepository == Two @@ Prof("d", "quiet", True)
First ==
  (<<"a", "repository">> :> <<Name>>) @@ (<<"a", "description">> :> <<"of a">>)
  @@ (<<"a", "backup", "source">> :> <<<<"s">>, <<"t">>>>) @@ (<<"a", "backup", "host">> :> <<"h">>)
  @@ (<<"b", "inherit">> :> <<"a">>) @@ (<<"b", "backup", "source">> :> Rel("u"))
  @@ (<<"c", "inherit">> :> <<"b">>) @@ (<<"c", "backup", "path">> :> Rel("p"))
  @@ (<<"d", "inherit">> :> <<"nobody">>)

TreeWorlds ==
  {World(File(Family), <<>>),
   World(File(Family), <<File(Extension)>>),
   World(File(Family), <<File(Prof("c", "repository", <<"r">>)), File(Extension)>>),
   World(File(Alike), <<>>), World(File(AlikeChild), <<>>), World(File(AlikeMixed), <<>>),
   World(File(Family @@ Prof("d", "use", <<Use("nothing")>>)), <<>>),
   World(File(Family @@ Prof("d", "inherit", <<"nobody">>)), <<>>),
   World(File(Two @@ (<<"global", "use">> :> <<Use("nothing")>>) @@ Prof("a", "quiet", True)), <<>>),
   World(File(NoRepository), <<[File(Family) EXCEPT !.format = "hcl"]>>),
   World([File(Two @@ Prof("a", "quiet", True)) EXCEPT !.format = "hcl"], <<>>),
   World(File(Family), <<[File(Extension) EXCEPT !.readable = FALSE]>>),
   World([File(Family) EXCEPT !.readable = FALSE], <<>>),
   World(File(First), <<File(Extension)>>),
   World(File(First), <<>>),
   World([File(First) EXCEPT !.format = "hcl"], <<[File(<<"c", "quiet">> :> True) EXCEPT !.format = "hcl"]>>)}

Maybe(path, values) == {<<>>} \cup {path :> v : v \in values}
Section(v) == IF v = 2 THEN <<"profiles", "p">> ELSE <<"p">>
\* Version 1 has the paths and the tags; hosts are left to version 2.
FlagWorlds(v) ==
  LET at(section, key) == Section(v) \o <<section, key>>
      second(worlds) == IF v = 2 THEN worlds ELSE {<<>>}
  IN {World(File((IF v = 2 THEN Two ELSE <<>>)
                 @@ (at("retention", "keep-last") :> <<"1">>)
                 @@ (at("backup", "source") :> <<<<"/", "r">>, <<"s">>>>)
                 @@ d @@ h @@ t @@ p @@ f @@ k), <<>>) :
        d \in {<<>>, Section(v) \o <<"base-dir">> :> Abs("work"),
               at("backup", "source-base") :> Rel("base")},
        h \in second(Maybe(at("backup", "host"), {False, <<"h">>})),
        t \in Maybe(at("backup", "tag"), {True, Tags("x", "y")}),
        p \in Maybe(at("retention", "path"), {True, False, Rel("q")}),
        f \in second({<<>>, at("retention", "host") :> True, Section(v) \o <<"host">> :> <<"g">>}),
        k \in second({<<>>, Section(v) \o <<"tag">> :> <<T("z")>>})}

CopyWorlds ==
  {WorldWith(v, File(Two @@ Prof("p", "repository", <<"r">>) @@ Prof("p", "password-file", Rel("k"))
              @@ Prof("p", "limit", <<"5">>) @@ Sec("p", "copy", "repository", <<"s">>)
              @@ w @@ i @@ Sec("p", "snapshots", "host", True)), <<>>) :
     v \in {0, 10, 14},
     w \in Maybe(<<"profiles", "p", "copy", "password-file">>, {Rel("l")}),
     i \in Maybe(<<"profiles", "p", "copy", "initialize-copy-chunker-params">>, {True, False})}

MCWorlds == TreeWorlds \cup FlagWorlds(1) \cup FlagWorlds(2) \cup CopyWorlds

\* The eleventh version lets go of limit, the fourteenth has the new names.
Basic == {"repo", "password-file", "cache-dir", "quiet"}
Manual(v) ==
  [c \in {DefaultCommand, "backup", "forget", "copy", "init", "check"} \cup (IF v > 9 THEN {"snapshots"} ELSE {}) |->
     CASE c = DefaultCommand -> Basic \cup (IF v < 11 THEN {"limit"} ELSE {})
       [] c = "backup" -> {"host", "tag"}
       [] c = "forget" -> {"host", "tag", "path", "keep-last"}
       [] c \in {"copy", "init"} ->
            {"copy-chunker-params", "repo2", "password-file2"}
            \cup (IF v < 14 THEN {} ELSE {"from-repo", "from-password-file"})
       [] OTHER -> {"host"}]
MCManuals == [v \in 1..14 |-> Manual(v)]
MCExtraArgs ==
  <<[flag |-> "tag", value |-> <<>>], [flag |-> NoFlag, value |-> <<"t">>],
    [flag |-> "limit", value |-> <<"1">>], [flag |-> NoFlag, value |-> <<"f">>]>>
MCNamePrefixes == {<<"ab", "a">>}
MCHomeDir == <<"/", "home">>
MCRootPath == <<"/", "etc">>
=============================================================================
