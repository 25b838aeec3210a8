----------------------------- MODULE MCGroupRun -----------------------------
(***************************************************************************)
(* Small instances of GroupRun: groups with every kind of base-dir, each   *)
(* before and after one that leaves the directory alone.                   *)
(***************************************************************************)
EXTENDS GroupRun

MCGroups ==
  {<<a, b>> : a, b \in Kind} \cup {<<a>> : a \in Kind} \cup {<<>>}
MCErrors == {"open", "write"}
=============================================================================
