----------------------------- MODULE MCCrontab ------------------------------
(***************************************************************************)
(* Small instances of Crontab.  backup has two schedules, other sections   *)
(* have one; home is a prefix of homelab, other names of profiles are not. *)
(***************************************************************************)
EXTENDS Crontab

MCSchedules == [s \in Section |-> IF s = "backup" THEN 2 ELSE 1]
ThreeJobs == {<<"home", "backup">>, <<"home", "check">>, <<"lab", "backup">>}
AllJobs == Profile \X Section
NoPrefixes == {}
HomePrefix == {<<"home", "homelab">>}
=============================================================================
