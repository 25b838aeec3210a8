------------------------------- MODULE MCJobs -------------------------------
(***************************************************************************)
(* Two profiles, p also called P, and a group of both.  The configuration  *)
(* changes the times, the permission and the jobs of p, stops scheduling   *)
(* q, or has a profile in the group that cannot be loaded.                 *)
(***************************************************************************)
EXTENDS Jobs

Section(when, permission, log, lockMode, lockWait) ==
  [when |-> when, permission |-> permission, log |-> log,
   lockMode |-> lockMode, lockWait |-> lockWait]
Profile(sections) == [valid |-> TRUE, sections |-> sections]
Bad == [valid |-> FALSE, sections |-> <<>>]
Both(x, y) == "both" :> <<x, y>>

Nightly == "backup" :> Section("night", "", "file", "default", 5)
Weekly == "retention" :> Section("sunday", "system", "url", "ignore", 0)
Hourly == "backup" :> Section("hour", "user", None, "fail", 9)
LoggedOn == "backup" :> Section("noon", "user_logged_on", None, "fail", 9)

MCConfigs ==
  {[profiles |-> "p" :> Profile(Nightly) @@ "q" :> Profile(Weekly), groups |-> Both("q", "p")],
   [profiles |-> "p" :> Profile(Hourly) @@ "q" :> Profile(<<>>), groups |-> Both("p", "q")],
   [profiles |-> "p" :> Profile(LoggedOn) @@ "q" :> Bad, groups |-> Both("p", "q")]}

Request(op, name, all, noStart, root) ==
  [op |-> op, name |-> name, all |-> all, noStart |-> noStart, root |-> root]
MCRequests ==
  {Request("schedule", "p", FALSE, FALSE, FALSE), Request("schedule", "P", FALSE, TRUE, TRUE),
   Request("schedule", "both", FALSE, FALSE, TRUE), Request("schedule", "p", TRUE, FALSE, FALSE),
   Request("unschedule", "p", FALSE, FALSE, FALSE), Request("unschedule", "both", FALSE, FALSE, TRUE),
   Request("unschedule", "p", TRUE, FALSE, FALSE),
   Request("status", "p", FALSE, FALSE, TRUE), Request("status", "p", TRUE, FALSE, FALSE)}
MCKeyOf == ("p" :> "p") @@ ("P" :> "p") @@ ("q" :> "q") @@ ("both" :> "both")
=============================================================================
