---------------------------- MODULE StatusBoard -----------------------------
(***************************************************************************)
(* What the status file promises who reads it (docs/content/status): "the  *)
(* details of the latest backup/forget/check command" of every profile.    *)
(* A command replaces its own entry and leaves the rest of its profile and *)
(* the other profiles alone.  What the file shows may be lost as a whole;  *)
(* of a profile it does not show, older entries may come back.             *)
(***************************************************************************)
EXTENDS Naturals

CONSTANTS Profile, Section

VARIABLES
  board,   \* what the file shows
  last     \* the latest status of each, shown or not

vars == <<board, last>>

Entry == [time : Nat, success : BOOLEAN]
NoEntry == [time |-> 0, success |-> FALSE]
Blank == [s \in Section |-> NoEntry]
Boards == [Profile -> [Section -> Entry]]
Empty == [p \in Profile |-> Blank]

Init == board = Empty /\ last = Empty

\* A profile that is shown stays as it is.
Kept(q, t) ==
  IF board[q] = Blank THEN board'[q][t].time <= last[q][t].time
  ELSE board'[q][t] = board[q][t]

Happen(p, s) ==
  /\ \E success \in BOOLEAN :
       last' = [last EXCEPT ![p][s] = [time |-> last'[p][s].time, success |-> success]]
  /\ last'[p][s].time > last[p][s].time
  /\ UNCHANGED board

Show(p, s) ==
  /\ board' \in Boards
  /\ board'[p][s] = last[p][s]
  /\ \A q \in Profile, t \in Section : <<q, t>> # <<p, s>> => Kept(q, t)
  /\ UNCHANGED last

Lose == board' = Empty /\ UNCHANGED last

Next == Lose \/ \E p \in Profile, s \in Section : Happen(p, s) \/ Show(p, s)

Spec == Init /\ [][Next]_vars
=============================================================================
