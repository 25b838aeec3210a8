-------------------------- MODULE StatusFileProofs --------------------------
(***************************************************************************)
(* What the status file keeps for any runs, profiles and commands: types,  *)
(* that it never shows a success that was none, and, for runs that take    *)
(* turns and can read the file, that it implements StatusBoard.            *)
(***************************************************************************)
EXTENDS StatusFile, TLAPS

-----------------------------------------------------------------------------
(* What the operators return                                               *)

LEMMA EmptyTypes == Empty \in Boards /\ NoEntry \in Entry
  BY DEF Empty, Boards, Blank, NoEntry, Entry

\* Loading gives each profile its entries of the file or those remembered.
LEMMA LoadedTypes ==
  ASSUME NEW mine \in Boards, NEW content \in Boards
  PROVE  /\ Loaded(mine, content) \in Boards
         /\ \A q \in Profile : Loaded(mine, content)[q] \in {mine[q], content[q]}
  BY DEF Loaded, Boards

\* Setting an entry changes it and no other.
LEMMA SetEntryOnly ==
  ASSUME NEW board \in Boards, NEW p \in Profile, NEW s \in Section, NEW entry \in Entry
  PROVE  /\ SetEntry(board, p, s, entry) \in Boards
         /\ SetEntry(board, p, s, entry)[p][s] = entry
         /\ \A q \in Profile, t \in Section :
              <<q, t>> # <<p, s>> => SetEntry(board, p, s, entry)[q][t] = board[q][t]
  BY DEF SetEntry, Boards

LEMMA SlotTypes == \A c \in Command : Slot(c) \in Section
  BY DEF Command, Slot, Section

-----------------------------------------------------------------------------
(* Types                                                                   *)

LEMMA TypeStep == TypeOK /\ [Next]_vars => TypeOK'
<1> SUFFICES ASSUME TypeOK, [Next]_vars PROVE TypeOK'
  OBVIOUS
<1> USE StatusAssumption, EmptyTypes
<1>1. CASE UNCHANGED vars
  BY <1>1 DEF vars, TypeOK
<1>2. ASSUME NEW r \in Run, Load(r) PROVE TypeOK'
  <2>1. PICK c \in Command, o \in Outcome, content \in {file, Empty} :
          LET p == ProfileOf[r]
              entry == [time |-> Len(log) + 1, success |-> Succeeds(p, c, o)]
          IN /\ memory' = [memory EXCEPT ![r] = SetEntry(Loaded(@, content), p, Slot(c), entry)]
             /\ latest' = SetEntry(latest, p, Slot(c), entry)
             /\ log' = Append(log, [profile |-> p, command |-> c, outcome |-> o])
    BY <1>2 DEF Load
  <2> DEFINE p == ProfileOf[r]
             entry == [time |-> Len(log) + 1, success |-> Succeeds(p, c, o)]
  <2>2. p \in Profile /\ Slot(c) \in Section /\ content \in Boards /\ memory[r] \in Boards
    BY SlotTypes DEF TypeOK
  <2>3. entry \in Entry
    BY DEF TypeOK, Entry, Succeeds
  <2>4. SetEntry(Loaded(memory[r], content), p, Slot(c), entry) \in Boards
    BY <2>2, <2>3, LoadedTypes, SetEntryOnly
  <2>5. memory' \in [Run -> Boards]
    BY <2>1, <2>4 DEF TypeOK
  <2>6. latest' \in Boards
    BY <2>1, <2>2, <2>3, SetEntryOnly DEF TypeOK
  <2>7. log' \in Seq([profile : Profile, command : Command, outcome : Outcome])
    BY <2>1, <2>2 DEF TypeOK
  <2> QED BY <1>2, <2>5, <2>6, <2>7 DEF Load, TypeOK
<1>3. ASSUME NEW r \in Run, Open(r) PROVE TypeOK'
  BY <1>3 DEF Open, TypeOK
<1>4. ASSUME NEW r \in Run, Write(r) PROVE TypeOK'
  BY <1>4 DEF Write, TypeOK
<1>5. ASSUME NEW r \in Run, SaveFails(r) PROVE TypeOK'
  BY <1>5 DEF SaveFails, TypeOK
<1>6. ASSUME NEW r \in Run, Restart(r) PROVE TypeOK'
  BY <1>6 DEF Restart, TypeOK
<1> QED BY <1>1, <1>2, <1>3, <1>4, <1>5, <1>6 DEF Next

\* Every variable keeps its type, whatever interleaves and fails.
THEOREM StatusTypes == Spec => []TypeOK
<1>1. Init => TypeOK
  BY EmptyTypes DEF Init, TypeOK
<1> QED BY <1>1, TypeStep, PTL DEF Spec

-----------------------------------------------------------------------------
(* No success that was none                                                *)

\* What a run remembers may be in the file next.
TruthInv == TypeOK /\ Backed(file) /\ \A r \in Run : Backed(memory[r])

LEMMA EmptyBacked == Backed(Empty)
  BY DEF Backed, Genuine, Empty, Blank

\* A genuine entry stays so when another command ends.
LEMMA GenuineStays ==
  ASSUME TypeOK,
         NEW x \in [profile : Profile, command : Command, outcome : Outcome],
         log' = Append(log, x),
         NEW p \in Profile, NEW s \in Section, NEW e \in Entry, Genuine(p, s, e)
  PROVE  e # NoEntry =>
           /\ e.time \in 1 .. Len(log')
           /\ log'[e.time].profile = p
           /\ s = (IF log'[e.time].command = "forget" THEN "retention"
                   ELSE log'[e.time].command)
           /\ e.success => \/ log'[e.time].outcome = "success"
                           \/ /\ log'[e.time].outcome = "warning"
                              /\ s = "backup" /\ p \in Tolerant
<1> SUFFICES ASSUME e # NoEntry
             PROVE  e.time \in 1 .. Len(log') /\ log'[e.time] = log[e.time]
  BY DEF Genuine
<1>1. e.time \in 1 .. Len(log)
  BY DEF Genuine
<1> QED BY <1>1 DEF TypeOK

LEMMA TruthStep == TruthInv /\ [Next]_vars => TruthInv'
<1> SUFFICES ASSUME TruthInv, [Next]_vars PROVE TruthInv'
  OBVIOUS
<1>0. TypeOK /\ TypeOK'
  BY TypeStep DEF TruthInv
<1>1. CASE UNCHANGED vars
  BY <1>0, <1>1 DEF vars, TruthInv, Backed, Genuine
<1>2. ASSUME NEW r \in Run, Load(r) PROVE TruthInv'
  <2>1. PICK c \in Command, o \in Outcome, content \in {file, Empty} :
          LET p == ProfileOf[r]
              entry == [time |-> Len(log) + 1, success |-> Succeeds(p, c, o)]
          IN /\ memory' = [memory EXCEPT ![r] = SetEntry(Loaded(@, content), p, Slot(c), entry)]
             /\ latest' = SetEntry(latest, p, Slot(c), entry)
             /\ log' = Append(log, [profile |-> p, command |-> c, outcome |-> o])
    BY <1>2 DEF Load
  <2> DEFINE p == ProfileOf[r]
             entry == [time |-> Len(log) + 1, success |-> Succeeds(p, c, o)]
             x == [profile |-> p, command |-> c, outcome |-> o]
  <2>2. /\ p \in Profile /\ Slot(c) \in Section
        /\ content \in Boards /\ memory[r] \in Boards
    BY <1>0, SlotTypes, StatusAssumption, EmptyTypes DEF TypeOK
  <2>3. entry \in Entry /\ x \in [profile : Profile, command : Command, outcome : Outcome]
    BY <1>0, <2>2 DEF TypeOK, Entry, Succeeds
  <2>4. \A q \in Profile, t \in Section, e \in Entry :
          Genuine(q, t, e) => Genuine(q, t, e)'
    <3> SUFFICES ASSUME NEW q \in Profile, NEW t \in Section, NEW e \in Entry,
                        Genuine(q, t, e)
                 PROVE  Genuine(q, t, e)'
      OBVIOUS
    <3>1. log' = Append(log, x)
      BY <2>1
    <3> HIDE DEF x
    <3> QED BY <1>0, <2>3, <3>1, GenuineStays DEF Genuine
  <2>5. PICK new \in Entry : new = entry
    BY <2>3
  <2>6. Genuine(p, Slot(c), new)'
    <3>1. log' = Append(log, x) /\ log'[Len(log) + 1] = x /\ Len(log') = Len(log) + 1
      BY <1>0, <2>1, <2>3 DEF TypeOK
    <3>2. new.time \in 1 .. Len(log') /\ log'[new.time] = x
      BY <1>0, <2>5, <3>1 DEF TypeOK
    <3>3. new.success => Succeeds(p, c, o)
      BY <2>5
    <3>4. log'[new.time].profile = p /\ log'[new.time].command = c /\ log'[new.time].outcome = o
      BY <3>2
    <3>5. Slot(c) = IF log'[new.time].command = "forget" THEN "retention"
                    ELSE log'[new.time].command
      BY <3>4 DEF Slot
    <3>6. new.success => \/ log'[new.time].outcome = "success"
                        \/ /\ log'[new.time].outcome = "warning"
                           /\ Slot(c) = "backup" /\ p \in Tolerant
      BY <3>3, <3>4 DEF Slot, Succeeds
    <3> QED BY <3>2, <3>4, <3>5, <3>6 DEF Genuine
  <2>7. PICK old \in Boards : old = Loaded(memory[r], content)
    BY <2>2, LoadedTypes
  <2>8. Backed(old)
    BY <2>2, <2>7, LoadedTypes, EmptyBacked DEF TruthInv, Backed
  <2>9. PICK board \in Boards : board = SetEntry(old, p, Slot(c), new)
    BY <2>2, <2>5, <2>7, SetEntryOnly
  <2>10. \A q \in Profile, t \in Section : Genuine(q, t, board[q][t])'
    <3> SUFFICES ASSUME NEW q \in Profile, NEW t \in Section
                 PROVE  Genuine(q, t, board[q][t])'
      OBVIOUS
    <3>1. CASE q = p /\ t = Slot(c)
      <4>1. board[q][t] = new
        BY <2>2, <2>5, <2>7, <2>9, <3>1, SetEntryOnly
      <4> QED BY <2>6, <3>1, <4>1
    <3>2. CASE ~(q = p /\ t = Slot(c))
      <4>1. board[q][t] = old[q][t]
        BY <2>2, <2>5, <2>7, <2>9, <3>2, SetEntryOnly
      <4>2. old[q][t] \in Entry /\ Genuine(q, t, old[q][t])
        BY <2>7, <2>8 DEF Backed, Boards
      <4> QED BY <2>4, <4>1, <4>2
    <3> QED BY <3>1, <3>2
  <2>11. memory' = [memory EXCEPT ![r] = board]
    BY <2>1, <2>5, <2>7, <2>9
  <2>12. \A q \in Run : Backed(memory[q])'
    <3> SUFFICES ASSUME NEW q \in Run, NEW s \in Profile, NEW t \in Section
                 PROVE  Genuine(s, t, memory[q][s][t])'
      BY DEF Backed
    <3>1. CASE q = r
      BY <1>0, <2>10, <2>11, <3>1 DEF TypeOK
    <3>2. CASE q # r
      <4>1. memory'[q] = memory[q] /\ memory[q][s][t] \in Entry
        BY <1>0, <2>11, <3>2 DEF TypeOK, Boards
      <4> QED BY <2>4, <4>1 DEF TruthInv, Backed
    <3> QED BY <3>1, <3>2
  <2>13. Backed(file)'
    BY <1>0, <1>2, <2>4 DEF TruthInv, TypeOK, Load, Backed, Boards
  <2> QED BY <1>0, <2>12, <2>13 DEF TruthInv
<1>3. ASSUME NEW r \in Run, Open(r) PROVE TruthInv'
  BY <1>0, <1>3, EmptyBacked DEF Open, TruthInv, Backed, Genuine
<1>4. ASSUME NEW r \in Run, Write(r) PROVE TruthInv'
  BY <1>0, <1>4 DEF Write, TruthInv, Backed, Genuine
<1>5. ASSUME NEW r \in Run, SaveFails(r) PROVE TruthInv'
  BY <1>0, <1>5 DEF SaveFails, TruthInv, Backed, Genuine
<1>6. ASSUME NEW r \in Run, Restart(r) PROVE TruthInv'
  BY <1>0, <1>6, EmptyBacked DEF Restart, TruthInv, TypeOK, Backed, Genuine
<1> QED BY <1>1, <1>2, <1>3, <1>4, <1>5, <1>6 DEF Next

\* The file never shows a success that was none, for runs that need not take
\* turns, fail to load or to save, and die at any time.
THEOREM NoFalseSuccess == Spec => []Truthful
<1>1. Init => TruthInv
  BY EmptyTypes, EmptyBacked DEF Init, TruthInv, TypeOK, Backed, Genuine
<1>2. TruthInv => Truthful
  BY DEF TruthInv, Truthful
<1> QED BY <1>1, <1>2, TruthStep, PTL DEF Spec

-----------------------------------------------------------------------------
(* The promise, for runs that take turns and can always load the file      *)

Turns == TakeTurns /\ "load" \notin Errors

OneSaves == \A r, q \in Run : Saving(r) /\ Saving(q) => r = q

\* While a run is to write, the file is empty.
Emptied == \A r \in Run : pc[r] = "write" => file = Empty

\* No entry is newer than the latest of its profile and section.
Old(board) == \A p \in Profile, s \in Section : board[p][s].time <= latest[p][s].time

\* What new shows, in place of what is shown, is the latest status of one
\* section; the profiles that are shown stay as they are.
Replaces(new, p, s) ==
  /\ new[p][s] = latest[p][s]
  /\ \A q \in Profile, t \in Section :
       <<q, t>> # <<p, s>> =>
         IF Shown[q] = Blank THEN new[q][t].time <= latest[q][t].time
         ELSE new[q][t] = Shown[q][t]

Ready(r) == \E p \in Profile, s \in Section : Replaces(memory[r], p, s)

TurnInv ==
  /\ TypeOK
  /\ OneSaves
  /\ Emptied
  /\ Old(file)
  /\ \A r \in Run : Old(memory[r])
  /\ \A p \in Profile, s \in Section : latest[p][s].time <= Len(log)
  /\ \A r \in Run : Saving(r) => Ready(r)

LEMMA EmptyOld == TypeOK => Old(Empty)
  BY DEF Old, TypeOK, Boards, Entry, Empty, Blank, NoEntry

\* A command ends while no run saves.
LEMMA LoadTurn ==
  ASSUME Turns, TurnInv, NEW r \in Run, Load(r)
  PROVE  /\ TurnInv'
         /\ Shown' = Shown
         /\ \E p \in Profile, s \in Section, entry \in Entry :
              latest' = SetEntry(latest, p, s, entry) /\ entry.time > latest[p][s].time
<1>0. TypeOK /\ TypeOK'
  BY TypeStep DEF TurnInv, Next
<1>1. PICK c \in Command, o \in Outcome, content \in {file} :
        LET p == ProfileOf[r]
            entry == [time |-> Len(log) + 1, success |-> Succeeds(p, c, o)]
        IN /\ memory' = [memory EXCEPT ![r] = SetEntry(Loaded(@, content), p, Slot(c), entry)]
           /\ latest' = SetEntry(latest, p, Slot(c), entry)
           /\ log' = Append(log, [profile |-> p, command |-> c, outcome |-> o])
  BY DEF Load, Turns
<1>2. ProfileOf[r] \in Profile /\ Slot(c) \in Section
  BY SlotTypes, StatusAssumption
<1>3. PICK p \in Profile, s \in Section, new \in Entry :
        /\ new.time = Len(log) + 1
        /\ memory' = [memory EXCEPT ![r] = SetEntry(Loaded(@, file), p, s, new)]
        /\ latest' = SetEntry(latest, p, s, new)
  <2>1. [time |-> Len(log) + 1, success |-> Succeeds(ProfileOf[r], c, o)] \in Entry
    BY <1>0 DEF TypeOK, Entry, Succeeds
  <2> QED BY <1>1, <1>2, <2>1
<1>4. Len(log') = Len(log) + 1 /\ Len(log) \in Nat
  BY <1>0, <1>1, StatusAssumption DEF TypeOK
<1>5. /\ file \in Boards /\ memory[r] \in Boards /\ latest \in Boards
      /\ file' = file /\ before' = before /\ pc' = [pc EXCEPT ![r] = "open"]
  BY <1>0 DEF TypeOK, Load
<1>6. \A q \in Run : ~Saving(q)
  BY DEF Load, Turns
<1>7. Shown = file /\ Shown' = file /\ (\A q \in Run : Saving(q)' => q = r)
      /\ (\A q \in Run : pc'[q] # "write")
  BY <1>0, <1>5, <1>6 DEF Shown, Saving, TypeOK
<1>8. /\ latest'[p][s] = new
      /\ \A q \in Profile, t \in Section : <<q, t>> # <<p, s>> => latest'[q][t] = latest[q][t]
  BY <1>3, <1>5, SetEntryOnly
<1>9. new.time > latest[p][s].time
  BY <1>3, <1>4, <1>5 DEF TurnInv, Boards, Entry
<1>10. \A q \in Profile, t \in Section : latest'[q][t].time \in Nat /\ latest[q][t].time \in Nat
                                       /\ latest[q][t].time <= latest'[q][t].time
  <2> SUFFICES ASSUME NEW q \in Profile, NEW t \in Section
               PROVE  /\ latest'[q][t].time \in Nat /\ latest[q][t].time \in Nat
                      /\ latest[q][t].time <= latest'[q][t].time
    OBVIOUS
  <2>1. latest[q][t].time \in Nat
    BY <1>5 DEF Boards, Entry
  <2>2. CASE q = p /\ t = s
    BY <1>3, <1>4, <1>8, <1>9, <2>1, <2>2
  <2>3. CASE ~(q = p /\ t = s)
    BY <1>8, <2>1, <2>3
  <2> QED BY <2>1, <2>2, <2>3
<1>11. \A board \in Boards : Old(board) => Old(board)'
  <2> SUFFICES ASSUME NEW board \in Boards, Old(board),
                      NEW q \in Profile, NEW t \in Section
               PROVE  board[q][t].time <= latest'[q][t].time
    BY DEF Old
  <2>1. board[q][t].time \in Nat /\ board[q][t].time <= latest[q][t].time
    BY DEF Boards, Entry, Old
  <2> QED BY <1>10, <2>1
<1>12. PICK old \in Boards : old = Loaded(memory[r], file)
  BY <1>5, LoadedTypes
<1>13. PICK mine \in Boards : mine = SetEntry(old, p, s, new)
  BY <1>3, <1>12, SetEntryOnly
<1>14. memory'[r] = mine /\ \A q \in Run \ {r} : memory'[q] = memory[q]
  BY <1>0, <1>3, <1>12, <1>13 DEF TypeOK
<1>15. Old(old)
  BY <1>5, <1>12, LoadedTypes DEF Old, TurnInv
<1>16. /\ mine[p][s] = new
       /\ \A q \in Profile, t \in Section : <<q, t>> # <<p, s>> => mine[q][t] = old[q][t]
  BY <1>3, <1>12, <1>13, SetEntryOnly
<1>17. Old(mine)'
  <2>1. \A q \in Profile, t \in Section : mine[q][t].time <= latest'[q][t].time
    <3> SUFFICES ASSUME NEW q \in Profile, NEW t \in Section
                 PROVE  mine[q][t].time <= latest'[q][t].time
      OBVIOUS
    <3>1. CASE q = p /\ t = s
      BY <1>8, <1>10, <1>16, <3>1
    <3>2. CASE ~(q = p /\ t = s)
      BY <1>8, <1>15, <1>16, <3>2 DEF Old
    <3> QED BY <3>1, <3>2
  <2> QED BY <2>1 DEF Old
<1>18. Replaces(mine, p, s)'
  <2>1. \A q \in Profile, t \in Section :
          <<q, t>> # <<p, s>> =>
            IF file[q] = Blank THEN mine[q][t].time <= latest'[q][t].time
            ELSE mine[q][t] = file[q][t]
    BY <1>12, <1>16, <1>17 DEF Old, Loaded
  <2> QED BY <1>7, <1>8, <1>16, <2>1 DEF Replaces
<1>19. TurnInv'
  <2>1. OneSaves' /\ Emptied'
    BY <1>7 DEF OneSaves, Emptied
  <2>2. Old(file)' /\ \A q \in Run : Old(memory[q])'
    <3>1. Old(file)'
      BY <1>5, <1>11 DEF TurnInv, Old
    <3>2. ASSUME NEW q \in Run PROVE Old(memory[q])'
      <4>1. CASE q = r
        BY <1>14, <1>17, <4>1 DEF Old
      <4>2. CASE q # r
        BY <1>0, <1>11, <1>14, <4>2 DEF TurnInv, TypeOK, Old
      <4> QED BY <4>1, <4>2
    <3> QED BY <3>1, <3>2
  <2>3. \A q \in Profile, t \in Section : latest'[q][t].time <= Len(log')
    <3> SUFFICES ASSUME NEW q \in Profile, NEW t \in Section
                 PROVE  latest'[q][t].time <= Len(log')
      OBVIOUS
    <3>1. CASE q = p /\ t = s
      BY <1>3, <1>4, <1>8, <3>1
    <3>2. CASE ~(q = p /\ t = s)
      BY <1>4, <1>8, <1>10, <3>2 DEF TurnInv
    <3> QED BY <3>1, <3>2
  <2>4. Ready(r)'
    BY <1>14, <1>18 DEF Ready, Replaces
  <2>5. \A q \in Run : Saving(q)' => Ready(q)'
    BY <1>7, <2>4
  <2> QED BY <1>0, <2>1, <2>2, <2>3, <2>5 DEF TurnInv
<1> QED BY <1>3, <1>7, <1>9, <1>19

\* Only Load changes the latest status, and nothing but saving what is shown.
LEMMA SaveTurn ==
  ASSUME TurnInv, NEW r \in Run,
         Open(r) \/ Write(r) \/ SaveFails(r) \/ Restart(r)
  PROVE  /\ TurnInv'
         /\ \/ Shown' = Shown
            \/ Shown' = Empty
            \/ Shown' \in Boards /\ \E p \in Profile, s \in Section : Replaces(Shown', p, s)
<1>0. TypeOK /\ TypeOK'
  BY TypeStep DEF TurnInv, Next
<1>1. \A q \in Run : q # r => pc'[q] = pc[q] /\ memory'[q] = memory[q]
  BY <1>0 DEF Open, Write, SaveFails, Restart, TypeOK
<1>2. latest' = latest /\ log' = log
  BY DEF Open, Write, SaveFails, Restart
<1>3. \A q \in Run : Saving(q)' => Saving(q)
  BY <1>0, <1>1 DEF Open, Write, SaveFails, Restart, Saving, TypeOK
<1>4. OneSaves'
  BY <1>3 DEF TurnInv, OneSaves
<1>5. \A q \in Run : Old(memory[q])'
  <2>1. ASSUME NEW q \in Run PROVE memory'[q] \in {memory[q], Empty}
    BY <1>0 DEF Open, Write, SaveFails, Restart, TypeOK
  <2>2. Old(Empty) /\ \A q \in Run : Old(memory[q])
    BY EmptyOld DEF TurnInv
  <2> QED BY <1>2, <2>1, <2>2 DEF Old
<1>6. Old(file)'
  <2>1. file' \in {file, Empty, memory[r]}
    BY DEF Open, Write, SaveFails, Restart
  <2>2. Old(file) /\ Old(Empty) /\ Old(memory[r])
    BY EmptyOld DEF TurnInv
  <2> QED BY <1>2, <2>1, <2>2 DEF Old
<1>7. \A p \in Profile, s \in Section : latest'[p][s].time <= Len(log')
  BY <1>2 DEF TurnInv
<1> DEFINE
  Rest ==
    /\ Emptied'
    /\ \A q \in Run : Saving(q)' => Ready(q)'
    /\ \/ Shown' = Shown
       \/ Shown' = Empty
       \/ Shown' \in Boards /\ \E p \in Profile, s \in Section : Replaces(Shown', p, s)
<1>8. ASSUME Open(r) PROVE Rest
  <2>1. \A q \in Run : pc[q] # "write"
    BY <1>8 DEF TurnInv, OneSaves, Saving, Open
  <2>2. pc'[r] = "write" /\ file' = Empty /\ before' = file /\ memory' = memory
    BY <1>0, <1>8 DEF Open, TypeOK
  <2>3. Shown' = Shown
    BY <2>1, <2>2 DEF Shown
  <2>4. \A q \in Run : Saving(q)' => Ready(q)'
    BY <1>2, <1>3, <2>2, <2>3 DEF TurnInv, Ready, Replaces
  <2> QED BY <2>2, <2>3, <2>4 DEF Emptied
<1>9. ASSUME Write(r) PROVE Rest
  <2>1. \A q \in Run : ~Saving(q)'
    BY <1>0, <1>3, <1>9 DEF TurnInv, OneSaves, Saving, Write, TypeOK
  <2>2. file' = memory[r] /\ memory[r] \in Boards /\ Ready(r)
    BY <1>0, <1>9 DEF Write, TypeOK, TurnInv, Saving
  <2>3. Shown' = memory[r]
    BY <2>1, <2>2 DEF Shown, Saving
  <2> QED BY <2>1, <2>2, <2>3 DEF Emptied, Ready, Saving
<1>10. ASSUME SaveFails(r) \/ (Restart(r) /\ Saving(r)) PROVE Rest
  <2>1. \A q \in Run : ~Saving(q)'
    BY <1>0, <1>3, <1>10 DEF TurnInv, OneSaves, Saving, SaveFails, Restart, TypeOK
  <2>2. file' = file /\ Shown' = file
    BY <1>10, <2>1 DEF Shown, Saving, SaveFails, Restart
  <2>3. Shown' = Shown \/ Shown' = Empty
    BY <2>2 DEF Shown, TurnInv, Emptied
  <2> QED BY <2>1, <2>3 DEF Emptied, Saving
<1>11. ASSUME Restart(r) /\ ~Saving(r) PROVE Rest
  <2>1. file' = file /\ before' = before /\ pc'[r] = "command" /\ pc[r] = "command"
    BY <1>0, <1>11 DEF Restart, Saving, TypeOK
  <2>2. Shown' = Shown
    BY <1>1, <2>1 DEF Shown
  <2>3. \A q \in Run : Saving(q)' => Ready(q)'
    BY <1>1, <1>2, <1>3, <1>11, <2>2 DEF TurnInv, Ready, Replaces
  <2>4. Emptied'
    BY <1>1, <2>1 DEF TurnInv, Emptied
  <2> QED BY <2>2, <2>3, <2>4
<1>12. Rest
  BY <1>8, <1>9, <1>10, <1>11
<1> QED BY <1>0, <1>4, <1>5, <1>6, <1>7, <1>12 DEF TurnInv

LEMMA TurnStep ==
  ASSUME Turns
  PROVE  TurnInv /\ [Next]_vars => TurnInv' /\ [Promise!Next]_(Promise!vars)
<1> SUFFICES ASSUME TurnInv, [Next]_vars
             PROVE  TurnInv' /\ [Promise!Next]_(Promise!vars)
  OBVIOUS
<1>0. TypeOK /\ TypeOK'
  BY TypeStep DEF TurnInv
<1>1. CASE UNCHANGED vars
  BY <1>0, <1>1 DEF vars, TurnInv, OneSaves, Emptied, Old, Saving, Ready, Replaces, Shown,
     Promise!vars
<1>2. ASSUME NEW r \in Run, Load(r) PROVE TurnInv' /\ [Promise!Next]_(Promise!vars)
  <2>1. PICK p \in Profile, s \in Section, entry \in Entry :
          latest' = SetEntry(latest, p, s, entry) /\ entry.time > latest[p][s].time
    BY <1>2, LoadTurn
  <2>2. latest'[p][s] = entry
    BY <1>0, <2>1, SetEntryOnly DEF TypeOK
  <2>3. entry = [time |-> entry.time, success |-> entry.success] /\ entry.success \in BOOLEAN
    BY DEF Entry
  <2>4. latest' = [latest EXCEPT ![p][s] =
                     [time |-> latest'[p][s].time, success |-> entry.success]]
    BY <2>1, <2>2, <2>3 DEF SetEntry
  <2>5. Promise!Happen(p, s)
    BY <1>2, <2>1, <2>2, <2>3, <2>4, LoadTurn DEF Promise!Happen
  <2> QED BY <1>2, <2>5, LoadTurn DEF Promise!Next
<1>3. ASSUME NEW r \in Run, Open(r) \/ Write(r) \/ SaveFails(r) \/ Restart(r)
      PROVE  TurnInv' /\ [Promise!Next]_(Promise!vars)
  <2>1. latest' = latest
    BY <1>3 DEF Open, Write, SaveFails, Restart
  <2>2. CASE Shown' = Shown
    BY <1>3, <2>1, <2>2, SaveTurn DEF Promise!vars
  <2>3. CASE Shown' = Empty
    <3>1. Promise!Lose
      BY <2>1, <2>3 DEF Promise!Lose, Promise!Empty, Promise!Blank, Promise!NoEntry,
         Empty, Blank, NoEntry
    <3> QED BY <1>3, <3>1, SaveTurn DEF Promise!Next
  <2>4. ASSUME Shown' \in Boards, NEW p \in Profile, NEW s \in Section,
               Replaces(Shown', p, s)
        PROVE  Promise!Show(p, s)
    BY <2>1, <2>4 DEF Promise!Show, Promise!Kept, Promise!Boards, Promise!Entry,
       Promise!Blank, Promise!NoEntry, Replaces, Boards, Entry, Blank, NoEntry
  <2> QED BY <1>3, <2>2, <2>3, <2>4, SaveTurn DEF Promise!Next
<1> QED BY <1>1, <1>2, <1>3 DEF Next

\* A status file whose users take turns and can load it keeps what StatusBoard
\* promises, for any runs and profiles, failures of saving and runs that die.
THEOREM StatusRefinement ==
  ASSUME Turns
  PROVE  Spec => KeepsPromise
<1>1. ASSUME Init PROVE TurnInv /\ Promise!Init
  <2>1. TypeOK
    BY <1>1, EmptyTypes DEF Init, TypeOK
  <2>2. \A r \in Run : pc[r] = "command" /\ memory[r] = Empty
    BY <1>1 DEF Init
  <2>3. OneSaves /\ Emptied /\ \A r \in Run : ~Saving(r)
    BY <2>2 DEF OneSaves, Emptied, Saving
  <2>4. Old(Empty) /\ \A p \in Profile, s \in Section : latest[p][s].time <= Len(log)
    BY <1>1, <2>1, EmptyOld DEF Init, Empty, Blank, NoEntry
  <2>5. TurnInv
    BY <1>1, <2>1, <2>2, <2>3, <2>4 DEF TurnInv, Init
  <2>6. Shown = Empty /\ latest = Empty
    BY <1>1, <2>2 DEF Init, Shown
  <2> QED BY <2>5, <2>6 DEF Promise!Init, Promise!Empty, Promise!Blank, Promise!NoEntry,
     Empty, Blank, NoEntry
<1> QED BY <1>1, TurnStep, PTL DEF Spec, KeepsPromise, Promise!Spec
=============================================================================
