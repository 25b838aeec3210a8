--------------------------- MODULE CrontabProofs ----------------------------
(***************************************************************************)
(* Theorems about Crontab: for any processes, profiles, sections and       *)
(* schedules that take turns, the crontab keeps what was scheduled and     *)
(* what the user wrote.  And about ScheduleTimes: for any calendar, crond, *)
(* launchd and the Task Scheduler start a job at the minutes the text of   *)
(* its schedule says.                                                      *)
(*                                                                         *)
(* Kept is a recursion on the lines; that it keeps what it should is       *)
(* proved by induction on their number.  Sets stand for the formulas that  *)
(* are proved by induction.                                                *)
(***************************************************************************)
EXTENDS Crontab, ScheduleTimes, FiniteSetTheorems, WellFoundedInduction, TLAPS

-----------------------------------------------------------------------------
(* A line is in the crontab; no entry is in it twice.                      *)
Has(s, x) == \E i \in 1 .. Len(s) : s[i] = x
Once(s) == \A i, k \in 1 .. Len(s) : s[i] \in Entry /\ s[i] = s[k] => i = k

(* The crontab has no section and no entry, or all its entries between its *)
(* first markers, which are in order.                                      *)
Tidy(lines) ==
  \/ \A i \in 1 .. Len(lines) : lines[i] \notin Entry \cup {Start, End}
  \/ \E a, z \in 1 .. Len(lines) :
       /\ a < z /\ lines[a] = Start /\ lines[z] = End
       /\ \A i \in 1 .. Len(lines) :
            /\ lines[i] = Start => a <= i
            /\ lines[i] = End => z <= i
            /\ lines[i] \in Entry => a < i /\ i < z

(* Until the user deletes a marker.                                        *)
TidyKept == damage = 0 => Tidy(crontab)

(* One process at a time has jobs, and its copy is the crontab still.      *)
Turns ==
  /\ \A p, q \in Process : todo[p] # {} /\ todo[q] # {} => p = q
  /\ \A p \in Process : job[p] # NoSection => copy[p] = crontab

(* What is scheduled can be declared.                                      *)
ScheduledDeclarable ==
  /\ declared \in Declarations
  /\ installed \subseteq Declarable
  /\ \A p \in Process : op[p] = "schedule" => {profile[p]} \X todo[p] \subseteq Declarable

(* The inductive invariant.                                                *)
TurnsInv == TypeOK /\ Turns /\ ScheduledDeclarable /\ ForeignKept /\ TidyKept

(* No profile has a schedule for its retention section, whose entry ends   *)
(* in another name than deleteLine looks for.                              *)
NoRetention == \A name \in Profile : <<name, "retention">> \notin Declarable

-----------------------------------------------------------------------------
(* A set of natural numbers that is not empty has a least one.             *)
LEMMA Minimum ==
  ASSUME NEW S \in SUBSET Nat, S # {}
  PROVE  \E x \in S : \A y \in S : x <= y
<1> DEFINE R == OpToRel(<, Nat)
<1>1. IsWellFoundedOn(R, Nat)
  BY NatLessThanWellFounded
<1>2. \A x, y \in Nat : x < y => <<x, y>> \in R
  BY DEF OpToRel
<1> HIDE DEF R
<1>3. PICK x \in S : \A y \in S : ~(<<y, x>> \in R)
  BY <1>1, WFMin, Zenon
<1>4. \A y \in S : ~(y < x)
  BY <1>2, <1>3
<1>5. QED
  BY <1>4

(* What holds of 0, and of n + 1 when of n, holds of every natural         *)
(* number; what holds is a set here.                                       *)
LEMMA Induction ==
  ASSUME NEW S, 0 \in S, \A n \in Nat : n \in S => n + 1 \in S
  PROVE  Nat \subseteq S
<1> DEFINE C == {n \in Nat : n \notin S}
<1>1. SUFFICES ASSUME C # {} PROVE FALSE
  OBVIOUS
<1>2. PICK x \in C : \A y \in C : x <= y
  BY <1>1, Minimum
<1>3. x # 0 /\ x - 1 \in Nat
  BY <1>2
<1>4. x - 1 \in S
  BY <1>2, <1>3
<1>5. QED
  BY <1>2, <1>3, <1>4

(* k is what Kept computes for the first m lines, one line after the       *)
(* other.                                                                  *)
Keeps(k, lines, set, m) ==
  k = [n \in 0 .. m |-> IF n = 0 THEN <<>> ELSE Keep(k[n - 1], lines[n], set)]

(* There is such a function, for any number of lines: Kept is defined.     *)
LEMMA KeepExists ==
  ASSUME NEW lines, NEW set, NEW m \in Nat
  PROVE  \E k : Keeps(k, lines, set, m)
<1> DEFINE S == {i \in Nat : \E k : Keeps(k, lines, set, i)}
<1>1. 0 \in S
  <2>1. Keeps([n \in 0 .. 0 |-> <<>>], lines, set, 0)
    BY DEF Keeps
  <2>2. QED BY <2>1
<1>2. ASSUME NEW i \in Nat, i \in S PROVE i + 1 \in S
  <2>1. PICK k : Keeps(k, lines, set, i)
    BY <1>2
  <2> DEFINE l == [n \in 0 .. i + 1 |-> IF n <= i THEN k[n] ELSE Keep(k[i], lines[n], set)]
             r == [n \in 0 .. i + 1 |-> IF n = 0 THEN <<>> ELSE Keep(l[n - 1], lines[n],
             set)]
  <2>2. ASSUME NEW n \in 0 .. i + 1 PROVE l[n] = r[n]
    <3>1. CASE n = 0
      BY <2>1, <3>1 DEF Keeps
    <3>2. CASE n # 0 /\ n <= i
      <4>1. n - 1 \in 0 .. i /\ n - 1 <= i /\ n \in 0 .. i /\ n - 1 \in 0 .. i + 1
        BY <3>2
      <4>2. k[n] = Keep(k[n - 1], lines[n], set)
        BY <2>1, <3>2, <4>1 DEF Keeps
      <4>3. l[n - 1] = k[n - 1] /\ l[n] = k[n]
        BY <4>1, <3>2
      <4>4. QED
        BY <4>2, <4>3, <3>2
    <3>3. CASE n = i + 1
      <4>1. l[n - 1] = k[i] /\ n - 1 = i /\ ~ (n <= i) /\ n # 0
        BY <3>3
      <4>2. l[n] = Keep(k[i], lines[n], set)
        BY <4>1
      <4>3. QED
        BY <4>1, <4>2
    <3>4. QED
      BY <3>1, <3>2, <3>3
  <2>3. l = r
    <3> HIDE DEF l, r
    <3>1. l = [n \in 0 .. i + 1 |-> l[n]] /\ r = [n \in 0 .. i + 1 |-> r[n]]
      BY DEF l, r
    <3>2. QED
      BY <3>1, <2>2, Zenon
  <2>4. Keeps(l, lines, set, i + 1)
    BY <2>3 DEF Keeps
  <2> HIDE DEF l, r
  <2>5. \E f : Keeps(f, lines, set, i + 1)
    BY <2>4
  <2>6. QED
    BY <2>5
<1> HIDE DEF S
<1>3. m \in S
  BY <1>1, <1>2, Induction
<1>4. QED
  BY <1>3 DEF S

(* Kept is its last value.                                                 *)
LEMMA KeptFunction ==
  ASSUME NEW lines, NEW set, Len(lines) \in Nat
  PROVE  \E k : Keeps(k, lines, set, Len(lines)) /\ Kept(lines, set) = k[Len(lines)]
<1> DEFINE kept == CHOOSE k : Keeps(k, lines, set, Len(lines))
<1>1. \E k : Keeps(k, lines, set, Len(lines))
  BY KeepExists
<1>2. Keeps(kept, lines, set, Len(lines))
  BY <1>1
<1>3. Kept(lines, set) = kept[Len(lines)]
  BY DEF Kept, Keeps
<1>4. QED
  BY <1>2, <1>3

(* Of no lines, none is kept.                                              *)
LEMMA KeptEmpty ==
  ASSUME NEW set PROVE Kept(<<>>, set) = <<>>
<1> DEFINE none == <<>>
<1>1. Len(none) = 0
  OBVIOUS
<1> HIDE DEF none
<1>2. PICK k : Keeps(k, none, set, Len(none)) /\ Kept(none, set) = k[Len(none)]
  BY <1>1, KeptFunction
<1>3. QED
  BY <1>1, <1>2 DEF Keeps, none

(* A line at the end is kept or not, after those kept before.              *)
LEMMA KeptAppend ==
  ASSUME NEW T, NEW s \in Seq(T), NEW x \in T, NEW set
  PROVE  Kept(Append(s, x), set) = Keep(Kept(s, set), x, set)
<1> DEFINE t == Append(s, x)
           m == Len(s)
           S == {n \in Nat : n <= m => \A k, l : Keeps(k, s, set, m)
           /\ Keeps(l, t, set, m + 1)
                                                   => l[n] = k[n]}
<1>1. m \in Nat /\ Len(t) = m + 1 /\ t[m + 1] = x /\ \A n \in 1 .. m : t[n] = s[n]
  OBVIOUS
<1> HIDE DEF t, m
<1>2. 0 \in S
  <2>1. \A k : Keeps(k, s, set, m) => k[0] = <<>>
    BY <1>1 DEF Keeps
  <2>2. \A l : Keeps(l, t, set, m + 1) => l[0] = <<>>
    BY <1>1 DEF Keeps
  <2>3. QED
    BY <2>1, <2>2
<1>3. ASSUME NEW n \in Nat, n \in S PROVE n + 1 \in S
  <2> SUFFICES ASSUME n + 1 <= m, NEW k, NEW l, Keeps(k, s, set, m), Keeps(l, t, set, m + 1)
               PROVE  l[n + 1] = k[n + 1]
    BY <1>3
  <2>1. l[n] = k[n]
    BY <1>1, <1>3
  <2>2. k[n + 1] = Keep(k[n], s[n + 1], set)
    BY <1>1 DEF Keeps
  <2>3. l[n + 1] = Keep(l[n], t[n + 1], set)
    BY <1>1 DEF Keeps
  <2>4. QED
    BY <1>1, <2>1, <2>2, <2>3
<1> HIDE DEF S
<1>4. m \in S
  BY <1>1, <1>2, <1>3, Induction
<1>5. PICK k : Keeps(k, s, set, m) /\ Kept(s, set) = k[m]
  BY <1>1, KeptFunction DEF m
<1>6. PICK l : Keeps(l, t, set, m + 1) /\ Kept(t, set) = l[m + 1]
  BY <1>1, KeptFunction
<1>7. l[m] = k[m]
  BY <1>1, <1>4, <1>5, <1>6 DEF S
<1>8. l[m + 1] = Keep(l[m], t[m + 1], set)
  BY <1>1, <1>6 DEF Keeps
<1>9. QED
  BY <1>1, <1>5, <1>6, <1>7, <1>8 DEF t

(* What holds of the empty sequence, and with one more element, holds of   *)
(* every sequence.                                                         *)
LEMMA SeqInduction ==
  ASSUME NEW T, NEW P, <<>> \in P,
         \A s \in Seq(T), x \in T : s \in P => Append(s, x) \in P
  PROVE  Seq(T) \subseteq P
<1> DEFINE S == {n \in Nat : \A s \in Seq(T) : Len(s) = n => s \in P}
<1>1. 0 \in S
  <2>1. \A s \in Seq(T) : Len(s) = 0 => s = <<>>
    OBVIOUS
  <2>2. QED
    BY <2>1
<1>2. ASSUME NEW n \in Nat, n \in S PROVE n + 1 \in S
  <2> SUFFICES ASSUME NEW s \in Seq(T), Len(s) = n + 1 PROVE s \in P
    OBVIOUS
  <2> DEFINE f == SubSeq(s, 1, n)
  <2>1. f \in Seq(T) /\ Len(f) = n /\ s[n + 1] \in T /\ s = Append(f, s[n + 1])
    OBVIOUS
  <2>2. f \in P
    BY <1>2, <2>1
  <2>3. QED
    BY <2>1, <2>2
<1> HIDE DEF S
<1>3. Nat \subseteq S
  BY <1>1, <1>2, Induction
<1>4. QED
  BY <1>3 DEF S

(* What is kept are lines of both sets.                                    *)
LEMMA KeptIn ==
  ASSUME NEW T, NEW s \in Seq(T), NEW set
  PROVE  Kept(s, set) \in Seq(T \cap set)
<1> DEFINE P == {t \in Seq(T) : Kept(t, set) \in Seq(T \cap set)}
<1>1. <<>> \in P
  <2>1. Kept(<<>>, set) = <<>>
    BY KeptEmpty
  <2>2. <<>> \in Seq(T) /\ <<>> \in Seq(T \cap set)
    OBVIOUS
  <2>3. QED
    BY <2>1, <2>2, Zenon
<1>2. ASSUME NEW t \in Seq(T), NEW x \in T, t \in P PROVE Append(t, x) \in P
  <2>1. Kept(Append(t, x), set) = Keep(Kept(t, set), x, set)
    BY KeptAppend
  <2>2. Keep(Kept(t, set), x, set) \in Seq(T \cap set)
    BY <1>2 DEF Keep
  <2>3. QED
    BY <2>1, <2>2
<1> HIDE DEF P
<1>3. Seq(T) \subseteq P
  BY <1>1, <1>2, SeqInduction
<1>4. QED
  BY <1>3 DEF P

(* The lines kept of two crontabs one after the other.                     *)
LEMMA KeptConcat ==
  ASSUME NEW T, NEW s \in Seq(T), NEW t \in Seq(T), NEW set
  PROVE  Kept(s \o t, set) = Kept(s, set) \o Kept(t, set)
<1> DEFINE P == {u \in Seq(T) : Kept(s \o u, set) = Kept(s, set) \o Kept(u, set)}
<1>1. <<>> \in P
  <2>1. Kept(s, set) \in Seq(T \cap set)
    BY KeptIn
  <2>2. s \o <<>> = s /\ Kept(s, set) \o <<>> = Kept(s, set)
    BY <2>1
  <2>3. Kept(<<>>, set) = <<>> /\ <<>> \in Seq(T)
    BY KeptEmpty
  <2>4. QED
    BY <2>2, <2>3, Zenon
<1>2. ASSUME NEW u \in Seq(T), NEW x \in T, u \in P PROVE Append(u, x) \in P
  <2> DEFINE a == Kept(s, set)
             b == Kept(u, set)
  <2>1. a \in Seq(T \cap set) /\ b \in Seq(T \cap set)
    BY KeptIn
  <2>2. Kept(Append(s \o u, x), set) = Keep(a \o b, x, set)
    <3>1. s \o u \in Seq(T) /\ Kept(s \o u, set) = a \o b
      BY <1>2
    <3>2. Kept(Append(s \o u, x), set) = Keep(Kept(s \o u, set), x, set)
      BY <3>1, KeptAppend
    <3>3. QED
      BY <3>1, <3>2
  <2>3. Kept(Append(u, x), set) = Keep(b, x, set)
    BY KeptAppend
  <2>4. s \o Append(u, x) = Append(s \o u, x)
    OBVIOUS
  <2>5. Keep(a \o b, x, set) = a \o Keep(b, x, set)
    <3> HIDE DEF a, b
    <3>1. a \o Append(b, x) = Append(a \o b, x)
      BY <2>1
    <3>2. QED
      BY <3>1 DEF Keep
  <2>6. Append(u, x) \in Seq(T)
    OBVIOUS
  <2>7. QED
    BY <2>2, <2>3, <2>4, <2>5, <2>6, Zenon
<1> HIDE DEF P
<1>3. Seq(T) \subseteq P
  BY <1>1, <1>2, SeqInduction
<1>4. QED
  BY <1>3 DEF P

(* Nothing is kept of lines outside of the set.                            *)
LEMMA KeptNone ==
  ASSUME NEW T, NEW s \in Seq(T), NEW set, T \cap set = {}
  PROVE  Kept(s, set) = <<>>
<1>1. Kept(s, set) \in Seq({})
  <2>1. Kept(s, set) \in Seq(T \cap set)
    BY KeptIn
  <2>2. QED
    BY <2>1
<1>2. QED
  BY <1>1

(* Lines of the user are kept whatever entries are left out before.        *)
LEMMA KeptKept ==
  ASSUME NEW T, NEW s \in Seq(T), NEW few, NEW many, T \cap few \subseteq many
  PROVE  Kept(Kept(s, many), few) = Kept(s, few)
<1> DEFINE P == {u \in Seq(T) : Kept(Kept(u, many), few) = Kept(u, few)}
<1>1. <<>> \in P
  <2>1. Kept(<<>>, many) = <<>> /\ Kept(<<>>, few) = <<>>
    BY KeptEmpty
  <2>2. QED
    BY <2>1
<1>2. ASSUME NEW u \in Seq(T), NEW x \in T, u \in P PROVE Append(u, x) \in P
  <2>1. Kept(u, many) \in Seq(T)
    <3>1. Kept(u, many) \in Seq(T \cap many)
      BY KeptIn
    <3>2. QED
      BY <3>1
  <2>2. Kept(Append(Kept(u, many), x), few) = Keep(Kept(u, few), x, few)
    BY <1>2, <2>1, KeptAppend
  <2>3. Kept(Append(u, x), many) = Keep(Kept(u, many), x, many)
    BY KeptAppend
  <2>4. Kept(Append(u, x), few) = Keep(Kept(u, few), x, few)
    BY KeptAppend
  <2>5. Kept(Keep(Kept(u, many), x, many), few) = Keep(Kept(u, few), x, few)
    BY <1>2, <2>2 DEF Keep
  <2>6. Append(u, x) \in Seq(T)
    OBVIOUS
  <2>7. QED
    BY <2>3, <2>4, <2>5, <2>6, Zenon
<1> HIDE DEF P
<1>3. Seq(T) \subseteq P
  BY <1>1, <1>2, SeqInduction
<1>4. QED
  BY <1>3 DEF P

(* No line is made up, and none of the set is lost.                        *)
LEMMA KeptLines ==
  ASSUME NEW T, NEW s \in Seq(T), NEW set, NEW x
  PROVE  Has(Kept(s, set), x) <=> x \in set /\ Has(s, x)
<1> DEFINE P == {u \in Seq(T) : Has(Kept(u, set), x) <=> x \in set /\ Has(u, x)}
<1>1. <<>> \in P
  <2>1. Kept(<<>>, set) = <<>>
    BY KeptEmpty
  <2>2. ~Has(<<>>, x)
    BY DEF Has
  <2>3. QED
    BY <2>1, <2>2
<1>2. ASSUME NEW U, NEW u \in Seq(U), NEW y \in U
      PROVE  Has(Append(u, y), x) <=> Has(u, x) \/ x = y
  <2> DEFINE v == Append(u, y)
  <2>1. Len(u) \in Nat /\ Len(v) = Len(u) + 1 /\ v[Len(u) + 1] = y
          /\ \A i \in 1 .. Len(u) : v[i] = u[i]
    OBVIOUS
  <2> HIDE DEF v
  <2>2. Has(v, x) <=> Has(u, x) \/ x = y
    BY <2>1 DEF Has
  <2>3. QED
    BY <2>2 DEF v
<1>3. ASSUME NEW u \in Seq(T), NEW y \in T, u \in P PROVE Append(u, y) \in P
  <2>1. Kept(u, set) \in Seq(T)
    <3>1. Kept(u, set) \in Seq(T \cap set)
      BY KeptIn
    <3>2. QED
      BY <3>1
  <2>2. Has(Append(Kept(u, set), y), x) <=> Has(Kept(u, set), x) \/ x = y
    BY <1>2, <2>1
  <2>3. Has(Append(u, y), x) <=> Has(u, x) \/ x = y
    BY <1>2
  <2>4. Kept(Append(u, y), set) = Keep(Kept(u, set), y, set)
    BY KeptAppend
  <2>5. Has(Kept(Append(u, y), set), x) <=> x \in set /\ Has(Append(u, y), x)
    BY <1>3, <2>2, <2>3, <2>4 DEF Keep
  <2>6. Append(u, y) \in Seq(T)
    OBVIOUS
  <2>7. QED
    BY <2>5, <2>6, Zenon
<1> HIDE DEF P
<1>4. Seq(T) \subseteq P
  BY <1>1, <1>3, SeqInduction
<1>5. QED
  BY <1>4 DEF P

(* First is the index of the first such line, or 0 if there is none.       *)
LEMMA FirstIndex ==
  ASSUME NEW T, NEW s \in Seq(T), NEW x
  PROVE  \/ First(s, x) = 0 /\ \A i \in 1 .. Len(s) : s[i] # x
         \/ /\ First(s, x) \in 1 .. Len(s) /\ s[First(s, x)] = x
            /\ \A i \in 1 .. First(s, x) - 1 : s[i] # x
<1> DEFINE I == {i \in 1 .. Len(s) : s[i] = x}
<1>1. First(s, x) = IF I # {} THEN CHOOSE m \in I : \A y \in I : m <= y ELSE 0
  BY DEF First, SelectInSeq, Min
<1>2. CASE I = {}
  BY <1>1, <1>2
<1>3. CASE I # {}
  <2>1. I \in SUBSET Nat
    OBVIOUS
  <2> HIDE DEF I
  <2>2. \E m \in I : \A y \in I : m <= y
    BY <1>3, <2>1, Minimum
  <2>3. First(s, x) \in I /\ \A y \in I : First(s, x) <= y
    BY <1>1, <1>3, <2>2
  <2>4. QED
    BY <2>3 DEF I
<1>4. QED
  BY <1>2, <1>3

(* A crontab is what comes before, inside and after its section.           *)
LEMMA Halves ==
  ASSUME NEW T, NEW s \in Seq(T), NEW a \in Nat, NEW e \in Nat, a < e, e <= Len(s)
  PROVE  /\ SubSeq(s, 1, a) \in Seq(T) /\ SubSeq(s, a + 1, e - 1) \in Seq(T)
         /\ SubSeq(s, e, Len(s)) \in Seq(T)
         /\ s = SubSeq(s, 1, a) \o SubSeq(s, a + 1, e - 1) \o SubSeq(s, e, Len(s))
OBVIOUS

(* RemoveAt takes one line out and leaves the others.                      *)
LEMMA Removal ==
  ASSUME NEW T, NEW s \in Seq(T), NEW i \in 1 .. Len(s)
  PROVE  /\ RemoveAt(s, i) = SubSeq(s, 1, i - 1) \o SubSeq(s, i + 1, Len(s))
         /\ s = SubSeq(s, 1, i - 1) \o <<s[i]>> \o SubSeq(s, i + 1, Len(s))
         /\ SubSeq(s, 1, i - 1) \in Seq(T) /\ SubSeq(s, i + 1, Len(s)) \in Seq(T)
<1>1. RemoveAt(s, i) = SubSeq(s, 1, i - 1) \o SubSeq(s, i + 1, Len(s))
  BY DEF RemoveAt
<1>2. SubSeq(s, 1, i - 1) \in Seq(T) /\ SubSeq(s, i + 1, Len(s)) \in Seq(T)
  OBVIOUS
<1>3. s = SubSeq(s, 1, i - 1) \o <<s[i]>> \o SubSeq(s, i + 1, Len(s))
  <2>1. SubSeq(s, 1, i - 1) \o <<s[i]>> = SubSeq(s, 1, i)
    OBVIOUS
  <2>2. s = SubSeq(s, 1, i) \o SubSeq(s, i + 1, Len(s))
    OBVIOUS
  <2>3. QED
    BY <2>1, <2>2
<1>4. QED
  BY <1>1, <1>2, <1>3

(* InsertAt puts a line in and shifts the others behind it.                *)
LEMMA Insertion ==
  ASSUME NEW T, NEW s \in Seq(T), NEW i \in 1 .. Len(s) + 1, NEW x \in T
  PROVE  /\ InsertAt(s, i, x) \in Seq(T) /\ Len(InsertAt(s, i, x)) = Len(s) + 1
         /\ InsertAt(s, i, x)[i] = x
         /\ \A j \in 1 .. i - 1 : InsertAt(s, i, x)[j] = s[j]
         /\ \A j \in i + 1 .. Len(s) + 1 : InsertAt(s, i, x)[j] = s[j - 1]
<1> DEFINE a == SubSeq(s, 1, i - 1)
           z == SubSeq(s, i, Len(s))
           t == a \o <<x>> \o z
<1>1. a \in Seq(T) /\ z \in Seq(T) /\ Len(a) = i - 1 /\ Len(z) = Len(s) - i + 1
  OBVIOUS
<1>2. /\ \A j \in 1 .. i - 1 : a[j] = s[j]
      /\ \A j \in 1 .. Len(s) - i + 1 : z[j] = s[j + i - 1]
  OBVIOUS
<1> HIDE DEF a, z
<1>3. /\ t \in Seq(T) /\ Len(t) = Len(s) + 1 /\ t[i] = x
      /\ \A j \in 1 .. i - 1 : t[j] = a[j]
      /\ \A j \in i + 1 .. Len(s) + 1 : t[j] = z[j - i]
  BY <1>1
<1>4. InsertAt(s, i, x) = t
  BY DEF InsertAt, a, z
<1> HIDE DEF t
<1>5. ASSUME NEW j \in i + 1 .. Len(s) + 1 PROVE t[j] = s[j - 1]
  <2>1. j - i \in 1 .. Len(s) - i + 1 /\ (j - i) + i - 1 = j - 1
    OBVIOUS
  <2>2. QED
    BY <1>2, <1>3, <2>1
<1>6. QED
  BY <1>2, <1>3, <1>4, <1>5

(* The lines of two crontabs one after the other.                          *)
LEMMA HasConcat ==
  ASSUME NEW T, NEW s \in Seq(T), NEW t \in Seq(T), NEW x
  PROVE  Has(s \o t, x) <=> Has(s, x) \/ Has(t, x)
<1> DEFINE u == s \o t
<1>1. /\ Len(s) \in Nat /\ Len(t) \in Nat /\ Len(u) = Len(s) + Len(t)
      /\ \A i \in 1 .. Len(s) : u[i] = s[i]
      /\ \A i \in 1 .. Len(t) : u[Len(s) + i] = t[i]
      /\ \A i \in Len(s) + 1 .. Len(u) : u[i] = t[i - Len(s)]
  OBVIOUS
<1> HIDE DEF u
<1>2. ASSUME Has(u, x) PROVE Has(s, x) \/ Has(t, x)
  <2>1. PICK i \in 1 .. Len(u) : u[i] = x
    BY <1>2 DEF Has
  <2>2. CASE i <= Len(s)
    BY <1>1, <2>1, <2>2 DEF Has
  <2>3. CASE i > Len(s)
    <3>1. i - Len(s) \in 1 .. Len(t) /\ t[i - Len(s)] = x
      BY <1>1, <2>1, <2>3
    <3>2. QED
      BY <3>1 DEF Has
  <2>4. QED
    BY <1>1, <2>2, <2>3
<1>3. ASSUME Has(s, x) PROVE Has(u, x)
  BY <1>1, <1>3 DEF Has
<1>4. ASSUME Has(t, x) PROVE Has(u, x)
  <2>1. PICK i \in 1 .. Len(t) : t[i] = x
    BY <1>4 DEF Has
  <2>2. Len(s) + i \in 1 .. Len(u) /\ u[Len(s) + i] = x
    BY <1>1, <2>1
  <2>3. QED
    BY <2>2 DEF Has
<1>5. QED
  BY <1>2, <1>3, <1>4 DEF u

(* No entry is there twice when it is in one half only, and once.          *)
LEMMA OnceConcat ==
  ASSUME NEW T, NEW s \in Seq(T), NEW t \in Seq(T)
  PROVE  Once(s \o t) <=> Once(s) /\ Once(t) /\ \A x \in Entry : ~(Has(s, x) /\ Has(t, x))
<1> DEFINE u == s \o t
<1>1. /\ Len(s) \in Nat /\ Len(t) \in Nat /\ Len(u) = Len(s) + Len(t)
      /\ \A i \in 1 .. Len(s) : u[i] = s[i]
      /\ \A i \in 1 .. Len(t) : u[Len(s) + i] = t[i]
      /\ \A i \in Len(s) + 1 .. Len(u) : u[i] = t[i - Len(s)]
  OBVIOUS
<1> HIDE DEF u
<1>2. ASSUME Once(u) PROVE Once(s) /\ Once(t) /\ \A x \in Entry : ~(Has(s, x) /\ Has(t, x))
  <2>1. Once(s)
    BY <1>1, <1>2 DEF Once
  <2>2. Once(t)
    <3> SUFFICES ASSUME NEW i \in 1 .. Len(t), NEW k \in 1 .. Len(t), t[i] \in Entry,
        t[i] = t[k]
                 PROVE  i = k
      BY DEF Once
    <3>1. u[Len(s) + i] = u[Len(s) + k] /\ u[Len(s) + i] \in Entry
      BY <1>1
    <3>2. Len(s) + i = Len(s) + k
      BY <1>1, <1>2, <3>1 DEF Once
    <3>3. QED
      BY <1>1, <3>2
  <2>3. ASSUME NEW x \in Entry, Has(s, x), Has(t, x) PROVE FALSE
    <3>1. PICK i \in 1 .. Len(s) : s[i] = x
      BY <2>3 DEF Has
    <3>2. PICK k \in 1 .. Len(t) : t[k] = x
      BY <2>3 DEF Has
    <3>3. u[i] = u[Len(s) + k] /\ u[i] \in Entry
      BY <1>1, <3>1, <3>2
    <3>4. i = Len(s) + k
      BY <1>1, <1>2, <3>3 DEF Once
    <3>5. QED
      BY <1>1, <3>4
  <2>4. QED
    BY <2>1, <2>2, <2>3
<1>3. ASSUME Once(s), Once(t), \A x \in Entry : ~(Has(s, x) /\ Has(t, x)) PROVE Once(u)
  <2> SUFFICES ASSUME NEW i \in 1 .. Len(u), NEW k \in 1 .. Len(u), u[i] \in Entry,
      u[i] = u[k]
               PROVE  i = k
    BY DEF Once
  <2>1. CASE i <= Len(s) /\ k <= Len(s)
    BY <1>1, <1>3, <2>1 DEF Once
  <2>2. CASE i > Len(s) /\ k > Len(s)
    <3>1. i - Len(s) \in 1 .. Len(t) /\ k - Len(s) \in 1 .. Len(t)
      BY <1>1, <2>2
    <3>2. t[i - Len(s)] = t[k - Len(s)] /\ t[i - Len(s)] \in Entry
      BY <1>1, <2>2
    <3>3. i - Len(s) = k - Len(s)
      BY <1>3, <3>1, <3>2 DEF Once
    <3>4. QED
      BY <1>1, <3>3
  <2>3. CASE i <= Len(s) /\ k > Len(s)
    <3>1. i \in 1 .. Len(s) /\ k - Len(s) \in 1 .. Len(t)
      BY <1>1, <2>3
    <3>2. s[i] = u[i] /\ t[k - Len(s)] = u[i]
      BY <1>1, <2>3
    <3>3. Has(s, u[i]) /\ Has(t, u[i])
      BY <3>1, <3>2 DEF Has
    <3>4. QED
      BY <1>3, <3>3
  <2>4. CASE i > Len(s) /\ k <= Len(s)
    <3>1. k \in 1 .. Len(s) /\ i - Len(s) \in 1 .. Len(t)
      BY <1>1, <2>4
    <3>2. s[k] = u[i] /\ t[i - Len(s)] = u[i]
      BY <1>1, <2>4
    <3>3. Has(s, u[i]) /\ Has(t, u[i])
      BY <3>1, <3>2 DEF Has
    <3>4. QED
      BY <1>3, <3>3
  <2>5. QED
    BY <1>1, <2>1, <2>2, <2>3, <2>4
<1>4. Once(u) <=> Once(s) /\ Once(t) /\ \A x \in Entry : ~(Has(s, x) /\ Has(t, x))
  BY <1>2, <1>3
<1>5. QED
  BY <1>4 DEF u

(* Leaving lines out makes none of the others come twice.                  *)
LEMMA OnceKept ==
  ASSUME NEW T, NEW s \in Seq(T), NEW set, Once(s)
  PROVE  Once(Kept(s, set))
<1> DEFINE P == {u \in Seq(T) : Once(u) => Once(Kept(u, set))}
<1>1. <<>> \in P
  <2>1. Kept(<<>>, set) = <<>>
    BY KeptEmpty
  <2>2. <<>> \in Seq(T)
    OBVIOUS
  <2>3. QED
    BY <2>1, <2>2, Zenon
<1>2. ASSUME NEW u \in Seq(T), NEW y \in T, u \in P PROVE Append(u, y) \in P
  <2>1. ASSUME NEW v \in Seq(T)
        PROVE  Once(Append(v, y)) <=> Once(v) /\ (y \in Entry => ~Has(v, y))
    <3>1. Append(v, y) = v \o <<y>> /\ <<y>> \in Seq(T)
      OBVIOUS
    <3>2. Once(<<y>>)
      BY DEF Once
    <3>3. \A x : Has(<<y>>, x) <=> x = y
      BY DEF Has
    <3>4. Once(v \o <<y>>) <=> Once(v) /\ Once(<<y>>) /\ \A x \in Entry :
            ~(Has(v, x) /\ Has(<<y>>, x))
      BY <3>1, OnceConcat
    <3>5. QED
      BY <3>1, <3>2, <3>3, <3>4
  <2>2. Kept(u, set) \in Seq(T)
    <3>1. Kept(u, set) \in Seq(T \cap set)
      BY KeptIn
    <3>2. QED
      BY <3>1
  <2>3. Has(Kept(u, set), y) => Has(u, y)
    BY KeptLines
  <2>4. Kept(Append(u, y), set) = Keep(Kept(u, set), y, set)
    BY KeptAppend
  <2>5. Once(u) => Once(Kept(u, set))
    BY <1>2
  <2>6. Once(Append(u, y)) => Once(Keep(Kept(u, set), y, set))
    BY <2>1, <2>2, <2>3, <2>5 DEF Keep
  <2>7. Append(u, y) \in Seq(T)
    OBVIOUS
  <2>8. QED
    BY <2>4, <2>6, <2>7, Zenon
<1> HIDE DEF P
<1>3. Seq(T) \subseteq P
  BY <1>1, <1>2, SeqInduction
<1>4. QED
  BY <1>3 DEF P

(* What Update sees of a crontab up to its first start marker, and         *)
(* between the markers.                                                    *)
Before(lines) == SubSeq(lines, 1, First(lines, Start))
Inside(lines) == SubSeq(lines, First(lines, Start) + 1, First(lines, End) - 1)

(* The crontab has a section, with its markers in order.                   *)
Marked(lines) == First(lines, Start) # 0 /\ First(lines, End) # 0 /\ ~Inverted(lines)

(* A crontab in three parts, and in four.                                  *)
Three(u, b, k, r) == u = b \o k \o r
Four(u, b, k, e, r) == u = b \o k \o e \o r

(* A crontab with a section is what Update slices it into.                 *)
LEMMA Parts ==
  ASSUME CrontabAssumption, NEW lines \in Seq(Line), Marked(lines)
  PROVE  /\ Before(lines) \in Seq(Line) /\ Inside(lines) \in Seq(Line)
         /\ Rest(lines) \in Seq(Line)
         /\ Three(lines, Before(lines), Inside(lines), Rest(lines))
         /\ First(lines, Start) \in Nat /\ First(lines, End) \in Nat
         /\ First(lines, Start) < First(lines, End) /\ First(lines, End) <= Len(lines)
         /\ 0 < First(lines, Start)
<1> DEFINE a == First(lines, Start)
           e == First(lines, End)
<1>1. a \in 1 .. Len(lines) /\ e \in 1 .. Len(lines) /\ lines[a] = Start /\ lines[e] = End
  BY FirstIndex DEF Marked
<1>2. a # e
  BY <1>1 DEF CrontabAssumption
<1>3. a \in Nat /\ e \in Nat /\ a < e /\ e <= Len(lines)
  BY <1>1, <1>2 DEF Marked, Inverted
<1> HIDE DEF a, e
<1>4. /\ SubSeq(lines, 1, a) \in Seq(Line) /\ SubSeq(lines, a + 1, e - 1) \in Seq(Line)
      /\ SubSeq(lines, e, Len(lines)) \in Seq(Line)
      /\ lines = SubSeq(lines, 1, a) \o SubSeq(lines, a + 1, e - 1) \o SubSeq(lines, e,
           Len(lines))
  BY <1>3, Halves
<1>5. /\ Before(lines) = SubSeq(lines, 1, a) /\ Inside(lines) = SubSeq(lines, a + 1, e - 1)
      /\ Rest(lines) = SubSeq(lines, e, Len(lines))
  BY DEF a, e, Before, Inside, Rest
<1>6. a > 0
  BY <1>1
<1>7. Three(lines, Before(lines), Inside(lines), Rest(lines))
  BY <1>4, <1>5 DEF Three
<1>8. QED
  BY <1>3, <1>4, <1>5, <1>6, <1>7 DEF a, e

(* What a job writes: its own entries, each of them once.                  *)
LEMMA EntriesWritten ==
  ASSUME CrontabAssumption, NEW name \in Profile, NEW section \in Section
  PROVE  /\ Entries(name, section) \in Seq(Entry)
         /\ Once(Entries(name, section))
         /\ \A x : Has(Entries(name, section), x) <=> x \in EntriesOf(name, section)
         /\ \A x \in EntriesOf(name, section) :
               x \in Entry /\ x.profile = name /\ x.command = ResticCommand(section)
<1> DEFINE n == Schedules[section]
           e == [i \in 1 .. n |-> [profile |-> name, command |-> ResticCommand(section),
           schedule |-> i]]
<1>1. n \in Nat /\ n > 0
  BY DEF CrontabAssumption
<1>2. \A i \in 1 .. n : e[i] \in Entry /\ e[i].schedule = i /\ e[i].profile = name
                        /\ e[i].command = ResticCommand(section)
  BY DEF Entry
<1>3. Entries(name, section) = e
  BY DEF Entries
<1>4. EntriesOf(name, section) = {e[i] : i \in 1 .. n}
  BY <1>3 DEF EntriesOf
<1> HIDE DEF n
<1>5. e \in Seq(Entry) /\ Len(e) = n
  <2>1. e \in [1 .. n -> Entry]
    BY <1>2
  <2> HIDE DEF e
  <2>2. QED
    BY <1>1, <2>1
<1> HIDE DEF e
<1>6. Once(e)
  BY <1>2, <1>5 DEF Once
<1>7. \A x : Has(e, x) <=> x \in {e[i] : i \in 1 .. n}
  BY <1>5 DEF Has
<1>8. QED
  BY <1>2, <1>3, <1>4, <1>5, <1>6, <1>7

(* A line with none like it before is the first.                           *)
LEMMA FirstIs ==
  ASSUME NEW T, NEW s \in Seq(T), NEW i \in 1 .. Len(s), \A j \in 1 .. i - 1 : s[j] # s[i]
  PROVE  First(s, s[i]) = i
<1> DEFINE f == First(s, s[i])
<1>1. /\ f \in 1 .. Len(s) /\ s[f] = s[i]
      /\ \A j \in 1 .. f - 1 : s[j] # s[i]
  BY FirstIndex
<1> HIDE DEF f
<1>2. f = i
  BY <1>1
<1>3. QED
  BY <1>2 DEF f

(* The elements of a concatenation, by their index.                        *)
LEMMA ConcatIndex ==
  ASSUME NEW T, NEW s \in Seq(T), NEW t \in Seq(T)
  PROVE  /\ s \o t \in Seq(T) /\ Len(s) \in Nat /\ Len(t) \in Nat
         /\ Len(s \o t) = Len(s) + Len(t)
         /\ \A i \in 1 .. Len(s) : (s \o t)[i] = s[i]
         /\ \A i \in Len(s) + 1 .. Len(s \o t) : (s \o t)[i] = t[i - Len(s)]
OBVIOUS

(* What is known of the lines of a crontab in four parts.                  *)
Joined(u, T, b, k, e, r) ==
  LET m == Len(b) + Len(k) + Len(e)
  IN  /\ u \in Seq(T) /\ Len(u) = m + Len(r)
      /\ \A i \in 1 .. Len(b) : u[i] = b[i]
      /\ \A i \in Len(b) + 1 .. m : Has(k, u[i]) \/ Has(e, u[i])
      /\ \A i \in m + 1 .. Len(u) : i - m \in 1 .. Len(r) /\ u[i] = r[i - m]
      /\ \A x : Has(u, x) <=> Has(b, x) \/ Has(k, x) \/ Has(e, x) \/ Has(r, x)

(* The lines of a crontab in three parts.                                  *)
LEMMA HasThree ==
  ASSUME NEW T, NEW b \in Seq(T), NEW k \in Seq(T), NEW r \in Seq(T), NEW s,
         Three(s, b, k, r)
  PROVE  \A x : Has(s, x) <=> Has(b, x) \/ Has(k, x) \/ Has(r, x)
<1> DEFINE c == b \o k
<1>1. c \in Seq(T)
  OBVIOUS
<1>2. \A x : Has(c, x) <=> Has(b, x) \/ Has(k, x)
  BY HasConcat
<1> HIDE DEF c
<1>3. \A x : Has(c \o r, x) <=> Has(c, x) \/ Has(r, x)
  BY <1>1, HasConcat
<1>4. s = c \o r
  BY DEF Three, c
<1>5. QED
  BY <1>2, <1>3, <1>4

(* The lines of a crontab in four parts.                                   *)
LEMMA FourParts ==
  ASSUME NEW T, NEW b \in Seq(T), NEW k \in Seq(T), NEW e \in Seq(T), NEW r \in Seq(T),
         NEW s, Four(s, b, k, e, r)
  PROVE  Joined(s, T, b, k, e, r)
<1> DEFINE c == b \o k
           d == c \o e
           u == d \o r
           m == Len(b) + Len(k) + Len(e)
<1>1. /\ c \in Seq(T) /\ Len(c) = Len(b) + Len(k) /\ Len(b) \in Nat /\ Len(k) \in Nat
      /\ \A i \in 1 .. Len(b) : c[i] = b[i]
      /\ \A i \in Len(b) + 1 .. Len(c) : c[i] = k[i - Len(b)]
  BY ConcatIndex
<1>c. \A x : Has(c, x) <=> Has(b, x) \/ Has(k, x)
  BY HasConcat
<1>e. c \in Seq(T)
  BY <1>1
<1> HIDE DEF c
<1>2. /\ d \in Seq(T) /\ Len(d) = Len(c) + Len(e) /\ Len(e) \in Nat
      /\ \A i \in 1 .. Len(c) : d[i] = c[i]
      /\ \A i \in Len(c) + 1 .. Len(d) : d[i] = e[i - Len(c)]
  BY <1>e, ConcatIndex
<1>d. \A x : Has(d, x) <=> Has(c, x) \/ Has(e, x)
  BY <1>1, HasConcat
<1>f. d \in Seq(T)
  BY <1>2
<1> HIDE DEF d
<1>3. /\ u \in Seq(T) /\ Len(u) = Len(d) + Len(r) /\ Len(r) \in Nat
      /\ \A i \in 1 .. Len(d) : u[i] = d[i]
      /\ \A i \in Len(d) + 1 .. Len(u) : u[i] = r[i - Len(d)]
  BY <1>f, ConcatIndex
<1>u. \A x : Has(u, x) <=> Has(d, x) \/ Has(r, x)
  BY <1>2, HasConcat
<1> HIDE DEF u
<1>4. Len(d) = m /\ m \in Nat
  BY <1>1, <1>2
<1>5. \A i \in 1 .. Len(b) : u[i] = b[i]
  BY <1>1, <1>2, <1>3
<1>6. ASSUME NEW i \in Len(b) + 1 .. m PROVE Has(k, u[i]) \/ Has(e, u[i])
  <2>1. u[i] = d[i]
    BY <1>1, <1>3, <1>4
  <2>2. CASE i <= Len(c)
    <3>1. i - Len(b) \in 1 .. Len(k) /\ u[i] = k[i - Len(b)]
      BY <1>1, <1>2, <2>1, <2>2
    <3>2. QED
      BY <3>1 DEF Has
  <2>3. CASE i > Len(c)
    <3>1. i - Len(c) \in 1 .. Len(e) /\ u[i] = e[i - Len(c)]
      BY <1>1, <1>2, <1>4, <2>1, <2>3
    <3>2. QED
      BY <3>1 DEF Has
  <2>4. QED
    BY <1>1, <2>2, <2>3
<1>7. \A i \in m + 1 .. Len(u) : i - m \in 1 .. Len(r) /\ u[i] = r[i - m]
  BY <1>3, <1>4
<1>8. \A x : Has(u, x) <=> Has(b, x) \/ Has(k, x) \/ Has(e, x) \/ Has(r, x)
  BY <1>c, <1>d, <1>u
<1>9. QED
  <2>1. Joined(u, T, b, k, e, r)
    BY <1>3, <1>4, <1>5, <1>6, <1>7, <1>8 DEF Joined
  <2>2. QED
    BY <2>1 DEF u, d, c, Four

(* A tidy crontab has no section and no entry, or all its entries between  *)
(* the markers that Update finds.                                          *)
LEMMA TidyMarks ==
  ASSUME CrontabAssumption, NEW lines \in Seq(Line), Tidy(lines)
  PROVE  \/ /\ ~Marked(lines)
            /\ \A i \in 1 .. Len(lines) : lines[i] \notin Entry \cup {Start, End}
         \/ /\ Marked(lines)
            /\ \A i \in 1 .. Len(lines) :
                 lines[i] \in Entry => First(lines, Start) < i /\ i < First(lines, End)
<1>1. CASE \A i \in 1 .. Len(lines) : lines[i] \notin Entry \cup {Start, End}
  <2>1. First(lines, Start) = 0
    BY <1>1, FirstIndex
  <2>2. QED
    BY <1>1, <2>1 DEF Marked
<1>2. CASE ~\A i \in 1 .. Len(lines) : lines[i] \notin Entry \cup {Start, End}
  <2>1. PICK a \in 1 .. Len(lines), z \in 1 .. Len(lines) :
       /\ a < z /\ lines[a] = Start /\ lines[z] = End
       /\ \A i \in 1 .. Len(lines) :
            /\ lines[i] = Start => a <= i
            /\ lines[i] = End => z <= i
            /\ lines[i] \in Entry => a < i /\ i < z
    BY <1>2 DEF Tidy
  <2>2. First(lines, Start) = a
    <3>1. \A j \in 1 .. a - 1 : lines[j] # lines[a]
      BY <2>1
    <3>2. QED
      BY <2>1, <3>1, FirstIs
  <2>3. First(lines, End) = z
    <3>1. \A j \in 1 .. z - 1 : lines[j] # lines[z]
      BY <2>1
    <3>2. QED
      BY <2>1, <3>1, FirstIs
  <2>4. QED
    BY <2>1, <2>2, <2>3 DEF Marked, Inverted
<1>3. QED
  BY <1>1, <1>2

(* In a tidy crontab no entry is outside of what Update replaces.          *)
LEMMA TidyParts ==
  ASSUME CrontabAssumption, NEW lines \in Seq(Line), Tidy(lines), Marked(lines)
  PROVE  /\ \A x \in Entry : ~Has(Before(lines), x) /\ ~Has(Rest(lines), x)
         /\ ~Has(Inside(lines), End)
<1> DEFINE a == First(lines, Start)
           z == First(lines, End)
<1>1. /\ a \in Nat /\ z \in Nat /\ a < z /\ z <= Len(lines) /\ 0 < a
      /\ \A i \in 1 .. Len(lines) : lines[i] \in Entry => a < i /\ i < z
  BY Parts, TidyMarks
<1>2. \A i \in 1 .. z - 1 : lines[i] # End
  <2>1. First(lines, End) # 0
    BY DEF Marked
  <2>2. QED
    BY <2>1, FirstIndex
<1>3. /\ Len(Before(lines)) = a
      /\ \A i \in 1 .. a : Before(lines)[i] = lines[i]
  BY <1>1 DEF Before
<1>4. /\ Len(Inside(lines)) = z - a - 1
      /\ \A i \in 1 .. z - a - 1 : Inside(lines)[i] = lines[i + a]
  BY <1>1 DEF Inside
<1>5. /\ Len(Rest(lines)) = Len(lines) - z + 1
      /\ \A i \in 1 .. Len(lines) - z + 1 : Rest(lines)[i] = lines[i + z - 1]
  BY <1>1 DEF Rest
<1> HIDE DEF a, z
<1>6. ~Has(Inside(lines), End)
  BY <1>1, <1>2, <1>4 DEF Has
<1>7. ASSUME NEW x \in Entry PROVE ~Has(Before(lines), x)
  BY <1>1, <1>3 DEF Has
<1>8. ASSUME NEW x \in Entry PROVE ~Has(Rest(lines), x)
  <2> SUFFICES ASSUME NEW i \in 1 .. Len(lines) - z + 1, Rest(lines)[i] = x PROVE FALSE
    BY <1>5 DEF Has
  <2>1. i + z - 1 \in 1 .. Len(lines) /\ lines[i + z - 1] = x /\ i + z - 1 >= z
    BY <1>1, <1>5
  <2>2. QED
    BY <1>1, <2>1
<1>9. QED
  BY <1>6, <1>7, <1>8

(* The lines that deleteLine leaves.                                       *)
Others(c, name, section) == {line \in Line : ~Matches(line, c, name, section)}

(* The crontab that Update makes, in four parts: with a section, and       *)
(* without one.                                                            *)
LEMMA UpdateParts ==
  ASSUME CrontabAssumption, NEW lines \in Seq(Line), NEW c, NEW name, NEW section,
         NEW entries \in Seq(Entry)
  PROVE  /\ entries \in Seq(Line) /\ <<Blank, Start>> \in Seq(Line) /\ <<End>> \in Seq(Line)
         /\ Marked(lines) =>
              /\ OwnLines(lines, c, name, section) = Kept(Inside(lines),
                   Others(c, name, section))
              /\ OwnLines(lines, c, name, section) \in Seq(Line)
              /\ Four(Update(lines, c, name, section, entries),
                      Before(lines), OwnLines(lines, c, name, section), entries,
                      Rest(lines))
         /\ ~Marked(lines) /\ ~Inverted(lines) =>
              Four(Update(lines, c, name, section, entries),
                   lines, <<Blank, Start>>, entries, <<End>>)
<1>1. OwnLines(lines, c, name, section) = Kept(Inside(lines), Others(c, name, section))
  BY DEF OwnLines, Inside, Others
<1>2. ASSUME Marked(lines) PROVE OwnLines(lines, c, name, section) \in Seq(Line)
  <2>1. Inside(lines) \in Seq(Line)
    BY <1>2, Parts
  <2>2. Kept(Inside(lines), Others(c, name, section)) \in Seq(Line \cap Others(c, name,
          section))
    BY <2>1, KeptIn
  <2>3. QED
    BY <1>1, <2>2
<1>3. Marked(lines) =>
        Four(Update(lines, c, name, section, entries),
             Before(lines), OwnLines(lines, c, name, section), entries, Rest(lines))
  BY DEF Update, Marked, Before, Four
<1>4. ~Marked(lines) /\ ~Inverted(lines) =>
        Four(Update(lines, c, name, section, entries), lines, <<Blank, Start>>, entries,
        <<End>>)
  BY DEF Update, Marked, Four
<1>5. entries \in Seq(Line) /\ <<Blank, Start>> \in Seq(Line) /\ <<End>> \in Seq(Line)
  BY DEF Line
<1>6. QED
  BY <1>1, <1>2, <1>3, <1>4, <1>5

(* The lines around the new entries are no entries themselves.             *)
LEMMA MarkerLines ==
  ASSUME CrontabAssumption, NEW x \in Entry
  PROVE  ~Has(<<Blank, Start>>, x) /\ ~Has(<<End>>, x)
<1>1. (Has(<<Blank, Start>>, x) => x = Blank \/ x = Start) /\ (Has(<<End>>, x) => x = End)
  BY DEF Has
<1>2. QED
  BY <1>1 DEF CrontabAssumption

(* Update keeps every entry that it does not match and adds what it is     *)
(* given; of a tidy crontab, it deletes all that it matches.               *)
LEMMA UpdateHas ==
  ASSUME CrontabAssumption, NEW lines \in Seq(Line), ~Inverted(lines),
         NEW c, NEW name, NEW section, NEW entries \in Seq(Entry)
  PROVE  /\ Update(lines, c, name, section, entries) \in Seq(Line)
         /\ \A x \in Entry :
              Has(entries, x) \/ (Has(lines, x) /\ ~Matches(x, c, name, section))
                => Has(Update(lines, c, name, section, entries), x)
         /\ Tidy(lines) => \A x \in Entry :
              Has(Update(lines, c, name, section, entries), x)
                => Has(entries, x) \/ (Has(lines, x) /\ ~Matches(x, c, name, section))
<1> DEFINE new == Update(lines, c, name, section, entries)
<1>1. CASE Marked(lines)
  <2> DEFINE b == Before(lines)
             k == OwnLines(lines, c, name, section)
             r == Rest(lines)
  <2>1. /\ b \in Seq(Line) /\ Inside(lines) \in Seq(Line) /\ r \in Seq(Line)
        /\ Three(lines, b, Inside(lines), r)
    BY <1>1, Parts
  <2>2. /\ k = Kept(Inside(lines), Others(c, name, section))
        /\ k \in Seq(Line) /\ Four(new, b, k, entries, r) /\ entries \in Seq(Line)
    BY <1>1, UpdateParts
  <2>3. new \in Seq(Line) /\ \A x : Has(new, x) <=> Has(b, x) \/ Has(k, x)
          \/ Has(entries, x) \/ Has(r, x)
    <3>1. Joined(new, Line, b, k, entries, r)
      BY <2>1, <2>2, FourParts
    <3>2. QED
      BY <3>1 DEF Joined
  <2>4. \A x : Has(lines, x) <=> Has(b, x) \/ Has(Inside(lines), x) \/ Has(r, x)
    BY <2>1, HasThree
  <2>5. \A x \in Entry : Has(k, x) <=> ~Matches(x, c, name, section)
          /\ Has(Inside(lines), x)
    <3>1. \A x \in Entry : x \in Others(c, name, section) <=> ~Matches(x, c, name, section)
      BY DEF Line, Others
    <3>2. \A x : Has(k, x) <=> x \in Others(c, name, section) /\ Has(Inside(lines), x)
      BY <2>1, <2>2, KeptLines
    <3>3. QED
      BY <3>1, <3>2
  <2>6. Tidy(lines) => \A x \in Entry : ~Has(b, x) /\ ~Has(r, x)
    BY <1>1, TidyParts
  <2> HIDE DEF b, k, r, new
  <2>7. QED
    BY <2>3, <2>4, <2>5, <2>6 DEF new
<1>2. CASE ~Marked(lines)
  <2> DEFINE k == <<Blank, Start>>
             r == <<End>>
  <2>1. /\ Four(new, lines, k, entries, r)
        /\ k \in Seq(Line) /\ r \in Seq(Line) /\ entries \in Seq(Line)
    BY <1>2, UpdateParts
  <2>2. \A x \in Entry : ~Has(k, x) /\ ~Has(r, x)
    BY MarkerLines
  <2> HIDE DEF k, r
  <2>3. new \in Seq(Line) /\ \A x : Has(new, x) <=> Has(lines, x) \/ Has(k, x)
          \/ Has(entries, x) \/ Has(r, x)
    <3>1. Joined(new, Line, lines, k, entries, r)
      BY <2>1, FourParts
    <3>2. QED
      BY <3>1 DEF Joined
  <2>4. Tidy(lines) => \A x \in Entry : ~Has(lines, x)
    BY <1>2, TidyMarks DEF Has
  <2> HIDE DEF new
  <2>5. QED
    BY <2>2, <2>3, <2>4 DEF new
<1>3. QED
  BY <1>1, <1>2

(* What is kept of three parts.                                            *)
LEMMA KeptThree ==
  ASSUME NEW T, NEW b \in Seq(T), NEW k \in Seq(T), NEW r \in Seq(T), NEW s,
         Three(s, b, k, r),
         NEW set
  PROVE  Three(Kept(s, set), Kept(b, set), Kept(k, set), Kept(r, set))
<1> DEFINE c == b \o k
<1>1. c \in Seq(T)
  OBVIOUS
<1>2. Kept(c, set) = Kept(b, set) \o Kept(k, set)
  BY KeptConcat
<1>3. s = c \o r
  BY DEF Three
<1> HIDE DEF c
<1>4. Kept(c \o r, set) = Kept(c, set) \o Kept(r, set)
  BY <1>1, KeptConcat
<1>5. QED
  BY <1>2, <1>3, <1>4 DEF Three

(* A crontab in two parts.                                                 *)
Two(u, b, r) == u = b \o r

(* What is kept of two parts.                                              *)
LEMMA KeptTwo ==
  ASSUME NEW T, NEW b \in Seq(T), NEW r \in Seq(T), NEW s, Two(s, b, r), NEW set
  PROVE  Two(Kept(s, set), Kept(b, set), Kept(r, set))
BY KeptConcat DEF Two

(* What is kept of four parts.                                             *)
LEMMA KeptFour ==
  ASSUME NEW T, NEW b \in Seq(T), NEW k \in Seq(T), NEW e \in Seq(T), NEW r \in Seq(T),
         NEW s, Four(s, b, k, e, r), NEW set
  PROVE  Four(Kept(s, set), Kept(b, set), Kept(k, set), Kept(e, set), Kept(r, set))
<1>1. PICK c : c \in Seq(T) /\ Three(c, b, k, e) /\ Two(s, c, r)
  <2> DEFINE c == b \o k \o e
  <2>1. c \in Seq(T)
    OBVIOUS
  <2>2. Three(c, b, k, e) /\ Two(s, c, r)
    BY DEF Two, Three, Four
  <2>3. QED
    BY <2>1, <2>2, Zenon
<1>2. Three(Kept(c, set), Kept(b, set), Kept(k, set), Kept(e, set))
  BY <1>1, KeptThree
<1>3. Two(Kept(s, set), Kept(c, set), Kept(r, set))
  BY <1>1, KeptTwo
<1>4. QED
  BY <1>2, <1>3 DEF Two, Three, Four

(* No part has an entry twice if the whole has not.                        *)
LEMMA OnceThree ==
  ASSUME NEW T, NEW b \in Seq(T), NEW k \in Seq(T), NEW r \in Seq(T), NEW s,
         Three(s, b, k, r),
         Once(s)
  PROVE  Once(k)
<1> DEFINE c == b \o k
<1>1. c \in Seq(T)
  OBVIOUS
<1>2. Once(c) => Once(k)
  BY OnceConcat
<1>3. s = c \o r
  BY DEF Three
<1> HIDE DEF c
<1>4. Once(c)
  BY <1>1, <1>3, OnceConcat
<1>5. QED
  BY <1>2, <1>4

(* Four parts, of which only the two in the middle have entries and share  *)
(* none.                                                                   *)
LEMMA OnceFour ==
  ASSUME NEW T, NEW b \in Seq(T), NEW k \in Seq(T), NEW e \in Seq(T), NEW r \in Seq(T),
         NEW s, Four(s, b, k, e, r), Once(k), Once(e),
         \A x \in Entry : ~Has(b, x) /\ ~Has(r, x) /\ ~(Has(k, x) /\ Has(e, x))
  PROVE  Once(s)
<1> DEFINE c == b \o k
           d == c \o e
<1>1. Once(b) /\ Once(r)
  BY DEF Once, Has
<1>2. c \in Seq(T)
  OBVIOUS
<1>3. \A x : Has(c, x) <=> Has(b, x) \/ Has(k, x)
  BY HasConcat
<1>4. Once(c)
  BY <1>1, OnceConcat
<1>5. s = d \o r
  BY DEF Four
<1> HIDE DEF c
<1>6. d \in Seq(T)
  BY <1>2
<1>7. Once(d)
  BY <1>2, <1>3, <1>4, OnceConcat
<1>8. \A x \in Entry : ~Has(r, x)
  OBVIOUS
<1> HIDE DEF d
<1>9. Once(d \o r)
  BY <1>1, <1>6, <1>7, <1>8, OnceConcat
<1>10. QED
  BY <1>5, <1>9

(* Update keeps the user's lines, in their order, wherever the markers     *)
(* are.                                                                    *)
LEMMA UpdateForeign ==
  ASSUME CrontabAssumption, NEW lines \in Seq(Line), ~Inverted(lines),
         NEW c, NEW name, NEW section, NEW entries \in Seq(Entry)
  PROVE  Kept(Update(lines, c, name, section, entries), Foreign) = Kept(lines, Foreign)
<1> DEFINE new == Update(lines, c, name, section, entries)
<1>1. Kept(entries, Foreign) = <<>> /\ entries \in Seq(Line)
  <2>1. Kept(entries, Foreign) = <<>>
    BY KeptNone DEF CrontabAssumption
  <2>2. QED
    BY <2>1, UpdateParts
<1>2. CASE Marked(lines)
  <2> DEFINE b == Before(lines)
             k == OwnLines(lines, c, name, section)
             r == Rest(lines)
  <2>1. b \in Seq(Line) /\ Inside(lines) \in Seq(Line) /\ r \in Seq(Line)
          /\ Three(lines, b, Inside(lines), r)
    BY <1>2, Parts
  <2>2. /\ k = Kept(Inside(lines), Others(c, name, section)) /\ k \in Seq(Line)
        /\ Four(new, b, k, entries, r)
    BY <1>2, UpdateParts
  <2>3. Kept(k, Foreign) = Kept(Inside(lines), Foreign)
    <3>1. Line \cap Foreign \subseteq Others(c, name, section)
      BY DEF Others, Matches, CrontabAssumption
    <3>2. Kept(Kept(Inside(lines), Others(c, name, section)), Foreign) =
              Kept(Inside(lines), Foreign)
      BY <2>1, <3>1, KeptKept
    <3>3. QED
      BY <2>2, <3>2
  <2> HIDE DEF b, k, r, new
  <2>4. Three(Kept(lines, Foreign), Kept(b, Foreign), Kept(Inside(lines), Foreign),
          Kept(r, Foreign))
    BY <2>1, KeptThree
  <2>5. Four(Kept(new, Foreign), Kept(b, Foreign), Kept(k, Foreign),
          Kept(entries, Foreign), Kept(r, Foreign))
    BY <1>1, <2>1, <2>2, KeptFour
  <2>6. \A s \in Seq(Line \cap Foreign) : s \o <<>> = s
    OBVIOUS
  <2>7. Kept(b, Foreign) \o Kept(k, Foreign) \in Seq(Line \cap Foreign)
    <3>1. Kept(b, Foreign) \in Seq(Line \cap Foreign)
            /\ Kept(k, Foreign) \in Seq(Line \cap Foreign)
      BY <2>1, <2>2, KeptIn
    <3>2. QED
      BY <3>1
  <2>8. Kept(new, Foreign) = Kept(lines, Foreign)
    BY <1>1, <2>3, <2>4, <2>5, <2>6, <2>7 DEF Three, Four
  <2>9. QED
    BY <2>8 DEF new
<1>3. CASE ~Marked(lines)
  <2> DEFINE k == <<Blank, Start>>
             r == <<End>>
  <2>1. Four(new, lines, k, entries, r) /\ k \in Seq(Line) /\ r \in Seq(Line)
    BY <1>3, UpdateParts
  <2>2. Kept(k, Foreign) = <<>> /\ Kept(r, Foreign) = <<>>
    <3>1. k \in Seq({Blank, Start}) /\ r \in Seq({End})
      OBVIOUS
    <3>2. {Blank, Start} \cap Foreign = {} /\ {End} \cap Foreign = {}
      BY DEF CrontabAssumption
    <3> HIDE DEF k, r
    <3>3. QED
      BY <3>1, <3>2, KeptNone
  <2> HIDE DEF k, r, new
  <2>3. Four(Kept(new, Foreign), Kept(lines, Foreign), Kept(k, Foreign),
          Kept(entries, Foreign), Kept(r, Foreign))
    BY <1>1, <2>1, KeptFour
  <2>4. Kept(lines, Foreign) \in Seq(Line \cap Foreign)
    BY KeptIn
  <2>5. \A s \in Seq(Line \cap Foreign) : s \o <<>> = s
    OBVIOUS
  <2>6. Kept(new, Foreign) = Kept(lines, Foreign)
    BY <1>1, <2>2, <2>3, <2>4, <2>5 DEF Four
  <2>7. QED
    BY <2>6 DEF new
<1>4. QED
  BY <1>2, <1>3

(* Update writes no entry twice, if what it adds is matched by what it     *)
(* deletes.                                                                *)
LEMMA UpdateOnce ==
  ASSUME CrontabAssumption, NEW lines \in Seq(Line), ~Inverted(lines), Tidy(lines),
         Once(lines),
         NEW c, NEW name, NEW section, NEW entries \in Seq(Entry), Once(entries),
         \A x \in Entry : Has(entries, x) => Matches(x, c, name, section)
  PROVE  Once(Update(lines, c, name, section, entries))
<1> DEFINE new == Update(lines, c, name, section, entries)
<1>1. entries \in Seq(Line)
  BY UpdateParts
<1>2. CASE Marked(lines)
  <2> DEFINE b == Before(lines)
             k == OwnLines(lines, c, name, section)
             r == Rest(lines)
  <2>1. b \in Seq(Line) /\ Inside(lines) \in Seq(Line) /\ r \in Seq(Line)
          /\ Three(lines, b, Inside(lines), r)
    BY <1>2, Parts
  <2>2. /\ k = Kept(Inside(lines), Others(c, name, section)) /\ k \in Seq(Line)
        /\ Four(new, b, k, entries, r)
    BY <1>2, UpdateParts
  <2>3. \A x \in Entry : ~Has(b, x) /\ ~Has(r, x)
    BY <1>2, TidyParts
  <2>4. \A x : Has(k, x) => ~Matches(x, c, name, section)
    <3>1. \A x : Has(k, x) <=> x \in Others(c, name, section) /\ Has(Inside(lines), x)
      BY <2>1, <2>2, KeptLines
    <3>2. QED
      BY <3>1 DEF Others
  <2>5. Once(k)
    <3>4. Once(Inside(lines))
      BY <2>1, OnceThree
    <3>3. QED
      BY <2>1, <2>2, <3>4, OnceKept
  <2> HIDE DEF b, k, r, new
  <2>6. Once(new)
    BY <1>1, <2>1, <2>2, <2>3, <2>4, <2>5, OnceFour
  <2>7. QED
    BY <2>6 DEF new
<1>3. CASE ~Marked(lines)
  <2> DEFINE k == <<Blank, Start>>
             r == <<End>>
  <2>1. Four(new, lines, k, entries, r) /\ k \in Seq(Line) /\ r \in Seq(Line)
    BY <1>3, UpdateParts
  <2>2. \A x \in Entry : ~Has(k, x) /\ ~Has(r, x)
    BY MarkerLines
  <2>3. \A x \in Entry : ~Has(lines, x)
    BY <1>3, TidyMarks DEF Has
  <2> HIDE DEF k, r, new
  <2>4. Once(k)
    BY <2>1, <2>2 DEF Once, Has
  <2>5. Once(new)
    BY <1>1, <2>1, <2>2, <2>3, <2>4, OnceFour
  <2>6. QED
    BY <2>5 DEF new
<1>4. QED
  BY <1>2, <1>3

(* Update leaves a tidy crontab, with the section it found or with the     *)
(* one it made.                                                            *)
LEMMA UpdateTidy ==
  ASSUME CrontabAssumption, NEW lines \in Seq(Line), ~Inverted(lines), Tidy(lines),
         NEW c, NEW name, NEW section, NEW entries \in Seq(Entry)
  PROVE  Tidy(Update(lines, c, name, section, entries))
<1> DEFINE new == Update(lines, c, name, section, entries)
<1>0. \A x : Has(entries, x) => x \notin {Start, End}
  <2>1. \A x : Has(entries, x) => x \in Entry
    BY DEF Has
  <2>2. QED
    BY <2>1 DEF CrontabAssumption
<1>1. CASE Marked(lines)
  <2> DEFINE b == Before(lines)
             k == OwnLines(lines, c, name, section)
             r == Rest(lines)
             a == First(lines, Start)
             z == First(lines, End)
             m == Len(b) + Len(k) + Len(entries)
  <2>1. b \in Seq(Line) /\ Inside(lines) \in Seq(Line) /\ r \in Seq(Line)
    BY <1>1, Parts
  <2>2. /\ k = Kept(Inside(lines), Others(c, name, section)) /\ k \in Seq(Line)
        /\ Four(new, b, k, entries, r) /\ entries \in Seq(Line)
    BY <1>1, UpdateParts
  <2>3. ~Has(k, End)
    <3>1. \A x : Has(k, x) => Has(Inside(lines), x)
      BY <2>1, <2>2, KeptLines
    <3>2. QED
      BY <1>1, <3>1, TidyParts
  <2>4. /\ a \in Nat /\ z \in Nat /\ 0 < a /\ a < z /\ z <= Len(lines)
        /\ \A j \in 1 .. Len(lines) : lines[j] \in Entry => a < j /\ j < z
    BY <1>1, Parts, TidyMarks
  <2>5. lines[a] = Start /\ \A j \in 1 .. a - 1 : lines[j] # Start
    BY <2>4, FirstIndex
  <2>6. lines[z] = End /\ \A j \in 1 .. z - 1 : lines[j] # End
    BY <2>4, FirstIndex
  <2>7. Len(b) = a /\ \A j \in 1 .. a : b[j] = lines[j]
    BY <2>4 DEF Before
  <2>8. /\ Len(r) = Len(lines) - z + 1
        /\ \A j \in 1 .. Len(lines) - z + 1 : r[j] = lines[j + z - 1]
    BY <2>4 DEF Rest
  <2>9. Joined(new, Line, b, k, entries, r)
    BY <2>1, <2>2, FourParts
  <2>10. Len(k) \in Nat /\ Len(entries) \in Nat
    BY <2>2
  <2> HIDE DEF b, k, r, a, z, new
  <2>11. /\ m \in Nat /\ a <= m /\ Len(new) = m + Len(r) /\ Len(r) > 0
    BY <2>4, <2>7, <2>8, <2>9, <2>10 DEF Joined
  <2>12. ASSUME NEW j \in 1 .. a
         PROVE  new[j] = lines[j] /\ new[j] # End /\ new[j] \notin Entry
                /\ (new[j] = Start => a = j)
    <3>1. new[j] = lines[j] /\ j \in 1 .. Len(lines)
      BY <2>4, <2>7, <2>9 DEF Joined
    <3>2. QED
      BY <2>4, <2>5, <2>6, <3>1
  <2>13. ASSUME NEW j \in a + 1 .. m PROVE new[j] # End
    <3>1. Has(k, new[j]) \/ Has(entries, new[j])
      BY <2>7, <2>9 DEF Joined
    <3>2. QED
      BY <1>0, <2>3, <3>1
  <2>14. ASSUME NEW j \in m + 1 .. Len(new)
         PROVE  j - m \in 1 .. Len(r) /\ new[j] = lines[j - m + z - 1]
                /\ new[j] \notin Entry
    <3>1. j - m \in 1 .. Len(r) /\ new[j] = r[j - m]
      BY <2>9 DEF Joined
    <3>2. /\ j - m + z - 1 \in 1 .. Len(lines) /\ j - m + z - 1 >= z
          /\ new[j] = lines[j - m + z - 1]
      BY <2>4, <2>8, <2>11, <3>1
    <3>3. QED
      BY <2>4, <3>1, <3>2
  <2>15. new[m + 1] = End
    <3>1. m + 1 \in m + 1 .. Len(new) /\ (m + 1) - m + z - 1 = z
      BY <2>4, <2>8, <2>11
    <3>2. QED
      BY <2>6, <2>14, <3>1
  <2> HIDE DEF m
  <2>16. a \in 1 .. Len(new) /\ m + 1 \in 1 .. Len(new) /\ a < m + 1 /\ new[a] = Start
    BY <2>4, <2>5, <2>8, <2>11, <2>12
  <2>17. \A j \in 1 .. Len(new) : /\ new[j] = Start => a <= j
                                  /\ new[j] = End => m + 1 <= j
                                  /\ new[j] \in Entry => a < j /\ j < m + 1
    <3> SUFFICES ASSUME NEW j \in 1 .. Len(new)
                 PROVE  /\ new[j] = Start => a <= j
                        /\ new[j] = End => m + 1 <= j
                        /\ new[j] \in Entry => a < j /\ j < m + 1
      OBVIOUS
    <3>1. CASE j <= a
      <4>1. j \in 1 .. a
        BY <2>4, <3>1
      <4>2. QED
        BY <2>12, <4>1
    <3>2. CASE a < j /\ j <= m
      <4>1. j \in a + 1 .. m
        BY <2>4, <2>11, <3>2
      <4>2. QED
        BY <2>4, <2>11, <2>13, <3>2, <4>1
    <3>3. CASE j > m
      <4>1. j \in m + 1 .. Len(new)
        BY <2>11, <3>3
      <4>2. QED
        BY <2>4, <2>11, <2>14, <4>1
    <3>4. QED
      BY <2>4, <2>11, <3>1, <3>2, <3>3
  <2>18. Tidy(new)
    BY <2>15, <2>16, <2>17 DEF Tidy
  <2>19. QED
    BY <2>18 DEF new
<1>2. CASE ~Marked(lines)
  <2> DEFINE k == <<Blank, Start>>
             r == <<End>>
             a == Len(lines) + 2
             m == Len(lines) + 2 + Len(entries)
  <2>1. /\ Four(new, lines, k, entries, r) /\ k \in Seq(Line) /\ r \in Seq(Line)
        /\ entries \in Seq(Line)
    BY <1>2, UpdateParts
  <2>2. Len(k) = 2 /\ k[1] = Blank /\ k[2] = Start /\ Len(r) = 1 /\ r[1] = End
    OBVIOUS
  <2>3. \A j \in 1 .. Len(lines) : lines[j] \notin Entry \cup {Start, End}
    BY <1>2, TidyMarks
  <2> HIDE DEF k, r
  <2>4. Joined(new, Line, lines, k, entries, r)
    BY <2>1, FourParts
  <2>5. Len(lines) \in Nat /\ Len(entries) \in Nat /\ Len(new) = m + 1
    BY <2>1, <2>2, <2>4 DEF Joined
  <2>6. new[Len(lines) + 1] = Blank /\ new[a] = Start
    <3> DEFINE h == lines \o k
    <3>a. /\ h \in Seq(Line) /\ Len(h) = Len(lines) + Len(k)
          /\ \A j \in Len(lines) + 1 .. Len(h) : h[j] = k[j - Len(lines)]
      BY <2>1, ConcatIndex
    <3>1. /\ h \in Seq(Line) /\ Len(h) = a
          /\ \A j \in Len(lines) + 1 .. Len(h) : h[j] = k[j - Len(lines)]
      BY <2>2, <3>a
    <3>4. h[Len(lines) + 1] = Blank /\ h[a] = Start
      <4>1. (Len(lines) + 1) - Len(lines) = 1 /\ (Len(lines) + 2) - Len(lines) = 2
        BY <2>5
      <4>2. QED
        BY <2>2, <2>5, <3>1, <4>1
    <3> HIDE DEF h
    <3>2. new = h \o (entries \o r) /\ entries \o r \in Seq(Line)
      BY <2>1 DEF h, Four
    <3>3. QED
      BY <2>5, <3>1, <3>2, <3>4
  <2>7. new[m + 1] = End
    BY <2>2, <2>4, <2>5 DEF Joined
  <2>8. \A j \in 1 .. Len(lines) : new[j] \notin Entry \cup {Start, End}
    BY <2>3, <2>4 DEF Joined
  <2>9. ASSUME NEW j \in a + 1 .. m PROVE new[j] # End
    <3> DEFINE h == lines \o k
    <3>a. h \in Seq(Line) /\ Len(h) = Len(lines) + Len(k)
      BY <2>1, ConcatIndex
    <3>1. h \in Seq(Line) /\ Len(h) = a
      BY <2>2, <3>a
    <3> HIDE DEF h
    <3>c. h \in Seq(Line) /\ entries \in Seq(Line)
      BY <2>1, <3>1
    <3>b. h \o entries \in Seq(Line) /\ Len(h \o entries) = Len(h) + Len(entries)
      BY <3>c, ConcatIndex
    <3>2. h \o entries \in Seq(Line) /\ Len(h \o entries) = m
      BY <3>1, <3>b
    <3>3. new[j] = entries[j - a] /\ j - a \in 1 .. Len(entries)
      <4>1. new[j] = (h \o entries)[j]
        <5>1. new = (h \o entries) \o r
          BY <2>1 DEF h, Four
        <5>2. QED
          BY <2>1, <2>5, <3>2, <5>1
      <4>2. (h \o entries)[j] = entries[j - a]
        BY <2>1, <2>5, <3>1, ConcatIndex
      <4>3. QED
        BY <2>5, <4>1, <4>2
    <3>4. Has(entries, new[j])
      BY <3>3 DEF Has
    <3>5. QED
      BY <1>0, <3>4
  <2> HIDE DEF new
  <2>10. /\ Blank \notin Entry /\ Start \notin Entry /\ End \notin Entry
         /\ Blank # Start /\ Blank # End /\ Start # End
    BY DEF CrontabAssumption
  <2>11. \A j \in 1 .. Len(new) : /\ new[j] = Start => a <= j
                                  /\ new[j] = End => m + 1 <= j
                                  /\ new[j] \in Entry => a < j /\ j < m + 1
    <3> SUFFICES ASSUME NEW j \in 1 .. Len(new)
                 PROVE  /\ new[j] = Start => a <= j
                        /\ new[j] = End => m + 1 <= j
                        /\ new[j] \in Entry => a < j /\ j < m + 1
      OBVIOUS
    <3>1. CASE j <= Len(lines)
      BY <2>5, <2>8, <3>1
    <3>2. CASE j = Len(lines) + 1
      BY <2>6, <2>10, <3>2
    <3>3. CASE j = a
      BY <2>5, <2>6, <2>10, <3>3
    <3>4. CASE a < j /\ j <= m
      <4>1. j \in a + 1 .. m
        BY <2>5, <3>4
      <4>2. QED
        BY <2>5, <2>9, <3>4, <4>1
    <3>5. CASE j = m + 1
      BY <2>5, <2>7, <2>10, <3>5
    <3>6. QED
      BY <2>5, <3>1, <3>2, <3>3, <3>4, <3>5
  <2>12. a \in 1 .. Len(new) /\ m + 1 \in 1 .. Len(new) /\ a < m + 1
    BY <2>5
  <2> HIDE DEF a, m
  <2>13. Tidy(new)
    BY <2>6, <2>7, <2>11, <2>12 DEF Tidy
  <2>14. QED
    BY <2>13 DEF new
<1>3. QED
  BY <1>1, <1>2

(* EntriesIn in terms of Has.                                              *)
LEMMA InEntries ==
  ASSUME NEW lines
  PROVE  \A x : x \in EntriesIn(lines) <=> x \in Entry /\ Has(lines, x)
BY DEF EntriesIn, Has

(* A line that the user adds, anywhere, takes nothing away.                *)
LEMMA AddHas ==
  ASSUME CrontabAssumption, NEW lines \in Seq(Line), NEW i \in 1 .. Len(lines) + 1,
         NEW line \in Foreign
  PROVE  /\ InsertAt(lines, i, line) \in Seq(Line)
         /\ \A x : Has(lines, x) => Has(InsertAt(lines, i, line), x)
         /\ Once(lines) => Once(InsertAt(lines, i, line))
         /\ Tidy(lines) => Tidy(InsertAt(lines, i, line))
<1> DEFINE new == InsertAt(lines, i, line)
<1>1. /\ new \in Seq(Line) /\ Len(new) = Len(lines) + 1 /\ new[i] = line
      /\ \A j \in 1 .. i - 1 : new[j] = lines[j]
      /\ \A j \in i + 1 .. Len(lines) + 1 : new[j] = lines[j - 1]
  <2>1. line \in Line
    BY DEF Line
  <2>2. ASSUME NEW x \in Line
        PROVE  /\ InsertAt(lines, i, x) \in Seq(Line)
               /\ Len(InsertAt(lines, i, x)) = Len(lines) + 1
               /\ InsertAt(lines, i, x)[i] = x
               /\ \A j \in 1 .. i - 1 : InsertAt(lines, i, x)[j] = lines[j]
               /\ \A j \in i + 1 .. Len(lines) + 1 : InsertAt(lines, i, x)[j] = lines[j - 1]
    BY Insertion
  <2>3. QED
    BY <2>1, <2>2
<1>2. line \notin Entry \cup {Start, End}
  BY DEF CrontabAssumption
<1>3. Len(lines) \in Nat
  OBVIOUS
<1> HIDE DEF new
<1>4. ASSUME NEW x, Has(lines, x) PROVE Has(new, x)
  <2>1. PICK j \in 1 .. Len(lines) : lines[j] = x
    BY <1>4 DEF Has
  <2>2. CASE j < i
    BY <1>1, <1>3, <2>1, <2>2 DEF Has
  <2>3. CASE j >= i
    <3>1. j + 1 \in i + 1 .. Len(lines) + 1 /\ (j + 1) - 1 = j /\ j + 1 \in 1 .. Len(new)
      BY <1>1, <1>3, <2>3
    <3>2. new[j + 1] = x
      BY <1>1, <2>1, <3>1
    <3>3. QED
      BY <3>1, <3>2 DEF Has
  <2>4. QED
    BY <2>2, <2>3
<1>5. ASSUME NEW j \in 1 .. Len(new), j # i
      PROVE  \/ j < i /\ j \in 1 .. Len(lines) /\ new[j] = lines[j]
             \/ j > i /\ j - 1 \in 1 .. Len(lines) /\ new[j] = lines[j - 1]
  BY <1>1, <1>3, <1>5
<1>6. ASSUME Once(lines) PROVE Once(new)
  <2> SUFFICES ASSUME NEW j \in 1 .. Len(new), NEW k \in 1 .. Len(new),
                      new[j] \in Entry, new[j] = new[k]
               PROVE  j = k
    BY DEF Once
  <2>1. j # i /\ k # i
    BY <1>1, <1>2
  <2>2. CASE j < i /\ k < i
    BY <1>5, <1>6, <2>1, <2>2 DEF Once
  <2>3. CASE j > i /\ k > i
    <3>1. j - 1 = k - 1
      BY <1>5, <1>6, <2>1, <2>3 DEF Once
    <3>2. QED
      BY <3>1
  <2>4. CASE j < i /\ k > i
    <3>1. j = k - 1
      BY <1>5, <1>6, <2>1, <2>4 DEF Once
    <3>2. QED
      BY <2>4, <3>1
  <2>5. CASE j > i /\ k < i
    <3>1. j - 1 = k
      BY <1>5, <1>6, <2>1, <2>5 DEF Once
    <3>2. QED
      BY <2>5, <3>1
  <2>6. QED
    BY <2>1, <2>2, <2>3, <2>4, <2>5
<1>7. ASSUME Tidy(lines) PROVE Tidy(new)
  <2>1. CASE \A j \in 1 .. Len(lines) : lines[j] \notin Entry \cup {Start, End}
    <3>1. ASSUME NEW j \in 1 .. Len(new) PROVE new[j] \notin Entry \cup {Start, End}
      BY <1>1, <1>2, <1>5, <2>1
    <3>2. QED
      BY <3>1 DEF Tidy
  <2>2. CASE ~\A j \in 1 .. Len(lines) : lines[j] \notin Entry \cup {Start, End}
    <3>1. PICK a \in 1 .. Len(lines), z \in 1 .. Len(lines) :
                 /\ a < z /\ lines[a] = Start /\ lines[z] = End
                 /\ \A j \in 1 .. Len(lines) :
                      /\ lines[j] = Start => a <= j
                      /\ lines[j] = End => z <= j
                      /\ lines[j] \in Entry => a < j /\ j < z
      BY <1>7, <2>2 DEF Tidy
    <3> DEFINE b == IF a < i THEN a ELSE a + 1
               y == IF z < i THEN z ELSE z + 1
    <3>2. b \in 1 .. Len(new) /\ y \in 1 .. Len(new) /\ b < y
      BY <1>1, <1>3, <3>1
    <3>3. new[b] = Start
      <4>1. CASE a < i
        BY <1>1, <1>3, <3>1, <4>1
      <4>2. CASE ~(a < i)
        <5>1. a + 1 \in i + 1 .. Len(lines) + 1 /\ (a + 1) - 1 = a
          BY <1>3, <4>2
        <5>2. QED
          BY <1>1, <3>1, <4>2, <5>1
      <4>3. QED
        BY <4>1, <4>2
    <3>4. new[y] = End
      <4>1. CASE z < i
        BY <1>1, <1>3, <3>1, <4>1
      <4>2. CASE ~(z < i)
        <5>1. z + 1 \in i + 1 .. Len(lines) + 1 /\ (z + 1) - 1 = z
          BY <1>3, <4>2
        <5>2. QED
          BY <1>1, <3>1, <4>2, <5>1
      <4>3. QED
        BY <4>1, <4>2
    <3>5. ASSUME NEW j \in 1 .. Len(new)
          PROVE  /\ new[j] = Start => b <= j
                 /\ new[j] = End => y <= j
                 /\ new[j] \in Entry => b < j /\ j < y
      <4>1. CASE j = i
        BY <1>1, <1>2, <4>1
      <4>2. CASE j < i
        <5>1. j \in 1 .. Len(lines) /\ new[j] = lines[j]
          BY <1>5, <4>2
        <5>2. QED
          BY <1>3, <3>1, <4>2, <5>1
      <4>3. CASE j > i
        <5>1. j - 1 \in 1 .. Len(lines) /\ new[j] = lines[j - 1]
          BY <1>5, <4>3
        <5>2. QED
          BY <1>3, <3>1, <4>3, <5>1
      <4>4. QED
        BY <4>1, <4>2, <4>3
    <3> HIDE DEF b, y
    <3>6. QED
      BY <3>2, <3>3, <3>4, <3>5 DEF Tidy
  <2>3. QED
    BY <2>1, <2>2
<1>8. QED
  BY <1>1, <1>4, <1>6, <1>7 DEF new

(* A marker that the user deletes takes no entry and no other line along.  *)
LEMMA DeleteHas ==
  ASSUME CrontabAssumption, NEW lines \in Seq(Line), NEW i \in 1 .. Len(lines),
         lines[i] \in {Start, End}
  PROVE  /\ RemoveAt(lines, i) \in Seq(Line)
         /\ \A x \in Entry : Has(lines, x) => Has(RemoveAt(lines, i), x)
         /\ Kept(RemoveAt(lines, i), Foreign) = Kept(lines, Foreign)
<1> DEFINE b == SubSeq(lines, 1, i - 1)
           m == <<lines[i]>>
           r == SubSeq(lines, i + 1, Len(lines))
<1>1. RemoveAt(lines, i) = b \o r /\ b \in Seq(Line) /\ r \in Seq(Line)
  BY Removal
<1>2. m \in Seq(Line) /\ m \in Seq({Start, End})
  OBVIOUS
<1>3. Three(lines, b, m, r)
  BY Removal DEF Three
<1>4. \A x \in Entry : ~Has(m, x)
  <2>1. \A x : Has(m, x) => x = lines[i]
    BY DEF Has
  <2>2. QED
    BY <2>1 DEF CrontabAssumption
<1> HIDE DEF b, m, r
<1>5. b \o r \in Seq(Line)
  BY <1>1
<1>6. \A x \in Entry : Has(lines, x) => Has(b \o r, x)
  <2>1. \A x : Has(lines, x) <=> Has(b, x) \/ Has(m, x) \/ Has(r, x)
    BY <1>1, <1>2, <1>3, HasThree
  <2>2. \A x : Has(b \o r, x) <=> Has(b, x) \/ Has(r, x)
    BY <1>1, HasConcat
  <2>3. QED
    BY <1>4, <2>1, <2>2
<1>7. Kept(b \o r, Foreign) = Kept(lines, Foreign)
  <2>1. Kept(m, Foreign) = <<>>
    BY <1>2, KeptNone DEF CrontabAssumption
  <2>2. Three(Kept(lines, Foreign), Kept(b, Foreign), Kept(m, Foreign), Kept(r, Foreign))
    BY <1>1, <1>2, <1>3, KeptThree
  <2>3. Kept(b \o r, Foreign) = Kept(b, Foreign) \o Kept(r, Foreign)
    BY <1>1, KeptConcat
  <2>4. Kept(b, Foreign) \in Seq(Line \cap Foreign)
    BY <1>1, KeptIn
  <2>5. Kept(b, Foreign) \o <<>> = Kept(b, Foreign)
    BY <2>4
  <2>6. QED
    BY <2>1, <2>2, <2>3, <2>5 DEF Three
<1>8. QED
  BY <1>1, <1>5, <1>6, <1>7

(* Nobody is in the middle of a job when the crontab is free to use.       *)
LEMMA AllIdle ==
  ASSUME TypeOK, TakeTurns, MayUseCrontab
  PROVE  \A p \in Process : todo[p] = {} /\ job[p] = NoSection
BY DEF TypeOK, MayUseCrontab, Idle

(* The job that Write ends, and the entries that it adds.                  *)
LEMMA Added ==
  ASSUME CrontabAssumption, TypeOK, NEW p \in Process, job[p] # NoSection
  PROVE  /\ job[p] \in Section /\ job[p] \in todo[p] /\ profile[p] \in Profile
         /\ copy[p] \in Seq(Line)
         /\ NewEntries(p) \in Seq(Entry) /\ Once(NewEntries(p))
         /\ \A x : Has(NewEntries(p), x) <=> op[p] = "schedule"
              /\ x \in EntriesOf(profile[p], job[p])
         /\ \A x : Has(NewEntries(p), x) =>
              x \in Entry /\ x.profile = profile[p] /\ x.command = ResticCommand(job[p])
<1>1. job[p] \in Section /\ job[p] \in todo[p] /\ profile[p] \in Profile
        /\ copy[p] \in Seq(Line)
  BY DEF TypeOK
<1>2. CASE op[p] = "schedule"
  <2>1. NewEntries(p) = Entries(profile[p], job[p])
    BY <1>2 DEF NewEntries
  <2>2. QED
    BY <1>1, <1>2, <2>1, EntriesWritten
<1>3. CASE op[p] # "schedule"
  <2>1. NewEntries(p) = <<>>
    BY <1>3 DEF NewEntries
  <2>2. \A x : ~Has(<<>>, x)
    BY DEF Has
  <2>3. Once(<<>>) /\ <<>> \in Seq(Entry)
    BY DEF Once
  <2>4. QED
    BY <1>1, <1>3, <2>1, <2>2, <2>3
<1>4. QED
  BY <1>2, <1>3

(* A step keeps the types.                                                 *)
LEMMA TypesStep ==
  ASSUME CrontabAssumption, TypeOK, [Next]_vars
  PROVE  TypeOK'
<1>1. ASSUME NEW p \in Process, NEW name \in Profile, declared[name] # {},
             Begin(p, "schedule", name, declared[name])
      PROVE  TypeOK'
  BY <1>1 DEF TypeOK, Begin, Idle
<1>2. ASSUME NEW p \in Process, NEW name \in Profile, Begin(p, "unschedule", name, Section)
      PROVE  TypeOK'
  BY <1>2 DEF TypeOK, Begin, Idle
<1>3. ASSUME NEW p \in Process, LoadCurrent(p) PROVE TypeOK'
  BY <1>3 DEF TypeOK, LoadCurrent
<1>4. ASSUME NEW p \in Process, Write(p) PROVE TypeOK'
  <2>1. job[p] # NoSection /\ ~Inverted(copy[p])
    BY <1>4 DEF Write
  <2>2. crontab' \in Seq(Line)
    <3>1. Update(copy[p], HasConfigFile(p), profile[p], job[p], NewEntries(p)) \in Seq(Line)
      BY <2>1, Added, UpdateHas
    <3>2. QED
      BY <1>4, <3>1 DEF Write
  <2>3. installed' \subseteq Job
    BY <1>4, <2>1, Added DEF TypeOK, Write, Job
  <2>4. <<>> \in Seq(Line)
    OBVIOUS
  <2>5. QED
    BY <1>4, <2>2, <2>3, <2>4 DEF TypeOK, Write, Leave
<1>5. ASSUME NEW p \in Process, Fail(p) PROVE TypeOK'
  <2>1. <<>> \in Seq(Line)
    OBVIOUS
  <2>2. QED
    BY <1>5, <2>1 DEF TypeOK, Fail, Leave
<1>6. CASE Redeclare
  BY <1>6 DEF TypeOK, Redeclare, Declarations, process
<1>7. CASE AddLine
  <2>1. PICK i \in 1 .. Len(crontab) + 1, line \in Foreign :
               crontab' = InsertAt(crontab, i, line)
    BY <1>7 DEF AddLine
  <2>2. crontab' \in Seq(Line)
    BY <2>1, AddHas DEF TypeOK
  <2>3. foreign' \in Seq(Foreign)
    <3>1. Kept(crontab', Foreign) \in Seq(Line \cap Foreign)
      BY <2>2, KeptIn
    <3>2. QED
      BY <1>7, <3>1 DEF AddLine
  <2>4. QED
    BY <1>7, <2>2, <2>3 DEF TypeOK, AddLine, process
<1>8. CASE DeleteMarker
  <2>1. PICK i \in 1 .. Len(crontab) : crontab[i] \in {Start, End}
               /\ crontab' = RemoveAt(crontab, i)
    BY <1>8 DEF DeleteMarker
  <2>2. crontab' \in Seq(Line)
    BY <2>1, DeleteHas DEF TypeOK
  <2>3. damage' \in 0 .. MaxDamage
    BY <1>8 DEF TypeOK, DeleteMarker, CrontabAssumption
  <2>4. QED
    BY <1>8, <2>2, <2>3 DEF TypeOK, DeleteMarker, process
<1>9. CASE UNCHANGED vars
  BY <1>9 DEF TypeOK, vars, process
<1>10. QED
  BY <1>1, <1>2, <1>3, <1>4, <1>5, <1>6, <1>7, <1>8, <1>9
     DEF Next, CreateSchedule, RemoveSchedule

(* A step keeps the turns: what is loaded is not stale when it is          *)
(* written.                                                                *)
LEMMA TurnsStep ==
  ASSUME CrontabAssumption, TypeOK, Turns, TakeTurns, [Next]_vars
  PROVE  Turns'
<1>1. ASSUME NEW p \in Process, NEW command, NEW name, NEW sections,
             Begin(p, command, name, sections)
      PROVE  Turns'
  <2>1. \A q \in Process : todo[q] = {} /\ job[q] = NoSection
    BY <1>1, AllIdle DEF Begin
  <2>2. QED
    BY <1>1, <2>1 DEF Begin, Turns, TypeOK
<1>2. ASSUME NEW p \in Process, LoadCurrent(p) PROVE Turns'
  BY <1>2 DEF LoadCurrent, Turns, TypeOK
<1>3. ASSUME NEW p \in Process, Write(p) PROVE Turns'
  <2>1. job[p] \in todo[p]
    BY <1>3 DEF Write, TypeOK
  <2>2. \A q \in Process \ {p} : todo[q] = {} /\ job[q] = NoSection
    BY <2>1 DEF Turns, TypeOK
  <2>3. job' = [job EXCEPT ![p] = NoSection]
          /\ todo' = [todo EXCEPT ![p] = todo[p] \ {job[p]}]
    BY <1>3 DEF Write, Leave
  <2>4. QED
    BY <2>2, <2>3 DEF Turns, TypeOK
<1>4. ASSUME NEW p \in Process, Fail(p) PROVE Turns'
  <2>1. /\ job' = [job EXCEPT ![p] = NoSection] /\ todo' = [todo EXCEPT ![p] = {}]
        /\ copy' = [copy EXCEPT ![p] = <<>>] /\ crontab' = crontab
    BY <1>4 DEF Fail, Leave
  <2>2. QED
    BY <2>1 DEF Turns, TypeOK
<1>5. CASE Redeclare
  BY <1>5 DEF Redeclare, process, Turns
<1>6. CASE AddLine \/ DeleteMarker
  <2>1. \A q \in Process : todo[q] = {} /\ job[q] = NoSection
    BY <1>6, AllIdle DEF AddLine, DeleteMarker
  <2>2. QED
    BY <1>6, <2>1 DEF AddLine, DeleteMarker, process, Turns
<1>7. CASE UNCHANGED vars
  BY <1>7 DEF Turns, vars, process
<1>8. QED
  BY <1>1, <1>2, <1>3, <1>4, <1>5, <1>6, <1>7 DEF Next, CreateSchedule, RemoveSchedule

(* A step schedules only what is declared.                                 *)
LEMMA DeclarableStep ==
  ASSUME CrontabAssumption, TypeOK, ScheduledDeclarable, [Next]_vars
  PROVE  ScheduledDeclarable'
<1>1. ASSUME NEW p \in Process, NEW name \in Profile,
             Begin(p, "schedule", name, declared[name])
      PROVE  ScheduledDeclarable'
  BY <1>1 DEF Begin, ScheduledDeclarable, Declarations, TypeOK
<1>2. ASSUME NEW p \in Process, NEW name \in Profile, Begin(p, "unschedule", name, Section)
      PROVE  ScheduledDeclarable'
  BY <1>2 DEF Begin, ScheduledDeclarable, TypeOK
<1>3. ASSUME NEW p \in Process, LoadCurrent(p) PROVE ScheduledDeclarable'
  BY <1>3 DEF LoadCurrent, ScheduledDeclarable
<1>4. ASSUME NEW p \in Process, Write(p) PROVE ScheduledDeclarable'
  <2>1. job[p] \in todo[p]
    BY <1>4 DEF Write, TypeOK
  <2>2. installed' \subseteq Declarable
    BY <1>4, <2>1 DEF Write, ScheduledDeclarable
  <2>3. QED
    BY <1>4, <2>2 DEF Write, Leave, ScheduledDeclarable, TypeOK
<1>5. ASSUME NEW p \in Process, Fail(p) PROVE ScheduledDeclarable'
  BY <1>5 DEF Fail, Leave, ScheduledDeclarable, TypeOK
<1>6. CASE Redeclare \/ AddLine \/ DeleteMarker
  BY <1>6 DEF Redeclare, AddLine, DeleteMarker, process, ScheduledDeclarable
<1>7. CASE UNCHANGED vars
  BY <1>7 DEF ScheduledDeclarable, vars, process
<1>8. QED
  BY <1>1, <1>2, <1>3, <1>4, <1>5, <1>6, <1>7 DEF Next, CreateSchedule, RemoveSchedule

(* What Write makes of the crontab, when it is the one that was loaded.    *)
LEMMA Written ==
  ASSUME CrontabAssumption, TypeOK, Turns, NEW p \in Process, Write(p)
  PROVE  /\ job[p] # NoSection /\ ~Inverted(crontab) /\ crontab \in Seq(Line)
         /\ crontab' = Update(crontab, HasConfigFile(p), profile[p], job[p], NewEntries(p))
BY DEF Write, Turns, TypeOK

(* A step keeps the user's lines.                                          *)
LEMMA ForeignStep ==
  ASSUME CrontabAssumption, TypeOK, Turns, ForeignKept, [Next]_vars
  PROVE  ForeignKept'
<1>1. ASSUME NEW p \in Process, Write(p) PROVE ForeignKept'
  <2>1. /\ job[p] # NoSection /\ ~Inverted(crontab) /\ crontab \in Seq(Line)
        /\ crontab' = Update(crontab, HasConfigFile(p), profile[p], job[p], NewEntries(p))
    BY <1>1, Written
  <2>2. NewEntries(p) \in Seq(Entry)
    BY <2>1, Added
  <2>3. Kept(crontab', Foreign) = Kept(crontab, Foreign)
    BY <2>1, <2>2, UpdateForeign
  <2>4. QED
    BY <1>1, <2>3 DEF ForeignKept, Write
<1>2. CASE AddLine
  BY <1>2 DEF AddLine, ForeignKept
<1>3. CASE DeleteMarker
  <2>1. PICK i \in 1 .. Len(crontab) : crontab[i] \in {Start, End}
               /\ crontab' = RemoveAt(crontab, i)
    BY <1>3 DEF DeleteMarker
  <2>2. Kept(crontab', Foreign) = Kept(crontab, Foreign)
    BY <2>1, DeleteHas DEF TypeOK
  <2>3. QED
    BY <1>3, <2>2 DEF ForeignKept, DeleteMarker
<1>4. ASSUME UNCHANGED <<crontab, foreign>> PROVE ForeignKept'
  BY <1>4 DEF ForeignKept
<1>5. QED
  BY <1>1, <1>2, <1>3, <1>4
     DEF Next, CreateSchedule, RemoveSchedule, Begin, LoadCurrent, Fail, Redeclare, vars

(* A step loses no schedule: no entry of a scheduled job is taken for one  *)
(* of another.                                                             *)
LEMMA LostStep ==
  ASSUME CrontabAssumption, TypeOK, Turns, ScheduledDeclarable, NoRetention,
         Beginnings = {},
         NothingLost, [Next]_vars
  PROVE  NothingLost'
<1>1. \A j \in installed : j[1] \in Profile /\ j[2] \in Section /\ j[2] # "retention"
                           /\ j = <<j[1], j[2]>>
  BY DEF TypeOK, Job, ScheduledDeclarable, NoRetention
<1>2. ASSUME NEW j \in installed, NEW x \in EntriesOf(j[1], j[2])
      PROVE  /\ x \in Entry /\ Has(crontab, x) /\ x.profile = j[1] /\ x.command = j[2]
  <2>1. x \in Entry /\ x.profile = j[1] /\ x.command = ResticCommand(j[2])
    BY <1>1, EntriesWritten
  <2>2. x \in EntriesIn(crontab)
    BY DEF NothingLost
  <2>3. QED
    BY <1>1, <2>1, <2>2, InEntries DEF ResticCommand
<1>3. ASSUME \A x \in Entry : Has(crontab, x) => Has(crontab', x), installed' = installed
      PROVE  NothingLost'
  <2> SUFFICES ASSUME NEW j \in installed, NEW x \in EntriesOf(j[1], j[2])
               PROVE  x \in EntriesIn(crontab')
    BY <1>3 DEF NothingLost
  <2>1. QED
    BY <1>2, <1>3, InEntries
<1>4. ASSUME NEW p \in Process, Write(p) PROVE NothingLost'
  <2>1. /\ job[p] # NoSection /\ ~Inverted(crontab) /\ crontab \in Seq(Line)
        /\ crontab' = Update(crontab, HasConfigFile(p), profile[p], job[p], NewEntries(p))
    BY <1>4, Written
  <2>2. /\ NewEntries(p) \in Seq(Entry)
        /\ job[p] \in Section /\ profile[p] \in Profile
        /\ \A x : Has(NewEntries(p), x) <=> op[p] = "schedule"
             /\ x \in EntriesOf(profile[p], job[p])
    BY <2>1, Added
  <2>3. \A x \in Entry :
          Has(NewEntries(p), x)
            \/ (Has(crontab, x) /\ ~Matches(x, HasConfigFile(p), profile[p], job[p]))
          => Has(crontab', x)
    BY <2>1, <2>2, UpdateHas
  <2>4. ASSUME NEW j \in installed', NEW x \in EntriesOf(j[1], j[2])
               PROVE x \in EntriesIn(crontab')
    <3>1. CASE j = <<profile[p], job[p]>>
      <4>1. op[p] = "schedule"
        BY <1>4, <3>1 DEF Write
      <4>2. x \in Entry
        BY <2>2, <3>1, EntriesWritten
      <4>3. QED
        BY <2>2, <2>3, <3>1, <4>1, <4>2, InEntries
    <3>2. CASE j # <<profile[p], job[p]>>
      <4>1. j \in installed
        BY <1>4, <3>2 DEF Write
      <4>2. /\ x \in Entry /\ Has(crontab, x) /\ x.profile = j[1] /\ x.command = j[2]
        BY <1>2, <4>1
      <4>3. ~Matches(x, HasConfigFile(p), profile[p], job[p])
        BY <1>1, <3>2, <4>1, <4>2 DEF Matches
      <4>4. QED
        BY <2>3, <4>2, <4>3, InEntries
    <3>3. QED
      BY <3>1, <3>2
  <2>5. QED
    BY <2>4 DEF NothingLost
<1>5. CASE AddLine
  <2>1. PICK i \in 1 .. Len(crontab) + 1, line \in Foreign :
               crontab' = InsertAt(crontab, i, line)
    BY <1>5 DEF AddLine
  <2>2. \A x : Has(crontab, x) => Has(crontab', x)
    BY <2>1, AddHas DEF TypeOK
  <2>3. QED
    BY <1>3, <1>5, <2>2 DEF AddLine
<1>6. CASE DeleteMarker
  <2>1. PICK i \in 1 .. Len(crontab) : crontab[i] \in {Start, End}
               /\ crontab' = RemoveAt(crontab, i)
    BY <1>6 DEF DeleteMarker
  <2>2. \A x \in Entry : Has(crontab, x) => Has(crontab', x)
    BY <2>1, DeleteHas DEF TypeOK
  <2>3. QED
    BY <1>3, <1>6, <2>2 DEF DeleteMarker
<1>7. ASSUME UNCHANGED <<crontab, installed>> PROVE NothingLost'
  BY <1>3, <1>7
<1>8. QED
  BY <1>4, <1>5, <1>6, <1>7
     DEF Next, CreateSchedule, RemoveSchedule, Begin, LoadCurrent, Fail, Redeclare, vars

(* What a job schedules matches what it deletes.                           *)
LEMMA AddedMatch ==
  ASSUME CrontabAssumption, TypeOK, ScheduledDeclarable, NoRetention,
         NEW p \in Process, job[p] # NoSection, NEW x, Has(NewEntries(p), x)
  PROVE  Matches(x, HasConfigFile(p), profile[p], job[p])
<1>1. /\ job[p] \in todo[p] /\ profile[p] \in Profile /\ op[p] = "schedule"
      /\ x \in Entry /\ x.profile = profile[p] /\ x.command = ResticCommand(job[p])
  BY Added
<1>2. job[p] # "retention"
  BY <1>1 DEF ScheduledDeclarable, NoRetention
<1>3. QED
  BY <1>1, <1>2 DEF Matches, HasConfigFile, ResticCommand

(* A step keeps the entries in the section, until a marker is deleted.     *)
LEMMA TidyStep ==
  ASSUME CrontabAssumption, TypeOK, Turns, TidyKept, [Next]_vars
  PROVE  TidyKept'
<1>1. ASSUME NEW p \in Process, Write(p) PROVE TidyKept'
  <2>1. /\ job[p] # NoSection /\ ~Inverted(crontab) /\ crontab \in Seq(Line)
        /\ crontab' = Update(crontab, HasConfigFile(p), profile[p], job[p], NewEntries(p))
    BY <1>1, Written
  <2>2. NewEntries(p) \in Seq(Entry)
    BY <2>1, Added
  <2>3. Tidy(crontab) => Tidy(crontab')
    BY <2>1, <2>2, UpdateTidy
  <2>4. QED
    BY <1>1, <2>3 DEF TidyKept, Write
<1>2. CASE AddLine
  <2>1. PICK i \in 1 .. Len(crontab) + 1, line \in Foreign :
               crontab' = InsertAt(crontab, i, line)
    BY <1>2 DEF AddLine
  <2>2. Tidy(crontab) => Tidy(crontab')
    BY <2>1, AddHas DEF TypeOK
  <2>3. QED
    BY <1>2, <2>2 DEF TidyKept, AddLine
<1>3. CASE DeleteMarker
  <2>1. damage \in Nat /\ damage' = damage + 1
    BY <1>3 DEF DeleteMarker, TypeOK, CrontabAssumption
  <2>2. QED
    BY <2>1 DEF TidyKept
<1>4. ASSUME UNCHANGED <<crontab, damage>> PROVE TidyKept'
  BY <1>4 DEF TidyKept
<1>5. QED
  BY <1>1, <1>2, <1>3, <1>4
     DEF Next, CreateSchedule, RemoveSchedule, Begin, LoadCurrent, Fail, Redeclare, vars

(* A step writes no entry twice.                                           *)
LEMMA OnceStep ==
  ASSUME CrontabAssumption, TypeOK, Turns, ScheduledDeclarable, NoRetention, TidyKept,
         NoDuplicates, [Next]_vars
  PROVE  NoDuplicates'
<1>0. /\ NoDuplicates <=> (damage = 0 => Once(crontab))
      /\ NoDuplicates' <=> (damage' = 0 => Once(crontab'))
  BY DEF NoDuplicates, Once
<1>1. ASSUME NEW p \in Process, Write(p) PROVE NoDuplicates'
  <2> SUFFICES ASSUME damage' = 0 PROVE Once(crontab')
    BY <1>0
  <2>1. /\ job[p] # NoSection /\ ~Inverted(crontab) /\ crontab \in Seq(Line)
        /\ crontab' = Update(crontab, HasConfigFile(p), profile[p], job[p], NewEntries(p))
    BY <1>1, Written
  <2>2. NewEntries(p) \in Seq(Entry) /\ Once(NewEntries(p))
    BY <2>1, Added
  <2>3. \A x \in Entry : Has(NewEntries(p), x)
          => Matches(x, HasConfigFile(p), profile[p], job[p])
    BY <2>1, AddedMatch
  <2>4. Tidy(crontab) /\ Once(crontab)
    BY <1>0, <1>1 DEF Write, TidyKept
  <2>5. QED
    BY <2>1, <2>2, <2>3, <2>4, UpdateOnce
<1>2. CASE AddLine
  <2>1. PICK i \in 1 .. Len(crontab) + 1, line \in Foreign :
               crontab' = InsertAt(crontab, i, line)
    BY <1>2 DEF AddLine
  <2>2. Once(crontab) => Once(crontab')
    BY <2>1, AddHas DEF TypeOK
  <2>3. QED
    BY <1>0, <1>2, <2>2 DEF AddLine
<1>3. CASE DeleteMarker
  BY <1>0, <1>3 DEF DeleteMarker, TypeOK
<1>4. ASSUME UNCHANGED <<crontab, damage>> PROVE NoDuplicates'
  BY <1>4 DEF NoDuplicates
<1>5. QED
  BY <1>1, <1>2, <1>3, <1>4
     DEF Next, CreateSchedule, RemoveSchedule, Begin, LoadCurrent, Fail, Redeclare, vars

(* A step that unschedules a job, while it is declared and the markers     *)
(* are there, leaves none of its entries.                                  *)
LEMMA GoneStep ==
  ASSUME CrontabAssumption, TypeOK, Turns, ScheduledDeclarable, NoRetention, TidyKept,
         [Next]_vars, NEW j \in installed \ installed', damage = 0, j[2] \in declared[j[1]]
  PROVE  EntriesOf(j[1], j[2]) \cap EntriesIn(crontab') = {}
<1>1. PICK p \in Process : Write(p)
  BY DEF Next, CreateSchedule, RemoveSchedule, Begin, LoadCurrent, Fail, Redeclare, AddLine,
         DeleteMarker, vars
<1>2. /\ job[p] # NoSection /\ ~Inverted(crontab) /\ crontab \in Seq(Line)
      /\ crontab' = Update(crontab, HasConfigFile(p), profile[p], job[p], NewEntries(p))
  BY <1>1, Written
<1>3. op[p] # "schedule" /\ j = <<profile[p], job[p]>>
  BY <1>1 DEF Write
<1>4. j[1] = profile[p] /\ j[2] = job[p] /\ HasConfigFile(p)
  BY <1>3 DEF HasConfigFile
<1>5. /\ job[p] \in Section /\ profile[p] \in Profile
      /\ NewEntries(p) \in Seq(Entry) /\ \A x : ~Has(NewEntries(p), x)
  BY <1>2, <1>3, Added
<1>6. job[p] # "retention"
  BY <1>3, <1>5 DEF ScheduledDeclarable, NoRetention
<1>7. ASSUME NEW x \in EntriesOf(profile[p], job[p])
      PROVE  x \in Entry /\ Matches(x, HasConfigFile(p), profile[p], job[p])
  <2>1. x \in Entry /\ x.profile = profile[p] /\ x.command = ResticCommand(job[p])
    BY <1>5, EntriesWritten
  <2>2. QED
    BY <1>4, <1>6, <2>1 DEF Matches, ResticCommand
<1>8. \A x \in Entry : Has(crontab', x)
        => Has(crontab, x) /\ ~Matches(x, HasConfigFile(p), profile[p], job[p])
  BY <1>2, <1>5, UpdateHas DEF TidyKept
<1>9. \A x \in EntriesOf(profile[p], job[p]) : x \notin EntriesIn(crontab')
  BY <1>7, <1>8, InEntries
<1>10. QED
  BY <1>4, <1>9

(* All of it holds in the beginning.                                       *)
LEMMA Initially ==
  ASSUME CrontabAssumption, Init
  PROVE  TypeOK /\ Turns /\ ScheduledDeclarable /\ TidyKept /\ CrontabKept
<1>1. crontab = <<>> /\ foreign = <<>> /\ installed = {}
  BY DEF Init
<1>2. Kept(<<>>, Foreign) = <<>>
  BY KeptEmpty
<1>3. ForeignKept
  BY <1>1, <1>2 DEF ForeignKept
<1>4. NothingLost
  BY <1>1 DEF NothingLost
<1>5. Len(crontab) = 0
  BY <1>1
<1>6. NoDuplicates /\ TidyKept
  BY <1>5 DEF NoDuplicates, TidyKept, Tidy
<1>7. Turns /\ ScheduledDeclarable
  BY DEF Init, Turns, ScheduledDeclarable
<1>8. TypeOK
  <2>1. <<>> \in Seq(Line) /\ <<>> \in Seq(Foreign)
    OBVIOUS
  <2>2. QED
    BY <2>1 DEF TypeOK, Init, Declarations, CrontabAssumption
<1>9. QED
  BY <1>3, <1>4, <1>6, <1>7, <1>8 DEF CrontabKept

(* The variables keep their types: what LoadCurrent, Update and the        *)
(* commands make is a crontab again, for any number of processes, with     *)
(* turns or without.                                                       *)
THEOREM CrontabTypes == Spec => []TypeOK
<1>1. Init => TypeOK
  BY CrontabAssumption, Initially
<1>2. TypeOK /\ [Next]_vars => TypeOK'
  BY CrontabAssumption, TypesStep
<1>3. QED
  BY <1>1, <1>2, PTL DEF Spec

(* The inductive invariant.                                                *)
LEMMA TurnsTaken ==
  ASSUME TakeTurns PROVE Spec => []TurnsInv
<1>1. Init => TurnsInv
  BY CrontabAssumption, Initially DEF TurnsInv, CrontabKept
<1>2. TurnsInv /\ [Next]_vars => TurnsInv'
  <2> SUFFICES ASSUME TurnsInv, [Next]_vars PROVE TurnsInv'
    OBVIOUS
  <2>1. TypeOK /\ Turns /\ ScheduledDeclarable /\ ForeignKept /\ TidyKept
    BY DEF TurnsInv
  <2>2. TypeOK' /\ Turns' /\ ScheduledDeclarable'
    BY <2>1, CrontabAssumption, TypesStep, TurnsStep, DeclarableStep
  <2>3. ForeignKept' /\ TidyKept'
    BY <2>1, CrontabAssumption, ForeignStep, TidyStep
  <2>4. QED
    BY <2>2, <2>3 DEF TurnsInv
<1>3. QED
  BY <1>1, <1>2, PTL DEF Spec

(* Processes that take turns keep the lines of the user, in their order,   *)
(* whatever is scheduled and whatever marker is deleted (Update,           *)
(* crond/crontab.go).                                                      *)
THEOREM UserLinesKept ==
  ASSUME TakeTurns PROVE Spec => []ForeignKept
<1>1. TurnsInv => ForeignKept
  BY DEF TurnsInv
<1>2. QED
  BY <1>1, TurnsTaken, PTL

(* Scheduling a job again does not make it run twice: what Update adds,    *)
(* it has deleted before (crond/crontab.go:36), as the entries are all in  *)
(* the section it replaces.                                                *)
THEOREM ScheduledOnce ==
  ASSUME TakeTurns, NoRetention PROVE Spec => []NoDuplicates
<1> DEFINE Inv == TurnsInv /\ NoDuplicates
<1>1. Init => NoDuplicates
  BY CrontabAssumption, Initially DEF CrontabKept
<1>2. TurnsInv /\ NoDuplicates /\ [Next]_vars => NoDuplicates'
  BY CrontabAssumption, OnceStep DEF TurnsInv
<1>3. QED
  BY <1>1, <1>2, TurnsTaken, PTL DEF Spec

(* Schedules and the user's lines come through every command, each of      *)
(* them once. A schedule of a job is lost to no other job's command, also  *)
(* when the markers are gone.                                              *)
THEOREM CrontabStaysKept ==
  ASSUME TakeTurns, NoRetention, Beginnings = {} PROVE Spec => []CrontabKept
<1>1. Init => NothingLost
  BY CrontabAssumption, Initially DEF CrontabKept
<1>2. TurnsInv /\ NothingLost /\ [Next]_vars => NothingLost'
  BY CrontabAssumption, LostStep DEF TurnsInv
<1>3. Spec => []NothingLost
  BY <1>1, <1>2, TurnsTaken, PTL DEF Spec
<1>4. NothingLost /\ NoDuplicates /\ ForeignKept => CrontabKept
  BY DEF CrontabKept
<1>5. QED
  BY <1>3, <1>4, UserLinesKept, ScheduledOnce, PTL

(* What unschedule is asked to remove is gone after it (RemoveJob,         *)
(* schedule/handler_crond.go).                                             *)
THEOREM UnscheduleRemoves ==
  ASSUME TakeTurns, NoRetention PROVE Spec => Unscheduled
<1> DEFINE Gone == \A j \in installed \ installed' :
                     damage = 0 /\ j[2] \in declared[j[1]]
                       => EntriesOf(j[1], j[2]) \cap EntriesIn(crontab') = {}
<1>1. TurnsInv /\ [Next]_vars => Gone
  BY CrontabAssumption, GoneStep DEF TurnsInv
<1>2. QED
  BY <1>1, TurnsTaken, PTL DEF Spec, Unscheduled

(***************************************************************************)
(* ScheduleTimes                                                           *)
(***************************************************************************)

(* What the units of a list stand for.                                     *)
LEMMA UnitNumbers ==
  ASSUME NEW u \in Unit
  PROVE  /\ Len(u) = 1 => u[1] \in Nat /\ UnitValues(u) = {u[1]}
         /\ Len(u) # 1 => u[1] \in Nat /\ u[2] \in Nat /\ Len(u) = 2
         /\ Len(u) # 1 /\ u[1] <= u[2] => UnitValues(u) = u[1] .. u[2]
         /\ UnitValues(u) \subseteq Nat /\ IsFiniteSet(UnitValues(u)) /\ UnitValues(u) # {}
<1>1. CASE u \in [1 .. 1 -> Nat]
  <2>1. Len(u) = 1 /\ u[1] \in Nat
    BY <1>1
  <2>2. UnitValues(u) = {u[1]}
    BY <2>1 DEF UnitValues
  <2>3. IsFiniteSet({u[1]})
    BY FS_Singleton
  <2>4. QED
    BY <2>1, <2>2, <2>3
<1>2. CASE u \in [1 .. 2 -> Nat]
  <2>1. Len(u) = 2 /\ u[1] \in Nat /\ u[2] \in Nat
    BY <1>2
  <2> DEFINE E == {u[1], u[2]}
  <2>2. Min(E) \in E /\ \A y \in E : Min(E) <= y
    <3>1. \E x \in E : \A y \in E : x <= y
      BY <2>1
    <3>2. QED
      BY <3>1, Zenon DEF Min
  <2>3. Max(E) \in E /\ \A y \in E : Max(E) >= y
    <3>1. \E x \in E : \A y \in E : x >= y
      BY <2>1
    <3>2. QED
      BY <3>1, Zenon DEF Max
  <2> HIDE DEF E
  <2>4. UnitValues(u) = Min(E) .. Max(E)
    BY <2>1 DEF UnitValues, E
  <2>5. Min(E) \in Nat /\ Max(E) \in Nat /\ Min(E) <= Max(E)
    BY <2>1, <2>2, <2>3 DEF E
  <2>6. IsFiniteSet(Min(E) .. Max(E))
    BY <2>5, FS_Interval
  <2>7. u[1] <= u[2] => Min(E) = u[1] /\ Max(E) = u[2]
    BY <2>1, <2>2, <2>3 DEF E
  <2>8. Min(E) \in Min(E) .. Max(E) /\ Min(E) .. Max(E) \subseteq Nat
    BY <2>5
  <2>9. QED
    BY <2>1, <2>4, <2>6, <2>7, <2>8
<1>3. QED
  BY <1>1, <1>2 DEF Unit

(* The ends of a range are in it, whichever is the lower one.              *)
LEMMA UnitEnds ==
  ASSUME NEW u \in Unit, Len(u) # 1
  PROVE  u[1] \in UnitValues(u) /\ u[2] \in UnitValues(u)
<1>1. u[1] \in Nat /\ u[2] \in Nat
  BY UnitNumbers
<1> DEFINE E == {u[1], u[2]}
<1>2. Min(E) \in E /\ \A y \in E : Min(E) <= y
  <2>1. \E x \in E : \A y \in E : x <= y
    BY <1>1
  <2>2. QED
    BY <2>1, Zenon DEF Min
<1>3. Max(E) \in E /\ \A y \in E : Max(E) >= y
  <2>1. \E x \in E : \A y \in E : x >= y
    BY <1>1
  <2>2. QED
    BY <2>1, Zenon DEF Max
<1> HIDE DEF E
<1>4. UnitValues(u) = Min(E) .. Max(E)
  BY DEF UnitValues, E
<1>5. u[1] \in E /\ u[2] \in E /\ E \subseteq Nat
  BY <1>1 DEF E
<1>6. \A y \in E : y \in Min(E) .. Max(E)
  <2>1. Min(E) \in Nat /\ Max(E) \in Nat
    BY <1>2, <1>3, <1>5
  <2>2. QED
    BY <2>1, <1>2, <1>3, <1>5
<1>7. QED
  BY <1>4, <1>5, <1>6

(* A list of units stands for finitely many values, and for none when      *)
(* there are none.                                                         *)
LEMMA ListValues ==
  ASSUME NEW units \in Units
  PROVE  /\ ValueOf(units).values \subseteq Nat
         /\ IsFiniteSet(ValueOf(units).values)
         /\ ValueOf(units).values = {} <=> units = <<>>
         /\ \A x : x \in ValueOf(units).values <=> \E i \in DOMAIN units : x \in UnitValues(units[i])
<1> DEFINE V(i) == UnitValues(units[i])
           T == {V(i) : i \in 1 .. Len(units)}
<1>1. DOMAIN units = 1 .. Len(units) /\ Len(units) \in Nat
  BY DEF Units
<1>2. \A i \in 1 .. Len(units) : units[i] \in Unit
  BY DEF Units
<1>3. \A i \in 1 .. Len(units) : V(i) \subseteq Nat /\ IsFiniteSet(V(i)) /\ V(i) # {}
  BY <1>2, UnitNumbers
<1> HIDE DEF V
<1>4. [i \in 1 .. Len(units) |-> V(i)] \in Surjection(1 .. Len(units), T)
  BY DEF Surjection
<1>5. IsFiniteSet(T)
  <2> HIDE DEF T
  <2>1. IsFiniteSet(1 .. Len(units))
    BY <1>1, FS_Interval
  <2>2. QED
    BY <1>4, <2>1, FS_Surjection
<1>6. \A S \in T : IsFiniteSet(S)
  BY <1>3
<1>7. IsFiniteSet(UNION T)
  <2> HIDE DEF T
  <2>1. QED
    BY <1>5, <1>6, FS_UNION
<1>8. ValueOf(units).values = UNION T
  BY <1>1, Zenon DEF ValueOf, V
<1>9. UNION T \subseteq Nat
  BY <1>3
<1>10. UNION T = {} <=> units = <<>>
  <2>1. CASE units = <<>>
    <3>1. 1 .. Len(units) = {}
      BY <2>1
    <3>2. QED
      BY <3>1, <2>1
  <2>2. CASE units # <<>>
    <3>1. 1 \in 1 .. Len(units)
      BY <2>2, <1>1 DEF Units
    <3>2. QED
      BY <3>1, <1>3, <2>2
  <2>3. QED
    BY <2>1, <2>2
<1>11. \A x : x \in UNION T <=> \E i \in 1 .. Len(units) : x \in V(i)
  OBVIOUS
<1>12. \A x : x \in UNION T <=> \E i \in DOMAIN units : x \in UnitValues(units[i])
  BY <1>1, <1>11, Zenon DEF V
<1> HIDE DEF T
<1>13. QED
  BY <1>7, <1>8, <1>9, <1>10, <1>12

(* A finite set of natural numbers does not go on for ever: after each of  *)
(* them there is one whose successor is not in it.                         *)
LEMMA RunEnd ==
  ASSUME NEW S \in SUBSET Nat, IsFiniteSet(S), NEW x \in S
  PROVE  \E z \in S : x <= z /\ x .. z \subseteq S /\ z + 1 \notin S
<1> DEFINE Z == {z \in Nat : x <= z /\ z + 1 \notin S}
           n == Cardinality(S)
<1>1. n \in Nat
  BY FS_CardinalityType
<1>2. Z # {}
  <2>1. SUFFICES ASSUME Z = {} PROVE FALSE
    OBVIOUS
  <2>2. \A z \in Nat : x <= z => z + 1 \in S
    BY <2>1
  <2> HIDE DEF Z, n
  <2>3. x .. (x + n) \subseteq S
    <3>1. SUFFICES ASSUME NEW y \in x .. (x + n) PROVE y \in S
      OBVIOUS
    <3>2. CASE y = x
      BY <3>2
    <3>3. CASE y # x
      <4>1. y - 1 \in Nat /\ x <= y - 1 /\ (y - 1) + 1 = y
        BY <3>1, <3>3, <1>1
      <4>2. QED
        BY <4>1, <2>2
    <3>4. QED
      BY <3>2, <3>3
  <2>4. Cardinality(x .. (x + n)) <= n
    BY <2>3, FS_Subset DEF n
  <2>5. x \in Int /\ x + n \in Int /\ ~(x > x + n) /\ (x + n) - x + 1 = n + 1
    BY <1>1
  <2>6. Cardinality(x .. (x + n)) = n + 1
    BY <2>5, FS_Interval
  <2>7. QED
    BY <2>4, <2>6, <1>1
<1> HIDE DEF n
<1>3. Z \in SUBSET Nat
  OBVIOUS
<1>4. PICK z \in Z : \A y \in Z : z <= y
  <2> HIDE DEF Z
  <2>1. QED
    BY <1>2, <1>3, Minimum
<1>5. x .. z \subseteq S
  <2>1. SUFFICES ASSUME NEW y \in x .. z PROVE y \in S
    OBVIOUS
  <2>2. CASE y = x
    BY <2>2
  <2>3. CASE y # x
    <3>1. y - 1 \in Nat /\ x <= y - 1 /\ (y - 1) + 1 = y /\ ~(z <= y - 1)
      BY <2>1, <2>3, <1>4
    <3>2. QED
      BY <3>1, <1>4
  <2>4. QED
    BY <2>2, <2>3
<1>6. z \in x .. z /\ x <= z
  BY <1>4
<1>7. QED
  BY <1>4, <1>5, <1>6

(* And a first, before which there is none.                                *)
LEMMA RunBegin ==
  ASSUME NEW S \in SUBSET Nat, NEW x \in S
  PROVE  \E y \in S : y <= x /\ y .. x \subseteq S /\ y - 1 \notin S
<1> DEFINE Y == {y \in Nat : y <= x /\ y .. x \subseteq S}
<1>1. x \in Y
  BY x \in Nat
<1>2. PICK y \in Y : \A w \in Y : y <= w
  <2>1. Y \in SUBSET Nat /\ Y # {}
    BY <1>1
  <2> HIDE DEF Y
  <2>2. QED
    BY <2>1, Minimum
<1>3. y \in S
  <2>1. y \in y .. x
    BY <1>2
  <2>2. QED
    BY <2>1, <1>2
<1>4. y - 1 \notin S
  <2>1. SUFFICES ASSUME y - 1 \in S PROVE FALSE
    OBVIOUS
  <2>2. \A w \in (y - 1) .. x : w = y - 1 \/ w \in y .. x
    BY <1>2
  <2>3. (y - 1) .. x \subseteq S
    BY <2>1, <2>2, <1>2
  <2>4. y - 1 \in Nat /\ y - 1 <= x
    BY <2>1, <1>2
  <2>5. y - 1 \in Y
    BY <2>3, <2>4
  <2>6. y <= y - 1
    BY <2>5, <1>2
  <2>7. QED
    BY <2>6, <1>2
<1>5. QED
  BY <1>2, <1>3, <1>4

(* Every value is in one of the ranges, which only hold values.            *)
LEMMA RangesHold ==
  ASSUME NEW v, v.values \subseteq Nat, IsFiniteSet(v.values)
  PROVE  /\ \A r \in GetRanges(v) : /\ r[1] \in Nat /\ r[2] \in Nat /\ r[1] <= r[2]
                                    /\ r = <<r[1], r[2]>>
                                    /\ r[1] .. r[2] \subseteq v.values
         /\ \A x \in v.values : \E r \in GetRanges(v) : x \in r[1] .. r[2]
<1>1. ASSUME NEW r \in GetRanges(v)
      PROVE  /\ r[1] \in Nat /\ r[2] \in Nat /\ r[1] <= r[2]
             /\ r = <<r[1], r[2]>>
             /\ r[1] .. r[2] \subseteq v.values
  BY <1>1 DEF GetRanges
<1>2. ASSUME NEW x \in v.values PROVE \E r \in GetRanges(v) : x \in r[1] .. r[2]
  <2>1. PICK z \in v.values : x <= z /\ x .. z \subseteq v.values /\ z + 1 \notin v.values
    BY RunEnd
  <2>2. PICK y \in v.values : y <= x /\ y .. x \subseteq v.values /\ y - 1 \notin v.values
    BY RunBegin
  <2>3. y \in Nat /\ z \in Nat /\ x \in Nat
    OBVIOUS
  <2>4. y .. z \subseteq v.values
    <3>1. \A w \in y .. z : w \in y .. x \/ w \in x .. z
      BY <2>1, <2>2, <2>3
    <3>2. QED
      BY <3>1, <2>1, <2>2
  <2>5. <<y, z>> \in GetRanges(v)
    BY <2>1, <2>2, <2>3, <2>4 DEF GetRanges
  <2>6. x \in <<y, z>>[1] .. <<y, z>>[2]
    BY <2>1, <2>2, <2>3
  <2>7. QED
    BY <2>5, <2>6
<1>3. QED
  BY <1>1, <1>2

(* A field of a crontab entry holds for the values of the event.           *)
LEMMA FormatHolds ==
  ASSUME NEW v, v.values \subseteq Nat, IsFiniteSet(v.values)
  PROVE  LET field == FormatRange(GetRanges(v))
         IN  /\ field = {} <=> v.values = {}
             /\ \A x : x \in v.values <=> \E r \in field : x \in r[1] .. r[2]
<1> DEFINE field == FormatRange(GetRanges(v))
           Shown(r) == IF r[2] - r[1] > 1 THEN {r} ELSE {<<r[1], r[1]>>, <<r[2], r[2]>>}
<1>1. \A s : s \in field <=> \E r \in GetRanges(v) : s \in Shown(r)
  BY DEF FormatRange
<1>2. ASSUME NEW r \in GetRanges(v)
      PROVE  /\ Shown(r) # {}
             /\ \A x : x \in r[1] .. r[2] <=> \E s \in Shown(r) : x \in s[1] .. s[2]
  <2>1. r[1] \in Nat /\ r[2] \in Nat /\ r[1] <= r[2]
    BY RangesHold
  <2>2. CASE r[2] - r[1] > 1
    BY <2>2
  <2>3. CASE ~(r[2] - r[1] > 1)
    <3>1. r[2] = r[1] \/ r[2] = r[1] + 1
      BY <2>1, <2>3
    <3>2. \A x : x \in r[1] .. r[2] <=> x \in r[1] .. r[1] \/ x \in r[2] .. r[2]
      BY <3>1, <2>1
    <3> DEFINE a == <<r[1], r[1]>>
               z == <<r[2], r[2]>>
    <3>3. \A x : (\E s \in Shown(r) : x \in s[1] .. s[2])
                   <=> x \in r[1] .. r[1] \/ x \in r[2] .. r[2]
      <4>1. Shown(r) = {a, z} /\ a[1] = r[1] /\ a[2] = r[1] /\ z[1] = r[2] /\ z[2] = r[2]
        BY <2>3
      <4> HIDE DEF a, z, Shown
      <4>2. QED
        BY <4>1, Zenon
    <3>4. QED
      BY <3>2, <3>3, <2>3
  <2>4. QED
    BY <2>2, <2>3
<1> HIDE DEF field, Shown
<1>3. ASSUME NEW x, x \in v.values PROVE \E s \in field : x \in s[1] .. s[2]
  <2>1. PICK r \in GetRanges(v) : x \in r[1] .. r[2]
    BY <1>3, RangesHold
  <2>2. PICK s \in Shown(r) : x \in s[1] .. s[2]
    BY <2>1, <1>2
  <2>3. QED
    BY <2>2, <1>1
<1>4. ASSUME NEW x, NEW s \in field, x \in s[1] .. s[2] PROVE x \in v.values
  <2>1. PICK r \in GetRanges(v) : s \in Shown(r)
    BY <1>1
  <2>2. x \in r[1] .. r[2]
    BY <2>1, <1>2, <1>4
  <2>3. QED
    BY <2>2, RangesHold
<1>5. field = {} => v.values = {}
  BY <1>3
<1>6. v.values = {} => field = {}
  <2>1. ASSUME v.values = {} PROVE GetRanges(v) = {}
    BY <2>1 DEF GetRanges
  <2>2. QED
    BY <2>1, <1>1
<1>7. QED
  BY <1>3, <1>4, <1>5, <1>6 DEF field

(* Division, and that quotient and rest are the only ones.                 *)
LEMMA Quotient ==
  ASSUME NEW a \in Nat, NEW m \in Nat \ {0}
  PROVE  /\ a \div m \in Nat /\ a % m \in Nat /\ a % m < m
         /\ a = m * (a \div m) + (a % m)
         /\ \A q \in Nat, r \in Nat : a = m * q + r /\ r < m => q = a \div m /\ r = a % m
<1>1. a \div m \in Nat /\ a % m \in Nat /\ a % m < m /\ a = m * (a \div m) + (a % m)
  OBVIOUS
<1>2. ASSUME NEW q \in Nat, NEW r \in Nat, a = m * q + r, r < m
      PROVE  q = a \div m /\ r = a % m
  <2> DEFINE p == a \div m
             s == a % m
  <2>1. p \in Nat /\ s \in Nat /\ s < m /\ a = m * p + s
    BY <1>1
  <2> HIDE DEF p, s
  <2>2. ASSUME NEW k \in Nat, NEW l \in Nat, k < l PROVE m * k + m <= m * l
    <3>1. l = k + 1 + (l - k - 1) /\ l - k - 1 \in Nat
      BY <2>2
    <3>2. m * l = m * k + m + m * (l - k - 1)
      BY <3>1
    <3>3. m * (l - k - 1) \in Nat /\ m * k \in Nat
      BY <3>1
    <3>4. QED
      BY <3>2, <3>3
  <2>3. ~(p < q)
    <3>1. SUFFICES ASSUME p < q PROVE FALSE
      OBVIOUS
    <3>2. m * p + m <= m * q
      BY <3>1, <2>1, <2>2
    <3>3. m * p \in Nat /\ m * q \in Nat
      BY <2>1
    <3>4. QED
      BY <3>2, <3>3, <2>1, <1>2
  <2>4. ~(q < p)
    <3>1. SUFFICES ASSUME q < p PROVE FALSE
      OBVIOUS
    <3>2. m * q + m <= m * p
      BY <3>1, <2>1, <2>2
    <3>3. m * p \in Nat /\ m * q \in Nat
      BY <2>1
    <3>4. QED
      BY <3>2, <3>3, <2>1, <1>2
  <2>5. p = q
    BY <2>3, <2>4, <2>1
  <2>6. QED
    BY <2>5, <2>1, <1>2 DEF p, s
<1>3. QED
  BY <1>1, <1>2

(* Days of the week are below Week; a day begins with its first minute of  *)
(* its first hour.                                                         *)
LEMMA Clocks ==
  ASSUME NEW t \in 0 .. Horizon
  PROVE  /\ At(t).WeekDay \in 0 .. Week - 1
         /\ At(t).Hour = 0 /\ At(t).Minute = 0 <=> t % MinutesADay = 0
<1> DEFINE m == MinutesAnHour
           H == HoursADay
           D == MinutesADay
<1>1. Week \in Nat \ {0} /\ m \in Nat \ {0} /\ H \in Nat \ {0} /\ Len(Dates) \in Nat
  BY CalendarAssumption
<1>2. D = H * m /\ D \in Nat \ {0}
  BY <1>1 DEF MinutesADay
<1>3. t \in Nat
  BY <1>1, <1>2 DEF Horizon
<1>4. /\ At(t).WeekDay = (t \div D) % Week
      /\ At(t).Hour = (t % D) \div m
      /\ At(t).Minute = t % m
  BY DEF At, Clock
<1> HIDE DEF m, H, D
<1> DEFINE q == t \div D
           r == t % D
<1>5. q \in Nat /\ r \in Nat /\ r < D /\ t = D * q + r
  BY <1>2, <1>3, Quotient
<1>6. At(t).WeekDay \in 0 .. Week - 1
  <2>1. q % Week \in Nat /\ q % Week < Week
    BY <1>1, <1>5, Quotient
  <2>2. QED
    BY <2>1, <1>1, <1>4
<1>7. t = m * (H * q) + r /\ H * q \in Nat
  <2> HIDE DEF q, r
  <2>1. \A x, y, z \in Nat : (x * y) * z = y * (x * z) /\ x * z \in Nat
    OBVIOUS
  <2>2. D * q = m * (H * q) /\ H * q \in Nat
    BY <2>1, <1>1, <1>2, <1>5
  <2>3. QED
    BY <2>2, <1>5
<1>8. ASSUME r = 0 PROVE r \div m = 0 /\ t % m = 0
  <2>1. t = m * (H * q) + 0 /\ H * q \in Nat /\ 0 < m
    BY <1>1, <1>8, <1>7
  <2>2. t % m = 0
    BY <2>1, <1>1, <1>3, Quotient
  <2>3. 0 = m * 0 + 0
    BY <1>1
  <2>4. 0 \div m = 0
    BY <2>3, <1>1, <2>1, Quotient
  <2>5. QED
    BY <2>2, <2>4, <1>8
<1>9. ASSUME r \div m = 0, t % m = 0 PROVE r = 0
  <2>1. r = m * 0 + (r % m) /\ r % m \in Nat /\ r % m < m
    BY <1>9, <1>1, <1>5, Quotient
  <2>2. r = r % m /\ r < m
    BY <2>1, <1>1, <1>5
  <2> HIDE DEF r
  <2>3. r = t % m
    BY <2>2, <1>1, <1>3, <1>5, <1>7, Quotient
  <2>4. QED
    BY <2>3, <1>9
<1>10. QED
  BY <1>4, <1>6, <1>8, <1>9 DEF r, D, m

(* The days of the week, the second Sunday included, as cron counts them.  *)
LEMMA SameDay ==
  ASSUME NEW x \in 0 .. Week, NEW d \in 0 .. Week - 1
  PROVE  /\ Same("WeekDay", x, d) <=> (IF x >= Week THEN x - Week ELSE x) = d
         /\ Same("WeekDay", x, d) <=> x = d \/ (x = Week /\ d = 0)
<1>1. Week \in Nat \ {0}
  BY CalendarAssumption
<1>2. ASSUME NEW a \in 0 .. Week - 1 PROVE a % Week = a
  <2>1. a \in Nat /\ a = Week * 0 + a /\ a < Week
    BY <1>1
  <2>2. QED
    BY <2>1, <1>1, Quotient
<1>3. Week % Week = 0
  <2>1. Week = Week * 1 + 0 /\ 0 < Week
    BY <1>1
  <2>2. QED
    BY <2>1, <1>1, Quotient
<1>4. d % Week = d
  BY <1>2
<1>5. CASE x = Week
  BY <1>1, <1>3, <1>4, <1>5 DEF Same
<1>6. CASE x # Week
  <2>1. x \in 0 .. Week - 1 /\ ~(x >= Week)
    BY <1>1, <1>6
  <2>2. x % Week = x
    BY <2>1, <1>2
  <2>3. QED
    BY <2>1, <2>2, <1>4, <1>6 DEF Same
<1>7. QED
  BY <1>5, <1>6

(* A number is listed when it is one of the values of the list.            *)
LEMMA FieldLists ==
  ASSUME NEW f, f # "WeekDay", NEW units \in Units, units # <<>>,
         NEW g \in {"Date", "Time"}, Forward(g, units), NEW x
  PROVE  Lists(f, units, x) <=> x \in ValueOf(units).values
<1>1. ASSUME NEW i \in DOMAIN units
      PROVE  x \in UnitValues(units[i])
               <=> IF Len(units[i]) = 1 THEN Same(f, units[i][1], x)
                   ELSE x \in units[i][1] .. units[i][2]
  <2>1. units[i] \in Unit
    BY DEF Units
  <2>2. CASE Len(units[i]) = 1
    BY <2>1, <2>2, UnitNumbers DEF Same
  <2>3. CASE Len(units[i]) # 1
    <3>1. Len(units[i]) = 2
      BY <2>1, <2>3, UnitNumbers
    <3>2. units[i][1] < units[i][2]
      BY <3>1 DEF Forward
    <3>3. units[i][1] \in Nat /\ units[i][2] \in Nat
      BY <2>1, <2>3, UnitNumbers
    <3>4. units[i][1] <= units[i][2]
      BY <3>2, <3>3
    <3>5. UnitValues(units[i]) = units[i][1] .. units[i][2]
      BY <2>1, <2>3, <3>4, UnitNumbers
    <3>6. QED
      BY <3>5, <2>3
  <2>4. QED
    BY <2>2, <2>3
<1>2. Lists(f, units, x)
        <=> \E i \in DOMAIN units :
              IF Len(units[i]) = 1 THEN Same(f, units[i][1], x)
              ELSE x \in units[i][1] .. units[i][2]
  BY DEF Lists, Star
<1>3. QED
  BY <1>1, <1>2, ListValues

(* The units of the days of the week, with their second Sunday.            *)
LEMMA DayUnits ==
  ASSUME NEW units \in Units
  PROVE  /\ WeekDayUnits(units) \in Units
         /\ DOMAIN WeekDayUnits(units) = DOMAIN units
         /\ WeekDayUnits(units) = <<>> <=> units = <<>>
         /\ \A i \in DOMAIN units :
              LET u == units[i]
                  d == WeekDayUnits(units)[i]
              IN  /\ Len(d) = Len(u) /\ u \in Unit /\ d \in Unit
                  /\ d[1] = IF u[1] = 0 /\ i # 1 THEN Week ELSE u[1]
                  /\ Len(u) = 2 => d[2] = IF u[2] = 0 THEN Week ELSE u[2]
<1>1. Week \in Nat
  BY CalendarAssumption
<1>2. DOMAIN WeekDayUnits(units) = DOMAIN units /\ DOMAIN units = 1 .. Len(units)
      /\ Len(units) \in Nat
  BY DEF WeekDayUnits, Units
<1>3. ASSUME NEW i \in DOMAIN units
      PROVE  LET u == units[i]
                 d == WeekDayUnits(units)[i]
             IN  /\ Len(d) = Len(u) /\ u \in Unit /\ d \in Unit
                 /\ d[1] = IF u[1] = 0 /\ i # 1 THEN Week ELSE u[1]
                 /\ Len(u) = 2 => d[2] = IF u[2] = 0 THEN Week ELSE u[2]
  <2> DEFINE u == units[i]
             d == [j \in DOMAIN u |-> IF u[j] = 0 /\ <<i, j>> # <<1, 1>> THEN Week ELSE u[j]]
  <2>1. WeekDayUnits(units)[i] = d
    BY DEF WeekDayUnits
  <2>2. u \in Unit
    BY DEF Units
  <2> HIDE DEF u
  <2>3. CASE u \in [1 .. 1 -> Nat]
    <3>1. Len(u) = 1 /\ DOMAIN u = 1 .. 1 /\ u[1] \in Nat
      BY <2>3
    <3>2. d[1] = IF u[1] = 0 /\ i # 1 THEN Week ELSE u[1]
      BY <3>1
    <3>3. d \in [1 .. 1 -> Nat]
      BY <3>1, <1>1
    <3>4. Len(d) = 1
      BY <3>3
    <3> HIDE DEF d
    <3>5. QED
      BY <3>1, <3>2, <3>3, <3>4, <2>1, <2>2 DEF u, Unit
  <2>4. CASE u \in [1 .. 2 -> Nat]
    <3>1. Len(u) = 2 /\ DOMAIN u = 1 .. 2 /\ u[1] \in Nat /\ u[2] \in Nat
      BY <2>4
    <3>2. d[1] = (IF u[1] = 0 /\ i # 1 THEN Week ELSE u[1])
          /\ d[2] = IF u[2] = 0 THEN Week ELSE u[2]
      BY <3>1
    <3>3. d \in [1 .. 2 -> Nat]
      <4>1. \A j \in 1 .. 2 : u[j] \in Nat
        BY <2>4
      <4>2. QED
        BY <3>1, <4>1, <1>1
    <3>4. Len(d) = 2
      BY <3>3
    <3> HIDE DEF d
    <3>5. QED
      BY <3>1, <3>2, <3>3, <3>4, <2>1, <2>2 DEF u, Unit
  <2>5. QED
    BY <2>2, <2>3, <2>4 DEF Unit
<1>4. WeekDayUnits(units) = [i \in 1 .. Len(units) |-> WeekDayUnits(units)[i]]
  BY <1>2 DEF WeekDayUnits
<1>5. WeekDayUnits(units) \in [1 .. Len(units) -> Unit]
  BY <1>2, <1>3, <1>4
<1>6. WeekDayUnits(units) \in Units /\ Len(WeekDayUnits(units)) = Len(units)
  BY <1>2, <1>5 DEF Units
<1>7. WeekDayUnits(units) = <<>> <=> units = <<>>
  BY <1>6 DEF Units
<1>8. QED
  BY <1>2, <1>3, <1>6, <1>7

(* A day of the week is listed when one of the values is that day.         *)
LEMMA DayLists ==
  ASSUME NEW units \in Units, units # <<>>, Forward("WeekDay", units),
         ValueOf(WeekDayUnits(units)).values \subseteq 0 .. Week,
         NEW x \in 0 .. Week - 1
  PROVE  Lists("WeekDay", units, x)
           <=> \E y \in ValueOf(WeekDayUnits(units)).values : Same("WeekDay", y, x)
<1> DEFINE days == WeekDayUnits(units)
           Listed(i) == LET u == units[i]
                        IN IF Len(u) = 1 THEN Same("WeekDay", u[1], x)
                           ELSE \/ x \in u[1] .. u[2]
                                \/ x = 0 /\ u[2] \in {0, Week}
                                \/ u[2] = 0 /\ x >= u[1]
<1>1. Lists("WeekDay", units, x) <=> \E i \in DOMAIN units : Listed(i)
  BY DEF Lists, Star
<1>2. days \in Units /\ DOMAIN days = DOMAIN units
  BY DayUnits
<1>3. \A y : y \in ValueOf(days).values <=> \E i \in DOMAIN units : y \in UnitValues(days[i])
  BY <1>2, ListValues
<1>4. Week \in Nat \ {0}
  BY CalendarAssumption
<1>5. ASSUME NEW i \in DOMAIN units
      PROVE  Listed(i) <=> \E y \in UnitValues(days[i]) : Same("WeekDay", y, x)
  <2> DEFINE u == units[i]
             d == days[i]
  <2>1. /\ Len(d) = Len(u) /\ u \in Unit /\ d \in Unit
        /\ d[1] = IF u[1] = 0 /\ i # 1 THEN Week ELSE u[1]
        /\ Len(u) = 2 => d[2] = IF u[2] = 0 THEN Week ELSE u[2]
    BY DayUnits
  <2>2. UnitValues(d) \subseteq 0 .. Week
    BY <1>3
  <2>3. \A y \in 0 .. Week : Same("WeekDay", y, x) <=> y = x \/ (y = Week /\ x = 0)
    BY SameDay
  <2>4. Len(u) = 2 => \/ u[1] < u[2] /\ (i = 1 \/ u[1] > 0)
                      \/ u[1] > 0 /\ u[2] = 0
    BY DEF Forward
  <2>5. Listed(i) <=> IF Len(u) = 1 THEN Same("WeekDay", u[1], x)
                      ELSE \/ x \in u[1] .. u[2]
                           \/ x = 0 /\ u[2] \in {0, Week}
                           \/ u[2] = 0 /\ x >= u[1]
    OBVIOUS
  <2> HIDE DEF u, d, Listed, days
  <2>6. CASE Len(u) = 1
    <3>1. UnitValues(d) = {d[1]} /\ d[1] \in 0 .. Week
      BY <2>1, <2>2, <2>6, UnitNumbers
    <3>2. u[1] \in 0 .. Week
      BY <3>1, <2>1, <1>4
    <3>3. Same("WeekDay", u[1], x) <=> Same("WeekDay", d[1], x)
      BY <2>3, <3>1, <3>2, <2>1, <1>4
    <3>4. QED
      BY <3>1, <3>3, <2>5, <2>6 DEF d
  <2>7. CASE Len(u) # 1
    <3>1. Len(u) = 2 /\ u[1] \in Nat /\ u[2] \in Nat /\ d[1] \in Nat /\ d[2] \in Nat
      BY <2>1, <2>7, UnitNumbers
    <3>2. d[1] = u[1]
      BY <3>1, <2>1, <2>4
    <3>3. UnitValues(d) # {} /\ (d[1] <= d[2] => UnitValues(d) = d[1] .. d[2])
      BY <2>1, <2>7, UnitNumbers
    <3>4. d[1] <= d[2]
      <4>1. CASE u[2] = 0
        <5>1. d[2] = Week /\ d[1] \in UnitValues(d)
          <6>1. d[2] = Week
            BY <4>1, <3>1, <2>1
          <6>2. d[1] \in UnitValues(d)
            BY <2>1, <2>7, UnitEnds
          <6>3. QED
            BY <6>1, <6>2
        <5>2. QED
          BY <5>1, <2>2, <1>4
      <4>2. CASE u[2] # 0
        BY <4>2, <3>1, <3>2, <2>1, <2>4
      <4>3. QED
        BY <4>1, <4>2
    <3>5. UnitValues(d) = d[1] .. d[2] /\ d[2] \in d[1] .. d[2]
      BY <3>1, <3>3, <3>4
    <3>6. d[2] <= Week
      BY <3>5, <2>2, <1>4
    <3>7. (\E y \in UnitValues(d) : Same("WeekDay", y, x))
            <=> x \in d[1] .. d[2] \/ (x = 0 /\ Week \in d[1] .. d[2])
      BY <2>2, <2>3, <3>5
    <3>8. Listed(i) <=> \/ x \in u[1] .. u[2]
                        \/ x = 0 /\ u[2] \in {0, Week}
                        \/ u[2] = 0 /\ x >= u[1]
      BY <2>5, <2>7
    <3>9. CASE u[2] = 0
      <4>1. d[2] = Week /\ u[1] > 0
        BY <3>9, <3>1, <2>1, <2>4
      <4>2. x \in u[1] .. u[2] <=> FALSE
        BY <4>1, <3>9, <3>1
      <4>3. x \in d[1] .. d[2] <=> x >= u[1]
        BY <4>1, <3>1, <3>2, <1>4
      <4>4. Week \in d[1] .. d[2]
        BY <4>1, <3>1, <3>4
      <4>5. QED
        BY <4>2, <4>3, <4>4, <3>7, <3>8, <3>9 DEF d
    <3>10. CASE u[2] # 0
      <4>1. d[2] = u[2] /\ (Week \in d[1] .. d[2] <=> u[2] = Week)
        BY <3>10, <3>1, <3>4, <3>6, <2>1, <1>4
      <4>2. QED
        BY <4>1, <3>2, <3>7, <3>8, <3>10 DEF d
    <3>11. QED
      BY <3>9, <3>10
  <2>8. QED
    BY <2>6, <2>7
<1> HIDE DEF Listed, days
<1>6. QED
  BY <1>1, <1>3, <1>5 DEF days

(* The fields crond and launchd have, and an event of numbers.             *)
Shared == {"Month", "Day", "WeekDay", "Hour", "Minute"}
Proper(e) ==
  /\ \A f \in Shared : e[f].values \subseteq Nat /\ IsFiniteSet(e[f].values)
  /\ e["WeekDay"].values \subseteq 0 .. Week

(* An event happens at a minute, by its values.                            *)
Meets(e, f, t) == \E x \in e[f].values : Same(f, x, At(t)[f])
Happens(e, t) == \A f \in Shared : e[f].values = {} \/ Meets(e, f, t)

(* The fields of a crontab entry.                                          *)
LEMMA EntryFields ==
  ASSUME NEW e
  PROVE  /\ \A f \in {"Minute", "Hour", "Day", "Month"} :
              CrontabEntry(e)[f] = FormatRange(GetRanges(e[f]))
         /\ CrontabEntry(e)["WeekDay"] = FormatWeekDays(e["WeekDay"].values)
  BY DEF CrontabEntry

(* crond starts a job when its event happens, unless both days are given.  *)
LEMMA CronHappens ==
  ASSUME NEW e, Proper(e), e["Day"].values = {} \/ e["WeekDay"].values = {},
         NEW t \in 0 .. Horizon
  PROVE  CronStarts(CrontabEntry(e), t) <=> Happens(e, t)
<1> DEFINE entry == CrontabEntry(e)
           open(f) == entry[f] = {}
           holds(f) == \E r \in entry[f] : At(t)[f] \in r[1] .. r[2]
<1>1. ASSUME NEW f \in {"Minute", "Hour", "Day", "Month"}
      PROVE  /\ open(f) <=> e[f].values = {}
             /\ holds(f) <=> Meets(e, f, t)
  <2>1. entry[f] = FormatRange(GetRanges(e[f]))
    BY EntryFields
  <2>2. e[f].values \subseteq Nat /\ IsFiniteSet(e[f].values)
    BY DEF Proper, Shared
  <2>3. /\ entry[f] = {} <=> e[f].values = {}
        /\ \A x : x \in e[f].values <=> \E r \in entry[f] : x \in r[1] .. r[2]
    BY <2>1, <2>2, FormatHolds
  <2>4. Meets(e, f, t) <=> At(t)[f] \in e[f].values
    BY DEF Meets, Same
  <2> HIDE DEF entry
  <2>5. QED
    BY <2>3, <2>4
<1>2. /\ open("WeekDay") <=> e["WeekDay"].values = {}
      /\ holds("WeekDay") <=> Meets(e, "WeekDay", t)
  <2> DEFINE V == e["WeekDay"].values
             Shown(x) == LET d == IF x >= Week THEN x - Week ELSE x IN <<d, d>>
             today == At(t)["WeekDay"]
  <2>1. entry["WeekDay"] = {Shown(x) : x \in V}
    BY EntryFields DEF FormatWeekDays
  <2>2. V \subseteq 0 .. Week /\ today \in 0 .. Week - 1 /\ Week \in Nat \ {0}
    BY Clocks, CalendarAssumption DEF Proper
  <2>3. ASSUME NEW x \in V
        PROVE  today \in Shown(x)[1] .. Shown(x)[2] <=> Same("WeekDay", x, today)
    <3> DEFINE d == IF x >= Week THEN x - Week ELSE x
    <3>1. Shown(x)[1] = d /\ Shown(x)[2] = d
      OBVIOUS
    <3>2. d \in Int /\ x \in 0 .. Week /\ today \in Int
      BY <2>2
    <3>3. Same("WeekDay", x, today) <=> d = today
      BY <2>2, SameDay
    <3> HIDE DEF d, Shown, today
    <3>4. today \in d .. d <=> d = today
      BY <3>2
    <3>5. QED
      BY <3>1, <3>3, <3>4
  <2> HIDE DEF Shown, entry, V
  <2>4. holds("WeekDay") <=> \E x \in V : today \in Shown(x)[1] .. Shown(x)[2]
    BY <2>1
  <2>5. open("WeekDay") <=> V = {}
    BY <2>1
  <2>6. QED
    BY <2>3, <2>4, <2>5 DEF Meets, V
<1>3. CronStarts(entry, t)
        <=> /\ \A f \in {"Minute", "Hour", "Month"} : open(f) \/ holds(f)
            /\ IF open("Day") \/ open("WeekDay")
               THEN \A f \in {"Day", "WeekDay"} : open(f) \/ holds(f)
               ELSE holds("Day") \/ holds("WeekDay")
  BY DEF CronStarts
<1> HIDE DEF open, holds, entry
<1>4. open("Day") \/ open("WeekDay")
  BY <1>1, <1>2
<1>5. \A f \in Shared : open(f) \/ holds(f) <=> e[f].values = {} \/ Meets(e, f, t)
  BY <1>1, <1>2 DEF Shared
<1>6. CronStarts(entry, t) <=> \A f \in Shared : open(f) \/ holds(f)
  BY <1>3, <1>4 DEF Shared
<1>7. QED
  BY <1>5, <1>6 DEF Happens, entry

-----------------------------------------------------------------------------
(* The tree of intervals, level by level.                                  *)
Grown1(e) == GrowTree({}, "Month", e["Month"].values)
Grown2(e) == GrowTree(Grown1(e), "Day", e["Day"].values)
Grown3(e) == GrowTree(Grown2(e), "WeekDay", e["WeekDay"].values)
Grown4(e) == GrowTree(Grown3(e), "Hour", e["Hour"].values)
Grown5(e) == GrowTree(Grown4(e), "Minute", e["Minute"].values)

(* CalendarIntervals grows the tree through these levels.                  *)
LEMMA Levels ==
  ASSUME NEW e
  PROVE  CalendarIntervals(e) = Grown5(e)
<1> DEFINE F(k) == [n \in 0 .. Len(ValuesOrder) |->
                      IF n = 0 THEN {}
                      ELSE GrowTree(k[n - 1], ValuesOrder[n], e[ValuesOrder[n]].values)]
           w == [n \in 0 .. 5 |-> CASE n = 0 -> {}
                                    [] n = 1 -> Grown1(e)
                                    [] n = 2 -> Grown2(e)
                                    [] n = 3 -> Grown3(e)
                                    [] n = 4 -> Grown4(e)
                                    [] n = 5 -> Grown5(e)]
           tree == CHOOSE k : k = F(k)
<1>1. /\ Len(ValuesOrder) = 5 /\ ValuesOrder[1] = "Month" /\ ValuesOrder[2] = "Day"
      /\ ValuesOrder[3] = "WeekDay" /\ ValuesOrder[4] = "Hour" /\ ValuesOrder[5] = "Minute"
  BY DEF ValuesOrder
<1>2. /\ w[0] = {} /\ w[1] = Grown1(e) /\ w[2] = Grown2(e) /\ w[3] = Grown3(e)
      /\ w[4] = Grown4(e) /\ w[5] = Grown5(e)
      /\ w = [n \in 0 .. 5 |-> w[n]]
  OBVIOUS
<1> HIDE DEF w
<1>3. ASSUME NEW n \in 0 .. 5
      PROVE  w[n] = IF n = 0 THEN {}
                    ELSE GrowTree(w[n - 1], ValuesOrder[n], e[ValuesOrder[n]].values)
  <2>1. n = 0 \/ n = 1 \/ n = 2 \/ n = 3 \/ n = 4 \/ n = 5
    OBVIOUS
  <2>2. /\ w[1] = GrowTree(w[0], ValuesOrder[1], e[ValuesOrder[1]].values)
        /\ w[2] = GrowTree(w[1], ValuesOrder[2], e[ValuesOrder[2]].values)
        /\ w[3] = GrowTree(w[2], ValuesOrder[3], e[ValuesOrder[3]].values)
        /\ w[4] = GrowTree(w[3], ValuesOrder[4], e[ValuesOrder[4]].values)
        /\ w[5] = GrowTree(w[4], ValuesOrder[5], e[ValuesOrder[5]].values)
    BY <1>1, <1>2, Zenon DEF Grown1, Grown2, Grown3, Grown4, Grown5
  <2>3. QED
    BY <2>1, <2>2, <1>2
<1>4. w = F(w)
  BY <1>1, <1>2, <1>3
<1>5. tree = F(tree)
  <2> HIDE DEF F
  <2>1. QED
    BY <1>4, Zenon
<1>6. CalendarIntervals(e) = tree[Len(ValuesOrder)]
  BY DEF CalendarIntervals
<1> HIDE DEF tree
<1>7. \A n \in 0 .. 5 :
        tree[n] = IF n = 0 THEN {}
                  ELSE GrowTree(tree[n - 1], ValuesOrder[n], e[ValuesOrder[n]].values)
  BY <1>1, <1>5
<1>8. /\ tree[0] = {}
      /\ tree[1] = GrowTree(tree[0], "Month", e["Month"].values)
      /\ tree[2] = GrowTree(tree[1], "Day", e["Day"].values)
      /\ tree[3] = GrowTree(tree[2], "WeekDay", e["WeekDay"].values)
      /\ tree[4] = GrowTree(tree[3], "Hour", e["Hour"].values)
      /\ tree[5] = GrowTree(tree[4], "Minute", e["Minute"].values)
  BY <1>1, <1>7
<1>9. QED
  BY <1>1, <1>6, <1>8, Zenon DEF Grown1, Grown2, Grown3, Grown4, Grown5

(* A branch of the tree matches in all of its fields.                      *)
AllMatch(T, t) == \E b \in T : \A f \in DOMAIN b : Same(f, b[f], At(t)[f])

(* What the tree is once the fields in done are in it.                     *)
Restricted(e, fields) == {f \in fields : e[f].values # {}}
TreeOf(T, e, done, t) ==
  /\ \A b \in T : DOMAIN b \subseteq Restricted(e, done)
  /\ T = {} <=> \A f \in done : e[f].values = {}
  /\ T # {} => (AllMatch(T, t) <=> \A f \in done : e[f].values = {} \/ Meets(e, f, t))

(* One more field.                                                         *)
LEMMA GrowOne ==
  ASSUME NEW T, NEW e, NEW done, NEW t, TreeOf(T, e, done, t), NEW f, f \notin done
  PROVE  TreeOf(GrowTree(T, f, e[f].values), e, done \cup {f}, t)
<1> DEFINE V == e[f].values
           G == GrowTree(T, f, V)
           R == IF T = {} THEN {<<>>} ELSE T
<1>1. CASE V = {}
  <2>1. G = T
    BY <1>1 DEF GrowTree
  <2>2. QED
    BY <1>1, <2>1 DEF TreeOf, Restricted
<1>2. CASE V # {}
  <2>1. G = {Child(b, f, x) : b \in R, x \in V}
    BY <1>2 DEF GrowTree
  <2>2. R # {} /\ \A b \in R : DOMAIN b \subseteq Restricted(e, done)
    <3>1. DOMAIN <<>> = {}
      OBVIOUS
    <3>2. QED
      BY <3>1 DEF TreeOf
  <2>3. ASSUME NEW b \in R, NEW x \in V
        PROVE  /\ DOMAIN Child(b, f, x) \subseteq Restricted(e, done \cup {f})
               /\ (\A g \in DOMAIN Child(b, f, x) : Same(g, Child(b, f, x)[g], At(t)[g]))
                    <=> /\ \A g \in DOMAIN b : Same(g, b[g], At(t)[g])
                        /\ Same(f, x, At(t)[f])
    <3>1. DOMAIN Child(b, f, x) = DOMAIN b \cup {f} /\ DOMAIN b \subseteq Restricted(e, done)
      BY <2>2 DEF Child
    <3>2. Child(b, f, x)[f] = x
      BY DEF Child
    <3>3. \A g \in DOMAIN b : Child(b, f, x)[g] = b[g]
      BY <3>1 DEF Child, Restricted
    <3>4. Restricted(e, done) \cup {f} = Restricted(e, done \cup {f})
      BY <1>2 DEF Restricted
    <3>5. DOMAIN Child(b, f, x) \subseteq Restricted(e, done \cup {f})
      BY <3>1, <3>4
    <3>6. QED
      BY <3>1, <3>2, <3>3, <3>5, Zenon
  <2>4. G # {} /\ \A c \in G : DOMAIN c \subseteq Restricted(e, done \cup {f})
    <3> HIDE DEF G, R, V
    <3>1. PICK b \in R, x \in V : TRUE
      BY <2>2, <1>2
    <3>2. Child(b, f, x) \in G
      BY <2>1
    <3>3. ASSUME NEW c \in G PROVE DOMAIN c \subseteq Restricted(e, done \cup {f})
      <4>1. PICK d \in R, y \in V : c = Child(d, f, y)
        BY <2>1
      <4>2. QED
        BY <4>1, <2>3
    <3>4. QED
      BY <3>2, <3>3
  <2>5. AllMatch(R, t) <=> \A g \in done : e[g].values = {} \/ Meets(e, g, t)
    <3>1. CASE T = {}
      <4>1. AllMatch({<<>>}, t)
        BY DEF AllMatch
      <4>2. QED
        BY <3>1, <4>1 DEF TreeOf
    <3>2. CASE T # {}
      BY <3>2 DEF TreeOf
    <3>3. QED
      BY <3>1, <3>2
  <2>6. AllMatch(G, t) <=> AllMatch(R, t) /\ Meets(e, f, t)
    <3>1. AllMatch(G, t)
            <=> \E b \in R, x \in V :
                  \A g \in DOMAIN Child(b, f, x) : Same(g, Child(b, f, x)[g], At(t)[g])
      BY <2>1 DEF AllMatch
    <3>2. AllMatch(G, t)
            <=> \E b \in R, x \in V : /\ \A g \in DOMAIN b : Same(g, b[g], At(t)[g])
                                      /\ Same(f, x, At(t)[f])
      BY <2>3, <3>1, Zenon
    <3> HIDE DEF R, G, V
    <3>3. QED
      BY <3>2, Zenon DEF AllMatch, Meets, V
  <2> HIDE DEF R, G
  <2>7. (\A g \in done \cup {f} : e[g].values = {} \/ Meets(e, g, t))
          <=> (\A g \in done : e[g].values = {} \/ Meets(e, g, t)) /\ Meets(e, f, t)
    BY <1>2
  <2>8. ~ \A g \in done \cup {f} : e[g].values = {}
    BY <1>2
  <2>9. QED
    BY <2>4, <2>5, <2>6, <2>7, <2>8 DEF TreeOf, G
<1>3. QED
  BY <1>1, <1>2

(* launchd starts a job when its event happens, unless it is for any time  *)
(* or for both a day of the month and one of the week.                     *)
LEMMA LaunchdHappens ==
  ASSUME NEW e, NEW t, NEW g \in Shared, e[g].values # {},
         e["Day"].values = {} \/ e["WeekDay"].values = {}
  PROVE  LaunchdStarts(CalendarIntervals(e), t) <=> Happens(e, t)
<1>1. TreeOf({}, e, {}, t)
  BY DEF TreeOf, Restricted
<1>2. TreeOf(Grown1(e), e, {"Month"}, t)
  <2>1. TreeOf(Grown1(e), e, {} \cup {"Month"}, t)
    BY <1>1, GrowOne, "Month" \notin {} DEF Grown1
  <2>2. QED
    BY <2>1, {} \cup {"Month"} = {"Month"}
<1>3. TreeOf(Grown2(e), e, {"Month", "Day"}, t)
  <2>1. TreeOf(Grown2(e), e, {"Month"} \cup {"Day"}, t)
    BY <1>2, GrowOne, "Day" \notin {"Month"} DEF Grown2
  <2>2. QED
    BY <2>1, {"Month"} \cup {"Day"} = {"Month", "Day"}
<1>4. TreeOf(Grown3(e), e, {"Month", "Day", "WeekDay"}, t)
  <2>1. TreeOf(Grown3(e), e, {"Month", "Day"} \cup {"WeekDay"}, t)
    BY <1>3, GrowOne, "WeekDay" \notin {"Month", "Day"} DEF Grown3
  <2>2. QED
    BY <2>1, {"Month", "Day"} \cup {"WeekDay"} = {"Month", "Day", "WeekDay"}
<1>5. TreeOf(Grown4(e), e, {"Month", "Day", "WeekDay", "Hour"}, t)
  <2>1. TreeOf(Grown4(e), e, {"Month", "Day", "WeekDay"} \cup {"Hour"}, t)
    BY <1>4, GrowOne, "Hour" \notin {"Month", "Day", "WeekDay"} DEF Grown4
  <2>2. QED
    BY <2>1, {"Month", "Day", "WeekDay"} \cup {"Hour"} = {"Month", "Day", "WeekDay", "Hour"}
<1>6. TreeOf(Grown5(e), e, Shared, t)
  <2>1. TreeOf(Grown5(e), e, {"Month", "Day", "WeekDay", "Hour"} \cup {"Minute"}, t)
    BY <1>5, GrowOne, "Minute" \notin {"Month", "Day", "WeekDay", "Hour"} DEF Grown5
  <2>2. {"Month", "Day", "WeekDay", "Hour"} \cup {"Minute"} = Shared
    BY DEF Shared
  <2>3. QED
    BY <2>1, <2>2
<1>7. Grown5(e) # {}
  BY <1>6 DEF TreeOf
<1>8. AllMatch(Grown5(e), t) <=> Happens(e, t)
  BY <1>6, <1>7 DEF TreeOf, Happens
<1>9. ASSUME NEW b \in Grown5(e)
      PROVE  LET days == DOMAIN b \cap {"Day", "WeekDay"}
                 holds(f) == Same(f, b[f], At(t)[f])
             IN  (/\ \A f \in DOMAIN b \ days : holds(f)
                  /\ days # {} => \E f \in days : holds(f))
                   <=> \A f \in DOMAIN b : holds(f)
  <2> DEFINE days == DOMAIN b \cap {"Day", "WeekDay"}
  <2>1. ~("Day" \in DOMAIN b /\ "WeekDay" \in DOMAIN b)
    BY <1>6 DEF TreeOf, Restricted
  <2>2. days = {} \/ \E d \in DOMAIN b : days = {d}
    BY <2>1
  <2>3. QED
    BY <2>2
<1>10. LaunchdStarts(Grown5(e), t) <=> AllMatch(Grown5(e), t)
  BY <1>9, Zenon DEF LaunchdStarts, AllMatch
<1>11. QED
  BY <1>8, <1>10, Levels

-----------------------------------------------------------------------------
(* The parts of a text, field by field.                                    *)
LEMMA Parsed ==
  ASSUME NEW tx \in Text
  PROVE  LET e == ParseParts(tx)
         IN  /\ e["WeekDay"] = IF tx.weekday = <<>> THEN AnyValue
                               ELSE ValueOf(WeekDayUnits(tx.weekday[1]))
             /\ e["Year"] = ValueOf(YearUnits(IF tx.date = <<>> THEN <<>> ELSE tx.date[1]))
             /\ e["Month"] = ValueOf(IF tx.date = <<>> THEN <<>> ELSE tx.date[2])
             /\ e["Day"] = ValueOf(IF tx.date = <<>> THEN <<>> ELSE tx.date[3])
             /\ tx.time = <<>> => e["Hour"] = Midnight /\ e["Minute"] = Midnight
             /\ tx.time # <<>> => e["Hour"] = ValueOf(tx.time[1]) /\ e["Minute"] = ValueOf(tx.time[2])
<1>1. tx.time = <<>> \/ tx.time \in [1 .. 2 -> Units] \/ tx.time \in [1 .. 3 -> Units]
  BY DEF Text
<1>2. tx.time = <<>> => Len(tx.time) = 0
  OBVIOUS
<1>3. tx.time # <<>> => Len(tx.time) = 2 \/ Len(tx.time) = 3
  BY <1>1
<1>4. QED
  BY <1>2, <1>3 DEF ParseParts

(* A text is of lists.                                                     *)
LEMMA TextLists ==
  ASSUME NEW tx \in Text
  PROVE  /\ tx.weekday # <<>> => tx.weekday[1] \in Units /\ 1 \in DOMAIN tx.weekday
         /\ tx.date # <<>> => /\ tx.date[1] \in Units /\ tx.date[2] \in Units
                               /\ tx.date[3] \in Units
                               /\ 2 \in DOMAIN tx.date /\ 3 \in DOMAIN tx.date
         /\ tx.time # <<>> => /\ tx.time[1] \in Units /\ tx.time[2] \in Units
                               /\ 1 \in DOMAIN tx.time /\ 2 \in DOMAIN tx.time
<1>1. ASSUME tx.weekday # <<>> PROVE tx.weekday[1] \in Units /\ 1 \in DOMAIN tx.weekday
  <2>1. tx.weekday \in [1 .. 1 -> Units]
    BY <1>1 DEF Text
  <2>2. QED
    BY <2>1
<1>2. ASSUME tx.date # <<>>
      PROVE  /\ tx.date[1] \in Units /\ tx.date[2] \in Units /\ tx.date[3] \in Units
             /\ 2 \in DOMAIN tx.date /\ 3 \in DOMAIN tx.date
  <2>1. tx.date \in [1 .. 3 -> Units]
    BY <1>2 DEF Text
  <2>2. QED
    BY <2>1
<1>3. ASSUME tx.time # <<>>
      PROVE  /\ tx.time[1] \in Units /\ tx.time[2] \in Units
             /\ 1 \in DOMAIN tx.time /\ 2 \in DOMAIN tx.time
  <2>1. tx.time \in [1 .. 2 -> Units] \/ tx.time \in [1 .. 3 -> Units]
    BY <1>3 DEF Text
  <2>2. QED
    BY <2>1
<1>4. QED
  BY <1>1, <1>2, <1>3

(* A field with any value, and one with a single value.                    *)
LEMMA FieldValues == AnyValue.values = {} /\ \A x : SingleValue(x).values = {x}
  BY Zenon DEF AnyValue, SingleValue

(* No units are any value.                                                 *)
LEMMA NoUnits == /\ <<>> \in Units /\ ValueOf(<<>>).values = {} /\ WeekDayUnits(<<>>) = <<>>
                 /\ \A f, x : Lists(f, <<>>, x)
<1>1. <<>> \in Units
  BY DEF Units
<1>2. QED
  BY <1>1, ListValues, DayUnits DEF Lists, Star

(* The years of a text are units too.                                      *)
LEMMA YearUnitsOf ==
  ASSUME NEW units \in Units
  PROVE  /\ YearUnits(units) \in Units
         /\ YearUnits(units) = <<>> <=> units = <<>>
<1>1. DOMAIN units = 1 .. Len(units) /\ Len(units) \in Nat
  BY DEF Units
<1>2. ASSUME NEW i \in 1 .. Len(units) PROVE YearUnits(units)[i] \in Unit
  <2> DEFINE u == units[i]
             y == [j \in DOMAIN u |-> u[j] + (IF u[j] < 1000 THEN 2000 ELSE 0)]
  <2>1. YearUnits(units)[i] = y
    BY <1>1 DEF YearUnits
  <2>2. u \in Unit
    BY <1>1 DEF Units
  <2> HIDE DEF u
  <2>3. CASE u \in [1 .. 1 -> Nat]
    <3>1. y \in [1 .. 1 -> Nat]
      BY <2>3
    <3>2. QED
      BY <3>1, <2>1 DEF Unit
  <2>4. CASE u \in [1 .. 2 -> Nat]
    <3>1. y \in [1 .. 2 -> Nat]
      BY <2>4
    <3>2. QED
      BY <3>1, <2>1 DEF Unit
  <2>5. QED
    BY <2>2, <2>3, <2>4 DEF Unit
<1>3. DOMAIN YearUnits(units) = 1 .. Len(units)
      /\ YearUnits(units) = [i \in 1 .. Len(units) |-> YearUnits(units)[i]]
  BY <1>1 DEF YearUnits
<1>4. YearUnits(units) \in [1 .. Len(units) -> Unit]
  BY <1>2, <1>3
<1>5. YearUnits(units) \in Units /\ Len(YearUnits(units)) = Len(units)
  BY <1>1, <1>4 DEF Units
<1>6. QED
  BY <1>5 DEF Units

(* A text says when its event happens, in the years it lists.              *)
LEMMA PartsSay ==
  ASSUME NEW tx \in Text, tx.keyword = "", Plain(tx),
         ParseParts(tx)["WeekDay"].values \subseteq 0 .. Week,
         NEW t \in 0 .. Horizon
  PROVE  Says(tx, t) <=>
           /\ Happens(ParseParts(tx), t)
           /\ Lists("Year", IF tx.date = <<>> THEN Star ELSE YearUnits(tx.date[1]), At(t)["Year"])
<1> DEFINE e == ParseParts(tx)
           Ok(f) == e[f].values = {} \/ Meets(e, f, t)
<1>1. Ok("WeekDay") <=> (tx.weekday # <<>> => Lists("WeekDay", tx.weekday[1], At(t)["WeekDay"]))
  <2>1. CASE tx.weekday = <<>>
    <3>1. e["WeekDay"] = AnyValue
      BY <2>1, Parsed
    <3> HIDE DEF e
    <3>2. e["WeekDay"].values = {}
      BY <3>1, FieldValues, Zenon
    <3>3. QED
      BY <2>1, <3>2
  <2>2. CASE tx.weekday # <<>>
    <3> DEFINE units == tx.weekday[1]
    <3>1. units \in Units /\ Forward("WeekDay", units)
      BY <2>2, TextLists DEF Plain
    <3>2. e["WeekDay"].values = ValueOf(WeekDayUnits(units)).values
      BY <2>2, Parsed
    <3>3. At(t)["WeekDay"] \in 0 .. Week - 1
      BY Clocks
    <3> HIDE DEF units, e
    <3>4. CASE units = <<>>
      BY <3>2, <3>4, <2>2, NoUnits DEF units
    <3>5. CASE units # <<>>
      <4>1. Lists("WeekDay", units, At(t)["WeekDay"]) <=> Meets(e, "WeekDay", t)
        BY <3>1, <3>2, <3>3, <3>5, DayLists DEF Meets, e
      <4>2. e["WeekDay"].values # {}
        BY <3>1, <3>2, <3>5, DayUnits, ListValues
      <4>3. QED
        BY <4>1, <4>2, <2>2 DEF units
    <3>6. QED
      BY <3>4, <3>5
  <2>3. QED
    BY <2>1, <2>2
<1>2. ASSUME NEW f \in {"Month", "Day", "Hour", "Minute"}, NEW units \in Units,
             NEW g \in {"Date", "Time"}, Forward(g, units), e[f] = ValueOf(units)
      PROVE  Ok(f) <=> Lists(f, units, At(t)[f])
  <2> HIDE DEF e
  <2>1. CASE units = <<>>
    BY <2>1, <1>2, NoUnits
  <2>2. CASE units # <<>>
    <3>1. f # "WeekDay"
      OBVIOUS
    <3>2. Lists(f, units, At(t)[f]) <=> At(t)[f] \in ValueOf(units).values
      BY <2>2, <1>2, <3>1, FieldLists
    <3>3. Meets(e, f, t) <=> At(t)[f] \in ValueOf(units).values
      BY <1>2, <3>1 DEF Meets, Same
    <3>4. e[f].values # {}
      BY <2>2, <1>2, ListValues
    <3>5. QED
      BY <3>2, <3>3, <3>4
  <2>3. QED
    BY <2>1, <2>2
<1>3. Ok("Month") /\ Ok("Day")
        <=> (tx.date # <<>> => /\ Lists("Month", tx.date[2], At(t)["Month"])
                               /\ Lists("Day", tx.date[3], At(t)["Day"]))
  <2>1. CASE tx.date # <<>>
    <3>1. /\ 2 \in DOMAIN tx.date /\ 3 \in DOMAIN tx.date
          /\ tx.date[2] \in Units /\ tx.date[3] \in Units
      BY <2>1, TextLists
    <3>2. Forward("Date", tx.date[2]) /\ Forward("Date", tx.date[3])
      BY <3>1 DEF Plain
    <3>3. e["Month"] = ValueOf(tx.date[2]) /\ e["Day"] = ValueOf(tx.date[3])
      BY <2>1, Parsed
    <3> HIDE DEF e, Ok
    <3>4. Ok("Month") <=> Lists("Month", tx.date[2], At(t)["Month"])
      BY <1>2, <3>1, <3>2, <3>3
    <3>5. Ok("Day") <=> Lists("Day", tx.date[3], At(t)["Day"])
      BY <1>2, <3>1, <3>2, <3>3
    <3>6. QED
      BY <2>1, <3>4, <3>5
  <2>2. CASE tx.date = <<>>
    <3>1. e["Month"] = ValueOf(<<>>) /\ e["Day"] = ValueOf(<<>>)
      BY <2>2, Parsed
    <3>2. e["Month"].values = {} /\ e["Day"].values = {}
      BY <3>1, NoUnits
    <3> HIDE DEF e
    <3>3. QED
      BY <2>2, <3>2
  <2>3. QED
    BY <2>1, <2>2
<1>4. Ok("Hour") /\ Ok("Minute")
        <=> IF tx.time = <<>> THEN t % MinutesADay = 0
            ELSE /\ Lists("Hour", tx.time[1], At(t)["Hour"])
                 /\ Lists("Minute", tx.time[2], At(t)["Minute"])
  <2>1. CASE tx.time # <<>>
    <3>1. tx.time[1] \in Units /\ tx.time[2] \in Units
      BY <2>1, TextLists
    <3>2. Forward("Time", tx.time[1]) /\ Forward("Time", tx.time[2])
      <4>1. 1 \in DOMAIN tx.time /\ 2 \in DOMAIN tx.time
        BY <2>1, TextLists
      <4>2. QED
        BY <4>1 DEF Plain
    <3>3. e["Hour"] = ValueOf(tx.time[1]) /\ e["Minute"] = ValueOf(tx.time[2])
      BY <2>1, Parsed
    <3> HIDE DEF e, Ok
    <3>4. Ok("Hour") <=> Lists("Hour", tx.time[1], At(t)["Hour"])
      BY <1>2, <3>1, <3>2, <3>3
    <3>5. Ok("Minute") <=> Lists("Minute", tx.time[2], At(t)["Minute"])
      BY <1>2, <3>1, <3>2, <3>3
    <3>6. QED
      BY <2>1, <3>4, <3>5
  <2>2. CASE tx.time = <<>>
    <3>1. e["Hour"] = Midnight /\ e["Minute"] = Midnight
      BY <2>2, Parsed
    <3> HIDE DEF e
    <3>2. e["Hour"].values = {0} /\ e["Minute"].values = {0}
      BY <3>1, FieldValues, Zenon DEF Midnight
    <3>3. (Ok("Hour") <=> At(t)["Hour"] = 0) /\ (Ok("Minute") <=> At(t)["Minute"] = 0)
      BY <3>2 DEF Meets, Same
    <3> HIDE DEF Ok
    <3>4. QED
      BY <2>2, <3>3, Clocks
  <2>3. QED
    BY <2>1, <2>2
<1> HIDE DEF e, Ok
<1>5. Expanded(tx) = tx
  BY DEF Expanded
<1>6. Says(tx, t)
        <=> /\ tx.weekday # <<>> => Lists("WeekDay", tx.weekday[1], At(t)["WeekDay"])
            /\ Lists("Year", IF tx.date = <<>> THEN Star ELSE YearUnits(tx.date[1]), At(t)["Year"])
            /\ tx.date # <<>> => /\ Lists("Month", tx.date[2], At(t)["Month"])
                                  /\ Lists("Day", tx.date[3], At(t)["Day"])
            /\ IF tx.time = <<>> THEN t % MinutesADay = 0
               ELSE /\ Lists("Hour", tx.time[1], At(t)["Hour"])
                    /\ Lists("Minute", tx.time[2], At(t)["Minute"])
  BY <1>5, Zenon DEF Says
<1>7. Happens(e, t) <=> Ok("Month") /\ Ok("Day") /\ Ok("WeekDay") /\ Ok("Hour") /\ Ok("Minute")
  BY DEF Happens, Shared, Ok
<1>8. QED
  BY <1>1, <1>3, <1>4, <1>6, <1>7 DEF e

(* The event of a text happens when the text says so.                      *)
LEMMA PartsHappen ==
  ASSUME NEW tx \in Text, tx.keyword = "", Plain(tx),
         ParseParts(tx)["WeekDay"].values \subseteq 0 .. Week,
         ParseParts(tx)["Year"].values = {},
         NEW t \in 0 .. Horizon
  PROVE  Happens(ParseParts(tx), t) <=> Says(tx, t)
<1>1. Lists("Year", IF tx.date = <<>> THEN Star ELSE YearUnits(tx.date[1]), At(t)["Year"])
  <2>1. ParseParts(tx)["Year"] = ValueOf(YearUnits(IF tx.date = <<>> THEN <<>> ELSE tx.date[1]))
    BY Parsed
  <2> DEFINE years == IF tx.date = <<>> THEN <<>> ELSE tx.date[1]
  <2>2. years \in Units
    BY TextLists, NoUnits
  <2>3. ValueOf(YearUnits(years)).values = {}
    BY <2>1
  <2>4. YearUnits(years) = <<>>
    BY <2>2, <2>3, YearUnitsOf, ListValues
  <2>5. QED
    BY <2>4, NoUnits DEF Star
<1>2. QED
  BY <1>1, PartsSay

(* Lists of single numbers.                                                *)
LEMMA Numbers ==
  /\ \A n \in Nat : <<n>> \in Unit /\ <<<<n>>>> \in Units /\ ValueOf(<<<<n>>>>).values = {n}
  /\ <<<<1>>, <<7>>>> \in Units
  /\ <<<<1>>, <<4>>, <<7>>, <<10>>>> \in Units
<1>1. \A n \in Nat : <<n>> \in Unit
  BY DEF Unit
<1>2. ASSUME NEW n \in Nat PROVE <<<<n>>>> \in Units /\ ValueOf(<<<<n>>>>).values = {n}
  <2> DEFINE u == <<n>>
             s == <<u>>
  <2>1. u \in Unit /\ Len(u) = 1 /\ u[1] = n
    BY <1>1
  <2>2. UnitValues(u) = {n}
    BY <2>1, UnitNumbers
  <2> HIDE DEF u
  <2>3. s \in Units /\ DOMAIN s = {1} /\ s[1] = u
    BY <2>1 DEF Units
  <2> HIDE DEF s
  <2>4. \A x : x \in ValueOf(s).values <=> \E i \in {1} : x \in UnitValues(s[i])
    BY <2>3, ListValues
  <2>5. ValueOf(s).values = {n}
    BY <2>2, <2>3, <2>4
  <2>6. QED
    BY <2>3, <2>5 DEF s, u
<1>3. <<1>> \in Unit /\ <<4>> \in Unit /\ <<7>> \in Unit /\ <<10>> \in Unit
  BY <1>1
<1>4. \A a, b, c, d \in Unit : <<a, b>> \in Units /\ <<a, b, c, d>> \in Units
  BY DEF Units
<1>5. QED
  BY <1>1, <1>2, <1>3, <1>4

(* The events of the keywords.                                             *)
LEMMA KeywordFields ==
  /\ \A k \in Keyword : KeywordValues[k]["Year"] = AnyValue
  /\ \A k \in Keyword : KeywordValues[k]["Second"] = SingleValue(0)
  /\ \A k \in Keyword \ {"weekly"} : KeywordValues[k]["WeekDay"] = AnyValue
  /\ KeywordValues["weekly"]["WeekDay"] = SingleValue(1)
  /\ \A k \in {"minutely", "hourly", "daily", "weekly", "monthly"} :
       KeywordValues[k]["Month"] = AnyValue
  /\ \A k \in {"yearly", "annually"} : KeywordValues[k]["Month"] = SingleValue(1)
  /\ KeywordValues["quarterly"]["Month"] = ValueOf(<<<<1>>, <<4>>, <<7>>, <<10>>>>)
  /\ KeywordValues["semiannually"]["Month"] = ValueOf(<<<<1>>, <<7>>>>)
  /\ \A k \in {"minutely", "hourly", "daily", "weekly"} : KeywordValues[k]["Day"] = AnyValue
  /\ \A k \in Keyword \ {"minutely", "hourly", "daily", "weekly"} :
       KeywordValues[k]["Day"] = SingleValue(1)
  /\ \A k \in {"minutely", "hourly"} : KeywordValues[k]["Hour"] = AnyValue
  /\ \A k \in Keyword \ {"minutely", "hourly"} : KeywordValues[k]["Hour"] = SingleValue(0)
  /\ KeywordValues["minutely"]["Minute"] = AnyValue
  /\ \A k \in Keyword \ {"minutely"} : KeywordValues[k]["Minute"] = SingleValue(0)
<1> DEFINE minute == [f \in Field |-> IF f = "Second" THEN SingleValue(0) ELSE AnyValue]
           hour == [minute EXCEPT !["Minute"] = SingleValue(0)]
           day == [hour EXCEPT !["Hour"] = SingleValue(0)]
           week == [day EXCEPT !["WeekDay"] = SingleValue(1)]
           month == [day EXCEPT !["Day"] = SingleValue(1)]
           quarter == [month EXCEPT !["Month"] = ValueOf(<<<<1>>, <<4>>, <<7>>, <<10>>>>)]
           half == [month EXCEPT !["Month"] = ValueOf(<<<<1>>, <<7>>>>)]
           year == [month EXCEPT !["Month"] = SingleValue(1)]
<1>1. /\ KeywordValues["minutely"] = minute /\ KeywordValues["hourly"] = hour
      /\ KeywordValues["daily"] = day /\ KeywordValues["weekly"] = week
      /\ KeywordValues["monthly"] = month /\ KeywordValues["quarterly"] = quarter
      /\ KeywordValues["semiannually"] = half /\ KeywordValues["yearly"] = year
      /\ KeywordValues["annually"] = year
  BY DEF KeywordValues
<1>2. /\ minute["Year"] = AnyValue /\ minute["Month"] = AnyValue /\ minute["Day"] = AnyValue
      /\ minute["WeekDay"] = AnyValue /\ minute["Hour"] = AnyValue
      /\ minute["Minute"] = AnyValue /\ minute["Second"] = SingleValue(0)
  BY DEF Field
<1>3. DOMAIN minute = Field
  OBVIOUS
<1> HIDE DEF minute
<1>4. /\ hour["Year"] = AnyValue /\ hour["Month"] = AnyValue /\ hour["Day"] = AnyValue
      /\ hour["WeekDay"] = AnyValue /\ hour["Hour"] = AnyValue
      /\ hour["Minute"] = SingleValue(0) /\ hour["Second"] = SingleValue(0) /\ DOMAIN hour = Field
  BY <1>2, <1>3 DEF Field
<1> HIDE DEF hour
<1>5. /\ day["Year"] = AnyValue /\ day["Month"] = AnyValue /\ day["Day"] = AnyValue
      /\ day["WeekDay"] = AnyValue /\ day["Hour"] = SingleValue(0)
      /\ day["Minute"] = SingleValue(0) /\ day["Second"] = SingleValue(0) /\ DOMAIN day = Field
  BY <1>4 DEF Field
<1> HIDE DEF day
<1>6. /\ week["Year"] = AnyValue /\ week["Month"] = AnyValue /\ week["Day"] = AnyValue
      /\ week["WeekDay"] = SingleValue(1) /\ week["Hour"] = SingleValue(0)
      /\ week["Minute"] = SingleValue(0) /\ week["Second"] = SingleValue(0)
  BY <1>5 DEF Field
<1>7. /\ month["Year"] = AnyValue /\ month["Month"] = AnyValue
      /\ month["Day"] = SingleValue(1)
      /\ month["WeekDay"] = AnyValue /\ month["Hour"] = SingleValue(0)
      /\ month["Minute"] = SingleValue(0) /\ month["Second"] = SingleValue(0) /\ DOMAIN month = Field
  BY <1>5 DEF Field
<1> HIDE DEF month, week
<1>8. \A y \in {quarter, half, year} :
        /\ y["Year"] = AnyValue /\ y["Day"] = SingleValue(1)
        /\ y["WeekDay"] = AnyValue /\ y["Hour"] = SingleValue(0)
        /\ y["Minute"] = SingleValue(0) /\ y["Second"] = SingleValue(0)
  BY <1>7 DEF Field
<1>9. /\ quarter["Month"] = ValueOf(<<<<1>>, <<4>>, <<7>>, <<10>>>>)
      /\ half["Month"] = ValueOf(<<<<1>>, <<7>>>>) /\ year["Month"] = SingleValue(1)
  BY <1>7 DEF Field
<1> HIDE DEF quarter, half, year
<1>10. QED
  BY <1>1, <1>2, <1>4, <1>5, <1>6, <1>7, <1>8, <1>9 DEF Keyword

(* The texts that the keywords are short for.                              *)
Short(s, w, m, d, h) ==
  s = [keyword |-> "", weekday |-> w, date |-> <<<<>>, m, d>>, time |-> h]

(* Each keyword's text.                                                    *)
LEMMA Shorthands ==
  /\ Short(Shorthand["minutely"], <<>>, <<>>, <<>>, <<<<>>, <<>>>>)
  /\ Short(Shorthand["hourly"], <<>>, <<>>, <<>>, <<<<>>, <<<<0>>>>>>)
  /\ Short(Shorthand["daily"], <<>>, <<>>, <<>>, <<>>)
  /\ Short(Shorthand["weekly"], <<<<<<1>>>>>>, <<>>, <<>>, <<>>)
  /\ Short(Shorthand["monthly"], <<>>, <<>>, <<<<1>>>>, <<>>)
  /\ Short(Shorthand["quarterly"], <<>>, <<<<1>>, <<4>>, <<7>>, <<10>>>>, <<<<1>>>>, <<>>)
  /\ Short(Shorthand["semiannually"], <<>>, <<<<1>>, <<7>>>>, <<<<1>>>>, <<>>)
  /\ Short(Shorthand["yearly"], <<>>, <<<<1>>>>, <<<<1>>>>, <<>>)
  /\ Short(Shorthand["annually"], <<>>, <<<<1>>>>, <<<<1>>>>, <<>>)
  BY DEF Shorthand, Short, Star, OnlyOne

(* A shorthand is a text, and stands for its values.                       *)
Single(units) == units \in Units /\ \A i \in DOMAIN units : Len(units[i]) = 1
HasDays(w) == w = <<>> \/ w = <<<<<<1>>>>>>
HasTimes(h) == h = <<>> \/ \E a, b : h = <<a, b>> /\ Single(a) /\ Single(b)
ShortSays(s, w, m, d, h) ==
  /\ s \in Text /\ s.keyword = "" /\ Plain(s)
  /\ ParseParts(s)["Year"].values = {}
  /\ ParseParts(s)["Month"] = ValueOf(m) /\ ParseParts(s)["Day"] = ValueOf(d)
  /\ w = <<>> => ParseParts(s)["WeekDay"].values = {}
  /\ w # <<>> => ParseParts(s)["WeekDay"].values = {1}
  /\ h = <<>> => ParseParts(s)["Hour"].values = {0} /\ ParseParts(s)["Minute"].values = {0}
  /\ h # <<>> => /\ ParseParts(s)["Hour"] = ValueOf(h[1])
                  /\ ParseParts(s)["Minute"] = ValueOf(h[2])

(* A text of this kind is parsed into these values.                        *)
LEMMA ShortParts ==
  ASSUME NEW s, NEW w, NEW m, NEW d, NEW h, Short(s, w, m, d, h), Single(m), Single(d),
         HasDays(w), HasTimes(h)
  PROVE  ShortSays(s, w, m, d, h)
<1> DEFINE D == <<<<>>, m, d>>
<1>1. s.keyword = "" /\ s.weekday = w /\ s.date = D /\ s.time = h
  BY DEF Short
<1>2. m \in Units /\ d \in Units /\ <<>> \in Units /\ <<<<1>>>> \in Units
  BY NoUnits, Numbers DEF Single
<1>3. D \in [1 .. 3 -> Units] /\ D # <<>> /\ D[1] = <<>> /\ D[2] = m /\ D[3] = d
      /\ DOMAIN D = 1 .. 3
  BY <1>2
<1>4. w \in {<<>>} \cup [1 .. 1 -> Units]
  BY <1>2 DEF HasDays
<1>5. h \in {<<>>} \cup [1 .. 2 -> Units] \cup [1 .. 3 -> Units]
  BY DEF Single, HasTimes
<1> HIDE DEF D
<1>6. s \in Text
  BY <1>3, <1>4, <1>5 DEF Text, Short, D
<1>7. Plain(s)
  <2>1. ASSUME NEW units, Single(units), NEW g PROVE Forward(g, units)
    BY <2>1 DEF Forward, Single
  <2>2. \A i \in DOMAIN w : Forward("WeekDay", w[i])
    <3>1. CASE w = <<>>
      BY <3>1
    <3>2. CASE w = <<<<<<1>>>>>>
      <4>1. DOMAIN w = {1} /\ w[1] = <<<<1>>>>
        BY <3>2
      <4>2. Single(<<<<1>>>>)
        BY <1>2 DEF Single
      <4>3. QED
        BY <4>1, <4>2, <2>1
    <3>3. QED
      BY <3>1, <3>2 DEF HasDays
  <2>3. \A i \in DOMAIN D : Forward("Date", D[i])
    <3>1. Single(<<>>)
      BY <1>2 DEF Single
    <3>2. \A i \in DOMAIN D : i = 1 \/ i = 2 \/ i = 3
      BY <1>3
    <3>3. QED
      BY <3>1, <3>2, <1>3, <2>1
  <2>4. \A i \in DOMAIN h : Forward("Time", h[i])
    <3>1. CASE h = <<>>
      BY <3>1
    <3>2. ASSUME NEW a, NEW b, h = <<a, b>>, Single(a), Single(b)
          PROVE  \A i \in DOMAIN h : Forward("Time", h[i])
      <4>1. \A i \in DOMAIN h : h[i] = a \/ h[i] = b
        BY <3>2
      <4>2. QED
        BY <4>1, <2>1, <3>2
    <3>3. QED
      BY <3>1, <3>2 DEF HasTimes
  <2>5. QED
    BY <1>1, <2>2, <2>3, <2>4 DEF Plain
<1>8. ParseParts(s)["Year"].values = {}
  <2>1. ParseParts(s)["Year"] = ValueOf(YearUnits(<<>>))
    BY <1>1, <1>3, <1>6, Parsed
  <2>2. YearUnits(<<>>) = <<>>
    BY NoUnits, YearUnitsOf
  <2>3. QED
    BY <2>1, <2>2, NoUnits
<1>9. ParseParts(s)["Month"] = ValueOf(m) /\ ParseParts(s)["Day"] = ValueOf(d)
  BY <1>1, <1>3, <1>6, Parsed
<1>10. w = <<>> => ParseParts(s)["WeekDay"].values = {}
  <2>1. w = <<>> => ParseParts(s)["WeekDay"] = AnyValue
    BY <1>1, <1>6, Parsed
  <2>2. QED
    BY <2>1, FieldValues, Zenon
<1>11. w # <<>> => ParseParts(s)["WeekDay"].values = {1}
  <2>1. SUFFICES ASSUME w # <<>> PROVE ParseParts(s)["WeekDay"].values = {1}
    OBVIOUS
  <2>2. w[1] = <<<<1>>>>
    BY <2>1 DEF HasDays
  <2>3. ParseParts(s)["WeekDay"] = ValueOf(WeekDayUnits(<<<<1>>>>))
    BY <1>1, <1>6, <2>1, <2>2, Parsed
  <2>4. WeekDayUnits(<<<<1>>>>) = <<<<1>>>>
    BY DEF WeekDayUnits
  <2>5. ValueOf(<<<<1>>>>).values = {1}
    BY Numbers
  <2>6. QED
    BY <2>3, <2>4, <2>5, Zenon
<1>12. h = <<>> => ParseParts(s)["Hour"].values = {0} /\ ParseParts(s)["Minute"].values = {0}
  <2>1. h = <<>> => ParseParts(s)["Hour"] = Midnight /\ ParseParts(s)["Minute"] = Midnight
    BY <1>1, <1>6, Parsed
  <2>2. QED
    BY <2>1, FieldValues, Zenon DEF Midnight
<1>13. h # <<>> => /\ ParseParts(s)["Hour"] = ValueOf(h[1])
                   /\ ParseParts(s)["Minute"] = ValueOf(h[2])
  BY <1>1, <1>6, Parsed
<1>14. QED
  BY <1>1, <1>6, <1>7, <1>8, <1>9, <1>10, <1>11, <1>12, <1>13 DEF ShortSays

(* A text of months and days only, one of days of the week, one of times.  *)
LEMMA ShortDate ==
  ASSUME NEW s, NEW m, NEW d, Single(m), Single(d), Short(s, <<>>, m, d, <<>>)
  PROVE  /\ s \in Text /\ s.keyword = "" /\ Plain(s) /\ ParseParts(s)["Year"].values = {}
         /\ ParseParts(s)["Month"] = ValueOf(m) /\ ParseParts(s)["Day"] = ValueOf(d)
         /\ ParseParts(s)["WeekDay"].values = {} /\ ParseParts(s)["Hour"].values = {0}
         /\ ParseParts(s)["Minute"].values = {0}
<1>1. HasDays(<<>>) /\ HasTimes(<<>>)
  BY DEF HasDays, HasTimes
<1>2. ShortSays(s, <<>>, m, d, <<>>)
  BY <1>1, ShortParts, Zenon
<1>3. QED
  BY <1>2, Zenon DEF ShortSays

(* The one with a day of the week.                                         *)
LEMMA ShortWeek ==
  ASSUME NEW s, Short(s, <<<<<< 1 >>>>>>, <<>>, <<>>, <<>>)
  PROVE  /\ s \in Text /\ s.keyword = "" /\ Plain(s) /\ ParseParts(s)["Year"].values = {}
         /\ ParseParts(s)["Month"] = ValueOf(<<>>) /\ ParseParts(s)["Day"] = ValueOf(<<>>)
         /\ ParseParts(s)["WeekDay"].values = {1} /\ ParseParts(s)["Hour"].values = {0}
         /\ ParseParts(s)["Minute"].values = {0}
<1>1. HasDays(<<<<<<1>>>>>>) /\ HasTimes(<<>>) /\ Single(<<>>) /\ <<<<<<1>>>>>> # <<>>
  BY NoUnits DEF HasDays, HasTimes, Single
<1>2. ShortSays(s, <<<<<<1>>>>>>, <<>>, <<>>, <<>>)
  BY <1>1, ShortParts, Zenon
<1>3. QED
  BY <1>1, <1>2, Zenon DEF ShortSays

(* The ones with a time.                                                   *)
LEMMA ShortTime ==
  ASSUME NEW s, NEW a, NEW b, Single(a), Single(b), Short(s, <<>>, <<>>, <<>>, <<a, b>>)
  PROVE  /\ s \in Text /\ s.keyword = "" /\ Plain(s) /\ ParseParts(s)["Year"].values = {}
         /\ ParseParts(s)["Month"] = ValueOf(<<>>) /\ ParseParts(s)["Day"] = ValueOf(<<>>)
         /\ ParseParts(s)["WeekDay"].values = {} /\ ParseParts(s)["Hour"] = ValueOf(a)
         /\ ParseParts(s)["Minute"] = ValueOf(b)
<1> DEFINE h == <<a, b>>
<1>1. /\ HasDays(<<>>) /\ HasTimes(h) /\ Single(<<>>)
      /\ h # <<>> /\ h[1] = a /\ h[2] = b
  BY NoUnits DEF HasDays, HasTimes, Single
<1>2. Short(s, <<>>, <<>>, <<>>, h)
  OBVIOUS
<1> HIDE DEF h
<1>3. ShortSays(s, <<>>, <<>>, <<>>, h)
  BY <1>1, <1>2, ShortParts, Zenon
<1>4. QED
  BY <1>1, <1>3, Zenon DEF ShortSays

(* The event of a keyword has the values of the text it is short for.      *)
Alike(k) ==
  LET s == Shorthand[k]
      e == KeywordValues[k]
  IN  /\ s \in Text /\ s.keyword = "" /\ Plain(s)
      /\ ParseParts(s)["Year"].values = {}
      /\ ParseParts(s)["WeekDay"].values \subseteq {1}
      /\ \A f \in Shared : e[f].values = ParseParts(s)[f].values

(* Every keyword has the values of the text it is short for.               *)
LEMMA KeywordAlike == \A k \in Keyword : Alike(k)
<1>1. /\ Single(<<>>) /\ Single(<<<<1>>>>) /\ Single(<<<<0>>>>) /\ Single(<<<<1>>, <<7>>>>)
      /\ Single(<<<<1>>, <<4>>, <<7>>, <<10>>>>)
  <2>1. /\ <<>> \in Units /\ <<<<1>>>> \in Units /\ <<<<0>>>> \in Units
        /\ <<<<1>>, <<7>>>> \in Units /\ <<<<1>>, <<4>>, <<7>>, <<10>>>> \in Units
    BY NoUnits, Numbers
  <2>2. QED
    BY <2>1 DEF Single
<1>2. /\ ValueOf(<<>>).values = {} /\ ValueOf(<<<<0>>>>).values = {0}
      /\ ValueOf(<<<<1>>>>).values = {1}
  BY NoUnits, Numbers
<1>3. AnyValue.values = {} /\ SingleValue(0).values = {0} /\ SingleValue(1).values = {1}
  BY FieldValues
<1>4. ASSUME NEW k \in Keyword, NEW m, NEW d, Single(m), Single(d),
             Short(Shorthand[k], <<>>, m, d, <<>>),
             KeywordValues[k]["Month"].values = ValueOf(m).values,
             KeywordValues[k]["Day"].values = ValueOf(d).values,
             k \notin {"minutely", "hourly", "weekly"}
      PROVE  Alike(k)
  <2> DEFINE s == Shorthand[k]
             p == ParseParts(s)
             e == KeywordValues[k]
  <2>1. /\ s \in Text /\ s.keyword = "" /\ Plain(s) /\ p["Year"].values = {}
        /\ p["Month"] = ValueOf(m) /\ p["Day"] = ValueOf(d)
        /\ p["WeekDay"].values = {} /\ p["Hour"].values = {0} /\ p["Minute"].values = {0}
    BY <1>4, ShortDate
  <2>2. e["WeekDay"] = AnyValue /\ e["Hour"] = SingleValue(0) /\ e["Minute"] = SingleValue(0)
    BY <1>4, KeywordFields
  <2> HIDE DEF s, p, e
  <2>3. /\ e["WeekDay"].values = {} /\ e["Hour"].values = {0} /\ e["Minute"].values = {0}
    BY <2>2, <1>3, Zenon
  <2>4. \A f \in Shared : e[f].values = p[f].values
    <3>1. /\ e["WeekDay"].values = p["WeekDay"].values /\ e["Hour"].values = p["Hour"].values
          /\ e["Minute"].values = p["Minute"].values
      BY <2>1, <2>3, Zenon
    <3>2. e["Month"].values = p["Month"].values /\ e["Day"].values = p["Day"].values
      BY <2>1, <1>4, Zenon DEF e
    <3>3. QED
      BY <3>1, <3>2 DEF Shared
  <2>5. QED
    BY <2>1, <2>4 DEF Alike, s, p, e
<1>5. Alike("daily")
  BY <1>1, <1>2, <1>3, <1>4, Shorthands, KeywordFields, Zenon DEF Keyword
<1>6. Alike("monthly")
  <2>1. /\ "monthly" \in Keyword /\ "monthly" \notin {"minutely", "hourly", "weekly"}
        /\ "monthly" \in Keyword \ {"minutely", "hourly", "daily", "weekly"}
    BY DEF Keyword
  <2>2. Short(Shorthand["monthly"], <<>>, <<>>, <<<<1>>>>, <<>>)
    BY Shorthands
  <2>3. KeywordValues["monthly"]["Month"].values = ValueOf(<<>>).values
    BY <1>2, <1>3, KeywordFields, Zenon
  <2>4. KeywordValues["monthly"]["Day"].values = ValueOf(<<<<1>>>>).values
    BY <2>1, <1>2, <1>3, KeywordFields, Zenon
  <2>5. QED
    BY <2>1, <2>2, <2>3, <2>4, <1>1, <1>4, Zenon
<1>7. Alike("quarterly")
  <2>1. /\ "quarterly" \in Keyword /\ "quarterly" \notin {"minutely", "hourly", "weekly"}
        /\ "quarterly" \in Keyword \ {"minutely", "hourly", "daily", "weekly"}
    BY DEF Keyword
  <2>2. Short(Shorthand["quarterly"], <<>>, <<<<1>>, <<4>>, <<7>>, <<10>>>>, <<<<1>>>>, <<>>)
    BY Shorthands
  <2>3. KeywordValues["quarterly"]["Month"].values = ValueOf(<<<<1>>, <<4>>, <<7>>, <<10>>>>).values
    BY <1>2, <1>3, KeywordFields, Zenon
  <2>4. KeywordValues["quarterly"]["Day"].values = ValueOf(<<<<1>>>>).values
    BY <2>1, <1>2, <1>3, KeywordFields, Zenon
  <2>5. QED
    BY <2>1, <2>2, <2>3, <2>4, <1>1, <1>4, Zenon
<1>8. Alike("semiannually")
  <2>1. /\ "semiannually" \in Keyword /\ "semiannually" \notin {"minutely", "hourly", "weekly"}
        /\ "semiannually" \in Keyword \ {"minutely", "hourly", "daily", "weekly"}
    BY DEF Keyword
  <2>2. Short(Shorthand["semiannually"], <<>>, <<<<1>>, <<7>>>>, <<<<1>>>>, <<>>)
    BY Shorthands
  <2>3. KeywordValues["semiannually"]["Month"].values = ValueOf(<<<<1>>, <<7>>>>).values
    BY <1>2, <1>3, KeywordFields, Zenon
  <2>4. KeywordValues["semiannually"]["Day"].values = ValueOf(<<<<1>>>>).values
    BY <2>1, <1>2, <1>3, KeywordFields, Zenon
  <2>5. QED
    BY <2>1, <2>2, <2>3, <2>4, <1>1, <1>4, Zenon
<1>9. Alike("yearly")
  BY <1>1, <1>2, <1>3, <1>4, Shorthands, KeywordFields, Zenon DEF Keyword
<1>10. Alike("annually")
  BY <1>1, <1>2, <1>3, <1>4, Shorthands, KeywordFields, Zenon DEF Keyword
<1>11. Alike("minutely")
  <2> DEFINE s == Shorthand["minutely"]
             p == ParseParts(s)
             e == KeywordValues["minutely"]
  <2>1. Short(s, <<>>, <<>>, <<>>, <<<<>>, <<>>>>)
    BY Shorthands
  <2>2. /\ s \in Text /\ s.keyword = "" /\ Plain(s) /\ p["Year"].values = {}
        /\ p["Month"] = ValueOf(<<>>) /\ p["Day"] = ValueOf(<<>>)
        /\ p["WeekDay"].values = {} /\ p["Hour"] = ValueOf(<<>>) /\ p["Minute"] = ValueOf(<<>>)
    <3>1. Single(<<>>)
      BY <1>1
    <3> HIDE DEF s, p, e
    <3>2. QED
      BY <2>1, <3>1, ShortTime, Zenon DEF p
  <2>3. /\ e["Month"] = AnyValue /\ e["Day"] = AnyValue
        /\ e["WeekDay"] = AnyValue /\ e["Hour"] = AnyValue /\ e["Minute"] = AnyValue
    BY KeywordFields DEF Keyword
  <2> HIDE DEF s, p, e
  <2>4. /\ e["Month"].values = p["Month"].values /\ e["Day"].values = p["Day"].values
        /\ e["WeekDay"].values = p["WeekDay"].values /\ e["Hour"].values = p["Hour"].values
        /\ e["Minute"].values = p["Minute"].values
    BY <2>2, <2>3, <1>2, <1>3, Zenon
  <2>5. \A f \in Shared : e[f].values = p[f].values
    BY <2>4 DEF Shared
  <2>6. p["WeekDay"].values \subseteq {1}
    BY <2>2
  <2>7. QED
    BY <2>2, <2>5, <2>6 DEF Alike, s, p, e
<1>12. Alike("hourly")
  <2> DEFINE s == Shorthand["hourly"]
             p == ParseParts(s)
             e == KeywordValues["hourly"]
  <2>1. Short(s, <<>>, <<>>, <<>>, <<<<>>, <<<<0>>>>>>)
    BY Shorthands
  <2>2. /\ s \in Text /\ s.keyword = "" /\ Plain(s) /\ p["Year"].values = {}
        /\ p["Month"] = ValueOf(<<>>) /\ p["Day"] = ValueOf(<<>>)
        /\ p["WeekDay"].values = {} /\ p["Hour"] = ValueOf(<<>>) /\ p["Minute"] = ValueOf(<<<<0>>>>)
    BY <2>1, <1>1, ShortTime, ZenonT(30)
  <2>3. /\ e["Month"] = AnyValue /\ e["Day"] = AnyValue
        /\ e["WeekDay"] = AnyValue /\ e["Hour"] = AnyValue /\ e["Minute"] = SingleValue(0)
    BY KeywordFields DEF Keyword
  <2> HIDE DEF s, p, e
  <2>4. /\ e["Month"].values = p["Month"].values /\ e["Day"].values = p["Day"].values
        /\ e["WeekDay"].values = p["WeekDay"].values /\ e["Hour"].values = p["Hour"].values
        /\ e["Minute"].values = p["Minute"].values
    BY <2>2, <2>3, <1>2, <1>3, Zenon
  <2>5. \A f \in Shared : e[f].values = p[f].values
    BY <2>4 DEF Shared
  <2>6. p["WeekDay"].values \subseteq {1}
    BY <2>2
  <2>7. QED
    BY <2>2, <2>5, <2>6 DEF Alike, s, p, e
<1>13. Alike("weekly")
  <2> DEFINE s == Shorthand["weekly"]
             p == ParseParts(s)
             e == KeywordValues["weekly"]
  <2>1. Short(s, <<<<<<1>>>>>>, <<>>, <<>>, <<>>)
    BY Shorthands
  <2>2. /\ s \in Text /\ s.keyword = "" /\ Plain(s) /\ p["Year"].values = {}
        /\ p["Month"] = ValueOf(<<>>) /\ p["Day"] = ValueOf(<<>>)
        /\ p["WeekDay"].values = {1} /\ p["Hour"].values = {0} /\ p["Minute"].values = {0}
    BY <2>1, ShortWeek
  <2>3. /\ e["Month"] = AnyValue /\ e["Day"] = AnyValue
        /\ e["WeekDay"] = SingleValue(1) /\ e["Hour"] = SingleValue(0) /\ e["Minute"] = SingleValue(0)
    BY KeywordFields DEF Keyword
  <2> HIDE DEF s, p, e
  <2>4. /\ e["Month"].values = p["Month"].values /\ e["Day"].values = p["Day"].values
        /\ e["WeekDay"].values = p["WeekDay"].values /\ e["Hour"].values = p["Hour"].values
        /\ e["Minute"].values = p["Minute"].values
    BY <2>2, <2>3, <1>2, <1>3, Zenon
  <2>5. \A f \in Shared : e[f].values = p[f].values
    BY <2>4 DEF Shared
  <2>6. p["WeekDay"].values \subseteq {1}
    BY <2>2
  <2>7. QED
    BY <2>2, <2>5, <2>6 DEF Alike, s, p, e
<1>14. QED
  BY <1>5, <1>6, <1>7, <1>8, <1>9, <1>10, <1>11, <1>12, <1>13 DEF Keyword

(* The event of a text has finitely many values, and days of the week that *)
(* there are.                                                              *)
LEMMA EventProper ==
  ASSUME NEW tx \in Text, Parse(tx) # NoEvent
  PROVE  Proper(Parse(tx))
<1>1. /\ IsFiniteSet({}) /\ IsFiniteSet({0}) /\ Week \in Nat \ {0}
      /\ AnyValue.values = {} /\ Midnight.values = {0}
  BY FS_EmptySet, FS_Singleton, CalendarAssumption, FieldValues, Zenon DEF Midnight
<1>2. ASSUME NEW s \in Text, NEW f \in Shared
      PROVE  ParseParts(s)[f].values \subseteq Nat /\ IsFiniteSet(ParseParts(s)[f].values)
  <2>1. \/ \E units \in Units : ParseParts(s)[f] = ValueOf(units)
        \/ ParseParts(s)[f] = AnyValue
        \/ ParseParts(s)[f] = Midnight
    <3>1. CASE f = "WeekDay"
      BY <3>1, Parsed, TextLists, DayUnits, Zenon
    <3>2. CASE f \in {"Month", "Day"}
      BY <3>2, Parsed, TextLists, NoUnits
    <3>3. CASE f \in {"Hour", "Minute"}
      BY <3>3, Parsed, TextLists
    <3>4. QED
      BY <3>1, <3>2, <3>3 DEF Shared
  <2>2. ASSUME NEW units \in Units, ParseParts(s)[f] = ValueOf(units)
        PROVE  ParseParts(s)[f].values \subseteq Nat /\ IsFiniteSet(ParseParts(s)[f].values)
    BY <2>2, ListValues
  <2>3. ASSUME ParseParts(s)[f] = AnyValue \/ ParseParts(s)[f] = Midnight
        PROVE  ParseParts(s)[f].values \subseteq Nat /\ IsFiniteSet(ParseParts(s)[f].values)
    <3>1. ParseParts(s)[f].values = {} \/ ParseParts(s)[f].values = {0}
      BY <2>3, <1>1, Zenon
    <3>2. QED
      BY <3>1, <1>1
  <2>4. QED
    BY <2>1, <2>2, <2>3, Zenon
<1>3. CASE tx.keyword \in Keyword
  <2> DEFINE k == tx.keyword
             s == Shorthand[k]
             e == KeywordValues[k]
  <2>1. Parse(tx) = e
    BY <1>3 DEF Parse
  <2>2. /\ s \in Text /\ ParseParts(s)["WeekDay"].values \subseteq {1}
        /\ \A f \in Shared : e[f].values = ParseParts(s)[f].values
    BY <1>3, KeywordAlike DEF Alike
  <2> HIDE DEF e, s
  <2>3. \A f \in Shared : e[f].values \subseteq Nat /\ IsFiniteSet(e[f].values)
    BY <2>2, <1>2
  <2>4. e["WeekDay"].values \subseteq 0 .. Week
    <3>1. e["WeekDay"].values \subseteq {1}
      BY <2>2 DEF Shared
    <3>2. QED
      BY <3>1, <1>1
  <2>5. QED
    BY <2>1, <2>3, <2>4 DEF Proper
<1>4. CASE tx.keyword \notin Keyword
  <2>1. Parse(tx) = ParseParts(tx) /\ ParseParts(tx)["WeekDay"].values \subseteq Bounds("WeekDay")
    BY <1>4 DEF Parse, Field
  <2>2. Bounds("WeekDay") = 0 .. Week
    BY DEF Bounds
  <2>3. QED
    BY <2>1, <2>2, <1>2 DEF Proper
<1>5. QED
  BY <1>3, <1>4

(* The event of a text happens at the minutes the text says.               *)
LEMMA EventHappens ==
  ASSUME NEW tx \in Text, Parse(tx) # NoEvent, Plain(tx), Parse(tx)["Year"].values = {},
         NEW t \in 0 .. Horizon
  PROVE  Happens(Parse(tx), t) <=> Says(tx, t)
<1>1. CASE tx.keyword \in Keyword
  <2> DEFINE k == tx.keyword
             s == Shorthand[k]
             e == KeywordValues[k]
  <2>1. Parse(tx) = e
    BY <1>1 DEF Parse
  <2>2. /\ s \in Text /\ s.keyword = "" /\ Plain(s) /\ ParseParts(s)["Year"].values = {}
        /\ ParseParts(s)["WeekDay"].values \subseteq {1}
        /\ \A f \in Shared : e[f].values = ParseParts(s)[f].values
    BY <1>1, KeywordAlike DEF Alike
  <2>3. Expanded(tx) = s
    BY <1>1 DEF Expanded, Keyword
  <2> HIDE DEF e, s
  <2>4. ParseParts(s)["WeekDay"].values \subseteq 0 .. Week
    <3>1. Week \in Nat \ {0} /\ ParseParts(s)["WeekDay"].values \subseteq {1}
      BY CalendarAssumption, <2>2
    <3> DEFINE S == ParseParts(s)["WeekDay"].values
    <3> HIDE DEF S
    <3>2. S \subseteq {1} => S \subseteq 0 .. Week
      BY <3>1
    <3>3. QED
      BY <3>1, <3>2 DEF S
  <2>5. Happens(ParseParts(s), t) <=> Says(s, t)
    BY <2>2, <2>4, PartsHappen
  <2>6. Happens(e, t) <=> Happens(ParseParts(s), t)
    BY <2>2 DEF Happens, Meets
  <2>7. Expanded(s) = s
    BY <2>2 DEF Expanded
  <2>8. Says(tx, t) <=> Says(s, t)
    BY <2>3, <2>7, Zenon DEF Says
  <2>9. QED
    BY <2>1, <2>5, <2>6, <2>8
<1>2. CASE tx.keyword \notin Keyword
  <2>1. Parse(tx) = ParseParts(tx)
    BY <1>2 DEF Parse
  <2>2. tx.keyword = ""
    BY <1>2 DEF Text
  <2>3. ParseParts(tx)["WeekDay"].values \subseteq 0 .. Week
    BY <2>1, EventProper DEF Proper
  <2>4. QED
    BY <2>1, <2>2, <2>3, PartsHappen
<1>3. QED
  BY <1>1, <1>2

(* What is given to a scheduler is made of the event, and the event of the *)
(* text.                                                                   *)
GivenOf ==
  \/ given \in {NoJob, Hung}
  \/ given = [system |-> "crond", definition |-> CrontabEntry(event)]
  \/ given = [system |-> "launchd", definition |-> CalendarIntervals(event)]
  \/ \E d : given = [system |-> "windows", definition |-> d]
TimesInv ==
  /\ text \in Texts
  /\ event # NoEvent => event = Parse(text)
  /\ given # NoJob => event # NoEvent
  /\ GivenOf

(* Every step keeps the invariant.                                         *)
LEMMA TimesStep == TimesInv /\ [TimesNext]_timesVars => TimesInv'
<1> SUFFICES ASSUME TimesInv, [TimesNext]_timesVars PROVE TimesInv'
  OBVIOUS
<1> USE DEF TimesInv, GivenOf
<1>1. CASE ParseSchedule
  BY <1>1 DEF ParseSchedule
<1>2. CASE CreateCrond
  BY <1>2 DEF CreateCrond, Create
<1>3. CASE CreateLaunchd
  BY <1>3 DEF CreateLaunchd, Create
<1>4. CASE CreateOneTime \/ CreateTask \/ CreateNothing
  <2>1. PICK d : Create("windows", d)
    BY <1>4 DEF CreateOneTime, CreateTask, CreateNothing
  <2>2. QED
    BY <2>1 DEF Create
<1>5. CASE HangCreating
  BY <1>5 DEF HangCreating
<1>6. CASE UNCHANGED timesVars
  BY <1>6 DEF timesVars
<1>7. QED
  BY <1>1, <1>2, <1>3, <1>4, <1>5, <1>6 DEF TimesNext

(* It holds in every state.                                                *)
LEMMA TimesInvariant == TimesSpec => []TimesInv
<1>1. TimesInit => TimesInv
  BY DEF TimesInit, TimesInv, GivenOf
<1>2. QED
  BY <1>1, TimesStep, PTL DEF TimesSpec

(* The definition of a crontab entry or of intervals, and its event.       *)
LEMMA ScheduledEvent ==
  ASSUME TimesInv, NEW system \in {"crond", "launchd"}, Scheduled(system)
  PROVE  /\ text \in Text /\ Plain(text) /\ event = Parse(text) /\ Parse(text) # NoEvent
         /\ Proper(event)
         /\ system = "crond" => given.definition = CrontabEntry(event)
         /\ system = "launchd" => given.definition = CalendarIntervals(event)
<1>1. given \notin {NoJob, Hung} /\ given.system = system /\ Plain(text)
  BY DEF Scheduled
<1>2. event = Parse(text) /\ Parse(text) # NoEvent /\ text \in Text
  BY <1>1, TextAssumption DEF TimesInv
<1>3. /\ system = "crond" => given.definition = CrontabEntry(event)
      /\ system = "launchd" => given.definition = CalendarIntervals(event)
  BY <1>1 DEF TimesInv, GivenOf
<1>4. QED
  BY <1>1, <1>2, <1>3, EventProper

(* For any calendar and any texts, crond starts a job at the minutes its   *)
(* text says and at no others.                                             *)
THEOREM CrondStartsOnTime == TimesSpec => []CrondOnTime
<1>1. ASSUME TimesInv PROVE CrondOnTime
  <2>1. SUFFICES ASSUME Scheduled("crond"), ~Yearly,
                        ~(HasValue(event.Day) /\ HasValue(event.WeekDay)),
                        NEW t \in 0 .. Horizon
                 PROVE  CronStarts(given.definition, t) <=> Says(text, t)
    BY DEF CrondOnTime
  <2>2. /\ text \in Text /\ Plain(text) /\ event = Parse(text) /\ Parse(text) # NoEvent
        /\ Proper(event) /\ given.definition = CrontabEntry(event)
    BY <1>1, <2>1, ScheduledEvent
  <2>3. event["Year"].values = {} /\ (event["Day"].values = {} \/ event["WeekDay"].values = {})
    BY <2>1 DEF Yearly, HasValue
  <2>4. CronStarts(CrontabEntry(event), t) <=> Happens(event, t)
    BY <2>2, <2>3, CronHappens
  <2>5. Happens(event, t) <=> Says(text, t)
    BY <2>2, <2>3, EventHappens
  <2>6. QED
    BY <2>2, <2>4, <2>5
<1>2. QED
  BY <1>1, TimesInvariant, PTL

(* For any calendar and any texts without a year and without days both of  *)
(* the month and of the week, launchd starts a job at the minutes its text *)
(* says and at no others.                                                  *)
THEOREM LaunchdStartsOnTime == TimesSpec => []LaunchdOnTime
<1>1. ASSUME TimesInv PROVE LaunchdOnTime
  <2>1. SUFFICES ASSUME Scheduled("launchd"), ~Yearly,
                        ~(HasValue(event.Day) /\ HasValue(event.WeekDay)),
                        NEW f \in Field \ {"Second"}, HasValue(event[f]),
                        NEW t \in 0 .. Horizon
                 PROVE  LaunchdStarts(given.definition, t) <=> Says(text, t)
    BY DEF LaunchdOnTime
  <2>2. /\ text \in Text /\ Plain(text) /\ event = Parse(text) /\ Parse(text) # NoEvent
        /\ Proper(event) /\ given.definition = CalendarIntervals(event)
    BY <1>1, <2>1, ScheduledEvent
  <2>3. event["Year"].values = {} /\ (event["Day"].values = {} \/ event["WeekDay"].values = {})
    BY <2>1 DEF Yearly, HasValue
  <2>4. f \in Shared /\ event[f].values # {}
    BY <2>1, <2>3 DEF HasValue, Field, Shared
  <2>5. LaunchdStarts(CalendarIntervals(event), t) <=> Happens(event, t)
    BY <2>3, <2>4, LaunchdHappens
  <2>6. Happens(event, t) <=> Says(text, t)
    BY <2>2, <2>3, EventHappens
  <2>7. QED
    BY <2>2, <2>5, <2>6
<1>2. QED
  BY <1>1, TimesInvariant, PTL

-----------------------------------------------------------------------------
(* Units that begin with different numbers are listed in ascending order,  *)
(* and all of them.                                                        *)
LEMMA AscendingOrder ==
  ASSUME NEW S, IsFiniteSet(S), \A x \in S : x[1] \in Nat,
         \A x, y \in S : x[1] = y[1] => x = y
  PROVE  LET a == Ascending(S)
             n == Cardinality(S)
         IN  /\ n \in Nat /\ a \in [1 .. n -> S]
             /\ \A x \in S : \E i \in 1 .. n : a[i] = x
             /\ \A i, j \in 1 .. n : i < j => a[i][1] < a[j][1]
<1> DEFINE a == Ascending(S)
           n == Cardinality(S)
           Less(x) == {y \in S : y[1] < x[1]}
           rank == [x \in S |-> Cardinality(Less(x))]
           pick == [i \in 1 .. n |-> CHOOSE x \in S : Cardinality(Less(x)) = i - 1]
<1>1. n \in Nat
  BY FS_CardinalityType
<1>2. a = pick
  BY DEF Ascending
<1>3. \A x \in S : IsFiniteSet(Less(x)) /\ Cardinality(Less(x)) \in Nat
  <2>1. \A x \in S : Less(x) \in SUBSET S
    OBVIOUS
  <2> HIDE DEF Less
  <2>2. \A x \in S : IsFiniteSet(Less(x))
    BY <2>1, FS_Subset
  <2>3. QED
    BY <2>2, FS_CardinalityType
<1>4. ASSUME NEW x \in S, NEW y \in S, x[1] < y[1]
      PROVE  Cardinality(Less(x)) < Cardinality(Less(y))
  <2>1. Less(x) \cup {x} \subseteq Less(y)
    BY <1>4
  <2>2. x \notin Less(x)
    BY <1>4
  <2> HIDE DEF Less
  <2>3. Cardinality(Less(x) \cup {x}) = Cardinality(Less(x)) + 1
    BY <1>3, <2>2, FS_AddElement
  <2>4. Cardinality(Less(x) \cup {x}) <= Cardinality(Less(y))
    BY <1>3, <2>1, FS_Subset
  <2>5. QED
    BY <1>3, <2>3, <2>4
<1>5. \A x \in S : Cardinality(Less(x)) \in 0 .. n - 1
  <2>1. SUFFICES ASSUME NEW x \in S PROVE Cardinality(Less(x)) \in 0 .. n - 1
    OBVIOUS
  <2>2. Less(x) \in SUBSET (S \ {x})
    OBVIOUS
  <2> HIDE DEF Less
  <2>3. IsFiniteSet(S \ {x}) /\ Cardinality(S \ {x}) = n - 1
    BY FS_RemoveElement
  <2>4. Cardinality(Less(x)) <= n - 1
    BY <2>2, <2>3, FS_Subset
  <2>5. QED
    BY <1>1, <1>3, <2>4
<1>6. rank \in Injection(S, 0 .. n - 1)
  <2>1. rank \in [S -> 0 .. n - 1]
    BY <1>5
  <2>2. ASSUME NEW x \in S, NEW y \in S, rank[x] = rank[y] PROVE x = y
    <3>1. Cardinality(Less(x)) = Cardinality(Less(y))
      BY <2>2
    <3> HIDE DEF Less
    <3>2. ~(x[1] < y[1]) /\ ~(y[1] < x[1])
      BY <3>1, <1>3, <1>4
    <3>3. x[1] = y[1]
      BY <3>2
    <3>4. QED
      BY <3>3
  <2> HIDE DEF rank
  <2>3. QED
    BY <2>1, <2>2 DEF Injection, IsInjective
<1>7. rank \in Surjection(S, 0 .. n - 1)
  <2> HIDE DEF rank, n
  <2>1. IsFiniteSet(0 .. n - 1) /\ Cardinality(0 .. n - 1) = n
    <3>1. 0 \in Int /\ n - 1 \in Int
      BY <1>1
    <3>2. IsFiniteSet(0 .. n - 1)
          /\ Cardinality(0 .. n - 1) = IF 0 > n - 1 THEN 0 ELSE (n - 1) - 0 + 1
      BY <3>1, FS_Interval
    <3>3. QED
      BY <3>2, <1>1
  <2>2. QED
    BY <1>6, <2>1, FS_Injection DEF n
<1>8. ASSUME NEW i \in 1 .. n PROVE pick[i] \in S /\ Cardinality(Less(pick[i])) = i - 1
  <2>1. i - 1 \in 0 .. n - 1
    BY <1>1
  <2>2. PICK x \in S : rank[x] = i - 1
    BY <2>1, <1>7 DEF Surjection
  <2>3. Cardinality(Less(x)) = i - 1
    BY <2>2
  <2>4. pick[i] = CHOOSE y \in S : Cardinality(Less(y)) = i - 1
    OBVIOUS
  <2> HIDE DEF Less, rank, pick
  <2>5. QED
    BY <2>3, <2>4, Zenon
<1>9. ASSUME NEW x \in S PROVE \E i \in 1 .. n : pick[i] = x
  <2> DEFINE i == Cardinality(Less(x)) + 1
  <2>1. i \in 1 .. n
    BY <1>1, <1>5
  <2>2. pick[i] \in S /\ Cardinality(Less(pick[i])) = i - 1
    BY <2>1, <1>8
  <2> HIDE DEF Less, pick
  <2>3. Cardinality(Less(pick[i])) = Cardinality(Less(x))
    <3>1. i - 1 = Cardinality(Less(x))
      BY <1>3
    <3>2. QED
      BY <2>2, <3>1
  <2> HIDE DEF i
  <2>4. pick[i][1] = x[1]
    BY <2>2, <2>3, <1>3, <1>4
  <2>5. QED
    BY <2>1, <2>2, <2>4
<1>10. ASSUME NEW i \in 1 .. n, NEW j \in 1 .. n, i < j PROVE pick[i][1] < pick[j][1]
  <2>1. /\ pick[i] \in S /\ Cardinality(Less(pick[i])) = i - 1
        /\ pick[j] \in S /\ Cardinality(Less(pick[j])) = j - 1
    BY <1>8
  <2> HIDE DEF Less, pick
  <2>2. ~(pick[j][1] < pick[i][1])
    BY <2>1, <1>4, <1>10, <1>1
  <2>3. pick[i][1] # pick[j][1]
    <3>1. SUFFICES ASSUME pick[i][1] = pick[j][1] PROVE FALSE
      OBVIOUS
    <3>2. pick[i] = pick[j]
      BY <3>1, <2>1
    <3>3. QED
      BY <3>2, <2>1, <1>10
  <2>4. QED
    BY <2>1, <2>2, <2>3
<1>11. pick \in [1 .. n -> S]
  <2> DEFINE only(i) == CHOOSE x \in S : Cardinality(Less(x)) = i - 1
  <2>1. pick = [i \in 1 .. n |-> only(i)]
    OBVIOUS
  <2>2. \A i \in 1 .. n : pick[i] = only(i)
    OBVIOUS
  <2> HIDE DEF pick, only, Less
  <2>3. \A i \in 1 .. n : only(i) \in S
    BY <1>8, <2>2
  <2>4. QED
    BY <2>1, <2>3
<1> HIDE DEF pick, n, a
<1>12. QED
  BY <1>1, <1>2, <1>9, <1>10, <1>11 DEF n, a

(* The ranges that are shown, and that no two begin with the same value.   *)
LEMMA RangesDiffer ==
  ASSUME NEW v, v.values \subseteq Nat, IsFiniteSet(v.values)
  PROVE  /\ IsFiniteSet(GetRanges(v))
         /\ \A r, s \in GetRanges(v) : r[1] = s[1] => r = s
<1>1. IsFiniteSet(GetRanges(v))
  <2>1. IsFiniteSet(v.values \X v.values)
    BY FS_Product
  <2>2. GetRanges(v) \in SUBSET (v.values \X v.values)
    BY DEF GetRanges
  <2>3. QED
    BY <2>1, <2>2, FS_Subset
<1>2. ASSUME NEW r \in GetRanges(v), NEW s \in GetRanges(v), r[1] = s[1] PROVE ~(r[2] < s[2])
  <2>1. /\ r[1] \in Nat /\ r[2] \in Nat /\ r[1] <= r[2] /\ s[1] \in Nat /\ s[2] \in Nat
        /\ s[1] .. s[2] \subseteq v.values
    BY RangesHold
  <2>2. r[2] + 1 \notin v.values
    BY DEF GetRanges
  <2>3. r[2] < s[2] => r[2] + 1 \in s[1] .. s[2]
    BY <2>1, <1>2
  <2>4. QED
    BY <2>1, <2>2, <2>3
<1>3. ASSUME NEW r \in GetRanges(v), NEW s \in GetRanges(v), r[1] = s[1] PROVE r = s
  <2>1. r = <<r[1], r[2]>> /\ s = <<s[1], s[2]>> /\ r[2] \in Nat /\ s[2] \in Nat
    BY RangesHold
  <2>2. r[2] = s[2]
    BY <1>2, <1>3, <2>1
  <2>3. QED
    BY <2>1, <2>2, <1>3
<1>4. QED
  BY <1>1, <1>3

(* What is shown of a field stands for its values; its units are in order. *)
LEMMA TextValues ==
  ASSUME NEW v, v.values \subseteq Nat, IsFiniteSet(v.values)
  PROVE  LET units == ValueText(v)
         IN  /\ units \in Units
             /\ ValueOf(units).values = v.values
             /\ \A i \in DOMAIN units : Len(units[i]) # 1 => units[i][1] < units[i][2]
             /\ \A i, j \in DOMAIN units : i < j => units[i][1] < units[j][1]
<1> DEFINE units == ValueText(v)
           Shown(r) == IF r[1] = r[2] THEN <<r[1]>> ELSE r
           R == GetRanges(v)
           S == IF HasLongContiguousRange(v) THEN {Shown(r) : r \in R}
                ELSE {<<x>> : x \in v.values}
<1>1. units = Ascending(S)
  BY DEF ValueText
<1>2. ASSUME HasLongContiguousRange(v)
      PROVE  /\ IsFiniteSet(S)
             /\ \A u \in S : /\ u \in Unit /\ u[1] \in Nat /\ UnitValues(u) \subseteq v.values
                             /\ Len(u) # 1 => u[1] < u[2]
             /\ \A u, w \in S : u[1] = w[1] => u = w
             /\ \A x \in v.values : \E u \in S : x \in UnitValues(u)
  <2>1. S = {Shown(r) : r \in R}
    BY <1>2
  <2>2. ASSUME NEW r \in R
        PROVE  /\ Shown(r) \in Unit /\ Shown(r)[1] = r[1] /\ r[1] \in Nat
               /\ UnitValues(Shown(r)) = r[1] .. r[2]
               /\ r[1] .. r[2] \subseteq v.values
               /\ Len(Shown(r)) # 1 => Shown(r)[1] < Shown(r)[2]
    <3>1. /\ r[1] \in Nat /\ r[2] \in Nat /\ r[1] <= r[2] /\ r = <<r[1], r[2]>>
          /\ r[1] .. r[2] \subseteq v.values
      BY RangesHold
    <3>2. CASE r[1] = r[2]
      <4>1. Shown(r) = <<r[1]>>
        BY <3>2
      <4> DEFINE u == <<r[1]>>
      <4>2. u \in Unit /\ Len(u) = 1 /\ u[1] = r[1]
        BY <3>1 DEF Unit
      <4> HIDE DEF u, Shown
      <4>3. UnitValues(u) = {r[1]}
        BY <4>2, UnitNumbers
      <4>4. r[1] .. r[2] = {r[1]}
        BY <3>1, <3>2
      <4>5. QED
        BY <3>1, <4>1, <4>2, <4>3, <4>4 DEF u
    <3>3. CASE r[1] # r[2]
      <4>1. Shown(r) = r
        BY <3>3
      <4> DEFINE u == <<r[1], r[2]>>
      <4>2. u \in Unit /\ Len(u) = 2 /\ u[1] = r[1] /\ u[2] = r[2]
        BY <3>1 DEF Unit
      <4>3. r = u
        BY <3>1
      <4> HIDE DEF u, Shown
      <4>4. UnitValues(u) = r[1] .. r[2]
        BY <3>1, <4>2, UnitNumbers
      <4>5. r[1] < r[2]
        BY <3>1, <3>3
      <4>6. QED
        BY <3>1, <4>1, <4>2, <4>3, <4>4, <4>5, Zenon
    <3>4. QED
      BY <3>2, <3>3
  <2> HIDE DEF Shown, R
  <2>3. IsFiniteSet(S)
    <3>1. IsFiniteSet(R)
      BY RangesDiffer DEF R
    <3>2. [r \in R |-> Shown(r)] \in Surjection(R, {Shown(r) : r \in R})
      BY DEF Surjection
    <3>3. IsFiniteSet({Shown(r) : r \in R})
      BY <3>1, <3>2, FS_Surjection
    <3>4. QED
      BY <2>1, <3>3
  <2> HIDE DEF S
  <2>4. \A u \in S : \E r \in R : u = Shown(r)
    BY <2>1
  <2>5. ASSUME NEW u \in S
        PROVE  /\ u \in Unit /\ u[1] \in Nat /\ UnitValues(u) \subseteq v.values
               /\ Len(u) # 1 => u[1] < u[2]
    BY <2>2, <2>4
  <2>6. ASSUME NEW u \in S, NEW w \in S, u[1] = w[1] PROVE u = w
    <3>1. PICK r, s \in R : u = Shown(r) /\ w = Shown(s)
      BY <2>4
    <3>2. r[1] = s[1]
      BY <2>2, <2>6, <3>1
    <3>3. QED
      BY <3>1, <3>2, RangesDiffer DEF R
  <2>7. ASSUME NEW x \in v.values PROVE \E u \in S : x \in UnitValues(u)
    <3>1. PICK r \in R : x \in r[1] .. r[2]
      BY RangesHold DEF R
    <3>2. Shown(r) \in S /\ x \in UnitValues(Shown(r))
      BY <3>1, <2>1, <2>2
    <3>3. QED
      BY <3>2
  <2>8. QED
    BY <2>3, <2>5, <2>6, <2>7
<1>3. ASSUME ~HasLongContiguousRange(v)
      PROVE  /\ IsFiniteSet(S)
             /\ \A u \in S : /\ u \in Unit /\ u[1] \in Nat /\ UnitValues(u) \subseteq v.values
                             /\ Len(u) # 1 => u[1] < u[2]
             /\ \A u, w \in S : u[1] = w[1] => u = w
             /\ \A x \in v.values : \E u \in S : x \in UnitValues(u)
  <2>1. S = {<<x>> : x \in v.values}
    BY <1>3
  <2>2. ASSUME NEW x \in v.values
        PROVE  <<x>> \in Unit /\ <<x>>[1] = x /\ Len(<<x>>) = 1 /\ UnitValues(<<x>>) = {x}
    <3> DEFINE u == <<x>>
    <3>1. u \in Unit /\ u[1] = x /\ Len(u) = 1
      BY DEF Unit
    <3> HIDE DEF u
    <3>2. UnitValues(u) = {x}
      BY <3>1, UnitNumbers
    <3>3. QED
      BY <3>1, <3>2 DEF u
  <2>3. IsFiniteSet(S)
    <3>1. [x \in v.values |-> <<x>>] \in Surjection(v.values, {<<x>> : x \in v.values})
      BY DEF Surjection
    <3>2. QED
      BY <3>1, <2>1, FS_Surjection
  <2> HIDE DEF S
  <2>4. ASSUME NEW u \in S
        PROVE  /\ u \in Unit /\ u[1] \in Nat /\ UnitValues(u) \subseteq v.values
               /\ Len(u) # 1 => u[1] < u[2]
    <3>1. PICK x \in v.values : u = <<x>>
      BY <2>1
    <3>2. QED
      BY <3>1, <2>2
  <2>5. ASSUME NEW u \in S, NEW w \in S, u[1] = w[1] PROVE u = w
    <3>1. PICK x, y \in v.values : u = <<x>> /\ w = <<y>>
      BY <2>1
    <3>2. x = y
      BY <3>1, <2>5, <2>2
    <3>3. QED
      BY <3>1, <3>2
  <2>6. ASSUME NEW x \in v.values PROVE \E u \in S : x \in UnitValues(u)
    BY <2>1, <2>2, ZenonT(30)
  <2>7. QED
    BY <2>3, <2>4, <2>5, <2>6
<1> HIDE DEF units, S
<1>4. /\ IsFiniteSet(S)
      /\ \A u \in S : /\ u \in Unit /\ u[1] \in Nat /\ UnitValues(u) \subseteq v.values
                      /\ Len(u) # 1 => u[1] < u[2]
      /\ \A u, w \in S : u[1] = w[1] => u = w
      /\ \A x \in v.values : \E u \in S : x \in UnitValues(u)
  BY <1>2, <1>3
<1> DEFINE n == Cardinality(S)
<1>5. /\ n \in Nat /\ units \in [1 .. n -> S]
      /\ \A x \in S : \E i \in 1 .. n : units[i] = x
      /\ \A i, j \in 1 .. n : i < j => units[i][1] < units[j][1]
  BY <1>1, <1>4, AscendingOrder
<1> HIDE DEF n
<1>6. DOMAIN units = 1 .. n /\ \A i \in 1 .. n : units[i] \in S
  BY <1>5
<1>7. units \in Units
  <2>1. units \in [1 .. n -> Unit]
    BY <1>4, <1>5, <1>6
  <2>2. QED
    BY <2>1, <1>5 DEF Units
<1>8. ValueOf(units).values = v.values
  <2>1. \A x : x \in ValueOf(units).values <=> \E i \in 1 .. n : x \in UnitValues(units[i])
    BY <1>6, <1>7, ListValues
  <2>2. ASSUME NEW x \in v.values PROVE \E i \in 1 .. n : x \in UnitValues(units[i])
    <3>1. PICK u \in S : x \in UnitValues(u)
      BY <1>4
    <3>2. PICK i \in 1 .. n : units[i] = u
      BY <1>5
    <3>3. QED
      BY <3>1, <3>2
  <2>3. \A i \in 1 .. n : UnitValues(units[i]) \subseteq v.values
    BY <1>4, <1>6
  <2>4. QED
    BY <2>1, <2>2, <2>3
<1>9. QED
  BY <1>4, <1>5, <1>6, <1>7, <1>8 DEF units

-----------------------------------------------------------------------------
(* No month is longer than the longest one.                                *)
LEMMA LongestDay ==
  LongestMonth \in Nat \ {0} /\ \A i \in DOMAIN Dates : Dates[i][3] \in 1 .. LongestMonth
<1> DEFINE days == {Dates[i][3] : i \in DOMAIN Dates}
           n == Len(Dates)
           Bounded == {b \in Nat : \A i \in 1 .. n : Dates[i][3] <= b}
           Reached == {k \in Nat : \E b \in Nat : \A i \in 1 .. n : i <= k => Dates[i][3] <= b}
<1>1. n \in Nat \ {0} /\ DOMAIN Dates = 1 .. n /\ \A i \in 1 .. n : Dates[i][3] \in Nat \ {0}
  BY CalendarAssumption
<1> HIDE DEF n
<1>2. 0 \in Reached
  <2>1. \A i \in 1 .. n : i <= 0 => Dates[i][3] <= 0
    OBVIOUS
  <2>2. QED
    BY <2>1
<1>3. ASSUME NEW k \in Nat, k \in Reached PROVE k + 1 \in Reached
  <2>1. PICK b \in Nat : \A i \in 1 .. n : i <= k => Dates[i][3] <= b
    BY <1>3
  <2>2. CASE k + 1 \in 1 .. n
    <3> DEFINE d == Dates[k + 1][3]
               c == b + d
    <3>1. d \in Nat
      BY <1>1, <2>2
    <3> HIDE DEF d
    <3>2. c \in Nat /\ b <= c /\ d <= c
      BY <3>1
    <3> HIDE DEF c
    <3>3. ASSUME NEW i \in 1 .. n, i <= k + 1 PROVE Dates[i][3] <= c
      <4>1. CASE i <= k
        BY <4>1, <2>1, <1>1, <3>2
      <4>2. CASE i = k + 1
        BY <4>2, <3>2 DEF d
      <4>3. QED
        BY <3>3, <4>1, <4>2
    <3>4. QED
      BY <3>2, <3>3
  <2>3. CASE k + 1 \notin 1 .. n
    <3>1. \A i \in 1 .. n : i <= k + 1 => i <= k
      BY <2>3
    <3>2. QED
      BY <3>1, <2>1
  <2>4. QED
    BY <2>2, <2>3
<1>4. n \in Reached
  <2> HIDE DEF Reached
  <2>1. Nat \subseteq Reached
    BY <1>2, <1>3, Induction
  <2>2. QED
    BY <2>1, <1>1
<1>5. Bounded # {}
  BY <1>4
<1>6. PICK m \in Bounded : \A b \in Bounded : m <= b
  <2>1. Bounded \in SUBSET Nat
    OBVIOUS
  <2> HIDE DEF Bounded
  <2>2. QED
    BY <2>1, <1>5, Minimum
<1>7. m # 0
  BY <1>1, <1>6
<1>8. m - 1 \in Nat /\ m - 1 \notin Bounded
  <2>1. m - 1 \in Nat /\ ~(m <= m - 1)
    BY <1>6, <1>7
  <2> HIDE DEF Bounded
  <2>2. QED
    BY <2>1, <1>6
<1>9. PICK i \in 1 .. n : ~(Dates[i][3] <= m - 1)
  BY <1>8
<1>10. m = Dates[i][3]
  BY <1>1, <1>6, <1>8, <1>9
<1>11. m \in days /\ \A d \in days : m >= d
  BY <1>1, <1>6, <1>9, <1>10
<1>12. LongestMonth = CHOOSE x \in days : \A d \in days : x >= d
  BY DEF LongestMonth, Max
<1> HIDE DEF days
<1>13. LongestMonth \in days /\ \A d \in days : LongestMonth >= d
  BY <1>11, <1>12, Zenon
<1>14. QED
  BY <1>1, <1>13 DEF days

(* The second is what the text says, or the first of the minute.           *)
LEMMA SecondOf ==
  ASSUME NEW tx \in Text
  PROVE  \/ ParseParts(tx)["Second"] = Midnight
         \/ \E units \in Units : ParseParts(tx)["Second"] = ValueOf(units)
<1>1. ParseParts(tx)["Second"] = IF Len(tx.time) < 3 THEN Midnight ELSE ValueOf(tx.time[3])
  BY DEF ParseParts
<1>2. ASSUME ~(Len(tx.time) < 3) PROVE tx.time[3] \in Units
  <2>1. tx.time = <<>> \/ tx.time \in [1 .. 2 -> Units] \/ tx.time \in [1 .. 3 -> Units]
    BY DEF Text
  <2>2. tx.time # <<>>
    BY <1>2
  <2>3. tx.time \notin [1 .. 2 -> Units]
    <3>1. \A h \in [1 .. 2 -> Units] : Len(h) < 3
      OBVIOUS
    <3>2. QED
      BY <3>1, <1>2, Zenon
  <2>4. tx.time \in [1 .. 3 -> Units]
    BY <2>1, <2>2, <2>3
  <2>5. QED
    BY <2>4
<1>3. QED
  BY <1>1, <1>2

(* Every field of a text without a keyword is of units, any or zero.       *)
LEMMA PartValues ==
  ASSUME NEW tx \in Text, NEW f \in Field
  PROVE  \/ \E units \in Units : ParseParts(tx)[f] = ValueOf(units)
         \/ ParseParts(tx)[f] = AnyValue
         \/ ParseParts(tx)[f] = Midnight
<1>1. CASE f = "WeekDay"
  BY <1>1, Parsed, TextLists, DayUnits, Zenon
<1>2. CASE f \in {"Month", "Day"}
  BY <1>2, Parsed, TextLists, NoUnits
<1>3. CASE f \in {"Hour", "Minute"}
  BY <1>3, Parsed, TextLists
<1>4. CASE f = "Year"
  <2> DEFINE units == IF tx.date = <<>> THEN <<>> ELSE tx.date[1]
  <2>1. units \in Units
    BY TextLists, NoUnits
  <2>2. ParseParts(tx)["Year"] = ValueOf(YearUnits(units))
    BY Parsed
  <2> HIDE DEF units
  <2>3. YearUnits(units) \in Units
    BY <2>1, YearUnitsOf
  <2>4. QED
    BY <2>2, <2>3, <1>4
<1>5. CASE f = "Second"
  BY <1>5, SecondOf
<1>6. QED
  BY <1>1, <1>2, <1>3, <1>4, <1>5 DEF Field

(* The fields of a text are values: it is parsed into an event.            *)
LEMMA PartsAreEvent ==
  ASSUME NEW tx \in Text
  PROVE  ParseParts(tx) # NoEvent
<1> DEFINE e == ParseParts(tx)
<1>1. e = [f \in Field |-> e[f]]
  BY DEF ParseParts, Field
<1> HIDE DEF e
<1>2. ASSUME NEW units \in Units PROVE ValueOf(units) \in Value
  <2>1. ValueOf(units).values \in SUBSET Nat
    BY ListValues
  <2> DEFINE vs == ValueOf(units).values
             one == Len(units) = 1 /\ Cardinality(UnitValues(units[1])) = 1
  <2>2. ValueOf(units) = [values |-> vs, single |-> one]
    BY DEF ValueOf
  <2>3. one \in BOOLEAN
    BY Zenon
  <2> HIDE DEF vs, one
  <2>4. vs \in SUBSET Nat
    BY <2>1 DEF vs
  <2>5. \A ns \in SUBSET Nat, b \in BOOLEAN : [values |-> ns, single |-> b] \in Value
    BY DEF Value
  <2>6. QED
    BY <2>2, <2>3, <2>4, <2>5, Zenon
<1>3. AnyValue \in Value /\ Midnight \in Value
  BY DEF AnyValue, Midnight, SingleValue, Value
<1>4. \A f \in Field : e[f] \in Value
  BY <1>2, <1>3, PartValues DEF e
<1>5. e \in [Field -> Value]
  BY <1>1, <1>4
<1>6. QED
  BY <1>5, CalendarAssumption DEF e

(* The values of an event are numbers within the bounds of their field.    *)
Whole(e) ==
  \A f \in Field : /\ e[f].values \subseteq Nat /\ IsFiniteSet(e[f].values)
                   /\ e[f].values \subseteq Bounds(f)

(* What the keywords set is within the bounds.                             *)
LEMMA KeywordWhole == \A k \in Keyword : Whole(KeywordValues[k])
<1>1. \A k \in Keyword : KeywordValues[k]["Second"] = SingleValue(0)
  BY KeywordFields
<1>2. \A k \in Keyword, f \in Field :
        \/ KeywordValues[k][f] = AnyValue
        \/ KeywordValues[k][f] = SingleValue(0) /\ f \in {"Hour", "Minute", "Second"}
        \/ KeywordValues[k][f] = SingleValue(1) /\ f \in {"WeekDay", "Month", "Day"}
        \/ KeywordValues[k][f] = ValueOf(<<<<1>>, <<7>>>>) /\ f = "Month"
        \/ KeywordValues[k][f] = ValueOf(<<<<1>>, <<4>>, <<7>>, <<10>>>>) /\ f = "Month"
  BY <1>1, KeywordFields DEF Keyword, Field
<1>3. /\ ValueOf(<<<<1>>, <<7>>>>).values \subseteq 1 .. 12
      /\ ValueOf(<<<<1>>, <<4>>, <<7>>, <<10>>>>).values \subseteq 1 .. 12
  <2>1. ASSUME NEW units \in Units,
               \A i \in DOMAIN units : Len(units[i]) = 1 /\ units[i][1] \in 1 .. 12
        PROVE  ValueOf(units).values \subseteq 1 .. 12
    <3>1. \A i \in DOMAIN units : units[i] \in Unit
      BY DEF Units
    <3>2. \A i \in DOMAIN units : UnitValues(units[i]) = {units[i][1]}
      BY <3>1, <2>1, UnitNumbers
    <3>3. QED
      BY <3>2, <2>1, ListValues
  <2> DEFINE a == <<<<1>>, <<7>>>>
             b == <<<<1>>, <<4>>, <<7>>, <<10>>>>
  <2>2. a \in Units /\ \A i \in DOMAIN a : Len(a[i]) = 1 /\ a[i][1] \in 1 .. 12
    BY Numbers
  <2>3. b \in Units /\ \A i \in DOMAIN b : Len(b[i]) = 1 /\ b[i][1] \in 1 .. 12
    BY Numbers
  <2> HIDE DEF a, b
  <2>4. ValueOf(a).values \subseteq 1 .. 12 /\ ValueOf(b).values \subseteq 1 .. 12
    BY <2>1, <2>2, <2>3
  <2>5. QED
    BY <2>4 DEF a, b
<1>4. \A f \in {"Hour", "Minute", "Second"} : 0 \in Bounds(f)
  BY CalendarAssumption DEF Bounds
<1>5. \A f \in {"WeekDay", "Month", "Day"} : 1 \in Bounds(f)
  BY CalendarAssumption, LongestDay DEF Bounds
<1>6. Bounds("Month") = 1 .. 12
  BY DEF Bounds
<1>7. /\ IsFiniteSet({}) /\ IsFiniteSet({0}) /\ IsFiniteSet({1})
      /\ IsFiniteSet(ValueOf(<<<<1>>, <<7>>>>).values)
      /\ IsFiniteSet(ValueOf(<<<<1>>, <<4>>, <<7>>, <<10>>>>).values)
  BY FS_EmptySet, FS_Singleton, Numbers, ListValues
<1>8. SUFFICES ASSUME NEW k \in Keyword, NEW f \in Field
               PROVE  LET S == KeywordValues[k][f].values
                      IN  S \subseteq Nat /\ IsFiniteSet(S) /\ S \subseteq Bounds(f)
  BY DEF Whole
<1> DEFINE S == KeywordValues[k][f].values
<1>9. \/ S = {}
      \/ S = {0} /\ f \in {"Hour", "Minute", "Second"}
      \/ S = {1} /\ f \in {"WeekDay", "Month", "Day"}
      \/ S = ValueOf(<<<<1>>, <<7>>>>).values /\ f = "Month"
      \/ S = ValueOf(<<<<1>>, <<4>>, <<7>>, <<10>>>>).values /\ f = "Month"
  BY <1>2, FieldValues, Zenon
<1> HIDE DEF S
<1>10. S \subseteq Nat /\ IsFiniteSet(S) /\ S \subseteq Bounds(f)
  <2> DEFINE a == ValueOf(<<<<1>>, <<7>>>>).values
             b == ValueOf(<<<<1>>, <<4>>, <<7>>, <<10>>>>).values
  <2>1. ASSUME S = {} PROVE S \subseteq Nat /\ IsFiniteSet(S) /\ S \subseteq Bounds(f)
    BY <1>7, <2>1
  <2>2. ASSUME S = {0}, f \in {"Hour", "Minute", "Second"}
        PROVE  S \subseteq Nat /\ IsFiniteSet(S) /\ S \subseteq Bounds(f)
    BY <1>4, <1>7, <2>2
  <2>3. ASSUME S = {1}, f \in {"WeekDay", "Month", "Day"}
        PROVE  S \subseteq Nat /\ IsFiniteSet(S) /\ S \subseteq Bounds(f)
    BY <1>5, <1>7, <2>3
  <2>4. a \subseteq 1 .. 12 /\ b \subseteq 1 .. 12 /\ IsFiniteSet(a) /\ IsFiniteSet(b)
    BY <1>3, <1>7
  <2>5. \/ S = {}
        \/ S = {0} /\ f \in {"Hour", "Minute", "Second"}
        \/ S = {1} /\ f \in {"WeekDay", "Month", "Day"}
        \/ S = a /\ f = "Month"
        \/ S = b /\ f = "Month"
    BY <1>9, Zenon
  <2> HIDE DEF a, b
  <2>6. ASSUME S = a \/ S = b, f = "Month"
        PROVE  S \subseteq Nat /\ IsFiniteSet(S) /\ S \subseteq Bounds(f)
    <3>1. S \subseteq 1 .. 12 /\ IsFiniteSet(S)
      BY <2>4, <2>6
    <3>2. S \subseteq Nat
      BY <3>1
    <3>3. QED
      BY <1>6, <2>6, <3>1, <3>2
  <2>7. QED
    BY <2>1, <2>2, <2>3, <2>5, <2>6
<1>11. QED
  BY <1>10 DEF S

(* So is what a text is parsed into.                                       *)
LEMMA EventWhole ==
  ASSUME NEW tx \in Text, Parse(tx) # NoEvent
  PROVE  Whole(Parse(tx))
<1>1. CASE tx.keyword \in Keyword
  BY <1>1, KeywordWhole DEF Parse
<1>2. CASE tx.keyword \notin Keyword
  <2> DEFINE e == ParseParts(tx)
  <2>1. Parse(tx) = e /\ \A f \in Field : e[f].values \subseteq Bounds(f)
    BY <1>2 DEF Parse
  <2>2. ASSUME NEW f \in Field PROVE e[f].values \subseteq Nat /\ IsFiniteSet(e[f].values)
    <3>1. CASE \E units \in Units : e[f] = ValueOf(units)
      BY <3>1, ListValues
    <3>2. CASE e[f] = AnyValue \/ e[f] = Midnight
      <4>1. e[f].values = {} \/ e[f].values = {0}
        BY <3>2, FieldValues, Zenon DEF Midnight
      <4>2. IsFiniteSet({}) /\ IsFiniteSet({0})
        BY FS_EmptySet, FS_Singleton
      <4> HIDE DEF e
      <4>3. QED
        BY <4>1, <4>2
    <3>3. QED
      BY <3>1, <3>2, PartValues
  <2> HIDE DEF e
  <2>3. QED
    BY <2>1, <2>2 DEF Whole
<1>3. QED
  BY <1>1, <1>2

-----------------------------------------------------------------------------
(* The numbers of a unit, and of a list of units, are among its values.    *)
LEMMA UnitHolds ==
  ASSUME NEW u \in Unit
  PROVE  /\ DOMAIN u = 1 .. Len(u) /\ Len(u) \in {1, 2}
         /\ \A j \in DOMAIN u : u[j] \in Nat /\ u[j] \in UnitValues(u)
         /\ u = [j \in DOMAIN u |-> u[j]]
<1>1. /\ DOMAIN u = 1 .. Len(u) /\ Len(u) \in {1, 2}
      /\ \A j \in DOMAIN u : u[j] \in Nat
      /\ u = [j \in DOMAIN u |-> u[j]]
  BY DEF Unit
<1>2. CASE Len(u) = 1
  BY <1>1, <1>2, UnitNumbers
<1>3. CASE Len(u) # 1
  <2>1. u[1] \in UnitValues(u) /\ u[2] \in UnitValues(u)
    BY <1>3, UnitEnds
  <2>2. DOMAIN u = {1, 2}
    BY <1>1, <1>3
  <2>3. QED
    BY <1>1, <2>1, <2>2
<1>4. QED
  BY <1>1, <1>2, <1>3

(* And of a list of units.                                                 *)
LEMMA ListHolds ==
  ASSUME NEW units \in Units
  PROVE  /\ DOMAIN units = 1 .. Len(units) /\ Len(units) \in Nat
         /\ units = [i \in DOMAIN units |-> units[i]]
         /\ \A i \in DOMAIN units :
              /\ units[i] \in Unit
              /\ \A j \in DOMAIN units[i] : units[i][j] \in ValueOf(units).values
<1>1. /\ DOMAIN units = 1 .. Len(units) /\ Len(units) \in Nat
      /\ units = [i \in DOMAIN units |-> units[i]]
      /\ \A i \in DOMAIN units : units[i] \in Unit
  BY DEF Units
<1>2. \A i \in DOMAIN units : \A j \in DOMAIN units[i] : units[i][j] \in UnitValues(units[i])
  BY <1>1, UnitHolds
<1>3. QED
  BY <1>1, <1>2, ListValues

(* A year that is shown in full is read as it is.                          *)
LEMMA YearsShown ==
  ASSUME NEW v, v.values \subseteq 2000 .. 2200, IsFiniteSet(v.values)
  PROVE  YearUnits(ValueText(v)) = ValueText(v)
<1> DEFINE units == ValueText(v)
<1>1. units \in Units /\ ValueOf(units).values = v.values
  BY TextValues
<1> HIDE DEF units
<1>2. ASSUME NEW i \in DOMAIN units PROVE YearUnits(units)[i] = units[i]
  <2> DEFINE u == units[i]
             y == [j \in DOMAIN u |-> u[j] + (IF u[j] < 1000 THEN 2000 ELSE 0)]
  <2>1. YearUnits(units)[i] = y
    BY <1>2 DEF YearUnits
  <2>2. u = [j \in DOMAIN u |-> u[j]]
    BY <1>1, <1>2, ListHolds, UnitHolds
  <2>3. \A j \in DOMAIN u : u[j] \in 2000 .. 2200
    <3>1. \A j \in DOMAIN units[i] : units[i][j] \in ValueOf(units).values
      BY <1>1, <1>2, ListHolds
    <3>2. \A j \in DOMAIN units[i] : units[i][j] \in v.values
      BY <1>1, <3>1
    <3>3. QED
      BY <3>2
  <2> HIDE DEF u
  <2>4. \A j \in DOMAIN u : u[j] + (IF u[j] < 1000 THEN 2000 ELSE 0) = u[j]
    BY <2>3
  <2>5. y = [j \in DOMAIN u |-> u[j]]
    BY <2>4
  <2>6. QED
    BY <2>1, <2>2, <2>5 DEF u
<1>3. YearUnits(units) = [i \in DOMAIN units |-> YearUnits(units)[i]]
  BY DEF YearUnits
<1>4. units = [i \in DOMAIN units |-> units[i]]
  BY <1>1, ListHolds
<1>5. YearUnits(units) = units
  BY <1>2, <1>3, <1>4
<1>6. QED
  BY <1>5 DEF units

(* The name of a day of the week: that of both Sundays is the same.        *)
LEMMA DayNames ==
  ASSUME NEW x \in 0 .. Week
  PROVE  x % Week = IF x = Week THEN 0 ELSE x
<1>1. Week \in Nat \ {0} /\ x \in Nat
  BY CalendarAssumption
<1>2. CASE x = Week
  <2>1. x = Week * 1 + 0 /\ 0 < Week
    BY <1>1, <1>2
  <2>2. QED
    BY <2>1, <1>1, <1>2, Quotient
<1>3. CASE x # Week
  <2>1. x = Week * 0 + x /\ x < Week
    BY <1>1, <1>3
  <2>2. QED
    BY <2>1, <1>1, <1>3, Quotient
<1>4. QED
  BY <1>2, <1>3

Named(units) ==
  [i \in DOMAIN units |-> [j \in DOMAIN units[i] |-> units[i][j] % Week]]

(* Days are shown with names, and read back: a Sunday that is not the      *)
(* first number is the last day of the week, as it was.                    *)
LEMMA DaysShown ==
  ASSUME NEW v, v.values \subseteq 0 .. Week, IsFiniteSet(v.values), v.values # {}
  PROVE  LET units == Named(ValueText(v))
             back == ValueOf(WeekDayUnits(units)).values
         IN  /\ units \in Units
             /\ back = v.values \/ (v.values = {Week} /\ back = {0})
<1> DEFINE V == ValueText(v)
           units == Named(V)
           W == WeekDayUnits(units)
<1>1. Week \in Nat \ {0}
  BY CalendarAssumption
<1>2. /\ V \in Units /\ ValueOf(V).values = v.values
      /\ \A i \in DOMAIN V : Len(V[i]) # 1 => V[i][1] < V[i][2]
      /\ \A i, j \in DOMAIN V : i < j => V[i][1] < V[j][1]
  <2>1. v.values \subseteq Nat
    BY <1>1
  <2>2. QED
    BY <2>1, TextValues
<1> HIDE DEF V
<1>3. /\ DOMAIN V = 1 .. Len(V) /\ Len(V) \in Nat /\ V = [i \in DOMAIN V |-> V[i]]
      /\ V # <<>>
  BY <1>2, ListHolds, ListValues
<1>4. 1 \in DOMAIN V
  BY <1>2, <1>3 DEF Units
<1>5. \A i \in DOMAIN V :
        /\ V[i] \in Unit /\ DOMAIN V[i] = 1 .. Len(V[i]) /\ Len(V[i]) \in {1, 2}
        /\ V[i] = [j \in DOMAIN V[i] |-> V[i][j]]
  BY <1>2, ListHolds, UnitHolds
<1>6. \A i \in DOMAIN V : \A j \in DOMAIN V[i] : V[i][j] \in 0 .. Week
  BY <1>2, ListHolds
<1>7. /\ DOMAIN units = DOMAIN V
      /\ \A i \in DOMAIN V : /\ units[i] = [j \in DOMAIN V[i] |-> V[i][j] % Week]
                             /\ DOMAIN units[i] = DOMAIN V[i]
                             /\ \A j \in DOMAIN V[i] : units[i][j] = V[i][j] % Week
  BY DEF Named
<1>8. \A i \in DOMAIN V : \A j \in DOMAIN V[i] :
        units[i][j] = (IF V[i][j] = Week THEN 0 ELSE V[i][j])
  BY <1>6, <1>7, DayNames
<1> HIDE DEF units
<1>9. units \in Units
  <2>1. ASSUME NEW i \in DOMAIN V PROVE units[i] \in Unit
    <3> DEFINE u == units[i]
               n == Len(V[i])
    <3>1. n \in {1, 2} /\ DOMAIN V[i] = 1 .. n
      BY <1>5, <2>1
    <3>2. u = [j \in 1 .. n |-> V[i][j] % Week]
      BY <1>7, <2>1, <3>1
    <3>3. \A j \in 1 .. n : V[i][j] % Week \in Nat
      BY <1>6, <1>1, <2>1, <3>1, Quotient
    <3> HIDE DEF u, n
    <3>4. u \in [1 .. n -> Nat]
      BY <3>2, <3>3
    <3>5. u \in Unit
      BY <3>1, <3>4 DEF Unit
    <3>6. QED
      BY <3>5 DEF u
  <2>2. units = [i \in 1 .. Len(V) |-> units[i]]
    BY <1>3 DEF units, Named
  <2>3. units \in [1 .. Len(V) -> Unit]
    BY <2>1, <2>2, <1>3
  <2>4. QED
    BY <2>3, <1>3 DEF Units
<1>10. /\ W \in Units /\ DOMAIN W = DOMAIN V
       /\ \A i \in DOMAIN V :
            /\ Len(W[i]) = Len(V[i]) /\ W[i] \in Unit
            /\ W[i][1] = IF units[i][1] = 0 /\ i # 1 THEN Week ELSE units[i][1]
            /\ Len(V[i]) = 2 => W[i][2] = IF units[i][2] = 0 THEN Week ELSE units[i][2]
  <2>1. \A i \in DOMAIN V : Len(units[i]) = Len(V[i])
    <3>1. ASSUME NEW i \in DOMAIN V PROVE Len(units[i]) = Len(V[i])
      <4>1. /\ units[i] \in Unit /\ DOMAIN units[i] = DOMAIN V[i]
            /\ V[i] \in Unit
        BY <1>5, <1>7, <1>9, <3>1, ListHolds
      <4>2. DOMAIN units[i] = 1 .. Len(units[i]) /\ DOMAIN V[i] = 1 .. Len(V[i])
            /\ Len(units[i]) \in {1, 2} /\ Len(V[i]) \in {1, 2}
        BY <4>1, UnitHolds
      <4>3. ASSUME NEW a \in {1, 2}, NEW b \in {1, 2}, 1 .. a = 1 .. b PROVE a = b
        <5>1. a \in 1 .. b /\ b \in 1 .. a
          BY <4>3
        <5>2. QED
          BY <5>1
      <4>4. QED
        BY <4>1, <4>2, <4>3
    <3>2. QED
      BY <3>1
  <2>2. QED
    BY <2>1, <1>7, <1>9, DayUnits
<1> HIDE DEF W
<1>11. CASE V[1][1] = Week
  <2>1. DOMAIN V = {1} /\ Len(V[1]) = 1
    <3>1. \A i \in DOMAIN V : 1 \in DOMAIN V[i]
      BY <1>5
    <3>2. ASSUME NEW i \in DOMAIN V PROVE i = 1
      <4>1. V[i][1] \in 0 .. Week
        BY <1>6, <3>1
      <4>2. 1 < i => V[1][1] < V[i][1]
        BY <1>2, <1>4
      <4>3. QED
        BY <4>1, <4>2, <1>11, <1>1, <1>3
    <3>3. ASSUME Len(V[1]) # 1 PROVE FALSE
      <4>1. 2 \in DOMAIN V[1]
        BY <1>4, <1>5, <3>3
      <4>2. V[1][2] \in 0 .. Week /\ V[1][1] < V[1][2]
        BY <1>2, <1>4, <1>6, <3>3, <4>1
      <4>3. QED
        BY <4>2, <1>11, <1>1
    <3>4. QED
      BY <1>4, <3>2, <3>3
  <2>2. UnitValues(V[1]) = {Week}
    BY <2>1, <1>4, <1>5, <1>11, UnitNumbers
  <2>3. v.values = {Week}
    BY <2>1, <2>2, <1>2, ListValues
  <2>4. units[1][1] = 0
    <3>1. 1 \in DOMAIN V[1]
      BY <1>4, <1>5
    <3>2. QED
      BY <3>1, <1>4, <1>8, <1>11
  <2>5. Len(W[1]) = 1 /\ W[1][1] = 0 /\ W[1] \in Unit
    BY <1>4, <1>10, <2>1, <2>4
  <2>6. UnitValues(W[1]) = {0}
    BY <2>5, UnitNumbers
  <2>7. ValueOf(W).values = {0}
    BY <2>1, <2>6, <1>10, ListValues
  <2>8. QED
    BY <2>3, <2>7, <1>9 DEF V, units, W
<1>12. CASE V[1][1] # Week
  <2>1. ASSUME NEW i \in DOMAIN V PROVE W[i] = V[i]
    <3>1. /\ Len(W[i]) = Len(V[i]) /\ W[i] \in Unit /\ V[i] \in Unit /\ Len(V[i]) \in {1, 2}
          /\ 1 \in DOMAIN V[i]
      BY <1>5, <1>10, <2>1
    <3>2. W[i][1] = V[i][1]
      <4>1. units[i][1] = (IF V[i][1] = Week THEN 0 ELSE V[i][1])
        BY <1>8, <2>1, <3>1
      <4>2. W[i][1] = IF units[i][1] = 0 /\ i # 1 THEN Week ELSE units[i][1]
        BY <1>10, <2>1
      <4>3. V[i][1] \in 0 .. Week /\ V[1][1] \in 0 .. Week
        BY <1>4, <1>5, <1>6, <2>1, <3>1
      <4>4. i # 1 => V[1][1] < V[i][1]
        BY <1>2, <1>3, <1>4, <2>1
      <4>5. QED
        BY <4>1, <4>2, <4>3, <4>4, <1>1, <1>12
    <3>3. Len(V[i]) = 2 => W[i][2] = V[i][2]
      <4>1. SUFFICES ASSUME Len(V[i]) = 2 PROVE W[i][2] = V[i][2]
        OBVIOUS
      <4>2. 2 \in DOMAIN V[i]
        BY <1>5, <2>1, <4>1
      <4>3. units[i][2] = (IF V[i][2] = Week THEN 0 ELSE V[i][2])
        BY <1>8, <2>1, <4>2
      <4>4. W[i][2] = IF units[i][2] = 0 THEN Week ELSE units[i][2]
        BY <1>10, <2>1, <4>1
      <4>5. V[i][1] \in 0 .. Week /\ V[i][2] \in 0 .. Week /\ V[i][1] < V[i][2]
        BY <1>2, <1>6, <2>1, <3>1, <4>1, <4>2
      <4>6. QED
        BY <4>3, <4>4, <4>5, <1>1
    <3>4. /\ W[i] = [j \in 1 .. Len(V[i]) |-> W[i][j]]
          /\ V[i] = [j \in 1 .. Len(V[i]) |-> V[i][j]]
      BY <3>1, UnitHolds
    <3>5. \A j \in 1 .. Len(V[i]) : W[i][j] = V[i][j]
      BY <3>1, <3>2, <3>3
    <3>6. QED
      BY <3>4, <3>5
  <2>2. W = [i \in DOMAIN V |-> W[i]]
    BY <1>10, ListHolds
  <2>3. W = V
    BY <2>1, <2>2, <1>3
  <2>4. QED
    BY <2>3, <1>2, <1>9 DEF V, units, W
<1>13. QED
  BY <1>11, <1>12

(* The text an event is shown as.                                          *)
LEMMA ShownText ==
  ASSUME NEW e, Whole(e)
  PROVE  LET s == EventText(e)
         IN  /\ s \in Text /\ s.keyword = ""
             /\ s.weekday = IF e["WeekDay"].values # {}
                              THEN <<Named(ValueText(e["WeekDay"]))>> ELSE <<>>
             /\ s.date = <<ValueText(e["Year"]), ValueText(e["Month"]), ValueText(e["Day"])>>
             /\ s.time = <<ValueText(e["Hour"]), ValueText(e["Minute"]), ValueText(e["Second"])>>
<1> DEFINE w == IF e["WeekDay"].values # {} THEN <<Named(ValueText(e["WeekDay"]))>> ELSE <<>>
           d == <<ValueText(e["Year"]), ValueText(e["Month"]), ValueText(e["Day"])>>
           h == <<ValueText(e["Hour"]), ValueText(e["Minute"]), ValueText(e["Second"])>>
<1>1. EventText(e) = [keyword |-> "", weekday |-> w, date |-> d, time |-> h]
  BY DEF EventText, HasValue, Named
<1>2. \A f \in Field : ValueText(e[f]) \in Units
  BY TextValues DEF Whole
<1>3. w \in {<<>>} \cup [1 .. 1 -> Units]
  <2>1. CASE e["WeekDay"].values = {}
    BY <2>1
  <2>2. CASE e["WeekDay"].values # {}
    <3> DEFINE n == Named(ValueText(e["WeekDay"]))
    <3>1. /\ e["WeekDay"].values \subseteq 0 .. Week /\ IsFiniteSet(e["WeekDay"].values)
      BY DEF Whole, Bounds, Field
    <3>2. n \in Units
      BY <2>2, <3>1, DaysShown
    <3>3. w = <<n>>
      BY <2>2
    <3> HIDE DEF n, w
    <3>4. QED
      BY <3>2, <3>3
  <2>3. QED
    BY <2>1, <2>2
<1>4. d \in [1 .. 3 -> Units] /\ h \in [1 .. 3 -> Units]
  <2>1. \A a, b, c \in Units : <<a, b, c>> \in [1 .. 3 -> Units]
    OBVIOUS
  <2>2. QED
    BY <1>2, <2>1 DEF Field
<1> HIDE DEF w, d, h
<1>5. /\ EventText(e).keyword = "" /\ EventText(e).weekday = w
      /\ EventText(e).date = d /\ EventText(e).time = h
  <2> DEFINE r == [keyword |-> "", weekday |-> w, date |-> d, time |-> h]
  <2>1. r.keyword = "" /\ r.weekday = w /\ r.date = d /\ r.time = h
    OBVIOUS
  <2>2. EventText(e) = r
    BY <1>1, Zenon
  <2> HIDE DEF r
  <2>3. QED
    BY <2>1, <2>2, Zenon
<1>6. ASSUME NEW a \in {<<>>} \cup [1 .. 1 -> Units], NEW b \in [1 .. 3 -> Units],
             NEW c \in [1 .. 3 -> Units]
      PROVE  [keyword |-> "", weekday |-> a, date |-> b, time |-> c] \in Text
  <2>1. /\ b \in {<<>>} \cup [1 .. 3 -> Units]
        /\ c \in {<<>>} \cup [1 .. 2 -> Units] \cup [1 .. 3 -> Units]
        /\ "" \in {""} \cup Keyword
    OBVIOUS
  <2> DEFINE A == {<<>>} \cup [1 .. 1 -> Units]
             B == {<<>>} \cup [1 .. 3 -> Units]
             C == {<<>>} \cup [1 .. 2 -> Units] \cup [1 .. 3 -> Units]
             K == {""} \cup Keyword
  <2>2. Text = [keyword : K, weekday : A, date : B, time : C]
    BY DEF Text
  <2>3. a \in A /\ b \in B /\ c \in C /\ "" \in K
    BY <2>1, Zenon
  <2> HIDE DEF A, B, C, K
  <2>4. QED
    BY <2>2, <2>3
<1>7. EventText(e) \in Text
  BY <1>1, <1>3, <1>4, <1>6
<1>8. QED
  BY <1>5, <1>7, Zenon DEF w, d, h

(* An event is shown as a text that stands for it.                         *)
LEMMA ShownAgain ==
  ASSUME NEW e, Whole(e)
  PROVE  LET shown == Parse(EventText(e))
         IN  /\ shown # NoEvent
             /\ \A f \in Field :
                  \/ shown[f].values = e[f].values
                  \/ f = "WeekDay" /\ e[f].values = {Week} /\ shown[f].values = {0}
<1> DEFINE s == EventText(e)
           p == ParseParts(s)
<1>1. /\ s \in Text /\ s.keyword = ""
      /\ s.weekday = IF e["WeekDay"].values # {}
                       THEN <<Named(ValueText(e["WeekDay"]))>> ELSE <<>>
      /\ s.date = <<ValueText(e["Year"]), ValueText(e["Month"]), ValueText(e["Day"])>>
      /\ s.time = <<ValueText(e["Hour"]), ValueText(e["Minute"]), ValueText(e["Second"])>>
  BY ShownText
<1> HIDE DEF s
<1>2. \A f \in Field : ValueOf(ValueText(e[f])).values = e[f].values
  BY TextValues DEF Whole
<1>3. /\ s.date # <<>> /\ s.date[1] = ValueText(e["Year"])
      /\ s.date[2] = ValueText(e["Month"]) /\ s.date[3] = ValueText(e["Day"])
      /\ s.time # <<>> /\ s.time[1] = ValueText(e["Hour"])
      /\ s.time[2] = ValueText(e["Minute"]) /\ s.time[3] = ValueText(e["Second"])
      /\ Len(s.time) = 3
  <2>1. /\ s.date = <<ValueText(e["Year"]), ValueText(e["Month"]), ValueText(e["Day"])>>
        /\ s.time = <<ValueText(e["Hour"]), ValueText(e["Minute"]), ValueText(e["Second"])>>
    BY <1>1, Zenon
  <2>2. QED
    BY <2>1
<1>4. p["Second"] = ValueOf(ValueText(e["Second"]))
  <2>1. p["Second"] = IF Len(s.time) < 3 THEN Midnight ELSE ValueOf(s.time[3])
    BY DEF ParseParts
  <2>2. QED
    BY <1>3, <2>1
<1>5. /\ p["Year"] = ValueOf(YearUnits(ValueText(e["Year"])))
      /\ p["Month"] = ValueOf(ValueText(e["Month"])) /\ p["Day"] = ValueOf(ValueText(e["Day"]))
      /\ p["Hour"] = ValueOf(ValueText(e["Hour"]))
      /\ p["Minute"] = ValueOf(ValueText(e["Minute"]))
      /\ p["WeekDay"] = IF s.weekday = <<>> THEN AnyValue
                        ELSE ValueOf(WeekDayUnits(s.weekday[1]))
  BY <1>1, <1>3, Parsed
<1>6. PICK q : q = p
  OBVIOUS
<1>7. YearUnits(ValueText(e["Year"])) = ValueText(e["Year"])
  <2>1. e["Year"].values \subseteq 2000 .. 2200 /\ IsFiniteSet(e["Year"].values)
    BY DEF Whole, Bounds, Field
  <2>2. QED
    BY <2>1, YearsShown
<1>8. \A f \in Field \ {"WeekDay"} : q[f].values = e[f].values
  BY <1>2, <1>4, <1>5, <1>6, <1>7 DEF Field
<1>9. \/ q["WeekDay"].values = e["WeekDay"].values
      \/ e["WeekDay"].values = {Week} /\ q["WeekDay"].values = {0}
  <2>1. CASE e["WeekDay"].values = {}
    <3>1. q["WeekDay"] = AnyValue
      BY <2>1, <1>1, <1>5, <1>6
    <3>2. QED
      BY <3>1, <2>1, FieldValues, Zenon
  <2>2. CASE e["WeekDay"].values # {}
    <3> DEFINE n == Named(ValueText(e["WeekDay"]))
    <3>1. s.weekday = <<n>>
      BY <2>2, <1>1
    <3> HIDE DEF n
    <3>2. s.weekday # <<>> /\ s.weekday[1] = n
      BY <3>1
    <3>3. q["WeekDay"] = ValueOf(WeekDayUnits(n))
      BY <3>2, <1>5, <1>6
    <3>4. /\ e["WeekDay"].values \subseteq 0 .. Week /\ IsFiniteSet(e["WeekDay"].values)
      BY DEF Whole, Bounds, Field
    <3>5. QED
      BY <3>3, <3>4, <2>2, DaysShown DEF n
  <2>3. QED
    BY <2>1, <2>2
<1>10. \A f \in Field : q[f].values \subseteq Bounds(f)
  <2>1. 0 \in Bounds("WeekDay")
    BY CalendarAssumption DEF Bounds
  <2>2. QED
    BY <2>1, <1>8, <1>9 DEF Whole, Field
<1>11. Parse(s) = q /\ q # NoEvent
  <2>1. "" \notin Keyword
    BY DEF Keyword
  <2>2. p # NoEvent
    BY <1>1, PartsAreEvent
  <2> HIDE DEF p
  <2>3. Parse(s) = IF \A f \in Field : p[f].values \subseteq Bounds(f) THEN p ELSE NoEvent
    BY <2>1, <1>1 DEF Parse, p
  <2>4. QED
    BY <2>2, <2>3, <1>6, <1>10
<1>12. QED
  BY <1>8, <1>9, <1>11 DEF s, Field

(* For any calendar and any texts, the normal form of an event that is     *)
(* shown to the user is parsed again and stands for the same event.        *)
THEOREM ShownAsParsed == TimesSpec => []NormalForm
<1>1. ASSUME TimesInv PROVE NormalForm
  <2>1. SUFFICES ASSUME event # NoEvent
                 PROVE  LET shown == Parse(EventText(event))
                        IN  /\ shown # NoEvent
                            /\ \A f \in Field :
                                 \/ shown[f].values = event[f].values
                                 \/ /\ f = "WeekDay" /\ event[f].values = {Week}
                                    /\ shown[f].values = {0}
    BY Zenon DEF NormalForm
  <2>2. event = Parse(text) /\ text \in Text
    BY <1>1, <2>1, TextAssumption DEF TimesInv
  <2>3. Whole(event)
    BY <2>1, <2>2, EventWhole
  <2>4. QED
    BY <2>3, ShownAgain
<1>2. QED
  BY <1>1, TimesInvariant, PTL

-----------------------------------------------------------------------------
(* Products of natural numbers.                                            *)
LEMMA Products ==
  /\ \A x, y \in Nat : x * y \in Nat /\ x * y = y * x
  /\ \A x, y, z \in Nat : x * (y + z) = x * y + x * z
  /\ \A x, y, z \in Nat : y <= z => x * y <= x * z
  /\ \A x \in Nat \ {0}, y, z \in Nat : x * y <= x * z => y <= z
<1>1. \A x, y \in Nat : x * y \in Nat /\ x * y = y * x
  OBVIOUS
<1>2. \A x, y, z \in Nat : x * (y + z) = x * y + x * z
  OBVIOUS
<1>3. ASSUME NEW x \in Nat, NEW y \in Nat, NEW z \in Nat, y <= z
      PROVE  x * y <= x * z
  <2>1. z - y \in Nat /\ z = y + (z - y)
    BY <1>3
  <2>2. x * z = x * y + x * (z - y) /\ x * (z - y) \in Nat /\ x * y \in Nat
    BY <1>1, <1>2, <2>1
  <2>3. QED
    BY <2>2
<1>4. ASSUME NEW x \in Nat \ {0}, NEW y \in Nat, NEW z \in Nat, x * y <= x * z
      PROVE  y <= z
  <2> SUFFICES ASSUME z < y PROVE FALSE
    OBVIOUS
  <2>1. z + 1 <= y /\ z + 1 \in Nat
    OBVIOUS
  <2>2. x * (z + 1) <= x * y
    BY <2>1, <1>3
  <2>3. x * (z + 1) = x * z + x * 1 /\ x * 1 = x
    BY <1>2
  <2>4. x * z \in Nat /\ x * y \in Nat
    BY <1>1
  <2>5. QED
    BY <1>4, <2>2, <2>3, <2>4
<1>5. QED
  BY <1>1, <1>2, <1>3, <1>4

(* Two numbers leave the same rest when their difference is a multiple.    *)
LEMMA SameRest ==
  ASSUME NEW m \in Nat \ {0}, NEW a \in Nat, NEW b \in Nat
  PROVE  /\ \A k \in Nat : b = a + m * k => b % m = a % m
         /\ a <= b /\ b % m = a % m => \E k \in Nat : b = a + m * k
         /\ a <= b /\ b % m = a % m /\ b < a + m => b = a
<1> DEFINE p == a \div m
           q == b \div m
           r == a % m
           s == b % m
<1>1. /\ p \in Nat /\ q \in Nat /\ r \in Nat /\ s \in Nat /\ r < m /\ s < m
      /\ a = m * p + r /\ b = m * q + s
  BY Quotient
<1>2. \A x \in Nat, y \in Nat : b = m * x + y /\ y < m => y = s
  BY Quotient
<1> HIDE DEF p, q, r, s
<1>3. ASSUME NEW k \in Nat, b = a + m * k PROVE s = r
  <2>1. m * (p + k) = m * p + m * k /\ p + k \in Nat /\ m * p \in Nat /\ m * k \in Nat
    BY <1>1, Products
  <2>2. b = m * (p + k) + r
    BY <1>1, <1>3, <2>1
  <2>3. QED
    BY <1>1, <1>2, <2>1, <2>2
<1>4. ASSUME a <= b, s = r PROVE \E k \in Nat : b = a + m * k
  <2>1. m * p \in Nat /\ m * q \in Nat
    BY <1>1, Products
  <2>2. m * p <= m * q
    BY <1>1, <1>4, <2>1
  <2>3. p <= q
    BY <1>1, <2>2, Products
  <2>4. q - p \in Nat /\ q = p + (q - p)
    BY <1>1, <2>3
  <2>5. m * q = m * p + m * (q - p) /\ m * (q - p) \in Nat
    BY <1>1, <2>4, Products
  <2>6. b = a + m * (q - p)
    BY <1>1, <1>4, <2>1, <2>5
  <2>7. QED
    BY <2>4, <2>6
<1>5. ASSUME a <= b, s = r, b < a + m PROVE b = a
  <2>1. PICK k \in Nat : b = a + m * k
    BY <1>4, <1>5
  <2>2. m * k \in Nat /\ m * 0 = 0 /\ m * 1 = m
    BY Products
  <2>3. ~(1 <= k)
    <3>1. 1 <= k => m * 1 <= m * k
      BY Products
    <3>2. QED
      BY <1>5, <2>1, <2>2, <3>1
  <2>4. k = 0
    BY <2>3
  <2>5. QED
    BY <2>1, <2>2, <2>4
<1>6. QED
  BY <1>3, <1>4, <1>5 DEF r, s

(* The moment in the first day from a on that has the time of day of b.    *)
LEMMA FirstDay ==
  ASSUME NEW m \in Nat \ {0}, NEW a \in Nat, NEW b \in Nat, a <= b
  PROVE  \E s \in a..b : s < a + m /\ \E k \in Nat : b = s + m * k
<1> DEFINE r == (b - a) % m
           q == (b - a) \div m
<1>1. b - a \in Nat
  OBVIOUS
<1>2. r \in Nat /\ r < m /\ q \in Nat /\ b - a = m * q + r
  BY <1>1, Quotient
<1> HIDE DEF r, q
<1>3. m * q \in Nat
  BY <1>2, Products
<1>4. a + r \in a..b /\ a + r < a + m /\ b = (a + r) + m * q
  BY <1>2, <1>3
<1>5. QED
  BY <1>2, <1>4

(* As often as d goes into n.                                              *)
LEMMA HowOften ==
  ASSUME NEW d \in Nat \ {0}, NEW n \in Nat, NEW k \in Nat
  PROVE  k \in 0..(n \div d) <=> k * d <= n
<1> DEFINE q == n \div d
           r == n % d
<1>1. q \in Nat /\ r \in Nat /\ r < d /\ n = d * q + r
  BY Quotient
<1> HIDE DEF q, r
<1>2. k * d = d * k /\ d * k \in Nat /\ d * q \in Nat /\ d * (q + 1) = d * q + d
  BY <1>1, Products
<1>3. k <= q => d * k <= d * q
  BY <1>1, Products
<1>4. q + 1 <= k => d * (q + 1) <= d * k
  BY <1>1, Products
<1>5. k <= q <=> d * k <= n
  BY <1>1, <1>2, <1>3, <1>4
<1>6. QED
  BY <1>1, <1>2, <1>5 DEF q

(* A minute is one of a day of the calendar, with the fields of that day,  *)
(* and of a time of the day.                                               *)
LEMMA Minutes ==
  ASSUME NEW t \in 0..Horizon
  PROVE  /\ MinutesADay \in Nat \ {0} /\ Len(Dates) \in Nat /\ Horizon \in Nat
         /\ t \in Nat /\ t \div MinutesADay \in 0..(Len(Dates) - 1)
         /\ t \div MinutesADay + 1 \in DOMAIN Dates
         /\ At(t).Year = Dates[t \div MinutesADay + 1][1]
         /\ At(t).Month = Dates[t \div MinutesADay + 1][2]
         /\ At(t).Day = Dates[t \div MinutesADay + 1][3]
<1> DEFINE D == MinutesADay
           L == Len(Dates)
           q == t \div D
           r == t % D
<1>1. MinutesAnHour \in Nat \ {0} /\ HoursADay \in Nat \ {0} /\ L \in Nat \ {0} /\ DOMAIN Dates = 1..L
  BY CalendarAssumption
<1>2. D \in Nat \ {0}
  BY <1>1 DEF MinutesADay
<1>3. L * D \in Nat \ {0} /\ L * D = D * L
  BY <1>1, <1>2
<1>4. t \in Nat /\ t + 1 <= D * L /\ Horizon \in Nat
  BY <1>1, <1>2, <1>3 DEF Horizon
<1>5. /\ At(t).Year = Dates[q + 1][1]
      /\ At(t).Month = Dates[q + 1][2]
      /\ At(t).Day = Dates[q + 1][3]
  BY DEF At, Clock
<1>6. q \in Nat /\ r \in Nat /\ t = D * q + r
  BY <1>2, <1>4, Quotient
<1> HIDE DEF D, L, q, r
<1>7. ~(L <= q)
  <2>1. L <= q => D * L <= D * q
    BY <1>1, <1>2, <1>6, Products
  <2>2. D * L \in Nat /\ D * q \in Nat
    BY <1>1, <1>2, <1>6, Products
  <2>3. QED
    BY <1>4, <1>6, <2>1, <2>2
<1>8. q \in 0..(L - 1) /\ q + 1 \in 1..L
  BY <1>1, <1>6, <1>7
<1>9. QED
  BY <1>1, <1>2, <1>4, <1>5, <1>8 DEF q, D, L

(* The time of the day, in hours and minutes.                              *)
LEMMA TimeOfDay ==
  ASSUME NEW s \in 0..Horizon, NEW t \in 0..Horizon
  PROVE  s % MinutesADay = t % MinutesADay <=>
           At(s).Hour = At(t).Hour /\ At(s).Minute = At(t).Minute
<1> DEFINE m == MinutesAnHour
           H == HoursADay
           D == MinutesADay
<1>1. m \in Nat \ {0} /\ H \in Nat \ {0} /\ D \in Nat \ {0} /\ D = H * m
  BY CalendarAssumption, Minutes DEF MinutesADay
<1>2. ASSUME NEW x \in 0..Horizon
      PROVE  /\ x % D \in Nat
             /\ At(x).Hour = (x % D) \div m
             /\ At(x).Minute = (x % D) % m
             /\ x % D = m * At(x).Hour + At(x).Minute
  <2> DEFINE q == x \div D
             r == x % D
             h == r \div m
             y == r % m
  <2>1. x \in Nat
    BY Minutes
  <2>2. /\ At(x).Hour = h
        /\ At(x).Minute = x % m
    BY DEF At, Clock
  <2>3. q \in Nat /\ r \in Nat /\ x = D * q + r
    BY <1>1, <2>1, Quotient
  <2> HIDE DEF q, r
  <2>4. h \in Nat /\ y \in Nat /\ y < m /\ r = m * h + y
    BY <1>1, <2>3, Quotient
  <2> HIDE DEF h, y
  <2>5. D * q = m * (H * q) /\ H * q \in Nat
    <3>1. \A a, b, c \in Nat : (a * b) * c = b * (a * c) /\ a * c \in Nat
      OBVIOUS
    <3> HIDE DEF D, H, m
    <3>2. QED
      BY <1>1, <2>3, <3>1
  <2>6. m * (H * q + h) = m * (H * q) + m * h /\ m * h \in Nat /\ m * (H * q) \in Nat
    <3> DEFINE z == H * q
    <3>1. z \in Nat
      BY <2>5
    <3> HIDE DEF z, m
    <3>2. m * (z + h) = m * z + m * h /\ m * h \in Nat /\ m * z \in Nat
      BY <1>1, <2>4, <3>1, Products
    <3>3. QED
      BY <3>2 DEF z
  <2>7. H * q + h \in Nat /\ x = m * (H * q + h) + y
    BY <2>3, <2>4, <2>5, <2>6
  <2>8. x % m = y
    <3> DEFINE z == H * q + h
    <3>1. z \in Nat /\ x = m * z + y
      BY <2>7
    <3> HIDE DEF z, m
    <3>2. QED
      BY <1>1, <2>1, <2>4, <3>1, Quotient
  <2>9. QED
    BY <2>2, <2>3, <2>4, <2>8 DEF h, y, r
<1>3. QED
  BY <1>2 DEF D

(* Years go on one after the other.                                        *)
LEMMA Years ==
  ASSUME NEW s \in 0..Horizon, NEW t \in s..Horizon
  PROVE  /\ At(s).Year \in Nat /\ At(t).Year \in Nat /\ At(s).Year <= At(t).Year
         /\ t < s + MinutesADay => At(t).Year <= At(s).Year + 1
<1> DEFINE D == MinutesADay
           p == s \div D
           q == t \div D
           v == s % D
           w == t % D
           L == Len(Dates)
           year(i) == Dates[i + 1][1]
<1>1. t \in 0..Horizon /\ s <= t
  BY Minutes
<1>2. /\ D \in Nat \ {0} /\ L \in Nat /\ s \in Nat /\ t \in Nat
      /\ p \in 0..(L - 1) /\ q \in 0..(L - 1)
      /\ At(s).Year = year(p) /\ At(t).Year = year(q)
  BY <1>1, Minutes
<1>3. \A i \in 0..(L - 1) : year(i) \in Nat
  BY CalendarAssumption
<1>4. \A i \in 0..(L - 2) : year(i + 1) - year(i) \in 0..1
  <2>1. \A i \in 1..(Len(Dates) - 1) : Dates[i + 1][1] - Dates[i][1] \in 0..1
    BY CalendarAssumption
  <2>2. ASSUME NEW i \in 0..(L - 2) PROVE year(i + 1) - year(i) \in 0..1
    <3>1. i + 1 \in 1..(Len(Dates) - 1)
      BY <1>2
    <3>2. QED
      BY <2>1, <3>1
  <2>3. QED
    BY <2>2
<1>5. /\ s = D * p + v /\ v \in Nat /\ v < D
      /\ t = D * q + w /\ w \in Nat /\ w < D
  <2>1. D \in Nat \ {0}
    BY <1>2
  <2> HIDE DEF D
  <2>2. \A x \in Nat : x = D * (x \div D) + (x % D) /\ x % D \in Nat /\ x % D < D
    BY <2>1, Quotient
  <2>3. s \in Nat /\ t \in Nat
    BY <1>2
  <2>4. QED
    BY <2>2, <2>3
<1> HIDE DEF year, D, p, q, v, w, L
<1>6. D * p \in Nat /\ D * q \in Nat
  BY <1>2, Products
<1>7. p <= q
  <2> SUFFICES ASSUME q + 1 <= p PROVE FALSE
    BY <1>2
  <2>1. D * (q + 1) <= D * p /\ D * (q + 1) = D * q + D * 1 /\ D * 1 = D
    BY <1>2, Products
  <2>2. QED
    BY <1>1, <1>2, <1>5, <1>6, <2>1
<1>8. year(p) <= year(q)
  <2> DEFINE S == {n \in Nat : p + n <= L - 1 => year(p) <= year(p + n)}
  <2>1. 0 \in S
    BY <1>2, <1>3
  <2>2. ASSUME NEW n \in Nat, n \in S PROVE n + 1 \in S
    <3> SUFFICES ASSUME p + (n + 1) <= L - 1 PROVE year(p) <= year(p + (n + 1))
      OBVIOUS
    <3>1. year(p) <= year(p + n)
      BY <1>2, <2>2
    <3>2. p + n \in 0..(L - 2) /\ p + (n + 1) = (p + n) + 1
      BY <1>2
    <3>3. year((p + n) + 1) - year(p + n) \in 0..1 /\ year(p + n) \in Nat /\ year((p + n) + 1) \in Nat
      BY <1>2, <1>3, <1>4, <3>2
    <3>4. QED
      BY <1>2, <1>3, <3>1, <3>2, <3>3
  <2> HIDE DEF S
  <2>3. q - p \in S
    BY <1>2, <1>7, <2>1, <2>2, Induction
  <2>4. QED
    BY <1>2, <1>7, <2>3 DEF S
<1>9. ASSUME t < s + D PROVE year(q) <= year(p) + 1
  <2>1. q <= p + 1
    <3> SUFFICES ASSUME p + 2 <= q PROVE FALSE
      BY <1>2
    <3>1. D * (p + 2) <= D * q /\ D * (p + 2) = D * p + D * 2 /\ D * 2 = D + D
      BY <1>2, Products
    <3>2. QED
      BY <1>2, <1>5, <1>6, <1>9, <3>1
  <2>2. CASE q = p
    BY <1>2, <1>3, <2>2
  <2>3. CASE q = p + 1
    <3>1. p \in 0..(L - 2)
      BY <1>2, <2>3
    <3>2. year(p + 1) - year(p) \in 0..1 /\ year(p) \in Nat /\ year(p + 1) \in Nat
      BY <1>2, <1>3, <1>4, <2>3, <3>1
    <3>3. QED
      BY <2>3, <3>2
  <2>4. QED
    BY <1>2, <1>7, <2>1, <2>2, <2>3
<1>10. QED
  BY <1>2, <1>3, <1>8, <1>9 DEF D

(* No two minutes are alike in all their fields.                           *)
LEMMA OneMinute ==
  ASSUME NEW s \in 0..Horizon, NEW t \in 0..Horizon,
         \A f \in {"Year", "Month", "Day", "Hour", "Minute"} : At(s)[f] = At(t)[f]
  PROVE  s = t
<1> DEFINE D == MinutesADay
           p == s \div D
           q == t \div D
<1>1. D \in Nat \ {0} /\ s \in Nat /\ t \in Nat /\ p \in Nat /\ q \in Nat
  BY Minutes, Quotient
<1>2. Dates[p + 1] = Dates[q + 1] /\ p + 1 \in DOMAIN Dates /\ q + 1 \in DOMAIN Dates
  <2>1. /\ p + 1 \in DOMAIN Dates /\ q + 1 \in DOMAIN Dates
        /\ Dates[p + 1][1] = Dates[q + 1][1]
        /\ Dates[p + 1][2] = Dates[q + 1][2]
        /\ Dates[p + 1][3] = Dates[q + 1][3]
    BY Minutes
  <2>2. Dates \in Seq(Nat \X (1..12) \X (Nat \ {0}))
    BY CalendarAssumption
  <2>3. /\ Dates[p + 1] \in Nat \X (1..12) \X (Nat \ {0})
        /\ Dates[q + 1] \in Nat \X (1..12) \X (Nat \ {0})
    BY <2>1, <2>2
  <2>4. \A x, y \in Nat \X (1..12) \X (Nat \ {0}) :
          x[1] = y[1] /\ x[2] = y[2] /\ x[3] = y[3] => x = y
    OBVIOUS
  <2>5. QED
    BY <2>1, <2>3, <2>4
<1>3. p + 1 = q + 1
  BY <1>2, CalendarAssumption
<1> DEFINE v == s % D
           w == t % D
<1>4. v = w
  BY TimeOfDay
<1>5. s = D * p + v /\ t = D * q + w
  <2>1. D \in Nat \ {0} /\ s \in Nat /\ t \in Nat
    BY <1>1
  <2> HIDE DEF D
  <2>2. \A x \in Nat : x = D * (x \div D) + (x % D)
    BY <2>1, Quotient
  <2>3. QED
    BY <2>1, <2>2
<1> HIDE DEF p, q, v, w, D
<1>6. p = q
  BY <1>1, <1>3
<1>7. QED
  BY <1>4, <1>5, <1>6

(* Next finds the times that the text says, if it says no year and not the *)
(* second Sunday.                                                          *)
LEMMA MatchSays ==
  ASSUME NEW tx \in Text, Parse(tx) # NoEvent, Plain(tx), Parse(tx)["Year"].values = {},
         Week \notin Parse(tx)["WeekDay"].values, NEW t \in 0..Horizon
  PROVE  Match(Parse(tx), t) <=> Says(tx, t)
<1> DEFINE e == Parse(tx)
<1>1. Happens(e, t) <=> Says(tx, t)
  BY EventHappens
<1>2. Proper(e) /\ e["Year"].values = {} /\ Week \notin e["WeekDay"].values
  BY EventProper
<1> HIDE DEF e
<1>3. ASSUME NEW f \in Shared PROVE Meets(e, f, t) <=> At(t)[f] \in e[f].values
  <2>1. CASE f # "WeekDay"
    BY <2>1 DEF Meets, Same
  <2>2. CASE f = "WeekDay"
    <3>1. Week \in Nat \ {0} /\ At(t).WeekDay \in 0..Week - 1
      BY CalendarAssumption, Clocks
    <3>2. ASSUME NEW x \in e["WeekDay"].values
          PROVE  Same("WeekDay", x, At(t).WeekDay) <=> x = At(t).WeekDay
      <4>1. x \in 0..Week /\ x # Week
        BY <1>2 DEF Proper
      <4>2. QED
        BY <3>1, <4>1, SameDay
    <3>3. QED
      BY <2>2, <3>2 DEF Meets
  <2>3. QED
    BY <2>1, <2>2
<1>4. Match(e, t) <=> Happens(e, t)
  <2>1. Match(e, t) <=> \A f \in Shared : e[f].values # {} => At(t)[f] \in e[f].values
    BY <1>2 DEF Match, HasValue, Shared
  <2>2. QED
    BY <2>1, <1>3 DEF Happens
<1>5. QED
  BY <1>1, <1>4 DEF e

(* An event without a date happens at the same times on every day.         *)
LEMMA EveryDay ==
  ASSUME NEW e, IsDaily(e), NEW s \in 0..Horizon, NEW t \in 0..Horizon,
         s % MinutesADay = t % MinutesADay
  PROVE  Match(e, s) <=> Match(e, t)
<1>1. At(s).Hour = At(t).Hour /\ At(s).Minute = At(t).Minute
  BY TimeOfDay
<1>2. \A x : Match(e, x) <=> \A f \in {"Hour", "Minute"} : HasValue(e[f]) => At(x)[f] \in e[f].values
  BY DEF Match, IsDaily
<1>3. QED
  BY <1>1, <1>2

(* An event with one time of the day happens at that one only.             *)
LEMMA OneTimeADay ==
  ASSUME NEW e, NEW h, NEW m, e.Hour.values = {h}, e.Minute.values = {m},
         NEW s \in 0..Horizon, NEW t \in 0..Horizon, Match(e, s)
  PROVE  /\ Match(e, t) => s % MinutesADay = t % MinutesADay
         /\ s % MinutesADay = t % MinutesADay =>
              At(t).Hour \in e.Hour.values /\ At(t).Minute \in e.Minute.values
<1>1. \A x : Match(e, x) => At(x).Hour = h /\ At(x).Minute = m
  BY DEF Match, HasValue
<1>2. QED
  BY <1>1, TimeOfDay

(* Next finds the first time from now on.                                  *)
LEMMA NextFound ==
  ASSUME NEW e, NEW from \in 0..Horizon, NextTime(e, from) # NoTime
  PROVE  /\ NextTime(e, from) \in from..Horizon
         /\ Match(e, NextTime(e, from))
         /\ \A t \in from..Horizon : Match(e, t) => NextTime(e, from) <= t
<1> DEFINE found == {t \in from..Horizon : At(t).Year <= At(from).Year + 2 /\ Match(e, t)}
           start == NextTime(e, from)
<1>1. Horizon \in Nat /\ from \in Nat
  BY Minutes
<1>2. found # {} /\ start = Min(found)
  BY DEF NextTime
<1>3. found \in SUBSET Nat
  BY <1>1
<1> HIDE DEF start
<1>4. start \in found /\ \A t \in found : start <= t
  <2> HIDE DEF found
  <2>1. \E x \in found : \A y \in found : x <= y
    BY <1>2, <1>3, Minimum
  <2>2. QED
    BY <1>2, <2>1 DEF Min
<1>5. start \in from..Horizon /\ start \in 0..Horizon /\ Match(e, start)
      /\ At(start).Year <= At(from).Year + 2
  BY <1>1, <1>4
<1>6. ASSUME NEW t \in from..Horizon, Match(e, t), t < start PROVE FALSE
  <2>1. t \in 0..Horizon /\ start \in t..Horizon
    BY <1>1, <1>5, <1>6
  <2>2. At(t).Year <= At(start).Year /\ At(t).Year \in Nat /\ At(start).Year \in Nat
    BY <2>1, Years
  <2>3. At(from).Year \in Nat
    BY <1>1, Years
  <2>4. t \in found
    BY <1>5, <1>6, <2>2, <2>3
  <2>5. QED
    BY <1>1, <1>4, <1>5, <1>6, <2>4
<1>7. QED
  BY <1>1, <1>5, <1>6 DEF start

(* An event without a date is found if it happens again.                   *)
LEMMA DailyFound ==
  ASSUME NEW e, IsDaily(e), NEW from \in 0..Horizon, NEW t \in from..Horizon, Match(e, t)
  PROVE  NextTime(e, from) # NoTime
<1> DEFINE found == {x \in from..Horizon : At(x).Year <= At(from).Year + 2 /\ Match(e, x)}
           D == MinutesADay
<1>1. Horizon \in Nat /\ from \in Nat /\ t \in Nat /\ t \in 0..Horizon /\ D \in Nat \ {0} /\ from <= t
  BY Minutes
<1>2. PICK s \in from..t : s < from + D /\ \E k \in Nat : t = s + D * k
  BY <1>1, FirstDay
<1>3. s \in Nat /\ s \in from..Horizon /\ s \in 0..Horizon
  BY <1>1
<1>4. s % D = t % D
  BY <1>1, <1>2, <1>3, SameRest, ZenonT(30)
<1>5. Match(e, s)
  BY <1>1, <1>3, <1>4, EveryDay
<1>6. At(s).Year <= At(from).Year + 1 /\ At(s).Year \in Nat /\ At(from).Year \in Nat
  BY <1>2, <1>3, Years
<1>7. s \in found
  BY <1>3, <1>5, <1>6
<1>8. found \in SUBSET Nat
  BY <1>1
<1>9. Min(found) \in found
  <2> HIDE DEF found
  <2>1. \E x \in found : \A y \in found : x <= y
    BY <1>7, <1>8, Minimum
  <2>2. QED
    BY <2>1 DEF Min
<1>10. NextTime(e, from) = Min(found)
  BY <1>7 DEF NextTime
<1>11. QED
  BY <1>8, <1>9, <1>10, CalendarAssumption

(* A greatest one, of finitely many.                                       *)
LEMMA Greatest ==
  ASSUME NEW n \in Nat, NEW S \in SUBSET (0..n), S # {}
  PROVE  Max(S) \in S /\ \A y \in S : y <= Max(S)
<1> DEFINE T == {n - x : x \in S}
<1>1. T \in SUBSET Nat /\ T # {}
  <2>1. \A x \in S : n - x \in Nat
    OBVIOUS
  <2>2. T \subseteq Nat
    BY <2>1
  <2>3. PICK x \in S : TRUE
    OBVIOUS
  <2>4. n - x \in T
    OBVIOUS
  <2>5. QED
    BY <2>2, <2>4
<1>2. PICK z \in T : \A y \in T : z <= y
  <2> HIDE DEF T
  <2>1. QED BY <1>1, Minimum
<1>3. PICK x \in S : z = n - x
  OBVIOUS
<1>4. \A y \in S : y <= x
  BY <1>2, <1>3
<1>5. QED
  BY <1>4 DEF Max

(* The times of a day are searched to their end only if there is one more  *)
(* after it: the whole day is in the calendar.                             *)
LEMMA WholeDay ==
  ASSUME NEW e, NEW start \in 0..Horizon, Match(e, start),
         ~NeverEnds(e, start, start + MinutesADay)
  PROVE  start + MinutesADay <= Horizon
<1> DEFINE D == MinutesADay
           all == GetAllInBetween(e, start, start + D)
           last == Max(all)
           next == NextTime(e, last + 1)
<1>1. Horizon \in Nat /\ start \in Nat /\ D \in Nat \ {0}
  BY Minutes
<1>2. start \in all /\ all \in SUBSET (0..(start + D))
  BY <1>1 DEF GetAllInBetween
<1>3. last \in all /\ \A y \in all : y <= last
  <2> HIDE DEF all
  <2>1. start + D \in Nat
    BY <1>1
  <2>2. QED
    BY <1>2, <2>1, Greatest
<1>4. next # NoTime
  BY <1>2 DEF NeverEnds
<1>5. next \in (last + 1)..Horizon /\ Match(e, next)
  <2> DEFINE found == {t \in (last + 1)..Horizon : At(t).Year <= At(last + 1).Year + 2 /\ Match(e, t)}
  <2>1. found # {} /\ next = Min(found)
    BY <1>4 DEF NextTime
  <2>2. last \in Nat
    BY <1>1, <1>2, <1>3
  <2> HIDE DEF last, next
  <2>3. found \in SUBSET Nat
    BY <1>1, <2>2
  <2>4. Min(found) \in found
    <3> HIDE DEF found
    <3>1. \E x \in found : \A y \in found : x <= y
      BY <2>1, <2>3, Minimum
    <3>2. QED
      BY <3>1 DEF Min
  <2>5. QED
    BY <2>1, <2>4
<1>6. last \in start..(start + D) /\ last \in Nat
  BY <1>1, <1>2, <1>3 DEF GetAllInBetween
<1> HIDE DEF last, next
<1>7. next < start + D => next \in all
  BY <1>1, <1>5, <1>6 DEF GetAllInBetween
<1> HIDE DEF all, D
<1>8. QED
  BY <1>1, <1>3, <1>5, <1>6, <1>7 DEF D

-----------------------------------------------------------------------------
(* Whether a list of units is one number.                                  *)
LEMMA OneNumber ==
  ASSUME NEW units
  PROVE  ValueOf(units).single <=> Len(units) = 1 /\ Cardinality(UnitValues(units[1])) = 1
<1> DEFINE v == UNION {UnitValues(units[i]) : i \in DOMAIN units}
           b == Len(units) = 1 /\ Cardinality(UnitValues(units[1])) = 1
<1>1. ValueOf(units) = [values |-> v, single |-> b]
  BY DEF ValueOf
<1>2. \A x, y : [values |-> x, single |-> y].single = y
  BY Zenon
<1> HIDE DEF v, b
<1>3. ValueOf(units).single = b
  BY <1>1, <1>2, Zenon
<1>4. QED
  BY <1>3, Zenon DEF b

(* A list of one number, however written, lists that number.               *)
LEMMA SingleLists ==
  ASSUME NEW units \in Units, ValueOf(units).single, NEW f, f # "WeekDay", NEW x
  PROVE  /\ \E y \in Nat : ValueOf(units).values = {y}
         /\ Lists(f, units, x) <=> x \in ValueOf(units).values
<1> DEFINE u == units[1]
<1>1. Len(units) = 1 /\ Cardinality(UnitValues(u)) = 1
  BY OneNumber
<1>2. DOMAIN units = 1 .. 1 /\ u \in Unit
  <2>1. DOMAIN units = 1 .. Len(units)
    BY DEF Units
  <2>2. \A i \in DOMAIN units : units[i] \in Unit
    BY DEF Units
  <2>3. DOMAIN units = 1 .. 1
    BY <1>1, <2>1
  <2>4. QED
    BY <2>2, <2>3
<1> HIDE DEF u
<1>3. PICK y : UnitValues(u) = {y}
  BY <1>1, <1>2, UnitNumbers, FS_Singleton
<1>4. y \in Nat
  BY <1>2, <1>3, UnitNumbers
<1>5. ValueOf(units).values = {y}
  <2>1. \A i \in DOMAIN units : i = 1
    BY <1>2
  <2>2. \A z : z \in ValueOf(units).values <=> z \in UnitValues(u)
    BY <1>2, <2>1, ListValues DEF u
  <2>3. QED
    BY <1>3, <2>2
<1>6. CASE Len(u) = 1
  <2>1. y = u[1]
    BY <1>2, <1>3, <1>6, UnitNumbers
  <2>2. Lists(f, units, x) <=> Same(f, u[1], x)
    BY <1>1, <1>2, <1>6 DEF Lists, Star, u
  <2>3. QED
    BY <1>4, <1>5, <2>1, <2>2 DEF Same
<1>7. CASE Len(u) # 1
  <2>1. u[1] \in Nat /\ u[2] \in Nat
    BY <1>2, <1>7, UnitNumbers
  <2>2. u[1] = y /\ u[2] = y
    BY <1>2, <1>3, <1>7, UnitEnds
  <2>3. Lists(f, units, x) <=> x \in u[1] .. u[2]
    BY <1>1, <1>2, <1>7 DEF Lists, Star, u
  <2>4. QED
    BY <1>4, <1>5, <2>2, <2>3
<1>8. QED
  BY <1>4, <1>5, <1>6, <1>7

(* An event that is one point in time is of a text with a date.            *)
LEMMA OneDate ==
  ASSUME NEW tx \in Text, Parse(tx) # NoEvent, AsTime(Parse(tx)) # NoTime
  PROVE  /\ tx.keyword = "" /\ Parse(tx) = ParseParts(tx) /\ tx.date # <<>>
         /\ Parse(tx)["WeekDay"].values = {}
         /\ Parse(tx)["Year"] = ValueOf(YearUnits(tx.date[1]))
         /\ Parse(tx)["Year"].single
         /\ \A f \in {"Year", "Month", "Day", "Hour", "Minute"} :
              \E y \in Nat : Parse(tx)[f].values = {y}
         /\ AsTime(Parse(tx)) \in 0 .. Horizon
         /\ Match(Parse(tx), AsTime(Parse(tx)))
<1> DEFINE e == Parse(tx)
           dated == {"Year", "Month", "Day", "Hour", "Minute"}
<1>1. /\ e["WeekDay"].values = {}
      /\ \A f \in dated : e[f].single
      /\ \E t \in 0 .. Horizon : Match(e, t)
      /\ AsTime(e) = CHOOSE t \in 0 .. Horizon : Match(e, t)
  BY DEF AsTime, HasValue
<1> HIDE DEF e
<1>2. AsTime(e) \in 0 .. Horizon /\ Match(e, AsTime(e))
  BY <1>1, Zenon
<1>3. ~AnyValue.single
  BY DEF AnyValue
<1>4. tx.keyword \notin Keyword
  <2> SUFFICES ASSUME tx.keyword \in Keyword PROVE FALSE
    OBVIOUS
  <2>1. e = KeywordValues[tx.keyword]
    BY DEF Parse, e
  <2>2. e["Year"] = AnyValue
    BY <2>1, KeywordFields
  <2>3. e["Year"].single
    BY <1>1
  <2> HIDE DEF e
  <2>4. QED
    BY <1>3, <2>2, <2>3, Zenon
<1>5. e = ParseParts(tx) /\ tx.keyword = ""
  BY <1>4 DEF Parse, Text, e
<1>6. \E y \in Nat : Midnight.values = {y}
  BY FieldValues, Zenon DEF Midnight
<1>7. ~ValueOf(<<>>).single
  BY OneNumber
<1>8. YearUnits(<<>>) = <<>>
  BY YearUnitsOf, NoUnits
<1>9. tx.date # <<>>
  <2> SUFFICES ASSUME tx.date = <<>> PROVE FALSE
    OBVIOUS
  <2>1. e["Month"] = ValueOf(<<>>)
    BY <1>5, Parsed
  <2>2. QED
    BY <1>1, <1>7, <2>1
<1>10. e["Year"] = ValueOf(YearUnits(tx.date[1]))
  BY <1>5, <1>9, Parsed
<1>11. ASSUME NEW f \in dated PROVE \E y \in Nat : e[f].values = {y}
  <2>1. (\E units \in Units : e[f] = ValueOf(units)) \/ e[f] = Midnight
    <3>1. CASE f = "Year"
      BY <3>1, <1>9, <1>10, TextLists, YearUnitsOf
    <3>2. CASE f \in {"Month", "Day"}
      BY <3>2, <1>5, <1>9, Parsed, TextLists
    <3>3. CASE f \in {"Hour", "Minute"}
      BY <3>3, <1>5, Parsed, TextLists
    <3>4. QED
      BY <3>1, <3>2, <3>3
  <2>2. ASSUME NEW units \in Units, e[f] = ValueOf(units)
        PROVE  \E y \in Nat : e[f].values = {y}
    <3>1. ValueOf(units).single
      BY <1>1, <2>2
    <3>2. \E y \in Nat : ValueOf(units).values = {y}
      BY <3>1, SingleLists
    <3>3. QED
      BY <2>2, <3>2
  <2>3. QED
    BY <1>6, <2>1, <2>2, Zenon
<1>12. QED
  BY <1>1, <1>2, <1>5, <1>9, <1>10, <1>11 DEF e

(* When the triggers of each kind start.                                   *)
LEMMA Firsts ==
  ASSUME NEW tr, NEW t
  PROVE  LET due == t >= tr.start /\ t % MinutesADay = tr.start % MinutesADay
         IN /\ tr.kind = "once" => (FirstOfDay(tr, t) <=> due /\ t = tr.start)
            /\ tr.kind = "daily" => (FirstOfDay(tr, t) <=> due)
            /\ tr.kind = "weekly" => (FirstOfDay(tr, t) <=> due /\ At(t).WeekDay \in tr.weekdays)
            /\ tr.kind = "monthly" =>
                 (FirstOfDay(tr, t) <=> due /\ At(t).Day \in tr.days /\ At(t).Month \in tr.months)
            /\ tr.kind = "monthlyDOW" =>
                 (FirstOfDay(tr, t) <=> due /\ At(t).WeekDay \in tr.weekdays /\ At(t).Month \in tr.months)
<1>1. CASE tr.kind = "once"
  BY <1>1 DEF FirstOfDay
<1>2. CASE tr.kind = "daily"
  BY <1>2 DEF FirstOfDay
<1>3. CASE tr.kind = "weekly"
  BY <1>3 DEF FirstOfDay
<1>4. CASE tr.kind = "monthly"
  BY <1>4 DEF FirstOfDay
<1>5. CASE tr.kind = "monthlyDOW"
  BY <1>5 DEF FirstOfDay
<1>6. QED
  BY <1>1, <1>2, <1>3, <1>4, <1>5

(* A one-time trigger starts at the minute its text says.                  *)
LEMMA OnceStarts ==
  ASSUME NEW tx \in Text, Parse(tx) # NoEvent, Plain(tx), AsTime(Parse(tx)) # NoTime,
         NEW t \in 0 .. Horizon
  PROVE  WindowsStarts({[Trigger("once", 0) EXCEPT !.start = AsTime(Parse(tx))]}, t) <=> Says(tx, t)
<1> DEFINE e == Parse(tx)
           s == AsTime(e)
           tr == [Trigger("once", 0) EXCEPT !.start = s]
           dated == {"Year", "Month", "Day", "Hour", "Minute"}
<1>1. /\ tx.keyword = "" /\ e = ParseParts(tx) /\ tx.date # <<>>
      /\ e["WeekDay"].values = {} /\ e["Year"] = ValueOf(YearUnits(tx.date[1]))
      /\ e["Year"].single
      /\ \A f \in dated : \E y \in Nat : e[f].values = {y}
      /\ s \in 0 .. Horizon /\ Match(e, s)
  BY OneDate
<1>2. WindowsStarts({tr}, t) <=> t = s
  <2>1. tr.interval = 0 /\ tr.kind = "once" /\ tr.start = s
    BY DEF Trigger
  <2>2. s \in Nat /\ t \in Nat
    BY <1>1, Minutes
  <2> HIDE DEF tr, s
  <2>3. FirstOfDay(tr, t) <=> t = s
    BY <2>1, <2>2, Firsts
  <2>4. QED
    BY <2>1, <2>3 DEF WindowsStarts
<1> HIDE DEF e, s, tr
<1>3. Match(e, t) <=> t = s
  <2>1. ASSUME NEW x, Match(e, x), NEW f \in dated PROVE At(x)[f] \in e[f].values
    <3>1. HasValue(e[f])
      BY <1>1 DEF HasValue
    <3>2. QED
      BY <2>1, <3>1 DEF Match
  <2>2. ASSUME Match(e, t) PROVE t = s
    <3>1. ASSUME NEW f \in dated PROVE At(t)[f] = At(s)[f]
      <4>1. PICK y \in Nat : e[f].values = {y}
        BY <1>1
      <4>2. At(t)[f] \in e[f].values /\ At(s)[f] \in e[f].values
        BY <1>1, <2>1, <2>2
      <4>3. QED
        BY <4>1, <4>2
    <3>2. QED
      BY <1>1, <3>1, OneMinute
  <2>3. QED
    BY <1>1, <2>2
<1>4. Says(tx, t) <=>
        Happens(e, t) /\ Lists("Year", YearUnits(tx.date[1]), At(t)["Year"])
  <2>1. e["WeekDay"].values \subseteq 0 .. Week
    BY <1>1
  <2>2. QED
    BY <1>1, <2>1, PartsSay
<1>5. Lists("Year", YearUnits(tx.date[1]), At(t)["Year"]) <=> At(t)["Year"] \in e["Year"].values
  <2>1. YearUnits(tx.date[1]) \in Units
    BY <1>1, TextLists, YearUnitsOf
  <2>2. ValueOf(YearUnits(tx.date[1])).single
    BY <1>1
  <2>3. QED
    BY <1>1, <2>1, <2>2, SingleLists
<1>6. Match(e, t) <=> Happens(e, t) /\ At(t)["Year"] \in e["Year"].values
  <2>1. \A f \in dated : HasValue(e[f])
    BY <1>1 DEF HasValue
  <2>2. ~HasValue(e["WeekDay"])
    BY <1>1 DEF HasValue
  <2>3. Match(e, t) <=> \A f \in dated : At(t)[f] \in e[f].values
    BY <2>1, <2>2 DEF Match
  <2>4. \A f \in Shared \ {"WeekDay"} : Meets(e, f, t) <=> At(t)[f] \in e[f].values
    BY DEF Meets, Same
  <2>5. Happens(e, t) <=> \A f \in Shared \ {"WeekDay"} : At(t)[f] \in e[f].values
    <3>1. \A f \in Shared \ {"WeekDay"} : e[f].values # {}
      BY <2>1 DEF HasValue, Shared
    <3>2. QED
      BY <1>1, <2>4, <3>1 DEF Happens
  <2>6. QED
    BY <2>3, <2>5 DEF Shared
<1>7. QED
  BY <1>2, <1>3, <1>4, <1>5, <1>6 DEF e, s, tr

-----------------------------------------------------------------------------
(* The times of the day that begins with the first time, when that day is  *)
(* in the calendar, and how a task is repeated.                            *)
FirstTimes(e, start, times) ==
  /\ start \in 0 .. Horizon /\ Match(e, start)
  /\ start + MinutesADay <= Horizon
  /\ times = GetAllInBetween(e, start, start + MinutesADay)

(* They are finitely many, the first one among them.                       *)
LEMMA DayTimes ==
  ASSUME NEW e, NEW start, NEW times, FirstTimes(e, start, times)
  PROVE  /\ start \in Nat /\ start \in times /\ IsFiniteSet(times)
         /\ times \subseteq start .. ((start + MinutesADay) - 1)
         /\ times \subseteq 0 .. Horizon /\ times \in SUBSET Nat
         /\ \A s \in times : Match(e, s)
         /\ Max(times) \in times /\ \A s \in times : s <= Max(times)
         /\ \A s \in times : s \in Nat /\ start <= s /\ s < start + MinutesADay
<1> DEFINE D == MinutesADay
<1>1. Horizon \in Nat /\ start \in Nat /\ start \in 0 .. Horizon /\ D \in Nat \ {0} /\ start + D <= Horizon
  BY Minutes DEF FirstTimes
<1>2. /\ \A s : s \in times <=> s \in start .. ((start + D) - 1) /\ Match(e, s)
      /\ Match(e, start)
  <2>1. times = GetAllInBetween(e, start, start + D) /\ Match(e, start)
    BY DEF FirstTimes
  <2> HIDE DEF D
  <2>2. QED
    BY <2>1 DEF GetAllInBetween
<1> HIDE DEF D
<1>3. start \in times /\ times \subseteq start .. ((start + D) - 1) /\ times \subseteq 0 .. Horizon
  BY <1>1, <1>2
<1>4. IsFiniteSet(times)
  <2>1. (start + D) - 1 \in Int /\ start \in Int
    BY <1>1
  <2>2. IsFiniteSet(start .. ((start + D) - 1))
    BY <2>1, FS_Interval
  <2>3. QED
    BY <1>3, <2>2, FS_Subset
<1>5. Max(times) \in times /\ \A s \in times : s <= Max(times)
  BY <1>1, <1>3, Greatest
<1>6. QED
  BY <1>1, <1>2, <1>3, <1>4, <1>5 DEF D

(* An event without a date happens again when one of these times comes.    *)
LEMMA DailyAgain ==
  ASSUME NEW e, IsDaily(e), NEW start, NEW times, FirstTimes(e, start, times),
         NEW t \in start .. Horizon
  PROVE  /\ Match(e, t) => \E s \in times : \E k \in Nat : t = s + MinutesADay * k
         /\ \A s \in times : t % MinutesADay = s % MinutesADay => Match(e, t)
<1> DEFINE D == MinutesADay
<1>1. /\ start \in Nat /\ start \in 0 .. Horizon /\ D \in Nat \ {0} /\ Horizon \in Nat
      /\ start + D <= Horizon
      /\ times \subseteq 0 .. Horizon /\ \A s \in times : Match(e, s)
  <2>1. start \in 0 .. Horizon /\ start + D <= Horizon
    BY DEF FirstTimes
  <2>2. start \in Nat /\ times \subseteq 0 .. Horizon /\ \A s \in times : Match(e, s)
    BY DayTimes
  <2>3. D \in Nat \ {0} /\ Horizon \in Nat
    BY <2>1, Minutes
  <2>4. QED
    BY <2>1, <2>2, <2>3
<1>2. t \in Nat /\ t \in 0 .. Horizon /\ start <= t
  BY <1>1
<1>3. ASSUME Match(e, t) PROVE \E s \in times : \E k \in Nat : t = s + D * k
  <2>1. PICK s \in start .. t : s < start + D /\ \E k \in Nat : t = s + D * k
    BY <1>1, <1>2, FirstDay
  <2>2. s \in Nat /\ s \in 0 .. Horizon
    BY <1>1, <1>2
  <2>3. t % D = s % D
    <3>1. D \in Nat \ {0} /\ t \in Nat /\ s \in Nat /\ \E k \in Nat : t = s + D * k
      BY <1>1, <1>2, <2>1, <2>2
    <3> HIDE DEF D
    <3>2. QED
      BY <3>1, SameRest
  <2>4. Match(e, s)
    BY <1>2, <1>3, <2>2, <2>3, EveryDay
  <2>5. s \in times
    <3>1. times = GetAllInBetween(e, start, start + D)
      BY DEF FirstTimes
    <3> HIDE DEF D
    <3>2. s \in start .. ((start + D) - 1)
      BY <1>1, <2>1, <2>2
    <3>3. QED
      BY <2>4, <3>1, <3>2 DEF GetAllInBetween
  <2>6. QED
    BY <2>1, <2>5
<1>4. ASSUME NEW s \in times, t % D = s % D PROVE Match(e, t)
  BY <1>1, <1>2, <1>4, EveryDay
<1>5. QED
  BY <1>3, <1>4

(* What comes after a time that is not the last one.                       *)
LEMMA Following ==
  ASSUME NEW times, times \in SUBSET Nat, Max(times) \in times,
         \A x \in times : x <= Max(times), NEW s \in times, s # Max(times)
  PROVE  LET next == Min({t \in times : t > s})
         IN  /\ next \in times /\ next > s /\ \A t \in times : t > s => next <= t
             /\ next - s \in Differences(times)
<1> DEFINE T == {t \in times : t > s}
           last == Max(times)
<1>1. last \in T
  <2>1. last \in Nat /\ s \in Nat /\ s <= last /\ s # last /\ last \in times
    OBVIOUS
  <2> HIDE DEF last
  <2>2. QED
    BY <2>1
<1>2. T \in SUBSET Nat
  OBVIOUS
<1>3. Min(T) \in T /\ \A t \in T : Min(T) <= t
  <2> HIDE DEF T
  <2>1. \E x \in T : \A y \in T : x <= y
    BY <1>1, <1>2, Minimum
  <2>2. QED
    BY <2>1 DEF Min
<1>4. Min(T) - s \in Differences(times)
  BY DEF Differences
<1>5. QED
  BY <1>3, <1>4

(* When they are regular, they have one difference.                        *)
LEMMA OneDifference ==
  ASSUME NEW e, NEW start, NEW times, FirstTimes(e, start, times),
         Cardinality(Differences(times)) = 1
  PROVE  \E d : Differences(times) = {d}
<1> DEFINE last == Max(times)
<1>1. /\ times \subseteq 0 .. Horizon /\ times \in SUBSET Nat /\ last \in times
      /\ \A s \in times : s <= last
      /\ Horizon \in Nat
  <2>1. start \in 0 .. Horizon
    BY DEF FirstTimes
  <2>2. QED
    BY <2>1, DayTimes, Minutes
<1>2. IsFiniteSet(Differences(times))
  <2>1. Differences(times) \subseteq 0 .. Horizon
    <3>1. SUFFICES ASSUME NEW s \in times \ {last}
                   PROVE  Min({x \in times : x > s}) - s \in 0 .. Horizon
      BY DEF Differences
    <3> DEFINE next == Min({x \in times : x > s})
    <3>2. next \in times /\ next > s
      <4>1. times \in SUBSET Nat
        BY <1>1
      <4>2. QED
        BY <1>1, <3>1, <4>1, Following
    <3> HIDE DEF next
    <3>3. next \in 0 .. Horizon /\ s \in Nat
      BY <1>1, <3>1, <3>2
    <3>4. next - s \in 0 .. Horizon
      BY <1>1, <3>2, <3>3
    <3>5. QED
      BY <3>4 DEF next
  <2>2. IsFiniteSet(0 .. Horizon)
    BY <1>1, FS_Interval
  <2>3. QED
    BY <2>1, <2>2, FS_Subset
<1>3. QED
  BY <1>2, FS_Singleton

(* Times with one difference follow each other at that distance.           *)
LEMMA Regularly ==
  ASSUME NEW e, NEW start, NEW times, FirstTimes(e, start, times), NEW d, Differences(times) = {d}
  PROVE  /\ d \in Nat \ {0}
         /\ \A k \in Nat : start + k * d <= Max(times) => start + k * d \in times
         /\ \A s \in times : \E k \in Nat : s = start + k * d
<1> DEFINE last == Max(times)
           next(s) == Min({t \in times : t > s})
<1>1. /\ start \in Nat /\ start \in times /\ times \in SUBSET Nat
      /\ last \in times /\ \A s \in times : s \in Nat /\ start <= s /\ s <= last
  BY DayTimes
<1>2. ASSUME NEW s \in times, s # last
      PROVE  next(s) \in times /\ next(s) > s /\ next(s) = s + d /\ \A t \in times : t > s => next(s) <= t
  <2>1. /\ next(s) \in times /\ next(s) > s /\ \A t \in times : t > s => next(s) <= t
        /\ next(s) - s \in Differences(times)
    BY <1>1, <1>2, Following
  <2> HIDE DEF next
  <2>2. next(s) - s = d /\ next(s) \in Nat /\ s \in Nat
    BY <1>1, <2>1
  <2>3. QED
    BY <2>1, <2>2
<1>3. d \in Nat \ {0}
  <2>1. PICK s \in times \ {last} : d = next(s) - s
    BY DEF Differences
  <2>2. next(s) \in Nat /\ s \in Nat /\ next(s) > s
    BY <1>1, <1>2, <2>1
  <2> HIDE DEF next, last
  <2>3. QED
    BY <2>1, <2>2
<1> HIDE DEF next, last
<1>4. \A k \in Nat : k * d \in Nat /\ k * d = d * k
  BY <1>3, Products
<1>5. ASSUME NEW k \in Nat, start + k * d <= last PROVE start + k * d \in times
  <2> DEFINE S == {n \in Nat : start + n * d <= last => start + n * d \in times}
  <2>1. 0 \in S
    <3>1. 0 * d = 0
      BY <1>3
    <3>2. QED
      BY <1>1, <3>1
  <2>2. ASSUME NEW n \in Nat, n \in S PROVE n + 1 \in S
    <3> DEFINE p == start + n * d
    <3>1. start + (n + 1) * d = p + d /\ p \in Nat
      <4>1. d * (n + 1) = d * n + d * 1 /\ d * 1 = d
        BY <1>3, Products
      <4>2. (n + 1) * d = n * d + d /\ n * d \in Nat
        BY <1>4, <4>1
      <4>3. QED
        BY <1>1, <1>3, <4>2
    <3>2. SUFFICES ASSUME p + d <= last PROVE p + d \in times
      BY <3>1
    <3>3. p \in times /\ p # last
      BY <1>1, <1>3, <2>2, <3>1, <3>2
    <3>4. QED
      BY <1>2, <3>3
  <2> HIDE DEF S
  <2>3. k \in S
    BY <2>1, <2>2, Induction
  <2>4. QED
    BY <1>5, <2>3 DEF S
<1>6. ASSUME NEW s \in times PROVE \E k \in Nat : s = start + k * d
  <2> DEFINE q == (s - start) \div d
             r == (s - start) % d
             p == start + q * d
  <2>1. s - start \in Nat
    BY <1>1
  <2>2. q \in Nat /\ r \in Nat /\ r < d /\ s - start = d * q + r
    BY <1>3, <2>1, Quotient
  <2> HIDE DEF q, r
  <2>3. q * d \in Nat /\ s = p + r /\ p \in Nat
    BY <1>1, <1>4, <2>2
  <2>4. p <= last /\ p <= s
    BY <1>1, <2>2, <2>3
  <2>5. p \in times
    BY <1>5, <2>2, <2>4
  <2>6. r = 0
    <3> SUFFICES ASSUME r > 0 PROVE FALSE
      BY <2>2
    <3>1. p # last /\ s > p
      BY <1>1, <2>2, <2>3
    <3>2. next(p) = p + d /\ next(p) <= s
      BY <1>2, <2>5, <3>1
    <3>3. QED
      BY <1>3, <2>2, <2>3, <3>2
  <2>7. QED
    BY <2>2, <2>3, <2>6
<1>7. QED
  BY <1>3, <1>5, <1>6 DEF last

(* A daily task starts when an event without a date happens, when it is    *)
(* regular or its times are not too many.                                  *)
LEMMA DailyStarts ==
  ASSUME NEW e, IsDaily(e), NEW start, NEW times, FirstTimes(e, start, times),
         Cardinality(times) <= MaxTriggers \/ Cardinality(Differences(times)) = 1,
         NEW t \in start .. Horizon
  PROVE  WindowsStarts(DailyTriggers(start, times), t) <=> Match(e, t)
<1> DEFINE D == MinutesADay
           last == Max(times)
           at(s) == [Trigger("daily", start) EXCEPT !.start = s]
           each(T) == {at(s) : s \in T}
<1>1. /\ start \in Nat /\ start \in times /\ IsFiniteSet(times)
      /\ times \subseteq 0 .. Horizon /\ \A s \in times : Match(e, s)
      /\ last \in times /\ \A s \in times : s <= last
      /\ \A s \in times : s \in Nat /\ start <= s /\ s < start + D
      /\ D \in Nat \ {0} /\ Horizon \in Nat
  BY DayTimes, Minutes
<1>2. t \in Nat /\ start <= t /\ t <= Horizon
  BY <1>1
<1>3. /\ Match(e, t) => \E s \in times : \E k \in Nat : t = s + D * k
      /\ \A s \in times : t % D = s % D => Match(e, t)
  BY DailyAgain
<1>4. \A s : at(s).interval = 0 /\ at(s).kind = "daily" /\ at(s).start = s
  BY DEF Trigger
<1>5. \A s : FirstOfDay(at(s), t) <=> t >= s /\ t % D = s % D
  <2> HIDE DEF at
  <2>1. QED BY <1>4, Firsts
<1>6. ASSUME DailyTriggers(start, times) = each(times)
      PROVE  WindowsStarts(DailyTriggers(start, times), t) <=> Match(e, t)
  <2>1. WindowsStarts(DailyTriggers(start, times), t)
          <=> \E s \in times : t >= s /\ t % D = s % D
    <3> HIDE DEF at, D
    <3>1. QED BY <1>4, <1>5, <1>6 DEF WindowsStarts
  <2>2. ASSUME NEW s \in times, NEW k \in Nat, t = s + D * k PROVE t >= s /\ t % D = s % D
    <3>1. D * k \in Nat /\ s \in Nat
      BY <1>1, Products
    <3> HIDE DEF D
    <3>2. t % D = s % D
      BY <1>1, <1>2, <2>2, <3>1, SameRest
    <3>3. QED
      BY <1>2, <2>2, <3>1, <3>2
  <2>3. QED
    BY <1>3, <2>1, <2>2
<1>7. CASE Cardinality(times) = 1
  <2>1. times = {start}
    BY <1>1, <1>7, FS_Singleton
  <2>2. DailyTriggers(start, times) = {at(start)}
    BY <1>7 DEF DailyTriggers, RepeatingTriggers
  <2>3. {at(start)} = each({start})
    OBVIOUS
  <2> HIDE DEF at, each
  <2>4. DailyTriggers(start, times) = each(times)
    BY <2>1, <2>2, <2>3
  <2>5. QED
    BY <1>6, <2>4
<1>8. CASE Cardinality(times) # 1 /\ Cardinality(Differences(times)) # 1
  <2>1. Cardinality(times) \in Nat /\ MaxTriggers \in Nat
    BY <1>1, FS_CardinalityType, TriggerAssumption
  <2>2. ~(Cardinality(times) > MaxTriggers)
    BY <1>8, <2>1
  <2>3. DailyTriggers(start, times) = each(times)
    BY <1>8, <2>2 DEF DailyTriggers, RepeatingTriggers
  <2> HIDE DEF at, each
  <2>4. QED
    BY <1>6, <2>3
<1>9. CASE Cardinality(times) # 1 /\ Cardinality(Differences(times)) = 1
  <2>1. PICK d : Differences(times) = {d}
    BY <1>9, OneDifference
  <2>2. /\ d \in Nat \ {0}
        /\ \A k \in Nat : start + k * d <= last => start + k * d \in times
        /\ \A s \in times : \E k \in Nat : s = start + k * d
    BY <2>1, Regularly
  <2> DEFINE duration == RepetitionDuration(start, times)
             tr == Repeated(at(start), d, duration)
  <2>3. DailyTriggers(start, times) = {tr}
    <3>1. d = CHOOSE x \in Differences(times) : TRUE
      BY <2>1
    <3>2. QED
      BY <1>9, <3>1 DEF DailyTriggers, RepeatingTriggers
  <2>4. tr.interval = d /\ tr.duration = duration /\ tr.kind = "daily" /\ tr.start = start
    BY DEF Repeated, Trigger
  <2>5. /\ last - start \in Nat /\ last - start <= D - 1
        /\ duration = IF last - start = D - 1 THEN D ELSE last - start
    <3>1. duration = IF last - start = D - 1 THEN D ELSE last - start
      BY DEF RepetitionDuration
    <3>2. last \in Nat /\ start <= last /\ last < start + D
      BY <1>1
    <3> HIDE DEF duration, last, D
    <3>3. QED
      BY <1>1, <3>1, <3>2
  <2>6. duration \in Nat /\ last - start <= duration
    <3> HIDE DEF duration, D, last
    <3>1. QED BY <1>1, <2>5
  <2> HIDE DEF duration, tr, last, D, at
  <2>7. WindowsStarts({tr}, t) <=>
          \E k \in Nat : k * d <= duration /\ t >= k * d /\ FirstOfDay(tr, t - k * d)
    <3>1. WindowsStarts({tr}, t) <=>
            \E k \in 0 .. (duration \div d) : t >= k * d /\ FirstOfDay(tr, t - k * d)
      BY <2>2, <2>4 DEF WindowsStarts
    <3>2. \A k \in Nat : k \in 0 .. (duration \div d) <=> k * d <= duration
      BY <2>2, <2>6, HowOften
    <3>3. \A k \in 0 .. (duration \div d) : k \in Nat
      OBVIOUS
    <3>4. QED
      BY <3>1, <3>2, <3>3
  <2>8. \A x : FirstOfDay(tr, x) <=> x >= start /\ x % D = start % D
    BY <2>4, Firsts DEF D
  <2>9. \A k \in Nat : k * d \in Nat
    BY <2>2, Products
  <2>10. ASSUME NEW s \in times, NEW j \in Nat, t = s + D * j
         PROVE  \E k \in Nat : k * d <= duration /\ t >= k * d /\ FirstOfDay(tr, t - k * d)
    <3>1. PICK k \in Nat : s = start + k * d
      BY <2>2
    <3>2. k * d \in Nat /\ D * j \in Nat
      BY <1>1, <2>9, Products
    <3>3. k * d <= duration
      <4>1. s <= last /\ last \in Nat
        BY <1>1
      <4>2. QED
        BY <1>1, <2>5, <2>6, <3>1, <3>2, <4>1
    <3>4. t - k * d = start + D * j /\ t >= k * d
      BY <1>1, <2>10, <3>1, <3>2
    <3>5. start + D * j \in Nat /\ start + D * j >= start
      BY <1>1, <3>2
    <3>6. (start + D * j) % D = start % D
      BY <1>1, <3>5, SameRest
    <3>7. QED
      BY <2>8, <3>3, <3>4, <3>5, <3>6
  <2>11. ASSUME NEW k \in Nat, k * d <= duration, t >= k * d, FirstOfDay(tr, t - k * d)
         PROVE  Match(e, t)
    <3> DEFINE x == t - k * d
    <3>1. k * d \in Nat /\ x \in Nat /\ t = x + k * d
      BY <1>2, <2>9, <2>11
    <3>2. x >= start /\ x % D = start % D
      BY <2>8, <2>11
    <3> HIDE DEF x
    <3>3. PICK j \in Nat : x = start + D * j
      BY <1>1, <3>1, <3>2, SameRest
    <3>4. D * j \in Nat
      BY <1>1, Products
    <3>5. CASE start + k * d <= last
      <4>1. start + k * d \in times
        BY <2>2, <3>5
      <4>2. t = (start + k * d) + D * j /\ start + k * d \in Nat
        BY <1>1, <3>1, <3>3, <3>4
      <4>3. t % D = (start + k * d) % D
        <5> DEFINE s == start + k * d
        <5>1. D \in Nat \ {0} /\ s \in Nat /\ t = s + D * j
          BY <1>1, <4>2
        <5> HIDE DEF s
        <5>2. t % D = s % D
          BY <1>2, <5>1, SameRest
        <5>3. QED
          BY <5>2 DEF s
      <4>4. QED
        BY <1>3, <4>1, <4>3
    <3>6. CASE ~(start + k * d <= last)
      <4>1. k * d = D
        BY <1>1, <2>5, <2>6, <2>11, <3>1, <3>6
      <4>2. D * (j + 1) = D * j + D * 1 /\ D * 1 = D
        BY <1>1, Products
      <4>3. t = start + D * (j + 1) /\ j + 1 \in Nat
        BY <1>1, <3>1, <3>3, <3>4, <4>1, <4>2
      <4>4. t % D = start % D
        <5>1. D \in Nat \ {0} /\ start \in Nat
          BY <1>1
        <5>2. QED
          BY <1>2, <4>3, <5>1, SameRest
      <4>5. QED
        BY <1>1, <1>3, <4>4
    <3>7. QED
      BY <3>5, <3>6
  <2>12. QED
    BY <1>3, <2>3, <2>7, <2>10, <2>11
<1>10. QED
  BY <1>7, <1>8, <1>9

-----------------------------------------------------------------------------
(* An event with one time of the day happens at that time, on its days.    *)
LEMMA DayAndTime ==
  ASSUME NEW e, NEW h, NEW m, e.Hour.values = {h}, e.Minute.values = {m},
         NEW start \in 0 .. Horizon, Match(e, start), NEW t \in 0 .. Horizon
  PROVE  Match(e, t) <=>
           /\ t % MinutesADay = start % MinutesADay
           /\ \A f \in {"Year", "Month", "Day", "WeekDay"} :
                HasValue(e[f]) => At(t)[f] \in e[f].values
<1>1. /\ Match(e, t) => start % MinutesADay = t % MinutesADay
      /\ start % MinutesADay = t % MinutesADay =>
           At(t).Hour \in e.Hour.values /\ At(t).Minute \in e.Minute.values
  BY OneTimeADay
<1>2. Match(e, t) <=>
        /\ \A f \in {"Year", "Month", "Day", "WeekDay"} : HasValue(e[f]) => At(t)[f] \in e[f].values
        /\ HasValue(e["Hour"]) => At(t)["Hour"] \in e["Hour"].values
        /\ HasValue(e["Minute"]) => At(t)["Minute"] \in e["Minute"].values
  BY DEF Match
<1>3. QED
  BY <1>1, <1>2

(* It is once in its first day.                                            *)
LEMMA OnceADay ==
  ASSUME NEW e, NEW h, NEW m, e.Hour.values = {h}, e.Minute.values = {m},
         NEW start, NEW times, FirstTimes(e, start, times)
  PROVE  times = {start} /\ Cardinality(times) = 1
<1> DEFINE D == MinutesADay
<1>1. /\ start \in Nat /\ start \in times /\ times \subseteq 0 .. Horizon
      /\ \A s \in times : Match(e, s)
      /\ \A s \in times : s \in Nat /\ start <= s /\ s < start + D
  BY DayTimes
<1>2. D \in Nat \ {0}
  BY <1>1, Minutes
<1>3. ASSUME NEW s \in times PROVE s = start
  <2>1. s % D = start % D
    BY <1>1, OneTimeADay
  <2> HIDE DEF D
  <2>2. QED
    BY <1>1, <1>2, <2>1, SameRest
<1>4. times = {start}
  BY <1>1, <1>3
<1>5. QED
  BY <1>4, FS_Singleton

(* A trigger that is not repeated.                                         *)
LEMMA OneTrigger ==
  ASSUME NEW tr, tr.interval = 0, NEW t
  PROVE  WindowsStarts({tr}, t) <=> FirstOfDay(tr, t)
BY DEF WindowsStarts

(* The days of a week without its second Sunday have their own bits.       *)
LEMMA WeekBits ==
  ASSUME NEW values \in SUBSET (0 .. Week), Week \notin values
  PROVE  WeekdaysBitmap(values) = values
<1>1. Week \in Nat \ {0}
  BY CalendarAssumption
<1>2. ASSUME NEW x \in values PROVE x % Week = x
  <2>1. x \in Nat /\ x < Week
    BY <1>1
  <2>2. x = Week * 0 + x
    BY <1>1, <2>1
  <2>3. QED
    BY <1>1, <2>1, <2>2, Quotient
<1>3. QED
  BY <1>2 DEF WeekdaysBitmap

(* A day of the calendar has a bit when all have.                          *)
LEMMA DateBits ==
  ASSUME NEW t \in 0 .. Horizon, NEW values
  PROVE  /\ At(t).Month \in MonthsBitmap(values) <=> values = {} \/ At(t).Month \in values
         /\ At(t).Day \in DaysBitmap(values) <=> values = {} \/ At(t).Day \in values
<1> DEFINE i == t \div MinutesADay + 1
<1>1. i \in DOMAIN Dates /\ At(t).Month = Dates[i][2] /\ At(t).Day = Dates[i][3]
  BY Minutes
<1> HIDE DEF i
<1>2. Dates[i] \in Nat \X (1 .. 12) \X (Nat \ {0})
  BY <1>1, CalendarAssumption
<1>3. At(t).Month \in 1 .. 12 /\ At(t).Day \in 1 .. LongestMonth
  BY <1>1, <1>2, LongestDay
<1>4. Bounds("Day") = 1 .. LongestMonth
  BY DEF Bounds
<1>5. QED
  BY <1>3, <1>4 DEF MonthsBitmap, DaysBitmap

(* A weekly task starts when an event on days of the week happens.         *)
LEMMA WeeklyStarts ==
  ASSUME NEW e, IsWeekly(e), NEW h, NEW m, e.Hour.values = {h}, e.Minute.values = {m},
         e.WeekDay.values \in SUBSET (0 .. Week), Week \notin e.WeekDay.values,
         NEW start, NEW times, FirstTimes(e, start, times), NEW t \in start .. Horizon
  PROVE  WindowsStarts(WeeklyTriggers(e, start, times), t) <=> Match(e, t)
<1> DEFINE D == MinutesADay
           days == WeekdaysBitmap(e.WeekDay.values)
           tr == [[Trigger("weekly", start) EXCEPT !.weekdays = days] EXCEPT !.start = start]
<1>1. start \in Nat /\ start \in 0 .. Horizon /\ Match(e, start)
  BY DayTimes DEF FirstTimes
<1>2. t \in 0 .. Horizon /\ t >= start
  BY <1>1
<1>3. WeeklyTriggers(e, start, times) = {tr}
  <2>1. Cardinality(times) = 1
    BY OnceADay
  <2>2. QED
    BY <2>1 DEF WeeklyTriggers, RepeatingTriggers
<1>4. tr.interval = 0 /\ tr.kind = "weekly" /\ tr.start = start /\ tr.weekdays = days
  BY DEF Trigger
<1>5. days = e.WeekDay.values
  BY WeekBits
<1> HIDE DEF tr, days
<1>6. WindowsStarts({tr}, t) <=> t % D = start % D /\ At(t).WeekDay \in e.WeekDay.values
  BY <1>2, <1>4, <1>5, OneTrigger, Firsts
<1>7. Match(e, t) <=>
        /\ t % D = start % D
        /\ \A f \in {"Year", "Month", "Day", "WeekDay"} :
             HasValue(e[f]) => At(t)[f] \in e[f].values
  BY <1>1, <1>2, DayAndTime
<1>8. QED
  BY <1>3, <1>6, <1>7 DEF IsWeekly

(* A monthly task starts when an event on days of the month, or on days of *)
(* the week in certain months, happens.                                    *)
LEMMA MonthlyStarts ==
  ASSUME NEW e, IsMonthly(e), NEW h, NEW m, e.Hour.values = {h}, e.Minute.values = {m},
         e.WeekDay.values \in SUBSET (0 .. Week), Week \notin e.WeekDay.values,
         ~(HasValue(e.Day) /\ HasValue(e.WeekDay)),
         NEW start, NEW times, FirstTimes(e, start, times), NEW t \in start .. Horizon
  PROVE  WindowsStarts(MonthlyTriggers(e, times), t) <=> Match(e, t)
<1> DEFINE D == MinutesADay
           months == MonthsBitmap(e.Month.values)
           dow == [[Trigger("monthlyDOW", 0) EXCEPT !.weekdays = WeekdaysBitmap(e.WeekDay.values),
                                                    !.months = months] EXCEPT !.start = start]
           dom == [[Trigger("monthly", 0) EXCEPT !.days = DaysBitmap(e.Day.values),
                                                 !.months = months] EXCEPT !.start = start]
<1>1. start \in Nat /\ start \in 0 .. Horizon /\ Match(e, start)
  BY DayTimes DEF FirstTimes
<1>2. t \in 0 .. Horizon /\ t >= start
  BY <1>1
<1>3. MonthlyTriggers(e, times) = {IF HasValue(e.WeekDay) THEN dow ELSE dom}
  <2>1. Cardinality(times) = 1 /\ times = {start}
    BY OnceADay
  <2>2. ~(Cardinality(times) > MaxTriggers)
    BY <2>1, TriggerAssumption
  <2>3. QED
    BY <2>1, <2>2 DEF MonthlyTriggers
<1>4. /\ dow.interval = 0 /\ dow.kind = "monthlyDOW" /\ dow.start = start
      /\ dow.weekdays = WeekdaysBitmap(e.WeekDay.values) /\ dow.months = months
      /\ dom.interval = 0 /\ dom.kind = "monthly" /\ dom.start = start
      /\ dom.days = DaysBitmap(e.Day.values) /\ dom.months = months
  BY DEF Trigger
<1>5. WeekdaysBitmap(e.WeekDay.values) = e.WeekDay.values
  BY WeekBits
<1> HIDE DEF dow, dom, D
<1>6. /\ WindowsStarts({dow}, t) <=>
           t % D = start % D /\ At(t).WeekDay \in e.WeekDay.values /\ At(t).Month \in months
      /\ WindowsStarts({dom}, t) <=>
           t % D = start % D /\ At(t).Day \in DaysBitmap(e.Day.values) /\ At(t).Month \in months
  BY <1>2, <1>4, <1>5, OneTrigger, Firsts DEF D
<1>7. /\ At(t).Month \in months <=> e.Month.values = {} \/ At(t).Month \in e.Month.values
      /\ At(t).Day \in DaysBitmap(e.Day.values) <=> e.Day.values = {} \/ At(t).Day \in e.Day.values
  BY <1>2, DateBits
<1>8. Match(e, t) <=>
        /\ t % D = start % D
        /\ \A f \in {"Year", "Month", "Day", "WeekDay"} :
             HasValue(e[f]) => At(t)[f] \in e[f].values
  BY <1>1, <1>2, DayAndTime DEF D
<1> HIDE DEF months
<1>9. Match(e, t) <=>
        /\ t % D = start % D
        /\ e.Month.values = {} \/ At(t).Month \in e.Month.values
        /\ e.Day.values = {} \/ At(t).Day \in e.Day.values
        /\ e.WeekDay.values = {} \/ At(t).WeekDay \in e.WeekDay.values
  BY <1>8 DEF IsMonthly, HasValue
<1>10. CASE HasValue(e.WeekDay)
  BY <1>3, <1>6, <1>7, <1>9, <1>10 DEF HasValue
<1>11. CASE ~HasValue(e.WeekDay)
  BY <1>3, <1>6, <1>7, <1>9, <1>11 DEF HasValue
<1>12. QED
  BY <1>10, <1>11

-----------------------------------------------------------------------------
(* The triggers of a task are made of its event, at a minute at which it   *)
(* may be created; without a next time there are none.                     *)
TaskOf(triggers) ==
  \/ AsTime(event) # NoTime /\ triggers = OneTime
  \/ AsTime(event) = NoTime /\ Recurring /\ ~Endless /\ triggers = CreateSchedules(event, now)
  \/ AsTime(event) = NoTime /\ ~Recurring /\ triggers = {}
  \/ AsTime(event) = NoTime /\ Recurring /\ NextTime(event, now) = NoTime /\ triggers = {}
WindowsInv ==
  /\ TimesInv
  /\ now \in Times
  /\ given \notin {NoJob, Hung} /\ given.system = "windows" => TaskOf(given.definition)

(* Every step keeps the invariant.                                         *)
LEMMA WindowsStep == WindowsInv /\ [TimesNext]_timesVars => WindowsInv'
<1> SUFFICES ASSUME WindowsInv, [TimesNext]_timesVars PROVE WindowsInv'
  OBVIOUS
<1>1. TimesInv'
  BY TimesStep DEF WindowsInv
<1>2. now \in Times /\ now' = now
  BY DEF WindowsInv, TimesNext, ParseSchedule, CreateCrond, CreateLaunchd, CreateOneTime,
         CreateTask, CreateNothing, HangCreating, Create, timesVars
<1>3. CASE ParseSchedule
  <2>1. given = NoJob /\ given' = given
    BY <1>3 DEF ParseSchedule, WindowsInv, TimesInv
  <2>2. QED
    BY <1>1, <1>2, <2>1 DEF WindowsInv
<1>4. ASSUME NEW system \in {"crond", "launchd"}, NEW d, Create(system, d) PROVE WindowsInv'
  <2>1. given'.system = system
    BY <1>4 DEF Create
  <2>2. QED
    BY <1>1, <1>2, <2>1 DEF WindowsInv
<1>5. ASSUME NEW d, Create("windows", d), TaskOf(d) PROVE WindowsInv'
  <2>1. given'.definition = d /\ event' = event
    BY <1>5 DEF Create
  <2>2. TaskOf(d)'
    BY <1>2, <1>5, <2>1 DEF TaskOf, OneTime, Recurring, Endless
  <2>3. QED
    BY <1>1, <1>2, <2>1, <2>2 DEF WindowsInv
<1>6. CASE CreateCrond \/ CreateLaunchd
  BY <1>4, <1>6 DEF CreateCrond, CreateLaunchd
<1>7. CASE CreateOneTime
  BY <1>5, <1>7 DEF CreateOneTime, TaskOf
<1>8. CASE CreateTask
  BY <1>5, <1>8 DEF CreateTask, TaskOf
<1>9. CASE CreateNothing
  BY <1>5, <1>9 DEF CreateNothing, TaskOf
<1>10. CASE HangCreating
  BY <1>1, <1>2, <1>10 DEF HangCreating, WindowsInv
<1>11. CASE UNCHANGED timesVars
  BY <1>1, <1>11 DEF timesVars, WindowsInv, TaskOf, OneTime, Recurring, Endless
<1>12. QED
  BY <1>3, <1>6, <1>7, <1>8, <1>9, <1>10, <1>11 DEF TimesNext

(* It holds in every state.                                                *)
LEMMA WindowsInvariant == TimesSpec => []WindowsInv
<1>1. TimesInit => WindowsInv
  BY DEF TimesInit, WindowsInv, TimesInv, GivenOf
<1>2. QED
  BY <1>1, WindowsStep, PTL DEF TimesSpec

(* The triggers of a recurring event.                                      *)
LEMMA TaskTriggers ==
  ASSUME NEW e, NEW from, NEW start, start = NextTime(e, from),
         NEW times, times = GetAllInBetween(e, start, start + MinutesADay)
  PROVE  /\ IsDaily(e) => CreateSchedules(e, from) = DailyTriggers(start, times)
         /\ IsWeekly(e) => CreateSchedules(e, from) = WeeklyTriggers(e, start, times)
         /\ IsMonthly(e) => CreateSchedules(e, from) = MonthlyTriggers(e, times)
<1>1. /\ IsDaily(e) => ~IsWeekly(e) /\ ~IsMonthly(e)
      /\ IsWeekly(e) => ~IsDaily(e) /\ ~IsMonthly(e)
      /\ IsMonthly(e) => ~IsDaily(e) /\ ~IsWeekly(e)
  BY DEF IsDaily, IsWeekly, IsMonthly
<1>2. CreateSchedules(e, from) =
        CASE IsDaily(e) -> DailyTriggers(start, times)
          [] IsWeekly(e) -> WeeklyTriggers(e, start, times)
          [] IsMonthly(e) -> MonthlyTriggers(e, times)
          [] OTHER -> {}
  BY DEF CreateSchedules
<1>3. ASSUME IsDaily(e) PROVE CreateSchedules(e, from) = DailyTriggers(start, times)
  BY <1>1, <1>2, <1>3
<1>4. ASSUME IsWeekly(e) PROVE CreateSchedules(e, from) = WeeklyTriggers(e, start, times)
  BY <1>1, <1>2, <1>4
<1>5. ASSUME IsMonthly(e) PROVE CreateSchedules(e, from) = MonthlyTriggers(e, times)
  BY <1>1, <1>2, <1>5
<1>6. QED
  BY <1>3, <1>4, <1>5

(* A set of triggers starts nothing before the first of them is active.    *)
LEMMA NotBefore ==
  ASSUME NEW triggers, NEW start \in Nat, NEW t \in Nat, t < start,
         \A tr \in triggers : tr.start \in Nat /\ tr.start >= start /\ tr.interval \in Nat
  PROVE  ~WindowsStarts(triggers, t)
<1> SUFFICES ASSUME NEW tr \in triggers,
                    IF tr.interval = 0 THEN FirstOfDay(tr, t)
                    ELSE \E k \in 0 .. (tr.duration \div tr.interval) :
                           t >= k * tr.interval /\ FirstOfDay(tr, t - k * tr.interval)
             PROVE  FALSE
  BY DEF WindowsStarts
<1>1. \A x : FirstOfDay(tr, x) => x >= tr.start
  BY DEF FirstOfDay
<1>2. CASE tr.interval = 0
  BY <1>1, <1>2
<1>3. CASE tr.interval # 0
  <2>1. PICK k \in 0 .. (tr.duration \div tr.interval) : FirstOfDay(tr, t - k * tr.interval)
    BY <1>3
  <2>2. k \in Nat /\ tr.interval \in Nat
    OBVIOUS
  <2>3. k * tr.interval \in Nat
    BY <2>2, Products
  <2>4. t - k * tr.interval >= tr.start
    BY <1>1, <2>1
  <2> DEFINE y == k * tr.interval
             z == tr.start
  <2>5. y \in Nat /\ z \in Nat /\ z >= start /\ t - y >= z
    BY <2>3, <2>4
  <2> HIDE DEF y, z
  <2>6. QED
    BY <2>5
<1>4. QED
  BY <1>2, <1>3

(* Repeated or not, the triggers of a day are active from one of its times *)
(* on.                                                                     *)
LEMMA ActiveFrom ==
  ASSUME NEW e, NEW start, NEW times, FirstTimes(e, start, times),
         NEW trigger, trigger.interval = 0,
         \A s : [trigger EXCEPT !.start = s].start = s /\ [trigger EXCEPT !.start = s].interval = 0,
         \A i, d : LET tr == Repeated([trigger EXCEPT !.start = start], i, d)
                   IN tr.start = start /\ tr.interval = i
  PROVE  \A tr \in RepeatingTriggers(trigger, start, times) :
           tr.start \in Nat /\ tr.start >= start /\ tr.interval \in Nat
<1>1. start \in Nat /\ start \in times /\ \A s \in times : s \in Nat /\ s >= start
  BY DayTimes
<1>2. CASE Cardinality(times) = 1
  <2> DEFINE tr == [trigger EXCEPT !.start = start]
  <2>1. RepeatingTriggers(trigger, start, times) = {tr}
    BY <1>2 DEF RepeatingTriggers
  <2>2. tr.start = start /\ tr.interval = 0
    OBVIOUS
  <2> HIDE DEF tr
  <2>3. QED
    BY <1>1, <2>1, <2>2
<1>3. CASE Cardinality(times) # 1 /\ Cardinality(Differences(times)) = 1
  <2> DEFINE i == CHOOSE d \in Differences(times) : TRUE
             n == RepetitionDuration(start, times)
             tr == Repeated([trigger EXCEPT !.start = start], i, n)
  <2>1. i \in Nat
    <3>1. PICK d : Differences(times) = {d}
      BY <1>3, OneDifference, ZenonT(30)
    <3>2. d \in Nat
      BY <3>1, Regularly
    <3>3. QED
      BY <3>1, <3>2
  <2>2. RepeatingTriggers(trigger, start, times) = {tr}
    BY <1>3 DEF RepeatingTriggers
  <2>3. tr.start = start /\ tr.interval = i
    OBVIOUS
  <2> HIDE DEF tr, i
  <2>4. QED
    BY <1>1, <2>1, <2>2, <2>3
<1>4. CASE Cardinality(times) # 1 /\ Cardinality(Differences(times)) # 1
  <2> DEFINE at(s) == [trigger EXCEPT !.start = s]
  <2>1. \A tr \in RepeatingTriggers(trigger, start, times) : \E s \in times : tr = at(s)
    BY <1>4 DEF RepeatingTriggers
  <2>2. \A s : at(s).start = s /\ at(s).interval = 0
    OBVIOUS
  <2> HIDE DEF at
  <2>3. QED
    BY <1>1, <2>1, <2>2
<1>5. QED
  BY <1>2, <1>3, <1>4

(* The triggers of every day are active from the first time on.            *)
LEMMA DailyActive ==
  ASSUME NEW e, NEW start, NEW times, FirstTimes(e, start, times)
  PROVE  \A tr \in DailyTriggers(start, times) :
           tr.start \in Nat /\ tr.start >= start /\ tr.interval \in Nat
<1> DEFINE trigger == Trigger("daily", start)
<1>1. /\ trigger.interval = 0
      /\ \A s : [trigger EXCEPT !.start = s].start = s /\ [trigger EXCEPT !.start = s].interval = 0
      /\ \A i, d : LET tr == Repeated([trigger EXCEPT !.start = start], i, d)
                   IN tr.start = start /\ tr.interval = i
  BY DEF Trigger, Repeated
<1> HIDE DEF trigger
<1>2. \A tr \in RepeatingTriggers(trigger, start, times) :
        tr.start \in Nat /\ tr.start >= start /\ tr.interval \in Nat
  BY <1>1, ActiveFrom
<1>3. QED
  BY <1>2 DEF DailyTriggers, trigger

(* Those of days of the week are.                                          *)
LEMMA WeeklyActive ==
  ASSUME NEW e, NEW start, NEW times, FirstTimes(e, start, times)
  PROVE  \A tr \in WeeklyTriggers(e, start, times) :
           tr.start \in Nat /\ tr.start >= start /\ tr.interval \in Nat
<1> DEFINE trigger == [Trigger("weekly", start) EXCEPT !.weekdays = WeekdaysBitmap(e.WeekDay.values)]
<1>1. /\ trigger.interval = 0
      /\ \A s : [trigger EXCEPT !.start = s].start = s /\ [trigger EXCEPT !.start = s].interval = 0
      /\ \A i, d : LET tr == Repeated([trigger EXCEPT !.start = start], i, d)
                   IN tr.start = start /\ tr.interval = i
  BY DEF Trigger, Repeated
<1> HIDE DEF trigger
<1>2. \A tr \in RepeatingTriggers(trigger, start, times) :
        tr.start \in Nat /\ tr.start >= start /\ tr.interval \in Nat
  BY <1>1, ActiveFrom
<1>3. QED
  BY <1>2 DEF WeeklyTriggers, trigger

(* Those of days of the month are.                                         *)
LEMMA MonthlyActive ==
  ASSUME NEW e, NEW start, NEW times, FirstTimes(e, start, times)
  PROVE  \A tr \in MonthlyTriggers(e, times) :
           tr.start \in Nat /\ tr.start >= start /\ tr.interval \in Nat
<1> DEFINE months == MonthsBitmap(e.Month.values)
           dow == [Trigger("monthlyDOW", 0) EXCEPT !.weekdays = WeekdaysBitmap(e.WeekDay.values),
                                                   !.months = months]
           dom == [Trigger("monthly", 0) EXCEPT !.days = DaysBitmap(e.Day.values), !.months = months]
           one == IF HasValue(e.WeekDay) THEN dow ELSE dom
           at(s) == [one EXCEPT !.start = s]
<1>1. \A s \in times : s \in Nat /\ s >= start
  BY DayTimes
<1>2. \A tr \in MonthlyTriggers(e, times) : \E s \in times : tr = at(s)
  BY DEF MonthlyTriggers
<1>3. \A s : at(s).start = s /\ at(s).interval = 0
  <2>1. \A s : [dow EXCEPT !.start = s].start = s /\ [dow EXCEPT !.start = s].interval = 0
    BY DEF Trigger
  <2>2. \A s : [dom EXCEPT !.start = s].start = s /\ [dom EXCEPT !.start = s].interval = 0
    BY DEF Trigger
  <2> HIDE DEF dow, dom
  <2>3. QED
    BY <2>1, <2>2
<1> HIDE DEF at
<1>4. QED
  BY <1>1, <1>2, <1>3

(* For any calendar, any texts and any minutes, the Task Scheduler starts  *)
(* a job from then on at the minutes its text says and at no others, when  *)
(* it is one point in time, when it is on every day and regular or not too *)
(* often, or when it is once on days of the week or of the month.          *)
THEOREM WindowsStartsOnTime == TimesSpec => []WindowsOnTime
<1>1. ASSUME WindowsInv PROVE WindowsOnTime
  <2> DEFINE start == NextTime(event, now)
             times == GetAllInBetween(event, start, start + MinutesADay)
             OneMoment == AsTime(event) # NoTime
             Daily == IsDaily(event) /\ Regular
             Dated == /\ IsWeekly(event) \/ IsMonthly(event)
                      /\ \A f \in {"Hour", "Minute"} : Cardinality(event[f].values) = 1
                      /\ Week \notin event.WeekDay.values
                      /\ ~(HasValue(event.Day) /\ HasValue(event.WeekDay))
                      /\ start # NoTime
  <2>1. SUFFICES ASSUME Scheduled("windows"), OneMoment \/ Daily \/ Dated, NEW t \in now .. Horizon
                 PROVE  WindowsStarts(given.definition, t) <=> Says(text, t)
    BY DEF WindowsOnTime
  <2>2. /\ given \notin {NoJob, Hung} /\ given.system = "windows" /\ Plain(text)
        /\ text \in Text /\ event = Parse(text) /\ Parse(text) # NoEvent
        /\ TaskOf(given.definition) /\ now \in 0 .. Horizon
    BY <1>1, <2>1, TextAssumption, TimesAssumption DEF Scheduled, WindowsInv, TimesInv
  <2>3. /\ now \in Nat /\ Horizon \in Nat /\ t \in Nat /\ t \in 0 .. Horizon
    BY <2>2, Minutes
  <2>4. Proper(event)
    BY <2>2, EventProper
  <2>5. CASE OneMoment
    BY <2>2, <2>3, <2>5, OnceStarts DEF TaskOf, OneTime
  <2>6. CASE ~OneMoment
    <3>1. /\ Recurring /\ event["Year"].values = {} /\ Week \notin event["WeekDay"].values
      <4>1. Week \notin {}
        OBVIOUS
      <4>2. QED
        BY <2>1, <2>6 DEF Recurring, IsDaily, IsWeekly, IsMonthly, HasValue
    <3>2. Match(event, t) <=> Says(text, t)
      BY <2>2, <2>3, <3>1, MatchSays
    <3>3. CASE start = NoTime
      <4>1. Daily
        BY <2>1, <2>6, <3>3
      <4>2. given.definition = {}
        <5>1. Endless
          BY <3>3 DEF Endless
        <5>2. QED
          BY <2>2, <2>6, <3>1, <5>1 DEF TaskOf
      <4>3. ~WindowsStarts({}, t)
        BY DEF WindowsStarts
      <4>4. ~Match(event, t)
        BY <2>2, <3>3, <4>1, DailyFound
      <4>5. QED
        BY <3>2, <4>2, <4>3, <4>4
    <3>4. CASE start # NoTime
      <4>1. /\ given.definition = CreateSchedules(event, now)
            /\ ~NeverEnds(event, start, start + MinutesADay)
        BY <2>2, <2>6, <3>1, <3>4 DEF TaskOf, Endless
      <4>2. /\ start \in now .. Horizon /\ Match(event, start)
            /\ \A x \in now .. Horizon : Match(event, x) => start <= x
        BY <2>2, <3>4, NextFound
      <4>3. start \in 0 .. Horizon /\ start \in Nat
        BY <2>3, <4>2
      <4>4. FirstTimes(event, start, times)
        BY <4>1, <4>2, <4>3, WholeDay DEF FirstTimes
      <4>5. /\ IsDaily(event) => given.definition = DailyTriggers(start, times)
            /\ IsWeekly(event) => given.definition = WeeklyTriggers(event, start, times)
            /\ IsMonthly(event) => given.definition = MonthlyTriggers(event, times)
        BY <4>1, TaskTriggers
      <4>6. Daily => Cardinality(times) <= MaxTriggers \/ Cardinality(Differences(times)) = 1
        BY DEF Regular
      <4>7. ASSUME Dated
            PROVE  /\ \E h : event.Hour.values = {h}
                   /\ \E m : event.Minute.values = {m}
                   /\ event.WeekDay.values \in SUBSET (0 .. Week)
        <5>1. /\ IsFiniteSet(event.Hour.values) /\ IsFiniteSet(event.Minute.values)
              /\ event.WeekDay.values \in SUBSET (0 .. Week)
          BY <2>4 DEF Proper, Shared
        <5>2. /\ Cardinality(event.Hour.values) = 1 /\ Cardinality(event.Minute.values) = 1
          BY <4>7
        <5>3. QED
          BY <5>1, <5>2, FS_Singleton
      <4> HIDE DEF start, times
      <4>8. CASE t < start
        <5>1. ~Match(event, t)
          BY <2>3, <4>2, <4>3, <4>8
        <5>2. \A tr \in given.definition :
                tr.start \in Nat /\ tr.start >= start /\ tr.interval \in Nat
          <6>1. CASE Daily
            BY <4>4, <4>5, <6>1, DailyActive
          <6>2. CASE Dated /\ IsWeekly(event)
            BY <4>4, <4>5, <6>2, WeeklyActive
          <6>3. CASE Dated /\ IsMonthly(event)
            BY <4>3, <4>4, <4>5, <4>7, <6>3, MonthlyActive
          <6>4. QED
            BY <2>1, <2>6, <6>1, <6>2, <6>3
        <5>3. ~WindowsStarts(given.definition, t)
          BY <2>3, <4>3, <4>8, <5>2, NotBefore
        <5>4. QED
          BY <3>2, <5>1, <5>3
      <4>9. CASE t >= start
        <5>1. t \in start .. Horizon
          BY <2>3, <4>3, <4>9
        <5>2. CASE Daily
          <6>1. WindowsStarts(DailyTriggers(start, times), t) <=> Match(event, t)
            BY <4>4, <4>6, <5>1, <5>2, DailyStarts
          <6>2. QED
            BY <3>2, <4>5, <5>2, <6>1
        <5>3. CASE Dated /\ IsWeekly(event)
          <6>1. WindowsStarts(WeeklyTriggers(event, start, times), t) <=> Match(event, t)
            BY <4>4, <4>7, <5>1, <5>3, WeeklyStarts
          <6>2. QED
            BY <3>2, <4>5, <5>3, <6>1
        <5>4. CASE Dated /\ IsMonthly(event)
          <6>1. WindowsStarts(MonthlyTriggers(event, times), t) <=> Match(event, t)
            BY <4>4, <4>7, <5>1, <5>4, MonthlyStarts
          <6>2. QED
            BY <3>2, <4>5, <5>4, <6>1
        <5>5. QED
          BY <2>1, <2>6, <5>2, <5>3, <5>4
      <4>10. QED
        BY <2>3, <4>3, <4>8, <4>9
    <3>5. QED
      BY <3>3, <3>4
  <2>7. QED
    BY <2>5, <2>6
<1>2. QED
  BY <1>1, WindowsInvariant, PTL
=============================================================================
