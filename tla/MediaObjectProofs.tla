------------------------- MODULE MediaObjectProofs -------------------------
(***************************************************************************)
(* What holds of a media object, for any areas and explicit duration that  *)
(* satisfy the assumptions of MediaObject, and any bounds: its variables   *)
(* are typed, its parent is told what it needs, no event outlives its main *)
(* event, and none begins early.                                           *)
(*                                                                         *)
(* The proofs follow the layers of the model.  The table is in order and   *)
(* has each event's two transitions once, since the binary search finds    *)
(* the place of what is inserted.  Each operation of the table, and then   *)
(* of the object, has a lemma that says what it leaves of an object, as a  *)
(* relation between the object after it and the one before.  Each action   *)
(* then keeps the invariant, which adds what binds the object to its       *)
(* player, to the queued tasks and to the parent.                          *)
(***************************************************************************)
EXTENDS MediaObject, SequenceTheorems, WellFoundedInduction, TLAPS

Kinds   == {"begin", "end"}
Entries == [kind : Kinds, at : 0..Inf, event : Events]

ObjectType ==
    [st : [Events -> States], main : Events \cup {None}, offset : Times, table : Seq(Entries),
     end : [Events -> 0..Inf], first : Nat, current : Nat, pauseCount : Nat,
     heard : SUBSET Events, running : SUBSET Events, paused : SUBSET Events]

-----------------------------------------------------------------------------
(* The table.                                                              *)

\* The transitions in a table, whatever their times.
Keys(t) == {<<t[i].kind, t[i].event>> : i \in DOMAIN t}

\* No transition is in the table twice.
Once(t) == \A i, j \in DOMAIN t : t[i].kind = t[j].kind /\ t[i].event = t[j].event => i = j

\* What ends after the explicit duration may be anywhere after what begins or ends
\* before it, since the end of the whole content is put last: the order of the table is
\* that of compareTo() with times cut at the explicit duration.
Cut(time) == IF ExplicitDur # NoDur /\ time > ExplicitDur THEN ExplicitDur ELSE time

Sooner(t, u) ==
    Cut(t.at) < Cut(u.at) \/ (Cut(t.at) = Cut(u.at) /\ t.kind = "begin" /\ u.kind = "end")

\* The table is sorted.
InOrder(t) == \A i, j \in DOMAIN t : i < j => ~Sooner(t[j], t[i])

\* Transitions are at the times of their events.
Timed(t, end) == \A i \in DOMAIN t :
    t[i].at = IF t[i].kind = "begin" THEN BeginOf(t[i].event) ELSE end[t[i].event]

\* An event is in the table with both its ends or not at all.
BothEnds(t) == \A e \in Events : <<"begin", e>> \in Keys(t) <=> <<"end", e>> \in Keys(t)

\* The end of an event is its own, or the explicit duration once it was started.
EndsRight(t, end) == \A e \in Events :
    \/ end[e] = EndOf(e)
    \/ /\ ExplicitDur # NoDur /\ ExplicitDur >= BeginOf(e) /\ end[e] = ExplicitDur
       /\ <<"begin", e>> \in Keys(t)

TableInv(o) ==
    /\ Once(o.table) /\ InOrder(o.table) /\ Timed(o.table, o.end)
    /\ BothEnds(o.table) /\ EndsRight(o.table, o.end)

-----------------------------------------------------------------------------

\* The table is complete.
AllIn(t) == \A e \in Events : <<"begin", e>> \in Keys(t)

\* The end of e is behind the current index.
Passed(o, e) == \E i \in 1..o.current : o.table[i].kind = "end" /\ o.table[i].event = e

\* The event follows the main event.
Follows(o, e) ==
    /\ o.main = None => o.st[e] = "SLEEPING"
    /\ e # o.main /\ Passed(o, e) => o.st[e] = "SLEEPING"
    /\ o.pauseCount = 0 => o.st[e] # "PAUSED"

-----------------------------------------------------------------------------
(* Lemmas about sequences.                                                 *)

\* A set of naturals that is not empty has a least element.
LEMMA Least ==
    ASSUME NEW D, D \subseteq Nat, D # {}
    PROVE  \E x \in D : \A y \in D : x <= y
<1> DEFINE R == {ss \in Nat \X Nat : ss[1] < ss[2]}
<1>1. IsWellFoundedOn(R, Nat)
  BY NatLessThanWellFounded DEF OpToRel
<1>2. \E x \in D : \A y \in D : ~(<<y, x>> \in R)
  <2> HIDE DEF R
  <2> QED
    BY <1>1, WFMin
<1>3. PICK x \in D : \A y \in D : ~(<<y, x>> \in R)
  BY <1>2
<1>4. ASSUME NEW y \in D PROVE x <= y
  <2>1. ~(y < x)
    BY <1>3
  <2> QED
    BY <2>1
<1> QED
  BY <1>4

\* How far the loops over the table go.
LEMMA UptoStops ==
    ASSUME NEW S, NEW t \in Seq(S), NEW from \in 0..Len(t), NEW time \in Int,
           \A i \in DOMAIN t : t[i].at \in Int
    PROVE  /\ Upto(t, from, time) \in from..Len(t)
           /\ \A i \in from + 1 .. Upto(t, from, time) : t[i].at <= time
           /\ Upto(t, from, time) < Len(t) => t[Upto(t, from, time) + 1].at > time
<1> DEFINE D == {n \in from..Len(t) : n < Len(t) => t[n + 1].at > time}
<1>1. D \subseteq Nat /\ Len(t) \in D
  OBVIOUS
<1>2. PICK n \in D : \A y \in D : n <= y
  <2> HIDE DEF D
  <2> QED
    BY <1>1, Least
<1>3. ASSUME NEW i \in from + 1 .. n PROVE t[i].at <= time
  <2>1. i - 1 \in from..Len(t) /\ i - 1 < n /\ i \in DOMAIN t
    OBVIOUS
  <2>2. i - 1 \notin D
    BY <1>2, <2>1
  <2>3. ~(t[i - 1 + 1].at > time)
    BY <2>1, <2>2
  <2> QED
    BY <2>1, <2>3
<1>4. /\ n \in from..Len(t)
      /\ \A i \in from + 1 .. n : t[i].at <= time
      /\ n < Len(t) => t[n + 1].at > time
  BY <1>3
<1> QED
  BY <1>4 DEF Upto

\* r is s with x put in at position q.
IsInsertion(r, S, s, q, x) ==
    /\ r \in Seq(S) /\ Len(r) = Len(s) + 1 /\ DOMAIN r = 1..Len(s) + 1
    /\ \A i \in 1..Len(s) + 1 : r[i] = IF i < q THEN s[i] ELSE IF i = q THEN x ELSE s[i - 1]

LEMMA InsertProperties ==
    ASSUME NEW S, NEW s, s \in Seq(S), NEW q, q \in 1..Len(s) + 1, NEW x, x \in S
    PROVE  IsInsertion(InsertAt(s, q, x), S, s, q, x)
<1>1. PICK a, b, c : a = SubSeq(s, 1, q - 1) /\ b = <<x>> /\ c = SubSeq(s, q, Len(s))
  OBVIOUS
<1>2. /\ a \in Seq(S) /\ Len(a) = q - 1 /\ \A i \in 1..q - 1 : a[i] = s[i]
      /\ b \in Seq(S) /\ Len(b) = 1 /\ b[1] = x
      /\ c \in Seq(S) /\ Len(c) = Len(s) - q + 1 /\ \A i \in 1..Len(s) - q + 1 : c[i] = s[q + i - 1]
  BY <1>1
<1>3. PICK d : d = a \o b
  OBVIOUS
<1>4. PICK r : r = d \o c
  OBVIOUS
<1>5. InsertAt(s, q, x) = r
  BY <1>1, <1>3, <1>4 DEF InsertAt
<1>6. d \in Seq(S) /\ Len(d) = q /\ \A i \in 1..q : d[i] = IF i < q THEN s[i] ELSE x
  <2>1. /\ d \in Seq(S) /\ Len(d) = Len(a) + Len(b)
        /\ \A i \in 1..Len(a) + Len(b) : d[i] = IF i <= Len(a) THEN a[i] ELSE b[i - Len(a)]
    BY <1>2, <1>3, ConcatProperties
  <2>2. Len(a) + Len(b) = q
    BY <1>2
  <2>3. ASSUME NEW i \in 1..q PROVE d[i] = IF i < q THEN s[i] ELSE x
    <3>1. i <= Len(a) <=> i < q
      BY <1>2
    <3>2. i = q => i - Len(a) = 1
      BY <1>2
    <3>3. d[i] = IF i <= Len(a) THEN a[i] ELSE b[i - Len(a)]
      BY <2>1, <2>2
    <3>4. CASE i < q
      BY <1>2, <3>1, <3>3, <3>4
    <3>5. CASE i = q
      BY <1>2, <3>1, <3>2, <3>3, <3>5
    <3> QED
      BY <3>4, <3>5
  <2> QED
    BY <2>1, <2>2, <2>3
<1>7. /\ r \in Seq(S) /\ Len(r) = Len(s) + 1
      /\ \A i \in 1..Len(s) + 1 : r[i] = IF i <= q THEN d[i] ELSE c[i - q]
  <2>1. /\ r \in Seq(S) /\ Len(r) = Len(d) + Len(c)
        /\ \A i \in 1..Len(d) + Len(c) : r[i] = IF i <= Len(d) THEN d[i] ELSE c[i - Len(d)]
    BY <1>2, <1>4, <1>6, ConcatProperties
  <2>2. Len(d) = q /\ Len(d) + Len(c) = Len(s) + 1
    BY <1>2, <1>6
  <2> QED
    BY <2>1, <2>2
<1>8. ASSUME NEW i \in 1..Len(s) + 1
      PROVE  r[i] = IF i < q THEN s[i] ELSE IF i = q THEN x ELSE s[i - 1]
  <2>1. CASE i <= q
    BY <1>6, <1>7, <2>1
  <2>2. CASE i > q
    <3>1. PICK j \in 1..Len(s) - q + 1 : j = i - q
      BY <2>2
    <3>2. c[j] = s[q + j - 1] /\ q + j - 1 = i - 1
      BY <1>2, <3>1
    <3> QED
      BY <1>7, <2>2, <3>1, <3>2
  <2> QED
    BY <2>1, <2>2
<1>9. DOMAIN r = 1..Len(s) + 1
  BY <1>7, LenProperties
<1> QED
  BY <1>5, <1>7, <1>8, <1>9 DEF IsInsertion

LEMMA RemoveProperties ==
    ASSUME NEW S, NEW s \in Seq(S), NEW p \in 1..Len(s)
    PROVE  /\ RemoveAt(s, p) \in Seq(S)
           /\ Len(RemoveAt(s, p)) = Len(s) - 1
           /\ DOMAIN RemoveAt(s, p) = 1..Len(s) - 1
           /\ \A i \in 1..Len(s) - 1 : RemoveAt(s, p)[i] = IF i < p THEN s[i] ELSE s[i + 1]
<1>1. PICK a, c : a = SubSeq(s, 1, p - 1) /\ c = SubSeq(s, p + 1, Len(s))
  OBVIOUS
<1>2. /\ a \in Seq(S) /\ Len(a) = p - 1 /\ \A i \in 1..p - 1 : a[i] = s[i]
      /\ c \in Seq(S) /\ Len(c) = Len(s) - p /\ \A i \in 1..Len(s) - p : c[i] = s[p + i]
  BY <1>1
<1>3. PICK r : r = a \o c
  OBVIOUS
<1>4. RemoveAt(s, p) = r
  BY <1>1, <1>3 DEF RemoveAt
<1>5. /\ r \in Seq(S) /\ Len(r) = Len(s) - 1
      /\ \A i \in 1..Len(s) - 1 : r[i] = IF i < p THEN a[i] ELSE c[i - (p - 1)]
  <2>1. /\ r \in Seq(S) /\ Len(r) = Len(a) + Len(c)
        /\ \A i \in 1..Len(a) + Len(c) : r[i] = IF i <= Len(a) THEN a[i] ELSE c[i - Len(a)]
    BY <1>2, <1>3, ConcatProperties
  <2>2. Len(a) = p - 1 /\ Len(a) + Len(c) = Len(s) - 1
    BY <1>2
  <2> QED
    BY <2>1, <2>2
<1>6. ASSUME NEW i \in 1..Len(s) - 1 PROVE r[i] = IF i < p THEN s[i] ELSE s[i + 1]
  <2>1. CASE i < p
    BY <1>2, <1>5, <2>1
  <2>2. CASE i >= p
    <3>1. PICK j \in 1..Len(s) - p : j = i - (p - 1)
      BY <2>2
    <3>2. c[j] = s[p + j] /\ p + j = i + 1
      BY <1>2, <3>1
    <3> QED
      BY <1>5, <2>2, <3>1, <3>2
  <2> QED
    BY <2>1, <2>2
<1>7. DOMAIN r = 1..Len(s) - 1
  BY <1>5, LenProperties
<1> QED
  BY <1>4, <1>5, <1>6, <1>7

-----------------------------------------------------------------------------
(* The binary search of addEventTransition().                              *)

Ranges(table) == (0..Len(table)) \X (-1..Len(table) - 1)

Middle(r) == (r[1] + r[2]) \div 2

\* One step of the search, where f is what the rest of it gives.
Halve(table, t, f, r) ==
    IF r[1] > r[2] THEN r[1]
    ELSE IF Before(t, table[Middle(r) + 1]) THEN f[<<r[1], Middle(r) - 1>>]
                                            ELSE f[<<Middle(r) + 1, r[2]>>]

Shorter(table, k) == {r \in Ranges(table) : r[2] - r[1] < k}

Searches(table, t, k, f) == f = [r \in Shorter(table, k) |-> Halve(table, t, f, r)]

LEMMA MiddleOf ==
    ASSUME NEW S, NEW table \in Seq(S), NEW r \in Ranges(table), r[1] <= r[2]
    PROVE  /\ Middle(r) \in r[1]..r[2]
           /\ <<r[1], Middle(r) - 1>> \in Ranges(table)
           /\ <<Middle(r) + 1, r[2]>> \in Ranges(table)
<1>1. PICK x \in 0..Len(table), y \in -1..Len(table) - 1 : r = <<x, y>>
  BY DEF Ranges
<1>2. x <= y /\ Len(table) \in Nat
  BY <1>1
<1>3. (x + y) \div 2 \in x..y
  BY <1>2
<1>4. Middle(r) = (x + y) \div 2
  BY <1>1 DEF Middle
<1>5. PICK m : m = Middle(r)
  OBVIOUS
<1>6. m \in x..y
  BY <1>3, <1>4, <1>5
<1>7. x \in 0..Len(table) /\ m - 1 \in -1..Len(table) - 1
  BY <1>2, <1>6
<1>8. m + 1 \in 0..Len(table) /\ y \in -1..Len(table) - 1
  BY <1>2, <1>6
<1> QED
  BY <1>1, <1>5, <1>6, <1>7, <1>8 DEF Ranges

LEMMA SearchesStep ==
    ASSUME NEW S, NEW table \in Seq(S), NEW t, NEW k \in Nat, NEW f, Searches(table, t, k, f)
    PROVE  \E g : Searches(table, t, k + 1, g)
<1>1. PICK g : g = [r \in Shorter(table, k + 1) |-> Halve(table, t, f, r)]
  OBVIOUS
<1>2. ASSUME NEW r \in Shorter(table, k) PROVE r \in Shorter(table, k + 1) /\ f[r] = g[r]
  <2>1. r \in Shorter(table, k + 1)
    BY DEF Shorter, Ranges
  <2>2. f[r] = Halve(table, t, f, r)
    BY DEF Searches
  <2> QED
    BY <1>1, <2>1, <2>2
<1>3. ASSUME NEW r \in Shorter(table, k + 1) PROVE Halve(table, t, f, r) = Halve(table, t, g, r)
  <2>1. CASE r[1] > r[2]
    BY <2>1 DEF Halve
  <2>2. CASE ~(r[1] > r[2])
    <3>1. r \in Ranges(table) /\ r[2] - r[1] < k + 1 /\ r[1] \in Int /\ r[2] \in Int
      BY DEF Shorter, Ranges
    <3>2. r[1] <= r[2]
      BY <2>2, <3>1
    <3>3. PICK m : m = Middle(r)
      OBVIOUS
    <3>4. m \in r[1]..r[2] /\ <<r[1], m - 1>> \in Ranges(table) /\ <<m + 1, r[2]>> \in Ranges(table)
      BY <3>1, <3>2, <3>3, MiddleOf
    <3>5. (m - 1) - r[1] < k /\ r[2] - (m + 1) < k
      BY <3>1, <3>4
    <3>6. <<r[1], m - 1>> \in Shorter(table, k) /\ <<m + 1, r[2]>> \in Shorter(table, k)
      BY <3>4, <3>5 DEF Shorter
    <3>7. f[<<r[1], m - 1>>] = g[<<r[1], m - 1>>] /\ f[<<m + 1, r[2]>>] = g[<<m + 1, r[2]>>]
      BY <1>2, <3>6
    <3> QED
      BY <3>3, <3>7 DEF Halve
  <2> QED
    BY <2>1, <2>2
<1>4. g = [r \in Shorter(table, k + 1) |-> Halve(table, t, g, r)]
  BY <1>1, <1>3
<1> QED
  BY <1>4 DEF Searches

\* The recursive function of the search exists.
LEMMA SearchExists ==
    ASSUME NEW S, NEW table \in Seq(S), NEW t
    PROVE  \E f : f = [r \in Ranges(table) |-> Halve(table, t, f, r)]
<1> DEFINE D == {k \in Nat : ~ \E f : Searches(table, t, k, f)}
<1>1. \E f : Searches(table, t, 0, f)
  <2>1. PICK f : f = [r \in Shorter(table, 0) |-> r[1]]
    OBVIOUS
  <2>2. ASSUME NEW r \in Shorter(table, 0) PROVE r[1] = Halve(table, t, f, r)
    BY DEF Shorter, Ranges, Halve
  <2> QED
    BY <2>1, <2>2 DEF Searches
<1>2. CASE D # {}
  <2>1. D \subseteq Nat
    OBVIOUS
  <2>2. PICK k \in D : \A j \in D : k <= j
    <3> HIDE DEF D
    <3> QED
      BY <1>2, <2>1, Least
  <2>3. k # 0 /\ k \in Nat
    BY <1>1
  <2>4. k - 1 \in Nat /\ k - 1 \notin D
    BY <2>2, <2>3
  <2>5. PICK f : Searches(table, t, k - 1, f)
    BY <2>4
  <2>6. \E g : Searches(table, t, (k - 1) + 1, g)
    BY <2>4, <2>5, SearchesStep
  <2>7. (k - 1) + 1 = k
    BY <2>3
  <2> QED
    BY <2>6, <2>7
<1>3. CASE D = {}
  <2>1. Len(table) \in Nat
    OBVIOUS
  <2>2. PICK f : Searches(table, t, Len(table), f)
    BY <1>3, <2>1
  <2>3. Shorter(table, Len(table)) = Ranges(table)
    BY <2>1 DEF Shorter, Ranges
  <2> QED
    BY <2>2, <2>3 DEF Searches
<1> QED
  BY <1>2, <1>3

LEMMA SearchIs ==
    ASSUME NEW S, NEW table \in Seq(S), NEW t
    PROVE  \E f : /\ f = [r \in Ranges(table) |-> Halve(table, t, f, r)]
                  /\ Search(table, t) = f[<<0, Len(table) - 1>>]
<1>1. PICK f : f = CHOOSE g : g = [r \in Ranges(table) |-> Halve(table, t, g, r)]
  OBVIOUS
<1>2. f = [r \in Ranges(table) |-> Halve(table, t, f, r)]
  BY <1>1, SearchExists
<1>3. Search(table, t) = f[<<0, Len(table) - 1>>]
  BY <1>1 DEF Search, Ranges, Halve, Middle
<1> QED
  BY <1>2, <1>3

\* A position, counted from 0, where a transition may be put into a table in order.
Fits(table, t, p) ==
    /\ p \in 0..Len(table)
    /\ p > 0 => ~Before(t, table[p])
    /\ p < Len(table) => Before(t, table[p + 1])

\* What the binary search has found out so far.
Between(table, t, r) ==
    /\ r[1] <= r[2] + 1
    /\ r[1] > 0 => ~Before(t, table[r[1]])
    /\ r[2] + 1 < Len(table) => Before(t, table[r[2] + 2])

\* The binary search ends between two neighbours that a transition fits between, in
\* whatever order the table is.
LEMMA SearchFits ==
    ASSUME NEW table \in Seq(Entries), NEW t \in Entries
    PROVE  Fits(table, t, Search(table, t))
<1>1. PICK f : /\ f = [r \in Ranges(table) |-> Halve(table, t, f, r)]
               /\ Search(table, t) = f[<<0, Len(table) - 1>>]
  BY SearchIs
<1> DEFINE D == {k \in Nat : \E r \in Ranges(table) :
                    Between(table, t, r) /\ k = r[2] - r[1] + 1 /\ ~Fits(table, t, f[r])}
<1>2. Len(table) \in Nat
  OBVIOUS
<1>3. CASE D # {}
  <2>1. D \subseteq Nat
    OBVIOUS
  <2>2. PICK k \in D : \A j \in D : k <= j
    <3> HIDE DEF D
    <3> QED
      BY <1>3, <2>1, Least
  <2>3. PICK r \in Ranges(table) :
            Between(table, t, r) /\ k = r[2] - r[1] + 1 /\ ~Fits(table, t, f[r])
    OBVIOUS
  <2>4. r[1] \in 0..Len(table) /\ r[2] \in -1..Len(table) - 1
    BY DEF Ranges
  <2>5. f[r] = Halve(table, t, f, r)
    BY <1>1
  <2>6. CASE r[1] > r[2]
    <3>1. r[1] = r[2] + 1
      BY <2>3, <2>4, <2>6 DEF Between
    <3>2. f[r] = r[1]
      BY <2>5, <2>6 DEF Halve
    <3>3. r[2] + 2 = r[1] + 1
      BY <2>4, <3>1
    <3>4. Fits(table, t, r[1])
      BY <2>3, <2>4, <3>3 DEF Fits, Between
    <3> QED
      BY <2>3, <3>2, <3>4
  <2>7. CASE ~(r[1] > r[2])
    <3>1. r[1] <= r[2]
      BY <2>4, <2>7
    <3>2. PICK m : m = Middle(r)
      OBVIOUS
    <3>3. m \in r[1]..r[2] /\ <<r[1], m - 1>> \in Ranges(table) /\ <<m + 1, r[2]>> \in Ranges(table)
      BY <3>1, <3>2, MiddleOf
    <3>4. m + 1 \in 1..Len(table) /\ m \in Int
      BY <2>4, <3>3
    <3>5. CASE Before(t, table[m + 1])
      <4>1. PICK q : q = <<r[1], m - 1>>
        OBVIOUS
      <4>2. f[r] = f[q]
        BY <2>5, <2>7, <3>2, <3>5, <4>1 DEF Halve
      <4>4. q[1] = r[1] /\ q[2] = m - 1 /\ q \in Ranges(table)
        BY <3>3, <4>1
      <4>5. (m - 1) + 2 = m + 1 /\ r[1] <= (m - 1) + 1
        BY <2>4, <3>3, <3>4
      <4>6. Between(table, t, q)
        BY <2>3, <3>5, <4>4, <4>5 DEF Between
      <4>7. q[2] - q[1] + 1 \in Nat /\ q[2] - q[1] + 1 < k
        <5>1. PICK x \in Int, y \in Int : x = r[1] /\ y = r[2]
          BY <2>4
        <5>2. x <= m /\ m <= y /\ k = y - x + 1
          BY <2>3, <3>3, <5>1
        <5>3. (m - 1) - x + 1 \in Nat /\ (m - 1) - x + 1 < k
          BY <3>4, <5>2
        <5> QED
          BY <4>4, <5>1, <5>3
      <4>8. q[2] - q[1] + 1 \notin D
        BY <2>2, <4>7
      <4> QED
        BY <2>3, <4>2, <4>4, <4>6, <4>7, <4>8
    <3>6. CASE ~Before(t, table[m + 1])
      <4>1. PICK q : q = <<m + 1, r[2]>>
        OBVIOUS
      <4>2. f[r] = f[q]
        BY <2>5, <2>7, <3>2, <3>6, <4>1 DEF Halve
      <4>4. q[1] = m + 1 /\ q[2] = r[2] /\ q \in Ranges(table)
        BY <3>3, <4>1
      <4>5. m + 1 <= r[2] + 1
        BY <2>4, <3>3, <3>4
      <4>6. Between(table, t, q)
        BY <2>3, <3>4, <3>6, <4>4, <4>5 DEF Between
      <4>7. q[2] - q[1] + 1 \in Nat /\ q[2] - q[1] + 1 < k
        <5>1. PICK x \in Int, y \in Int : x = r[1] /\ y = r[2]
          BY <2>4
        <5>2. x <= m /\ m <= y /\ k = y - x + 1
          BY <2>3, <3>3, <5>1
        <5>3. y - (m + 1) + 1 \in Nat /\ y - (m + 1) + 1 < k
          BY <3>4, <5>2
        <5> QED
          BY <4>4, <5>1, <5>3
      <4>8. q[2] - q[1] + 1 \notin D
        BY <2>2, <4>7
      <4> QED
        BY <2>3, <4>2, <4>4, <4>6, <4>7, <4>8
    <3> QED
      BY <3>5, <3>6
  <2> QED
    BY <2>6, <2>7
<1>4. CASE D = {}
  <2>1. PICK r : r = <<0, Len(table) - 1>>
    OBVIOUS
  <2>2. r \in Ranges(table) /\ r[1] = 0 /\ r[2] = Len(table) - 1
    BY <1>2, <2>1 DEF Ranges
  <2>3. Between(table, t, r)
    BY <1>2, <2>2 DEF Between
  <2>4. r[2] - r[1] + 1 \in Nat
    BY <1>2, <2>2
  <2>5. Fits(table, t, f[r])
    BY <1>4, <2>2, <2>3, <2>4
  <2> QED
    BY <1>1, <2>1, <2>5
<1> QED
  BY <1>3, <1>4

-----------------------------------------------------------------------------
(* What is in the table after transitions were put in or taken out.        *)

Key(x) == <<x.kind, x.event>>

AtRightTime(x, end) == x.at = IF x.kind = "begin" THEN BeginOf(x.event) ELSE end[x.event]

Orderly(t, end) == t \in Seq(Entries) /\ Once(t) /\ InOrder(t) /\ Timed(t, end)

\* After the first p transitions there is room for x.
Room(t, x, p) ==
    /\ \A i \in 1..p : ~Sooner(x, t[i])
    /\ \A i \in p + 1 .. Len(t) : ~Sooner(t[i], x)

\* x may go into the table t at position q.
MayGo(t, end, q, x) ==
    /\ x \in Entries /\ Key(x) \notin Keys(t) /\ AtRightTime(x, end)
    /\ q \in 1..Len(t) + 1 /\ Room(t, x, q - 1)

\* u is the table t with n transitions more, of the keys ks.
Grown(u, t, end, ks, n) ==
    Orderly(u, end) /\ Keys(u) = Keys(t) \cup ks /\ Len(u) = Len(t) + n

LEMMA Inserted ==
    ASSUME NEW t, NEW end, NEW q, NEW x, Orderly(t, end), MayGo(t, end, q, x)
    PROVE  Grown(InsertAt(t, q, x), t, end, {Key(x)}, 1)
<1>0. /\ x \in Entries /\ Key(x) \notin Keys(t) /\ AtRightTime(x, end)
      /\ q \in 1..Len(t) + 1 /\ Room(t, x, q - 1)
  BY DEF MayGo
<1>1. PICK u : u = InsertAt(t, q, x)
  OBVIOUS
<1>2. t \in Seq(Entries) /\ Once(t) /\ InOrder(t) /\ Timed(t, end) /\ Len(t) \in Nat
  BY DEF Orderly
<1>3. /\ u \in Seq(Entries) /\ Len(u) = Len(t) + 1 /\ DOMAIN u = 1..Len(t) + 1
      /\ \A i \in 1..Len(t) + 1 : u[i] = IF i < q THEN t[i] ELSE IF i = q THEN x ELSE t[i - 1]
  <2>1. IsInsertion(InsertAt(t, q, x), Entries, t, q, x)
    BY <1>0, <1>2, InsertProperties
  <2> QED
    BY <1>1, <2>1 DEF IsInsertion
<1>4. ASSUME NEW i \in DOMAIN u
      PROVE  \/ i = q /\ u[i] = x
             \/ i < q /\ i \in DOMAIN t /\ u[i] = t[i]
             \/ i > q /\ i - 1 \in DOMAIN t /\ u[i] = t[i - 1]
  BY <1>0, <1>2, <1>3
<1>5. ASSUME NEW i \in DOMAIN t
      PROVE  \E j \in DOMAIN u : u[j] = t[i]
  <2>1. CASE i < q
    BY <1>0, <1>2, <1>3, <2>1
  <2>2. CASE i >= q
    <3>1. i + 1 \in DOMAIN u /\ ~(i + 1 < q) /\ i + 1 # q /\ (i + 1) - 1 = i
      BY <1>0, <1>2, <1>3, <2>2
    <3> QED
      BY <1>3, <3>1
  <2> QED
    BY <1>0, <1>2, <2>1, <2>2
<1>6. q \in DOMAIN u /\ u[q] = x
  BY <1>0, <1>3
<1>7. Keys(u) = Keys(t) \cup {Key(x)}
  BY <1>4, <1>5, <1>6 DEF Keys, Key
<1>8. \A i \in DOMAIN t : Key(t[i]) # Key(x)
  BY <1>0 DEF Keys, Key
<1>9. Once(u)
  <2> SUFFICES ASSUME NEW i \in DOMAIN u, NEW j \in DOMAIN u,
                      u[i].kind = u[j].kind /\ u[i].event = u[j].event
               PROVE  i = j
    BY DEF Once
  <2>1. Key(u[i]) = Key(u[j])
    BY DEF Key
  <2>2. CASE i = q \/ j = q
    BY <1>0, <1>4, <1>8, <2>1, <2>2
  <2>3. CASE i # q /\ j # q
    <3>1. PICK k \in DOMAIN t : u[i] = t[k] /\ ((i < q /\ k = i) \/ (i > q /\ k = i - 1))
      BY <1>4, <2>3
    <3>2. PICK l \in DOMAIN t : u[j] = t[l] /\ ((j < q /\ l = j) \/ (j > q /\ l = j - 1))
      BY <1>4, <2>3
    <3>3. k = l
      BY <1>2, <3>1, <3>2 DEF Once
    <3> QED
      BY <1>0, <1>2, <1>3, <3>1, <3>2, <3>3
  <2> QED
    BY <2>2, <2>3
<1>10. InOrder(u)
  <2> SUFFICES ASSUME NEW i \in DOMAIN u, NEW j \in DOMAIN u, i < j
               PROVE  ~Sooner(u[j], u[i])
    BY DEF InOrder
  <2>1. CASE i = q
    <3>1. j > q /\ j - 1 \in DOMAIN t /\ u[j] = t[j - 1] /\ j - 1 \in q..Len(t)
      BY <1>0, <1>2, <1>3, <1>4, <2>1
    <3>2. ~Sooner(t[j - 1], x)
      BY <1>0, <1>2, <3>1 DEF Room
    <3>3. u[i] = x
      BY <1>0, <1>4, <2>1
    <3> QED
      BY <3>1, <3>2, <3>3
  <2>2. CASE j = q
    <3>1. i < q /\ i \in DOMAIN t /\ u[i] = t[i] /\ i \in 1..q - 1 /\ u[j] = x
      BY <1>0, <1>2, <1>3, <1>4, <2>2
    <3> QED
      BY <1>0, <1>2, <3>1 DEF Room
  <2>3. CASE i # q /\ j # q
    <3>1. PICK k \in DOMAIN t : u[i] = t[k] /\ ((i < q /\ k = i) \/ (i > q /\ k = i - 1))
      BY <1>4, <2>3
    <3>2. PICK l \in DOMAIN t : u[j] = t[l] /\ ((j < q /\ l = j) \/ (j > q /\ l = j - 1))
      BY <1>4, <2>3
    <3>3. k < l
      BY <1>0, <1>2, <1>3, <3>1, <3>2
    <3> QED
      BY <1>2, <3>1, <3>2, <3>3 DEF InOrder
  <2> QED
    BY <2>1, <2>2, <2>3
<1>11. Timed(u, end)
  BY <1>0, <1>2, <1>4 DEF Timed, AtRightTime
<1> QED
  BY <1>1, <1>3, <1>7, <1>9, <1>10, <1>11 DEF Orderly, Grown

LEMMA Removed ==
    ASSUME NEW t, NEW end, NEW p \in DOMAIN t, Orderly(t, end)
    PROVE  /\ Orderly(RemoveAt(t, p), end)
           /\ Keys(RemoveAt(t, p)) = Keys(t) \ {Key(t[p])}
           /\ Len(RemoveAt(t, p)) = Len(t) - 1
<1>1. PICK u : u = RemoveAt(t, p)
  OBVIOUS
<1>2. t \in Seq(Entries) /\ Once(t) /\ InOrder(t) /\ Timed(t, end) /\ Len(t) \in Nat /\ p \in 1..Len(t)
  BY DEF Orderly
<1>3. /\ u \in Seq(Entries) /\ Len(u) = Len(t) - 1 /\ DOMAIN u = 1..Len(t) - 1
      /\ \A i \in 1..Len(t) - 1 : u[i] = IF i < p THEN t[i] ELSE t[i + 1]
  BY <1>1, <1>2, RemoveProperties
<1>4. ASSUME NEW i \in DOMAIN u
      PROVE  \/ i < p /\ i \in DOMAIN t /\ u[i] = t[i]
             \/ i >= p /\ i + 1 \in DOMAIN t /\ u[i] = t[i + 1]
  BY <1>2, <1>3
<1>5. ASSUME NEW i \in DOMAIN t, i # p
      PROVE  \E j \in DOMAIN u : u[j] = t[i]
  <2>1. CASE i < p
    BY <1>2, <1>3, <2>1
  <2>2. CASE i > p
    <3>1. i - 1 \in DOMAIN u /\ ~(i - 1 < p) /\ (i - 1) + 1 = i
      BY <1>2, <1>3, <2>2
    <3> QED
      BY <1>3, <3>1
  <2> QED
    BY <1>2, <1>5, <2>1, <2>2
<1>6. ASSUME NEW i \in DOMAIN u
      PROVE  \E k \in DOMAIN t : k # p /\ u[i] = t[k] /\ ((i < p /\ k = i) \/ (i >= p /\ k = i + 1))
  BY <1>2, <1>3, <1>4
<1>7. \A i \in DOMAIN t : Key(t[i]) = Key(t[p]) => i = p
  BY <1>2 DEF Key, Once
<1>8. Keys(u) = Keys(t) \ {Key(t[p])}
  <2>1. ASSUME NEW k \in Keys(u) PROVE k \in Keys(t) /\ k # Key(t[p])
    <3>1. PICK i \in DOMAIN u : k = Key(u[i])
      BY DEF Keys, Key
    <3>2. PICK j \in DOMAIN t : j # p /\ u[i] = t[j]
      BY <1>6
    <3> QED
      BY <1>7, <3>1, <3>2 DEF Keys, Key
  <2>2. ASSUME NEW k \in Keys(t), k # Key(t[p]) PROVE k \in Keys(u)
    <3>1. PICK i \in DOMAIN t : k = Key(t[i])
      BY DEF Keys, Key
    <3>2. i # p
      BY <2>2, <3>1
    <3> QED
      BY <1>5, <3>1, <3>2 DEF Keys, Key
  <2> QED
    BY <2>1, <2>2
<1>9. Once(u)
  <2> SUFFICES ASSUME NEW i \in DOMAIN u, NEW j \in DOMAIN u,
                      u[i].kind = u[j].kind /\ u[i].event = u[j].event
               PROVE  i = j
    BY DEF Once
  <2>1. PICK k \in DOMAIN t : u[i] = t[k] /\ ((i < p /\ k = i) \/ (i >= p /\ k = i + 1))
    BY <1>6
  <2>2. PICK l \in DOMAIN t : u[j] = t[l] /\ ((j < p /\ l = j) \/ (j >= p /\ l = j + 1))
    BY <1>6
  <2>3. k = l
    BY <1>2, <2>1, <2>2 DEF Once
  <2> QED
    BY <1>2, <1>3, <2>1, <2>2, <2>3
<1>10. InOrder(u)
  <2> SUFFICES ASSUME NEW i \in DOMAIN u, NEW j \in DOMAIN u, i < j
               PROVE  ~Sooner(u[j], u[i])
    BY DEF InOrder
  <2>1. PICK k \in DOMAIN t : u[i] = t[k] /\ ((i < p /\ k = i) \/ (i >= p /\ k = i + 1))
    BY <1>6
  <2>2. PICK l \in DOMAIN t : u[j] = t[l] /\ ((j < p /\ l = j) \/ (j >= p /\ l = j + 1))
    BY <1>6
  <2>3. k < l
    BY <1>2, <1>3, <2>1, <2>2
  <2> QED
    BY <1>2, <2>1, <2>2, <2>3 DEF InOrder
<1>11. Timed(u, end)
  BY <1>2, <1>6 DEF Timed
<1> QED
  BY <1>1, <1>3, <1>8, <1>9, <1>10, <1>11 DEF Orderly

LEMMA TimesOf ==
    /\ Times \subseteq Nat /\ Inf \in Nat /\ Inf \notin Times /\ Times \subseteq 0..Inf
    /\ \A e \in Events : /\ BeginOf(e) \in Times /\ EndOf(e) \in BeginOf(e)..Inf
                         /\ e \in Areas => e # Whole
    /\ Whole \in Events /\ BeginOf(Whole) = 0
BY EventsAssumption DEF Times, Inf, Events, BeginOf, EndOf

LEMMA CutOf ==
    ASSUME NEW x, x \in 0..Inf
    PROVE  /\ Cut(x) \in 0..Inf /\ Cut(x) <= x
           /\ \A y \in 0..Inf : x <= y => Cut(x) <= Cut(y)
           /\ \A e \in Events : BeginOf(e) <= x => BeginOf(e) <= Cut(x)
<1>1. Inf \in Nat
  BY TimesOf
<1>2. CASE ExplicitDur = NoDur
  BY <1>1, <1>2 DEF Cut
<1>3. CASE ExplicitDur # NoDur
  <2>1. ExplicitDur \in Nat /\ ExplicitDur \in 0..Inf
    BY <1>3, EventsAssumption, TimesOf
  <2>2. ASSUME NEW e \in Events PROVE BeginOf(e) \in Nat /\ BeginOf(e) <= ExplicitDur
    <3>1. BeginOf(e) \in Nat
      BY TimesOf
    <3>2. CASE e = Whole
      BY <2>1, <3>1, <3>2 DEF BeginOf
    <3>3. CASE e # Whole
      <4>1. e \in Areas
        BY <3>3 DEF Events
      <4>2. Begin[e] <= ExplicitDur
        BY <1>3, <4>1, DurAssumption
      <4> QED
        BY <3>1, <3>3, <4>2 DEF BeginOf
    <3> QED
      BY <3>2, <3>3
  <2> QED
    BY <1>1, <1>3, <2>1, <2>2 DEF Cut
<1> QED
  BY <1>2, <1>3

\* Nothing begins after the explicit duration.
LEMMA CutBegin ==
    ASSUME NEW e, e \in Events
    PROVE  Cut(BeginOf(e)) = BeginOf(e)
<1>1. BeginOf(e) \in 0..Inf
  BY TimesOf
<1>2. Cut(BeginOf(e)) \in 0..Inf /\ Cut(BeginOf(e)) <= BeginOf(e) /\ BeginOf(e) <= Cut(BeginOf(e))
  BY <1>1, CutOf
<1> QED
  BY <1>1, <1>2

BeginsRight(x) == x.kind = "begin" => x.at = BeginOf(x.event)

\* What comes sooner comes before.
LEMMA SoonerIsBefore ==
    ASSUME NEW x, x \in Entries, BeginsRight(x), NEW y, y \in Entries, Sooner(x, y)
    PROVE  Before(x, y) /\ ~Before(y, x)
<1>1. x.at \in 0..Inf /\ y.at \in 0..Inf /\ x.event \in Events /\ Inf \in Nat
  BY TimesOf DEF Entries
<1>2. PICK a, b, c, d : a = x.at /\ b = y.at /\ c = Cut(a) /\ d = Cut(b)
  OBVIOUS
<1>3. /\ c \in 0..Inf /\ d \in 0..Inf /\ c <= a /\ d <= b
      /\ b <= a => d <= c
  <2>1. a \in 0..Inf /\ b \in 0..Inf
    BY <1>1, <1>2
  <2>2. Cut(a) \in 0..Inf /\ Cut(a) <= a /\ Cut(b) \in 0..Inf /\ Cut(b) <= b
    BY <2>1, CutOf
  <2>3. b <= a => Cut(b) <= Cut(a)
    BY <2>1, CutOf
  <2> QED
    BY <1>2, <2>2, <2>3
<1>4. CASE c < d
  <2>1. a < b
    BY <1>1, <1>2, <1>3, <1>4
  <2> QED
    BY <1>1, <1>2, <2>1 DEF Before
<1>5. CASE ~(c < d)
  <2>1. c = d /\ x.kind = "begin" /\ y.kind = "end"
    BY <1>2, <1>5 DEF Sooner
  <2>2. c = a
    BY <1>1, <1>2, <2>1, CutBegin DEF BeginsRight
  <2>3. a <= b
    BY <1>1, <1>3, <2>1, <2>2
  <2> QED
    BY <1>1, <1>2, <2>1, <2>3 DEF Before
<1> QED
  BY <1>4, <1>5

LEMMA SoonerOrder ==
    ASSUME NEW x, x \in Entries, NEW y, y \in Entries, NEW z, z \in Entries,
           ~Sooner(x, y), ~Sooner(y, z)
    PROVE  ~Sooner(x, z)
<1>1. /\ x.at \in 0..Inf /\ y.at \in 0..Inf /\ z.at \in 0..Inf
      /\ x.kind \in Kinds /\ y.kind \in Kinds /\ z.kind \in Kinds
  BY DEF Entries
<1>2. PICK a, b, c : a = Cut(x.at) /\ b = Cut(y.at) /\ c = Cut(z.at)
  OBVIOUS
<1>3. a \in 0..Inf /\ b \in 0..Inf /\ c \in 0..Inf
  BY <1>1, <1>2, CutOf
<1> QED
  BY <1>1, <1>2, <1>3, TimesOf DEF Sooner, Kinds

\* What does not come after a begin is not later than it.
LEMMA BeginsInOrder ==
    ASSUME NEW x, x \in Entries, BeginsRight(x), x.kind = "begin",
           NEW y, y \in Entries, BeginsRight(y), ~Sooner(x, y)
    PROVE  y.at <= x.at
<1>1. /\ x.at \in 0..Inf /\ y.at \in 0..Inf /\ x.event \in Events /\ y.event \in Events
      /\ y.kind \in Kinds /\ Inf \in Nat
  BY TimesOf DEF Entries
<1>2. Cut(x.at) = x.at /\ x.at = BeginOf(x.event)
  BY <1>1, CutBegin DEF BeginsRight
<1>3. Cut(y.at) \in 0..Inf /\ (x.at <= y.at => x.at <= Cut(y.at))
  BY <1>1, <1>2, CutOf
<1>4. CASE y.kind = "begin"
  <2>1. Cut(y.at) = y.at
    BY <1>1, <1>4, CutBegin DEF BeginsRight
  <2> QED
    BY <1>1, <1>2, <2>1 DEF Sooner
<1>5. CASE y.kind = "end"
  <2>1. ~(x.at < Cut(y.at)) /\ x.at # Cut(y.at)
    BY <1>2, <1>5 DEF Sooner
  <2> QED
    BY <1>1, <1>3, <2>1
<1> QED
  BY <1>1, <1>4, <1>5 DEF Kinds

\* What does not come after another ends no sooner, but for the explicit duration.
LEMMA CutInOrder ==
    ASSUME NEW x, x \in Entries, NEW y, y \in Entries, ~Sooner(x, y),
           NEW e, e \in Events, BeginOf(e) <= y.at
    PROVE  BeginOf(e) <= x.at
<1>1. x.at \in 0..Inf /\ y.at \in 0..Inf /\ Inf \in Nat /\ BeginOf(e) \in Nat
  BY TimesOf DEF Entries
<1>2. /\ Cut(x.at) \in 0..Inf /\ Cut(y.at) \in 0..Inf /\ Cut(x.at) <= x.at
      /\ BeginOf(e) <= Cut(y.at)
  BY <1>1, CutOf
<1>3. ~(Cut(x.at) < Cut(y.at))
  BY DEF Sooner
<1> QED
  BY <1>1, <1>2, <1>3

LEMMA BeginsAreRight ==
    ASSUME NEW t, NEW end, t \in Seq(Entries), Timed(t, end), NEW i, i \in DOMAIN t
    PROVE  t[i] \in Entries /\ BeginsRight(t[i])
BY DEF Timed, BeginsRight

LEMMA TransitionType ==
    ASSUME NEW kind \in Kinds, NEW at \in 0..Inf, NEW e \in Events
    PROVE  /\ Transition(kind, at, e) \in Entries
           /\ Transition(kind, at, e).kind = kind
           /\ Transition(kind, at, e).at = at
           /\ Transition(kind, at, e).event = e
BY DEF Transition, Entries

LEMMA AddedTransition ==
    ASSUME NEW t, NEW end, Orderly(t, end), NEW x, x \in Entries,
           Key(x) \notin Keys(t), AtRightTime(x, end)
    PROVE  Grown(AddTransition(t, x), t, end, {Key(x)}, 1)
<1>1. t \in Seq(Entries) /\ InOrder(t) /\ Timed(t, end) /\ Len(t) \in Nat /\ DOMAIN t = 1..Len(t)
  BY DEF Orderly
<1>2. Fits(t, x, Search(t, x))
  BY <1>1, SearchFits
<1>3. PICK p : p = Search(t, x)
  OBVIOUS
<1>4. p \in 0..Len(t) /\ p + 1 \in 1..Len(t) + 1 /\ (p + 1) - 1 = p
  BY <1>1, <1>2, <1>3 DEF Fits
<1>5. \A i \in 1..Len(t) : t[i] \in Entries /\ BeginsRight(t[i])
  BY <1>1, BeginsAreRight
<1>6. BeginsRight(x)
  BY DEF AtRightTime, BeginsRight
<1>7. ASSUME NEW i \in 1..p PROVE ~Sooner(x, t[i])
  <2>1. p \in 1..Len(t) /\ i \in 1..Len(t) /\ p > 0
    BY <1>4
  <2>2. ~Before(x, t[p])
    BY <1>2, <1>3, <2>1 DEF Fits
  <2>3. ~Sooner(x, t[p])
    BY <1>5, <1>6, <2>1, <2>2, SoonerIsBefore
  <2>4. CASE i < p
    <3>1. ~Sooner(t[p], t[i])
      BY <1>1, <2>1, <2>4 DEF InOrder
    <3> QED
      BY <1>5, <2>1, <2>3, <3>1, SoonerOrder
  <2> QED
    BY <2>1, <2>3, <2>4
<1>8. ASSUME NEW i \in p + 1 .. Len(t) PROVE ~Sooner(t[i], x)
  <2>1. PICK q : q = p + 1
    OBVIOUS
  <2>2. q \in 1..Len(t) /\ i \in 1..Len(t) /\ p < Len(t) /\ i >= q
    BY <1>1, <1>4, <2>1
  <2>3. Before(x, t[q])
    BY <1>2, <1>3, <2>1, <2>2 DEF Fits
  <2>4. ~Sooner(t[q], x)
    BY <1>5, <2>2, <2>3, SoonerIsBefore
  <2>5. CASE i > q
    <3>1. ~Sooner(t[i], t[q])
      BY <1>1, <2>2, <2>5 DEF InOrder
    <3> QED
      BY <1>5, <2>2, <2>4, <3>1, SoonerOrder
  <2> QED
    BY <1>1, <2>2, <2>4, <2>5
<1>9. PICK q : q = p + 1
  OBVIOUS
<1>10. q \in 1..Len(t) + 1 /\ q - 1 = p
  BY <1>4, <1>9
<1>11. Room(t, x, q - 1)
  BY <1>7, <1>8, <1>10 DEF Room
<1>12. MayGo(t, end, q, x)
  BY <1>10, <1>11 DEF MayGo
<1>13. Grown(InsertAt(t, q, x), t, end, {Key(x)}, 1)
  BY <1>12, Inserted
<1> QED
  BY <1>3, <1>9, <1>13 DEF AddTransition

KeysOf(e) == {<<"begin", e>>, <<"end", e>>}

LEMMA AddedArea ==
    ASSUME NEW t, NEW end, Orderly(t, end), NEW e, e \in Areas, end[e] \in BeginOf(e)..Inf,
           <<"begin", e>> \notin Keys(t), <<"end", e>> \notin Keys(t)
    PROVE  Grown(AddPresentationEvent(t, e, end[e]), t, end, KeysOf(e), 2)
<1>1. e \in Events /\ e # Whole /\ BeginOf(e) \in 0..Inf /\ end[e] \in 0..Inf
  <2>1. e \in Events
    BY DEF Events
  <2>2. e # Whole /\ BeginOf(e) \in Nat /\ BeginOf(e) \in 0..Inf
    BY <2>1, TimesOf
  <2> QED
    BY <2>1, <2>2
<1>2. PICK x, y : x = Transition("begin", BeginOf(e), e) /\ y = Transition("end", end[e], e)
  OBVIOUS
<1>3. /\ x \in Entries /\ Key(x) = <<"begin", e>> /\ AtRightTime(x, end)
      /\ y \in Entries /\ Key(y) = <<"end", e>> /\ AtRightTime(y, end)
  BY <1>1, <1>2, TransitionType DEF Key, AtRightTime, Kinds
<1>4. PICK v : v = AddTransition(t, x)
  OBVIOUS
<1>5. Orderly(v, end) /\ Keys(v) = Keys(t) \cup {Key(x)} /\ Len(v) = Len(t) + 1
  BY <1>3, <1>4, AddedTransition DEF Grown
<1>6. Key(y) \notin Keys(v)
  BY <1>3, <1>5
<1>7. PICK u : u = AddTransition(v, y)
  OBVIOUS
<1>8. Orderly(u, end) /\ Keys(u) = Keys(v) \cup {Key(y)} /\ Len(u) = Len(v) + 1
  BY <1>3, <1>5, <1>6, <1>7, AddedTransition DEF Grown
<1>9. AddPresentationEvent(t, e, end[e]) = u
  BY <1>1, <1>2, <1>4, <1>7 DEF AddPresentationEvent
<1>10. Len(t) \in Nat
  BY DEF Orderly
<1> QED
  BY <1>3, <1>5, <1>8, <1>9, <1>10 DEF KeysOf, Grown

LEMMA AddedWhole ==
    ASSUME NEW t, NEW end, Orderly(t, end), end[Whole] \in 0..Inf,
           \A i \in DOMAIN t : Cut(t[i].at) <= Cut(end[Whole]),
           <<"begin", Whole>> \notin Keys(t), <<"end", Whole>> \notin Keys(t)
    PROVE  Grown(AddPresentationEvent(t, Whole, end[Whole]), t, end, KeysOf(Whole), 2)
<1>1. PICK x, y : x = Transition("begin", 0, Whole) /\ y = Transition("end", end[Whole], Whole)
  OBVIOUS
<1>2. t \in Seq(Entries) /\ Len(t) \in Nat
  BY DEF Orderly
<1>3. /\ x \in Entries /\ Key(x) = <<"begin", Whole>> /\ AtRightTime(x, end)
      /\ y \in Entries /\ Key(y) = <<"end", Whole>> /\ AtRightTime(y, end)
      /\ x.kind = "begin" /\ x.at = 0 /\ y.kind = "end" /\ y.at = end[Whole]
  BY <1>1, TransitionType, TimesOf DEF Key, AtRightTime, Kinds
<1>4. PICK v : v = <<x>> \o t
  OBVIOUS
<1>5. v = InsertAt(t, 1, x)
  <2>1. SubSeq(t, 1, 1 - 1) = <<>> /\ SubSeq(t, 1, Len(t)) = t /\ <<>> \o <<x>> = <<x>>
    BY <1>2, SubSeqEmpty, SubSeqFull
  <2> QED
    BY <1>4, <2>1 DEF InsertAt
<1>6. Room(t, x, 1 - 1)
  <2>1. ASSUME NEW i \in 1..Len(t) PROVE ~Sooner(t[i], x)
    <3>1. t[i] \in Entries
      BY <1>2
    <3>2. t[i].at \in 0..Inf
      BY <3>1 DEF Entries
    <3>3. Cut(t[i].at) \in Nat /\ Cut(0) = 0
      BY <3>2, CutOf, CutBegin, TimesOf
    <3> QED
      BY <1>3, <3>3 DEF Sooner
  <2> QED
    BY <1>2, <2>1 DEF Room
<1>7. Orderly(v, end) /\ Keys(v) = Keys(t) \cup {Key(x)} /\ Len(v) = Len(t) + 1
  <2>1. 1 \in 1..Len(t) + 1
    BY <1>2
  <2>2. MayGo(t, end, 1, x)
    BY <1>3, <1>6, <2>1 DEF MayGo
  <2> QED
    BY <1>5, <2>2, Inserted DEF Grown
<1>8. v \in Seq(Entries) /\ Len(v) \in Nat /\ Key(y) \notin Keys(v)
  BY <1>3, <1>7 DEF Orderly
<1>9. PICK u : u = Append(v, y)
  OBVIOUS
<1>10. PICK q : q = Len(v) + 1
  OBVIOUS
<1>11. u = InsertAt(v, q, y)
  <2>1. SubSeq(v, q, Len(v)) = <<>> /\ SubSeq(v, 1, q - 1) = v
    BY <1>8, <1>10, SubSeqEmpty, SubSeqFull
  <2>2. v \o <<y>> \in Seq(Entries)
    BY <1>3, <1>8
  <2>3. (v \o <<y>>) \o <<>> = v \o <<y>>
    BY <2>2, ConcatEmptySeq
  <2>4. Append(v, y) = v \o <<y>>
    BY <1>3, <1>8
  <2> QED
    BY <1>9, <2>1, <2>3, <2>4 DEF InsertAt
<1>12. Room(v, y, q - 1)
  <2>1. q - 1 = Len(v)
    BY <1>8, <1>10
  <2>2. ASSUME NEW i \in 1..Len(v) PROVE ~Sooner(y, v[i])
    <3>1. v[i] \in Entries /\ i \in DOMAIN v
      BY <1>8
    <3>2. Key(v[i]) \in Keys(t) \cup {Key(x)}
      BY <1>7, <3>1 DEF Keys, Key
    <3>3. v[i].at \in 0..Inf /\ Cut(v[i].at) \in Int /\ Cut(end[Whole]) \in Nat
      <4>1. v[i].at \in 0..Inf
        BY <3>1 DEF Entries
      <4> QED
        BY <4>1, CutOf
    <3>4. CASE Key(v[i]) = Key(x)
      <4>1. v[i].kind = "begin" /\ v[i].event = Whole
        BY <1>3, <3>4 DEF Key
      <4>2. v[i].at = 0
        BY <1>7, <3>1, <4>1, TimesOf DEF Orderly, Timed
      <4>3. Cut(0) = 0
        BY CutBegin, TimesOf
      <4> QED
        BY <1>3, <3>3, <4>2, <4>3 DEF Sooner
    <3>5. CASE Key(v[i]) \in Keys(t)
      <4>1. PICK j \in DOMAIN t : t[j].kind = v[i].kind /\ t[j].event = v[i].event
        BY <3>5 DEF Key, Keys
      <4>2. t[j].at = v[i].at
        BY <1>7, <3>1, <4>1 DEF Orderly, Timed
      <4>3. Cut(v[i].at) <= Cut(end[Whole])
        BY <4>2
      <4> QED
        BY <1>3, <3>3, <4>3 DEF Sooner
    <3> QED
      BY <3>2, <3>4, <3>5
  <2>3. \A i \in (q - 1) + 1 .. Len(v) : FALSE
    BY <1>8, <1>10
  <2> QED
    BY <2>1, <2>2, <2>3 DEF Room
<1>13. Orderly(u, end) /\ Keys(u) = Keys(v) \cup {Key(y)} /\ Len(u) = Len(v) + 1
  <2>1. q \in 1..Len(v) + 1
    BY <1>8, <1>10
  <2>2. MayGo(v, end, q, y)
    BY <1>3, <1>8, <1>12, <2>1 DEF MayGo
  <2> QED
    BY <1>7, <1>11, <2>2, Inserted DEF Grown
<1>14. AddPresentationEvent(t, Whole, end[Whole]) = u
  BY <1>1, <1>4, <1>9 DEF AddPresentationEvent
<1> QED
  BY <1>2, <1>3, <1>7, <1>13, <1>14 DEF KeysOf, Grown

-----------------------------------------------------------------------------
(* What the operations leave of an object.                                 *)

Actions == {"start", "stop", "abort", "pause", "resume"}

LEMMA StatesOf ==
    /\ From["start"] = {"SLEEPING"} /\ To["start"] = "OCCURRING"
    /\ From["stop"] = {"OCCURRING", "PAUSED"} /\ To["stop"] = "SLEEPING"
    /\ From["abort"] = {"OCCURRING", "PAUSED"} /\ To["abort"] = "SLEEPING"
    /\ From["pause"] = {"OCCURRING"} /\ To["pause"] = "PAUSED"
    /\ From["resume"] = {"PAUSED"} /\ To["resume"] = "OCCURRING"
    /\ \A tr \in Actions : To[tr] \in States /\ To[tr] \notin From[tr]
BY DEF From, To, Actions, States

\* p is o but for the states of its events, what the parent holds, its current index
\* and its count of pauses.
Kept(p, o) ==
    /\ p.main = o.main /\ p.offset = o.offset /\ p.table = o.table /\ p.end = o.end
    /\ p.first = o.first /\ p.heard = o.heard

\* p is o with the states of the events in es set to s.
StatesSet(p, o, es, s) ==
    /\ p \in ObjectType /\ Kept(p, o)
    /\ p.current = o.current /\ p.pauseCount = o.pauseCount
    /\ p.running = o.running /\ p.paused = o.paused
    /\ \A e \in Events : p.st[e] = IF e \in es THEN s ELSE o.st[e]

LEMMA SetStateSets ==
    ASSUME NEW o, o \in ObjectType, NEW es, NEW s, s \in States
    PROVE  StatesSet(SetState(o, es, s), o, es, s)
<1>1. PICK f : f = [e \in Events |-> IF e \in es THEN s ELSE o.st[e]]
  OBVIOUS
<1>2. f \in [Events -> States]
  BY <1>1 DEF ObjectType
<1>3. PICK p : p = [o EXCEPT !.st = f]
  OBVIOUS
<1>4. SetState(o, es, s) = p
  BY <1>1, <1>3 DEF SetState
<1>5. p \in ObjectType
  BY <1>2, <1>3 DEF ObjectType
<1>6. Kept(p, o) /\ p.current = o.current /\ p.pauseCount = o.pauseCount /\ p.running = o.running /\ p.paused = o.paused
  BY <1>3 DEF Kept, ObjectType
<1>7. p.st = f
  BY <1>3 DEF ObjectType
<1>8. \A e \in Events : p.st[e] = IF e \in es THEN s ELSE o.st[e]
  BY <1>1, <1>7
<1> QED
  BY <1>4, <1>5, <1>6, <1>8 DEF StatesSet

\* The parent knows what the main event is doing.
Agrees(o) ==
    /\ o.heard = {o.main} \cap Events
    /\ o.running = {e \in {o.main} \cap Events : o.st[e] = "OCCURRING"}
    /\ o.paused  = {e \in {o.main} \cap Events : o.st[e] = "PAUSED"}

\* p is o after the events in es that could made the transition tr.
Changed(p, o, es, tr) ==
    /\ p \in ObjectType /\ Kept(p, o)
    /\ p.current = o.current /\ p.pauseCount = o.pauseCount
    /\ \A e \in Events : p.st[e] = IF e \in es /\ o.st[e] \in From[tr] THEN To[tr] ELSE o.st[e]
    /\ Agrees(o) => Agrees(p)

LEMMA ChangeAllChanges ==
    ASSUME NEW o, o \in ObjectType, NEW es, es \subseteq Events, NEW tr, tr \in Actions
    PROVE  Changed(ChangeAll(o, es, tr), o, es, tr)
<1>1. PICK changed : changed = {e \in es : o.st[e] \in From[tr]}
  OBVIOUS
<1>2. PICK told : told = IF o.main = None THEN {} ELSE changed \cap o.heard
  OBVIOUS
<1>3. PICK run2 : run2 = IF To[tr] = "OCCURRING" THEN o.running \cup told
                         ELSE o.running \ {e \in told : o.st[e] = "OCCURRING"}
  OBVIOUS
<1>4. PICK pau2 : pau2 = IF To[tr] = "PAUSED" THEN o.paused \cup told
                         ELSE o.paused \ {e \in told : o.st[e] = "PAUSED"}
  OBVIOUS
<1>5. PICK h : h = ParentHears(o, told, tr)
  OBVIOUS
<1>6. PICK p : p = SetState(h, changed, To[tr])
  OBVIOUS
<1>7. p = ChangeAll(o, es, tr)
  BY <1>1, <1>2, <1>5, <1>6 DEF ChangeAll
<1>8. changed \subseteq Events /\ told \subseteq Events /\ To[tr] \in States
  BY <1>1, <1>2, StatesOf
<1>9. /\ h \in ObjectType /\ Kept(h, o) /\ h.current = o.current /\ h.pauseCount = o.pauseCount
      /\ h.st = o.st /\ h.running = run2 /\ h.paused = pau2
  <2>1. h = [o EXCEPT !.running = run2, !.paused = pau2]
    BY <1>3, <1>4, <1>5 DEF ParentHears, ObjectType
  <2>2. run2 \subseteq Events /\ pau2 \subseteq Events
    BY <1>3, <1>4, <1>8 DEF ObjectType
  <2> QED
    BY <2>1, <2>2 DEF Kept, ObjectType
<1>10. StatesSet(p, h, changed, To[tr])
  BY <1>6, <1>8, <1>9, SetStateSets
<1>11. /\ p \in ObjectType /\ Kept(p, o) /\ p.current = o.current /\ p.pauseCount = o.pauseCount
       /\ p.running = run2 /\ p.paused = pau2
  BY <1>9, <1>10 DEF StatesSet, Kept
<1>12. \A e \in Events : p.st[e] = IF e \in es /\ o.st[e] \in From[tr] THEN To[tr] ELSE o.st[e]
  BY <1>1, <1>9, <1>10 DEF StatesSet
<1>13. ASSUME Agrees(o) PROVE Agrees(p)
  <2>1. p.main = o.main /\ p.heard = o.heard /\ None \notin Events /\ o.main \in Events \cup {None}
    BY <1>11, EventsAssumption DEF Kept, ObjectType
  <2>2. told = {e \in {o.main} \cap Events : e \in es /\ o.st[e] \in From[tr]}
    BY <1>1, <1>2, <1>13, <2>1 DEF Agrees
  <2>3. o.running = {e \in {o.main} \cap Events : o.st[e] = "OCCURRING"}
        /\ o.paused = {e \in {o.main} \cap Events : o.st[e] = "PAUSED"}
    BY <1>13 DEF Agrees
  <2>4. run2 = {e \in {p.main} \cap Events : p.st[e] = "OCCURRING"}
    BY <1>3, <1>12, <2>1, <2>2, <2>3
  <2>5. pau2 = {e \in {p.main} \cap Events : p.st[e] = "PAUSED"}
    BY <1>4, <1>12, <2>1, <2>2, <2>3
  <2> QED
    BY <1>11, <1>13, <2>1, <2>4, <2>5 DEF Agrees
<1> QED
  BY <1>7, <1>11, <1>12, <1>13 DEF Changed

LEMMA AdvanceMoves ==
    ASSUME NEW o, o \in ObjectType, o.current <= Len(o.table), NEW time, time \in Int
    PROVE  LET p == Advance(o, time) IN
           /\ p \in ObjectType /\ Kept(p, o)
           /\ p.current = Upto(o.table, o.current, time) /\ p.current \in o.current..Len(o.table)
           /\ p.pauseCount = o.pauseCount /\ p.st = o.st
           /\ p.running = o.running /\ p.paused = o.paused
<1>1. PICK n : n = Upto(o.table, o.current, time)
  OBVIOUS
<1>2. n \in o.current..Len(o.table) /\ n \in Nat
  <2>1. o.table \in Seq(Entries) /\ o.current \in Nat /\ Len(o.table) \in Nat
    BY DEF ObjectType
  <2>2. o.current \in 0..Len(o.table)
    BY <2>1
  <2>3. \A i \in DOMAIN o.table : o.table[i].at \in Int
    <3>1. \A i \in DOMAIN o.table : o.table[i] \in Entries
      BY <2>1
    <3> QED
      BY <3>1, TimesOf DEF Entries
  <2>4. n \in o.current..Len(o.table)
    BY <1>1, <2>1, <2>2, <2>3, UptoStops
  <2> QED
    BY <2>1, <2>4
<1>3. PICK p : p = [o EXCEPT !.current = n]
  OBVIOUS
<1>4. Advance(o, time) = p
  BY <1>1, <1>3 DEF Advance
<1>5. p \in ObjectType /\ p.current = n
  BY <1>2, <1>3 DEF ObjectType
<1>6. Kept(p, o) /\ p.pauseCount = o.pauseCount /\ p.st = o.st /\ p.running = o.running
      /\ p.paused = o.paused
  BY <1>3 DEF Kept, ObjectType
<1> QED
  BY <1>1, <1>2, <1>4, <1>5, <1>6

\* Where the loops over an object's table stop.
LEMMA UptoOf ==
    ASSUME NEW o, o \in ObjectType, NEW from, from \in 0..Len(o.table), NEW time, time \in Int
    PROVE  /\ Upto(o.table, from, time) \in from..Len(o.table)
           /\ \A i \in from + 1 .. Upto(o.table, from, time) : o.table[i].at <= time
           /\ Upto(o.table, from, time) < Len(o.table) =>
                 o.table[Upto(o.table, from, time) + 1].at > time
<1>1. o.table \in Seq(Entries) /\ Len(o.table) \in Nat
  BY DEF ObjectType
<1>2. \A i \in DOMAIN o.table : o.table[i].at \in Int
  <2>1. \A i \in DOMAIN o.table : o.table[i] \in Entries
    BY <1>1
  <2> QED
    BY <2>1, TimesOf DEF Entries
<1> QED
  BY <1>1, <1>2, UptoStops

LEMMA EventsAtAre ==
    ASSUME NEW o, o \in ObjectType, NEW kind, NEW D, D \subseteq 1..Len(o.table)
    PROVE  /\ EventsAt(o, kind, D) \subseteq Events
           /\ \A e : e \in EventsAt(o, kind, D) <=>
                 \E i \in D : o.table[i].kind = kind /\ o.table[i].event = e
<1>1. \A i \in 1..Len(o.table) : o.table[i] \in Entries
  BY DEF ObjectType
<1> QED
  BY <1>1 DEF EventsAt, Entries

\* The transitions of the event e are at the positions b and c.
Ends(o, e, b, c) ==
    /\ b \in 1..Len(o.table) /\ c \in 1..Len(o.table) /\ b < c
    /\ o.table[b].kind = "begin" /\ o.table[b].event = e /\ o.table[b].at = BeginOf(e)
    /\ o.table[c].kind = "end" /\ o.table[c].event = e /\ o.table[c].at = o.end[e]
    /\ \A i \in 1..Len(o.table) : o.table[i].event = e =>
          /\ o.table[i].kind = "begin" => i = b
          /\ o.table[i].kind = "end" => i = c

LEMMA EndsOf ==
    ASSUME NEW o, o \in ObjectType, TableInv(o), NEW e, e \in Events,
           <<"begin", e>> \in Keys(o.table)
    PROVE  \E b, c : Ends(o, e, b, c)
<1>1. /\ Once(o.table) /\ InOrder(o.table) /\ Timed(o.table, o.end)
      /\ BothEnds(o.table) /\ EndsRight(o.table, o.end)
  BY DEF TableInv
<1>2. DOMAIN o.table = 1..Len(o.table) /\ o.table \in Seq(Entries)
  BY DEF ObjectType
<1>3. PICK b \in 1..Len(o.table) : o.table[b].kind = "begin" /\ o.table[b].event = e
  BY <1>2 DEF Keys
<1>4. PICK c \in 1..Len(o.table) : o.table[c].kind = "end" /\ o.table[c].event = e
  BY <1>1, <1>2 DEF Keys, BothEnds
<1>5. o.table[b].at = BeginOf(e) /\ o.table[c].at = o.end[e]
  BY <1>1, <1>2, <1>3, <1>4 DEF Timed
<1>6. BeginOf(e) <= o.end[e] /\ BeginOf(e) \in Nat /\ o.end[e] \in Nat
  <2>1. BeginOf(e) \in Nat /\ EndOf(e) \in BeginOf(e)..Inf
    BY TimesOf
  <2>2. o.end[e] \in 0..Inf
    BY DEF ObjectType
  <2>3. o.end[e] = EndOf(e) \/ (o.end[e] = ExplicitDur /\ ExplicitDur >= BeginOf(e))
    BY <1>1 DEF EndsRight
  <2>4. BeginOf(e) <= o.end[e]
    <3>1. CASE o.end[e] = EndOf(e)
      BY <2>1, <3>1
    <3>2. CASE o.end[e] = ExplicitDur /\ ExplicitDur >= BeginOf(e)
      <4>1. PICK x \in 0..Inf : x = o.end[e]
        BY <2>2
      <4>2. x >= BeginOf(e)
        BY <3>2, <4>1
      <4> QED
        BY <2>1, <4>1, <4>2
    <3> QED
      BY <2>3, <3>1, <3>2
  <2> QED
    BY <2>1, <2>2, <2>4
<1>7. b # c
  BY <1>3, <1>4
<1>8. ASSUME c < b PROVE FALSE
  <2>1. ~Sooner(o.table[b], o.table[c])
    BY <1>1, <1>2, <1>8 DEF InOrder
  <2>2. PICK x, y : x = o.table[b] /\ y = o.table[c]
    OBVIOUS
  <2>3. ~Sooner(x, y) /\ x.kind = "begin" /\ y.kind = "end" /\ x.at = BeginOf(e) /\ y.at = o.end[e]
    BY <1>3, <1>4, <1>5, <2>1, <2>2
  <2>4. o.end[e] \in 0..Inf
    BY DEF ObjectType
  <2>5. Cut(x.at) = BeginOf(e) /\ BeginOf(e) <= Cut(y.at) /\ Cut(y.at) \in 0..Inf
    BY <1>6, <2>3, <2>4, CutBegin, CutOf
  <2> QED
    BY <1>6, <2>3, <2>5 DEF Sooner
<1>9. b < c
  BY <1>7, <1>8
<1>10. \A i \in 1..Len(o.table) : o.table[i].event = e =>
          /\ o.table[i].kind = "begin" => i = b
          /\ o.table[i].kind = "end" => i = c
  BY <1>1, <1>2, <1>3, <1>4 DEF Once
<1>11. Ends(o, e, b, c)
  BY <1>3, <1>4, <1>5, <1>9, <1>10, Zenon DEF Ends
<1> QED
  BY <1>11

LEMMA PlacesOf ==
    ASSUME NEW o, o \in ObjectType, NEW e, NEW b, NEW c, Ends(o, e, b, c)
    PROVE  Place(o.table, "begin", e) = b /\ Place(o.table, "end", e) = c
<1>1. DOMAIN o.table = 1..Len(o.table)
  BY DEF ObjectType
<1>2. /\ b \in DOMAIN o.table /\ o.table[b].kind = "begin" /\ o.table[b].event = e
      /\ c \in DOMAIN o.table /\ o.table[c].kind = "end" /\ o.table[c].event = e
      /\ \A i \in DOMAIN o.table : o.table[i].event = e =>
            /\ o.table[i].kind = "begin" => i = b
            /\ o.table[i].kind = "end" => i = c
  BY <1>1 DEF Ends
<1> QED
  BY <1>2 DEF Place

LEMMA RemovedEvent ==
    ASSUME NEW o, o \in ObjectType, TableInv(o), NEW e, e \in Events, NEW b, NEW c, Ends(o, e, b, c)
    PROVE  LET u == RemovePresentationEvent(o.table, e) IN
           /\ Orderly(u, o.end) /\ Keys(u) = Keys(o.table) \ KeysOf(e)
           /\ Len(u) = Len(o.table) - 2
<1>1. PICK t : t = o.table
  OBVIOUS
<1>2. /\ b \in 1..Len(t) /\ c \in 1..Len(t) /\ b < c
      /\ t[b].kind = "begin" /\ t[b].event = e /\ t[c].kind = "end" /\ t[c].event = e
  BY <1>1 DEF Ends
<1>3. Orderly(t, o.end)
  BY <1>1 DEF Orderly, TableInv, ObjectType
<1>4. Len(t) \in Nat /\ DOMAIN t = 1..Len(t) /\ t \in Seq(Entries)
  BY <1>3 DEF Orderly
<1>5. PICK v : v = RemoveAt(t, c)
  OBVIOUS
<1>6. Orderly(v, o.end) /\ Keys(v) = Keys(t) \ {Key(t[c])} /\ Len(v) = Len(t) - 1
  BY <1>2, <1>3, <1>4, <1>5, Removed
<1>7. b \in DOMAIN v /\ v[b] = t[b]
  <2>1. /\ DOMAIN v = 1..Len(t) - 1
        /\ \A i \in 1..Len(t) - 1 : v[i] = IF i < c THEN t[i] ELSE t[i + 1]
    BY <1>2, <1>4, <1>5, RemoveProperties
  <2>2. b \in 1..Len(t) - 1
    BY <1>2, <1>4
  <2> QED
    BY <1>2, <2>1, <2>2
<1>8. PICK u : u = RemoveAt(v, b)
  OBVIOUS
<1>9. Orderly(u, o.end) /\ Keys(u) = Keys(v) \ {Key(v[b])} /\ Len(u) = Len(v) - 1
  BY <1>6, <1>7, <1>8, Removed
<1>10. RemovePresentationEvent(o.table, e) = u
  BY <1>1, <1>5, <1>8, PlacesOf DEF RemovePresentationEvent
<1>11. Key(t[c]) = <<"end", e>> /\ Key(v[b]) = <<"begin", e>>
  BY <1>2, <1>7 DEF Key
<1> QED
  BY <1>1, <1>4, <1>6, <1>9, <1>10, <1>11 DEF KeysOf

\* The table of an object that has been given its events.
FullTable(o) == o \in ObjectType /\ TableInv(o) /\ AllIn(o.table)

\* p is o with another time for the end of the event e.
Retimed(p, o, e, end) ==
    /\ p.st = o.st /\ p.main = o.main /\ p.offset = o.offset /\ p.first = o.first
    /\ p.current = o.current /\ p.pauseCount = o.pauseCount /\ p.heard = o.heard
    /\ p.running = o.running /\ p.paused = o.paused
    /\ p.end = [o.end EXCEPT ![e] = end] /\ Len(p.table) = Len(o.table)

LEMMA AddedEvent ==
    ASSUME NEW t, NEW end, Orderly(t, end), NEW e, e \in Events, end[e] \in BeginOf(e)..Inf,
           <<"begin", e>> \notin Keys(t), <<"end", e>> \notin Keys(t),
           e = Whole => \A i \in DOMAIN t : Cut(t[i].at) <= Cut(end[e])
    PROVE  Grown(AddPresentationEvent(t, e, end[e]), t, end, KeysOf(e), 2)
<1>1. CASE e = Whole
  <2>1. end[Whole] \in 0..Inf
    BY <1>1, TimesOf
  <2> QED
    BY <1>1, <2>1, AddedWhole
<1>2. CASE e # Whole
  BY <1>2, AddedArea DEF Events
<1> QED
  BY <1>1, <1>2

LEMMA SetExplicitDurKeepsTable ==
    ASSUME NEW o, FullTable(o), NEW e, e \in Events
    PROVE  LET p == SetExplicitDur(o, e) IN
           FullTable(p) /\ Retimed(p, o, e, p.end[e]) /\ p.end[e] >= BeginOf(e)
<1>1. CASE ExplicitDur = NoDur
  <2>1. SetExplicitDur(o, e) = o
    BY <1>1 DEF SetExplicitDur
  <2>2. o.end = [o.end EXCEPT ![e] = o.end[e]]
    BY DEF FullTable, ObjectType
  <2>3. o.end[e] = EndOf(e)
    BY <1>1 DEF FullTable, TableInv, EndsRight
  <2> QED
    BY <2>1, <2>2, <2>3, TimesOf DEF Retimed, FullTable
<1>2. CASE ExplicitDur # NoDur
  <2>1. PICK d : d = IF ExplicitDur >= BeginOf(e) THEN ExplicitDur ELSE o.end[e]
    OBVIOUS
  <2>2. PICK end : end = [o.end EXCEPT ![e] = d]
    OBVIOUS
  <2>3. o \in ObjectType /\ TableInv(o) /\ AllIn(o.table)
    BY DEF FullTable
  <2>4. PICK b, c : Ends(o, e, b, c)
    BY <2>3, EndsOf DEF AllIn
  <2>5. PICK u : u = RemovePresentationEvent(o.table, e)
    OBVIOUS
  <2>6. Orderly(u, o.end) /\ Keys(u) = Keys(o.table) \ KeysOf(e) /\ Len(u) = Len(o.table) - 2
    BY <2>3, <2>4, <2>5, RemovedEvent
  <2>7. <<"begin", e>> \notin Keys(u) /\ <<"end", e>> \notin Keys(u)
    BY <2>6 DEF KeysOf
  <2>8. /\ o.end \in [Events -> 0..Inf] /\ ExplicitDur \in 0..Inf /\ BeginOf(e) \in Nat
        /\ EndOf(e) \in BeginOf(e)..Inf
    BY <1>2, <2>3, EventsAssumption, TimesOf DEF ObjectType
  <2>9. d \in BeginOf(e)..Inf /\ d \in 0..Inf
    <3>1. CASE ExplicitDur >= BeginOf(e)
      BY <2>1, <2>8, <3>1, TimesOf
    <3>2. CASE ~(ExplicitDur >= BeginOf(e))
      <4>1. o.end[e] = EndOf(e)
        BY <2>3, <3>2 DEF TableInv, EndsRight
      <4> QED
        BY <2>1, <2>8, <3>2, <4>1, TimesOf
    <3> QED
      BY <3>1, <3>2
  <2>10. end \in [Events -> 0..Inf] /\ end[e] = d /\ \A f \in Events : f # e => end[f] = o.end[f]
    BY <2>2, <2>8, <2>9
  <2>11. Orderly(u, end)
    <3>1. ASSUME NEW i \in DOMAIN u
          PROVE  u[i].at = IF u[i].kind = "begin" THEN BeginOf(u[i].event) ELSE end[u[i].event]
      <4>1. u[i] \in Entries
        BY <2>6 DEF Orderly
      <4>2. <<u[i].kind, u[i].event>> \in Keys(u)
        BY DEF Keys
      <4>3. u[i].event # e /\ u[i].event \in Events
        BY <2>7, <4>1, <4>2 DEF Entries, Kinds
      <4>4. end[u[i].event] = o.end[u[i].event]
        BY <2>10, <4>3
      <4> QED
        BY <2>6, <4>4 DEF Orderly, Timed
    <3> QED
      BY <2>6, <3>1 DEF Orderly, Timed
  <2>12. e = Whole => \A i \in DOMAIN u : Cut(u[i].at) <= Cut(end[e])
    <3> SUFFICES ASSUME e = Whole, NEW i, i \in DOMAIN u
                 PROVE  Cut(u[i].at) <= Cut(d)
      BY <2>10
    <3>1. u[i] \in Entries
      BY <2>6 DEF Orderly
    <3>2. u[i].at \in Nat
      BY <3>1, TimesOf DEF Entries
    <3>3. d = ExplicitDur /\ d \in Nat
      BY <2>1, <2>8, TimesOf
    <3> QED
      BY <1>2, <3>2, <3>3 DEF Cut
  <2>13. PICK v : v = AddPresentationEvent(u, e, d)
    OBVIOUS
  <2>14. Grown(v, u, end, KeysOf(e), 2)
    BY <2>7, <2>9, <2>10, <2>11, <2>12, <2>13, AddedEvent
  <2>15. Keys(v) = Keys(o.table)
    <3>1. KeysOf(e) \subseteq Keys(o.table)
      BY <2>3 DEF TableInv, BothEnds, AllIn, KeysOf
    <3> QED
      BY <2>6, <2>14, <3>1 DEF Grown
  <2>16. PICK p : p = [o EXCEPT !.end = end, !.table = v]
    OBVIOUS
  <2>17. SetExplicitDur(o, e) = p
    BY <1>2, <2>1, <2>2, <2>3, <2>5, <2>13, <2>16 DEF SetExplicitDur, ObjectType
  <2>18. v \in Seq(Entries) /\ Len(v) = Len(o.table)
    <3>1. Len(o.table) \in Nat
      BY <2>3 DEF ObjectType
    <3> QED
      BY <2>6, <2>14, <3>1 DEF Grown, Orderly
  <2>19. p \in ObjectType
    BY <2>3, <2>10, <2>16, <2>18 DEF ObjectType
  <2>20. /\ p.st = o.st /\ p.main = o.main /\ p.offset = o.offset /\ p.first = o.first
         /\ p.current = o.current /\ p.pauseCount = o.pauseCount /\ p.heard = o.heard
         /\ p.running = o.running /\ p.paused = o.paused
         /\ p.end = end /\ p.table = v
    BY <2>3, <2>16 DEF ObjectType
  <2>21. EndsRight(v, end)
    <3> SUFFICES ASSUME NEW f, f \in Events
                 PROVE  \/ end[f] = EndOf(f)
                        \/ /\ ExplicitDur # NoDur /\ ExplicitDur >= BeginOf(f)
                           /\ end[f] = ExplicitDur /\ <<"begin", f>> \in Keys(v)
      BY DEF EndsRight
    <3>1. CASE f # e
      BY <2>3, <2>10, <2>15, <3>1 DEF TableInv, EndsRight
    <3>2. CASE f = e /\ ExplicitDur >= BeginOf(e)
      BY <1>2, <2>1, <2>3, <2>10, <2>15, <3>2 DEF AllIn
    <3>3. CASE f = e /\ ~(ExplicitDur >= BeginOf(e))
      BY <2>1, <2>3, <2>10, <3>3 DEF TableInv, EndsRight
    <3> QED
      BY <3>1, <3>2, <3>3
  <2>22. BothEnds(v) /\ AllIn(v)
    BY <2>3, <2>15 DEF TableInv, BothEnds, AllIn
  <2>23. TableInv(p)
    BY <2>14, <2>20, <2>21, <2>22 DEF TableInv, Grown, Orderly
  <2>24. FullTable(p)
    BY <2>19, <2>20, <2>22, <2>23 DEF FullTable
  <2>25. Retimed(p, o, e, p.end[e]) /\ p.end[e] >= BeginOf(e)
    BY <2>2, <2>8, <2>9, <2>10, <2>18, <2>20 DEF Retimed
  <2> QED
    BY <2>17, <2>24, <2>25
<1> QED
  BY <1>1, <1>2

-----------------------------------------------------------------------------
(* What the handlers of EventTransitionManager do to an object.            *)

\* An object the main event of which, if it has one, was added with all the others.
Sound(o) ==
    /\ o \in ObjectType /\ TableInv(o)
    /\ o.first <= o.current /\ o.current <= Len(o.table)
    /\ o.main # None => AllIn(o.table)

LEMMA SoundKept ==
    ASSUME NEW o, Sound(o), NEW p, p \in ObjectType, Kept(p, o),
           p.current \in p.first..Len(p.table)
    PROVE  Sound(p)
<1>1. p.main = o.main /\ p.table = o.table /\ p.end = o.end /\ p.first = o.first
  BY DEF Kept
<1>2. TableInv(p)
  BY <1>1 DEF Sound, TableInv
<1>3. p.first <= p.current /\ p.current <= Len(p.table)
  BY DEF ObjectType
<1> QED
  BY <1>1, <1>2, <1>3 DEF Sound

LEMMA SoundEnds ==
    ASSUME NEW o, Sound(o), o.main # None, NEW e, e \in Events
    PROVE  \E b, c : Ends(o, e, b, c)
BY EndsOf DEF Sound, AllIn

\* p is o with everything begun that begins at the positions D.
Begun(p, o, D) ==
    /\ p \in ObjectType /\ Kept(p, o) /\ p.pauseCount = o.pauseCount
    /\ Agrees(o) => Agrees(p)
    /\ \A e \in Events :
          p.st[e] = IF o.st[e] = "SLEEPING" /\ e \in EventsAt(o, "begin", D)
                    THEN "OCCURRING" ELSE o.st[e]

\* Going on through the table up to a time, and starting what is to be started.
LEMMA BegunUpto ==
    ASSUME NEW o, Sound(o), NEW time, time \in Int
    PROVE  LET p == StartTransitions(o, time) IN
           /\ Sound(p) /\ Begun(p, o, Due(o, time)) /\ Due(o, time) \subseteq 1..Len(o.table)
           /\ p.current = Upto(o.table, o.current, time)
<1>1. PICK a : a = Advance(o, time)
  OBVIOUS
<1>2. o \in ObjectType /\ o.current <= Len(o.table) /\ o.current \in Nat /\ o.first <= o.current
      /\ o.first \in Nat /\ Len(o.table) \in Nat
  BY DEF Sound, ObjectType
<1>3. /\ a \in ObjectType /\ Kept(a, o)
      /\ a.current = Upto(o.table, o.current, time) /\ a.current \in o.current..Len(o.table)
      /\ a.pauseCount = o.pauseCount /\ a.st = o.st
      /\ a.running = o.running /\ a.paused = o.paused
  BY <1>1, <1>2, AdvanceMoves
<1>4. PICK D : D = Due(o, time)
  OBVIOUS
<1>5. D \subseteq 1..Len(o.table)
  BY <1>2, <1>3, <1>4 DEF Due
<1>6. PICK E : E = EventsAt(o, "begin", D)
  OBVIOUS
<1>7. E \subseteq Events
  BY <1>2, <1>5, <1>6, EventsAtAre
<1>8. PICK p : p = ChangeAll(a, E, "start")
  OBVIOUS
<1>9. p = StartTransitions(o, time)
  BY <1>1, <1>4, <1>6, <1>8 DEF StartTransitions
<1>10. Changed(p, a, E, "start")
  BY <1>3, <1>7, <1>8, ChangeAllChanges DEF Actions
<1>11. p \in ObjectType /\ Kept(p, o) /\ p.pauseCount = o.pauseCount /\ p.current = a.current
  BY <1>3, <1>10 DEF Changed, Kept
<1>12. Agrees(o) => Agrees(p)
  <2>1. Agrees(o) => Agrees(a)
    BY <1>3 DEF Agrees, Kept
  <2> QED
    BY <1>10, <2>1 DEF Changed
<1>13. ASSUME NEW e \in Events
       PROVE  p.st[e] = IF o.st[e] = "SLEEPING" /\ e \in E THEN "OCCURRING" ELSE o.st[e]
  BY <1>3, <1>10, StatesOf DEF Changed
<1>14. Begun(p, o, D)
  BY <1>6, <1>11, <1>12, <1>13 DEF Begun
<1>15. p.current \in p.first..Len(p.table)
  BY <1>2, <1>3, <1>11 DEF Kept
<1>16. Sound(p)
  BY <1>11, <1>15, SoundKept
<1> QED
  BY <1>3, <1>4, <1>5, <1>9, <1>11, <1>14, <1>16

\* p is o after the ends at the positions from on were met.
Ended(p, o, from) ==
    /\ p \in ObjectType /\ Kept(p, o) /\ p.current = o.current /\ p.pauseCount = o.pauseCount
    /\ Agrees(o) => Agrees(p)
    /\ \A e \in Events :
          /\ p.st[e] = "SLEEPING" \/ p.st[e] = o.st[e]
          /\ (\E c \in from..Len(o.table) : o.table[c].kind = "end" /\ o.table[c].event = e)
                => p.st[e] = "SLEEPING"

LEMMA EndAllEnds ==
    ASSUME NEW o, Sound(o), o.main # None, NEW from, from \in Nat \ {0}, NEW tr, tr \in {"stop", "abort"}
    PROVE  Sound(EndAll(o, from, tr)) /\ Ended(EndAll(o, from, tr), o, from)
<1>1. PICK D : D = from..Len(o.table)
  OBVIOUS
<1>2. PICK late : late = {i \in D : o.table[i].at > o.end[o.main]}
  OBVIOUS
<1>3. PICK L : L = {o.table[i].event : i \in late}
  OBVIOUS
<1>4. PICK E : E = EventsAt(o, "end", D \ late)
  OBVIOUS
<1>5. PICK a : a = SetState(o, L, "SLEEPING")
  OBVIOUS
<1>6. PICK p : p = ChangeAll(a, E, tr)
  OBVIOUS
<1>7. p = EndAll(o, from, tr)
  BY <1>1, <1>2, <1>3, <1>4, <1>5, <1>6 DEF EndAll
<1>8. o \in ObjectType /\ Len(o.table) \in Nat /\ o.main \in Events
  BY DEF Sound, ObjectType
<1>9. D \subseteq 1..Len(o.table) /\ late \subseteq D
  BY <1>1, <1>2, <1>8
<1>10. E \subseteq Events /\ \A e : e \in E <=>
                 \E i \in D \ late : o.table[i].kind = "end" /\ o.table[i].event = e
  <2>1. PICK F : F = D \ late
    OBVIOUS
  <2>2. F \subseteq 1..Len(o.table)
    BY <1>9, <2>1
  <2> QED
    BY <1>4, <1>8, <2>1, <2>2, EventsAtAre
<1>11. StatesSet(a, o, L, "SLEEPING")
  BY <1>5, <1>8, SetStateSets DEF States
<1>12. a \in ObjectType
  BY <1>11 DEF StatesSet
<1>13. Changed(p, a, E, tr)
  BY <1>6, <1>10, <1>12, ChangeAllChanges DEF Actions
<1>14. o.main \notin L
  <2>1. PICK b, c : Ends(o, o.main, b, c)
    BY <1>8, SoundEnds
  <2>2. ASSUME NEW i \in late, o.table[i].event = o.main PROVE FALSE
    <3>1. i \in 1..Len(o.table) /\ o.table[i].at > o.end[o.main]
      BY <1>2, <1>9
    <3>2. o.table[i] \in Entries
      BY <1>8, <3>1 DEF ObjectType
    <3>3. i = b \/ i = c
      BY <2>1, <2>2, <3>1, <3>2 DEF Ends, Entries, Kinds
    <3>4. o.table[b].at = BeginOf(o.main) /\ o.table[c].at = o.end[o.main] /\ b < c
          /\ b \in 1..Len(o.table) /\ c \in 1..Len(o.table)
      BY <2>1 DEF Ends
    <3>5. ~Sooner(o.table[c], o.table[b]) /\ o.table[b] \in Entries /\ o.table[c] \in Entries
      <4>1. DOMAIN o.table = 1..Len(o.table) /\ InOrder(o.table)
        BY <1>8 DEF Sound, TableInv, ObjectType
      <4> QED
        BY <1>8, <3>4, <4>1 DEF InOrder, ObjectType
    <3>6. BeginOf(o.main) \in Nat /\ o.end[o.main] \in Nat
      <4>1. o.end \in [Events -> 0..Inf]
        BY <1>8 DEF ObjectType
      <4>2. o.end[o.main] \in 0..Inf
        BY <1>8, <4>1
      <4>3. BeginOf(o.main) \in Nat
        BY <1>8, TimesOf
      <4> QED
        BY <4>2, <4>3
    <3>7. BeginOf(o.main) <= o.end[o.main]
      BY <1>8, <3>4, <3>5, <3>6, CutInOrder
    <3> QED
      BY <3>1, <3>3, <3>4, <3>6, <3>7
  <2> QED
    BY <1>3, <2>2
<1>15. p \in ObjectType /\ Kept(p, o) /\ p.current = o.current /\ p.pauseCount = o.pauseCount
  BY <1>11, <1>13 DEF StatesSet, Changed, Kept
<1>16. Agrees(o) => Agrees(p)
  <2>1. a.main = o.main /\ a.heard = o.heard /\ a.running = o.running /\ a.paused = o.paused
    BY <1>11 DEF StatesSet, Kept
  <2>2. a.st[o.main] = o.st[o.main]
    BY <1>8, <1>11, <1>14 DEF StatesSet
  <2>3. Agrees(o) => Agrees(a)
    BY <2>1, <2>2 DEF Agrees
  <2> QED
    BY <1>13, <2>3 DEF Changed
<1>17. \A e \in Events : a.st[e] = IF e \in L THEN "SLEEPING" ELSE o.st[e]
  BY <1>11 DEF StatesSet
<1>18. \A e \in Events : p.st[e] = IF e \in E /\ a.st[e] \in {"OCCURRING", "PAUSED"} THEN "SLEEPING" ELSE a.st[e]
  <2>1. From[tr] = {"OCCURRING", "PAUSED"} /\ To[tr] = "SLEEPING"
    BY StatesOf
  <2> QED
    BY <1>13, <2>1 DEF Changed
<1>19. \A e \in Events : a.st[e] \in States
  BY <1>12 DEF ObjectType
<1>20. ASSUME NEW e \in Events PROVE p.st[e] = "SLEEPING" \/ p.st[e] = o.st[e]
  BY <1>17, <1>18
<1>21. ASSUME NEW e \in Events, NEW c \in D, o.table[c].kind = "end", o.table[c].event = e
       PROVE  p.st[e] = "SLEEPING"
  <2>1. e \in L \/ e \in E
    BY <1>3, <1>10, <1>21
  <2> QED
    BY <1>17, <1>18, <1>19, <2>1 DEF States
<1>22. Ended(p, o, from)
  BY <1>1, <1>15, <1>16, <1>20, <1>21 DEF Ended
<1>23. p.current \in p.first..Len(p.table)
  BY <1>8, <1>15 DEF Sound, ObjectType, Kept
<1> QED
  BY <1>7, <1>15, <1>22, <1>23, SoundKept

LEMMA DueIs ==
    ASSUME NEW o, Sound(o), NEW time, time \in Int
    PROVE  /\ Upto(o.table, o.current, time) \in o.current..Len(o.table)
           /\ Due(o, time) \subseteq 1..Len(o.table)
           /\ \A i \in Due(o, time) : o.table[i].at <= time
           /\ \A i \in 1..Upto(o.table, o.current, time) : i <= o.current \/ i \in Due(o, time)
           /\ \A i \in Due(o, time) : i > o.current
<1>1. o \in ObjectType /\ o.current \in 0..Len(o.table) /\ Len(o.table) \in Nat /\ o.current \in Nat
  BY DEF Sound, ObjectType
<1>2. PICK n : n = Upto(o.table, o.current, time)
  OBVIOUS
<1>3. n \in o.current..Len(o.table) /\ \A i \in o.current + 1 .. n : o.table[i].at <= time
  BY <1>1, <1>2, UptoOf
<1>4. Due(o, time) = o.current + 1 .. n
  BY <1>2 DEF Due
<1> QED
  BY <1>1, <1>2, <1>3, <1>4

\* What begins at the positions that are due has its time by then.
LEMMA DueBegins ==
    ASSUME NEW o, Sound(o), NEW time, time \in Int, NEW e, e \in Events,
           e \in EventsAt(o, "begin", Due(o, time))
    PROVE  BeginOf(e) <= time
<1>1. PICK i \in Due(o, time) : o.table[i].kind = "begin" /\ o.table[i].event = e
  BY DEF EventsAt
<1>2. i \in 1..Len(o.table) /\ o.table[i].at <= time
  BY DueIs
<1>3. DOMAIN o.table = 1..Len(o.table)
  BY DEF Sound, ObjectType
<1>4. o.table[i].at = BeginOf(e)
  BY <1>1, <1>2, <1>3 DEF Sound, TableInv, Timed
<1> QED
  BY <1>2, <1>4

\* p is o after updateTransitionTable(ms).
Updated(p, o, ms) ==
    /\ Sound(p) /\ Kept(p, o) /\ p.pauseCount = o.pauseCount
    /\ Agrees(o) => Agrees(p)
    /\ \A e \in Events :
          /\ p.st[e] \in {o.st[e], "SLEEPING", "OCCURRING"}
          /\ e = o.main /\ o.st[e] # "SLEEPING" => p.st[e] = o.st[e]
          /\ o.st[e] = "SLEEPING" /\ p.st[e] = "OCCURRING" => BeginOf(e) <= ms
          /\ e # o.main /\ o.main # None /\ Passed(p, e) /\ (Passed(o, e) => o.st[e] = "SLEEPING")
                => p.st[e] = "SLEEPING"

LEMMA UpdateUpdates ==
    ASSUME NEW o, Sound(o), NEW ms, ms \in Int
    PROVE  Updated(UpdateTransitionTable(o, ms), o, ms)
<1>1. PICK D : D = Due(o, ms)
  OBVIOUS
<1>2. PICK a : a = StartTransitions(o, ms)
  OBVIOUS
<1>3. PICK E : E = EventsAt(o, "end", D) \ {o.main}
  OBVIOUS
<1>4. PICK p : p = ChangeAll(a, E, "stop")
  OBVIOUS
<1>5. p = UpdateTransitionTable(o, ms)
  BY <1>1, <1>2, <1>3, <1>4 DEF UpdateTransitionTable, StartTransitions
<1>6. Sound(a) /\ Begun(a, o, D) /\ D \subseteq 1..Len(o.table) /\ a.current = Upto(o.table, o.current, ms)
  BY <1>1, <1>2, BegunUpto
<1>7. o \in ObjectType /\ a \in ObjectType
  BY <1>6 DEF Sound
<1>8. E \subseteq Events /\ \A e \in Events : (e # o.main /\
          \E i \in D : o.table[i].kind = "end" /\ o.table[i].event = e) => e \in E
  BY <1>3, <1>6, <1>7, EventsAtAre
<1>9. Changed(p, a, E, "stop")
  BY <1>4, <1>7, <1>8, ChangeAllChanges DEF Actions
<1>10. /\ p \in ObjectType /\ Kept(p, o) /\ p.pauseCount = o.pauseCount /\ p.current = a.current
       /\ p.first = a.first /\ p.table = a.table
  BY <1>6, <1>9 DEF Changed, Begun, Kept
<1>11. Sound(p)
  <2>1. p.current \in p.first..Len(p.table)
    BY <1>6, <1>10 DEF Sound, ObjectType
  <2>2. Kept(p, a)
    BY <1>9 DEF Changed
  <2> QED
    BY <1>6, <1>10, <2>1, <2>2, SoundKept
<1>12. Agrees(o) => Agrees(p)
  BY <1>6, <1>9 DEF Begun, Changed
<1>13. \A e \in Events :
          /\ a.st[e] = IF o.st[e] = "SLEEPING" /\ e \in EventsAt(o, "begin", D)
                    THEN "OCCURRING" ELSE o.st[e]
          /\ p.st[e] = IF e \in E /\ a.st[e] \in {"OCCURRING", "PAUSED"} THEN "SLEEPING" ELSE a.st[e]
          /\ a.st[e] \in States
  BY <1>6, <1>7, <1>9, StatesOf DEF Begun, Changed, ObjectType
<1>14. ASSUME NEW e \in Events
       PROVE  /\ p.st[e] \in {o.st[e], "SLEEPING", "OCCURRING"}
              /\ e = o.main /\ o.st[e] # "SLEEPING" => p.st[e] = o.st[e]
              /\ o.st[e] = "SLEEPING" /\ p.st[e] = "OCCURRING" => BeginOf(e) <= ms
  <2>1. p.st[e] \in {o.st[e], "SLEEPING", "OCCURRING"}
    BY <1>13
  <2>2. e = o.main /\ o.st[e] # "SLEEPING" => p.st[e] = o.st[e]
    BY <1>3, <1>13
  <2>3. ASSUME o.st[e] = "SLEEPING", p.st[e] = "OCCURRING" PROVE BeginOf(e) <= ms
    <3>1. e \in EventsAt(o, "begin", D)
      BY <1>13, <2>3
    <3> QED
      BY <1>1, <3>1, DueBegins
  <2> QED
    BY <2>1, <2>2, <2>3
<1>15. ASSUME NEW e \in Events, e # o.main, o.main # None, Passed(p, e),
              Passed(o, e) => o.st[e] = "SLEEPING"
       PROVE  p.st[e] = "SLEEPING"
  <2>1. PICK b, c : Ends(o, e, b, c)
    BY <1>15, SoundEnds
  <2>2. b \in 1..Len(o.table) /\ c \in 1..Len(o.table) /\ b < c /\ o.table[c].kind = "end" /\ o.table[c].event = e
    BY <2>1 DEF Ends
  <2>3. p.table = o.table /\ p.current = Upto(o.table, o.current, ms)
    BY <1>6, <1>10 DEF Kept
  <2>4. /\ p.current \in o.current..Len(o.table) /\ o.current \in Nat /\ Len(o.table) \in Nat
    <3>1. o.current \in Nat /\ Len(o.table) \in Nat
      BY <1>7 DEF ObjectType
    <3> QED
      BY <2>3, <3>1, DueIs
  <2>5. c \in 1..p.current
    <3>1. PICK i \in 1..p.current : o.table[i].kind = "end" /\ o.table[i].event = e
      BY <1>15, <2>3 DEF Passed
    <3>2. i \in 1..Len(o.table)
      BY <2>4
    <3>3. i = c
      BY <2>1, <3>1, <3>2 DEF Ends
    <3> QED
      BY <3>3
  <2>6. CASE c <= o.current
    <3>1. Passed(o, e)
      BY <2>2, <2>4, <2>6 DEF Passed
    <3>2. e \notin EventsAt(o, "begin", D)
      <4>1. ASSUME NEW i \in D, o.table[i].kind = "begin", o.table[i].event = e PROVE FALSE
        <5>1. i \in 1..Len(o.table) /\ i > o.current
          BY <1>1, DueIs
        <5>2. i = b
          BY <2>1, <4>1, <5>1 DEF Ends
        <5> QED
          BY <2>2, <2>4, <2>6, <5>1, <5>2
      <4> QED
        BY <4>1 DEF EventsAt
    <3> QED
      BY <1>13, <1>15, <3>1, <3>2
  <2>7. CASE ~(c <= o.current)
    <3>1. c \in D
      BY <1>1, <2>3, <2>5, <2>7, DueIs
    <3>2. e \in E
      BY <1>8, <1>15, <2>2, <3>1
    <3> QED
      BY <1>13, <3>2 DEF States
  <2> QED
    BY <2>6, <2>7
<1> QED
  BY <1>5, <1>10, <1>11, <1>12, <1>14, <1>15 DEF Updated

-----------------------------------------------------------------------------
(* What the operations of ExecutionObject do to an object.                 *)

\* p is o with its table to be gone through from the start again, and no pause.
LEMMA ResetIs ==
    ASSUME NEW o, Sound(o)
    PROVE  LET p == [ResetTimeIndex(o) EXCEPT !.pauseCount = 0] IN
           /\ Sound(p) /\ Kept(p, o) /\ p.current = o.first /\ p.pauseCount = 0
           /\ p.st = o.st /\ (Agrees(o) => Agrees(p))
<1>1. PICK q : q = [o EXCEPT !.current = o.first]
  OBVIOUS
<1>2. o \in ObjectType
  BY DEF Sound
<1>3. ResetTimeIndex(o) = q
  BY <1>1 DEF ResetTimeIndex
<1>4. /\ q \in ObjectType /\ Kept(q, o) /\ q.current = o.first /\ q.st = o.st
      /\ q.running = o.running /\ q.paused = o.paused
  BY <1>1, <1>2 DEF Kept, ObjectType
<1>5. PICK p : p = [q EXCEPT !.pauseCount = 0]
  OBVIOUS
<1>6. /\ p \in ObjectType /\ Kept(p, q) /\ p.current = q.current /\ p.st = q.st
      /\ p.running = q.running /\ p.paused = q.paused /\ p.pauseCount = 0
  BY <1>4, <1>5 DEF Kept, ObjectType
<1>7. Kept(p, o) /\ p.current = o.first /\ p.st = o.st /\ p.running = o.running /\ p.paused = o.paused
  BY <1>4, <1>6 DEF Kept
<1>8. o.first \in Nat /\ o.current \in Nat /\ Len(o.table) \in Nat /\ o.first <= o.current /\ o.current <= Len(o.table)
  BY DEF Sound, ObjectType
<1>9. p.current \in p.first..Len(p.table)
  BY <1>7, <1>8 DEF Kept
<1>10. Sound(p)
  BY <1>6, <1>7, <1>9, SoundKept
<1>11. Agrees(o) => Agrees(p)
  BY <1>7 DEF Agrees, Kept
<1> QED
  BY <1>3, <1>5, <1>6, <1>7, <1>10, <1>11

\* p is o with its events ended at the positions from on, and its table gone back to the start.
EndedAndReset(p, o, from) ==
    /\ Sound(p) /\ Kept(p, o) /\ p.current = o.first /\ p.pauseCount = 0
    /\ Agrees(o) => Agrees(p)
    /\ \A e \in Events :
          /\ p.st[e] = "SLEEPING" \/ p.st[e] = o.st[e]
          /\ (\E c \in from..Len(o.table) : o.table[c].kind = "end" /\ o.table[c].event = e)
                => p.st[e] = "SLEEPING"

LEMMA EndAndReset ==
    ASSUME NEW o, Sound(o), o.main # None, NEW from, from \in Nat \ {0}, NEW tr, tr \in {"stop", "abort"}
    PROVE  EndedAndReset([ResetTimeIndex(EndAll(o, from, tr)) EXCEPT !.pauseCount = 0], o, from)
<1>1. PICK a : a = EndAll(o, from, tr)
  OBVIOUS
<1>2. Sound(a) /\ Ended(a, o, from)
  BY <1>1, EndAllEnds
<1>3. PICK p : p = [ResetTimeIndex(a) EXCEPT !.pauseCount = 0]
  OBVIOUS
<1>4. /\ Sound(p) /\ Kept(p, a) /\ p.current = a.first /\ p.pauseCount = 0
      /\ p.st = a.st /\ (Agrees(a) => Agrees(p))
  BY <1>2, <1>3, ResetIs
<1>5. Kept(p, o) /\ p.current = o.first
  BY <1>2, <1>4 DEF Ended, Kept
<1>6. EndedAndReset(p, o, from)
  BY <1>2, <1>4, <1>5 DEF Ended, EndedAndReset
<1> QED
  BY <1>1, <1>3, <1>6

PausedRight(o) == o.pauseCount > 0 => o.main # None /\ o.st[o.main] = "PAUSED"

\* p is o stopped and no longer prepared.
Stopped(p, o) ==
    /\ Sound(p) /\ p.main = None /\ p.pauseCount = 0 /\ p.table = o.table
    /\ Agrees(o) => Agrees(p)
    /\ \A e \in Events : p.st[e] \in {"SLEEPING", o.st[e]}
    /\ ~Asleep(o) => \A e \in Events : p.st[e] = "SLEEPING"

LEMMA StopStops ==
    ASSUME NEW o, Sound(o), PausedRight(o)
    PROVE  Stopped(Unprepare(StopObject(o)), o)
<1>1. PICK q : q = StopObject(o)
  OBVIOUS
<1>2. /\ Sound(q) /\ q.main = o.main /\ q.pauseCount = 0 /\ q.table = o.table
      /\ q.heard = o.heard /\ (Agrees(o) => Agrees(q))
      /\ \A e \in Events : q.st[e] \in {"SLEEPING", o.st[e]}
      /\ ~Asleep(o) => \A e \in Events : q.st[e] = "SLEEPING"
  <2>1. CASE Asleep(o)
    <3>1. q = o
      BY <1>1, <2>1 DEF StopObject
    <3>2. o.pauseCount = 0
      BY <2>1 DEF Asleep, PausedRight, Sound, ObjectType
    <3> QED
      BY <2>1, <3>1, <3>2
  <2>2. CASE ~Asleep(o)
    <3>1. o.main # None
      BY <2>2 DEF Asleep
    <3>2. q = [ResetTimeIndex(EndAll(o, 1, "stop")) EXCEPT !.pauseCount = 0]
      BY <1>1, <2>2 DEF StopObject
    <3>3. EndedAndReset(q, o, 1)
      BY <3>1, <3>2, EndAndReset
    <3>4. ASSUME NEW e \in Events PROVE q.st[e] = "SLEEPING"
      <4>1. PICK b, c : Ends(o, e, b, c)
        BY <3>1, SoundEnds
      <4>2. c \in 1..Len(o.table) /\ o.table[c].kind = "end" /\ o.table[c].event = e
        BY <4>1 DEF Ends
      <4> QED
        BY <3>3, <4>2 DEF EndedAndReset
    <3> QED
      BY <3>3, <3>4 DEF EndedAndReset, Kept
  <2> QED
    BY <2>1, <2>2
<1>3. q.main = None \/ Asleep(q)
  <2>1. CASE Asleep(o)
    BY <1>1, <2>1 DEF StopObject
  <2>2. CASE ~Asleep(o)
    <3>1. o.main \in Events
      BY <2>2 DEF Asleep, Sound, ObjectType
    <3> QED
      BY <1>2, <2>2, <3>1 DEF Asleep
  <2> QED
    BY <2>1, <2>2
<1>4. CASE q.main = None
  <2>1. Unprepare(q) = q
    BY <1>4 DEF Unprepare
  <2> QED
    BY <1>1, <1>2, <1>4, <2>1 DEF Stopped
<1>5. CASE q.main # None
  <2>1. q.st[q.main] = "SLEEPING" /\ q.main \in Events
    BY <1>2, <1>3, <1>5 DEF Asleep, Sound, ObjectType
  <2>2. PICK p : p = [q EXCEPT !.heard = q.heard \ {q.main}, !.main = None]
    OBVIOUS
  <2>3. Unprepare(q) = p
    BY <1>2, <1>3, <1>5, <2>2 DEF Unprepare, Sound, ObjectType
  <2>4. q \in ObjectType
    BY <1>2 DEF Sound
  <2>5. p \in ObjectType
    BY <2>2, <2>4 DEF ObjectType
  <2>6. /\ p.main = None /\ p.heard = q.heard \ {q.main} /\ p.table = q.table /\ p.end = q.end
        /\ p.first = q.first /\ p.current = q.current /\ p.pauseCount = q.pauseCount
        /\ p.st = q.st /\ p.running = q.running /\ p.paused = q.paused
    BY <2>2, <2>4 DEF ObjectType
  <2>7. Sound(p)
    BY <1>2, <2>5, <2>6 DEF Sound, TableInv
  <2>8. Agrees(q) => Agrees(p)
    <3>1. None \notin Events
      BY EventsAssumption
    <3> QED
      BY <2>1, <2>6, <3>1 DEF Agrees
  <2> QED
    BY <1>1, <1>2, <2>3, <2>6, <2>7, <2>8 DEF Stopped
<1> QED
  BY <1>4, <1>5

LEMMA AbortAborts ==
    ASSUME NEW o, Sound(o), ~Asleep(o)
    PROVE  EndedAndReset(AbortObject(o), o, o.current + 1)
<1>1. o.main # None
  BY DEF Asleep
<1>2. o.current + 1 \in Nat \ {0}
  BY DEF Sound, ObjectType
<1>3. AbortObject(o) = [ResetTimeIndex(EndAll(o, o.current + 1, "abort")) EXCEPT !.pauseCount = 0]
  BY DEF AbortObject
<1>4. PICK n : n = o.current + 1
  OBVIOUS
<1>5. EndedAndReset([ResetTimeIndex(EndAll(o, n, "abort")) EXCEPT !.pauseCount = 0], o, n)
  BY <1>1, <1>2, <1>4, EndAndReset
<1> QED
  BY <1>3, <1>4, <1>5

\* What had not come to its end by an abort does so then.
LEMMA AbortLeaves ==
    ASSUME NEW o, Sound(o), ~Asleep(o), NEW e, e \in Events, ~Passed(o, e)
    PROVE  AbortObject(o).st[e] = "SLEEPING"
<1>1. o.main # None
  BY DEF Asleep
<1>2. PICK b, c : Ends(o, e, b, c)
  BY <1>1, SoundEnds
<1>3. c \in 1..Len(o.table) /\ o.table[c].kind = "end" /\ o.table[c].event = e
  BY <1>2 DEF Ends
<1>4. o.current \in Nat /\ Len(o.table) \in Nat
  BY DEF Sound, ObjectType
<1>5. c \notin 1..o.current
  BY <1>3 DEF Passed
<1>6. c \in o.current + 1 .. Len(o.table)
  BY <1>3, <1>4, <1>5
<1> QED
  BY <1>3, <1>6, AbortAborts DEF EndedAndReset

\* p is o with n pauses.
Counted(p, o, n) ==
    /\ p \in ObjectType /\ Kept(p, o) /\ p.current = o.current /\ p.st = o.st
    /\ p.pauseCount = n /\ (Agrees(o) => Agrees(p))

LEMMA CountIs ==
    ASSUME NEW o, o \in ObjectType, NEW n, n \in Nat
    PROVE  Counted([o EXCEPT !.pauseCount = n], o, n)
<1>1. PICK p : p = [o EXCEPT !.pauseCount = n]
  OBVIOUS
<1>2. p \in ObjectType
  BY <1>1 DEF ObjectType
<1>3. Kept(p, o) /\ p.current = o.current /\ p.st = o.st /\ p.running = o.running /\ p.paused = o.paused
  BY <1>1 DEF Kept, ObjectType
<1>4. p.pauseCount = n
  BY <1>1 DEF ObjectType
<1>5. Agrees(o) => Agrees(p)
  BY <1>3 DEF Agrees, Kept
<1> QED
  BY <1>1, <1>2, <1>3, <1>4, <1>5 DEF Counted

\* p is o after a pause or a resume, which leaves it n pauses.
PauseChanged(p, o, n) ==
    /\ Sound(p) /\ Kept(p, o) /\ p.current = o.current /\ p.pauseCount = n
    /\ Agrees(o) => Agrees(p)
    /\ \A e \in Events : p.st[e] = "SLEEPING" <=> o.st[e] = "SLEEPING"

LEMMA PausePauses ==
    ASSUME NEW o, Sound(o), PausedRight(o), ~Asleep(o)
    PROVE  LET p == PauseObject(o) IN
           PauseChanged(p, o, o.pauseCount + 1) /\ p.st[p.main] = "PAUSED"
<1>1. PICK E : E = {e \in Events : o.st[e] = "OCCURRING"}
  OBVIOUS
<1>2. PICK a : a = IF o.pauseCount = 0 THEN ChangeAll(o, E, "pause") ELSE o
  OBVIOUS
<1>3. o \in ObjectType
  BY DEF Sound
<1>4. o.pauseCount \in Nat /\ o.main \in Events /\ o.st \in [Events -> States]
  BY <1>3 DEF Asleep, ObjectType
<1>5. /\ a \in ObjectType /\ Kept(a, o) /\ a.current = o.current /\ a.pauseCount = o.pauseCount
      /\ Agrees(o) => Agrees(a)
      /\ \A e \in Events : a.st[e] = "SLEEPING" <=> o.st[e] = "SLEEPING"
      /\ a.st[o.main] = "PAUSED"
  <2>1. CASE o.pauseCount = 0
    <3>1. E \subseteq Events
      BY <1>1
    <3>2. Changed(a, o, E, "pause")
      BY <1>2, <1>3, <2>1, <3>1, ChangeAllChanges DEF Actions
    <3>3. \A e \in Events : a.st[e] = IF e \in E /\ o.st[e] = "OCCURRING" THEN "PAUSED" ELSE o.st[e]
      BY <3>2, StatesOf DEF Changed
    <3>4. \A e \in Events : o.st[e] \in {"SLEEPING", "OCCURRING", "PAUSED"}
      BY <1>4 DEF States
    <3>5. o.st[o.main] # "SLEEPING"
      BY <1>4 DEF Asleep
    <3> QED
      BY <1>1, <1>4, <3>2, <3>3, <3>4, <3>5 DEF Changed
  <2>2. CASE o.pauseCount # 0
    <3>1. a = o
      BY <1>2, <2>2
    <3>2. o.st[o.main] = "PAUSED"
      BY <1>4, <2>2 DEF PausedRight
    <3> QED
      BY <1>3, <3>1, <3>2 DEF Kept
  <2> QED
    BY <2>1, <2>2
<1>6. PICK n : n = a.pauseCount + 1
  OBVIOUS
<1>7. n \in Nat /\ n = o.pauseCount + 1
  BY <1>4, <1>5, <1>6
<1>8. PICK p : p = [a EXCEPT !.pauseCount = n]
  OBVIOUS
<1>9. Counted(p, a, n)
  BY <1>5, <1>7, <1>8, CountIs
<1>10. PauseObject(o) = p
  <2>1. a.pauseCount = n - 1
    BY <1>4, <1>5, <1>7
  <2> QED
    BY <1>1, <1>2, <1>3, <1>5, <1>6, <1>8 DEF PauseObject, ObjectType
<1>11. Kept(p, o) /\ p.current = o.current
  BY <1>5, <1>9 DEF Counted, Kept
<1>12. p.current \in p.first..Len(p.table)
  BY <1>3, <1>11 DEF Sound, Kept, ObjectType
<1>13. Sound(p)
  BY <1>9, <1>11, <1>12, SoundKept DEF Counted
<1> QED
  BY <1>5, <1>7, <1>9, <1>10, <1>11, <1>13 DEF Counted, PauseChanged, Kept

LEMMA ResumeResumes ==
    ASSUME NEW o, Sound(o), o.pauseCount > 0
    PROVE  LET p == ResumeObject(o) IN
           /\ PauseChanged(p, o, o.pauseCount - 1)
           /\ o.pauseCount = 1 => \A e \in Events : p.st[e] # "PAUSED"
           /\ o.pauseCount # 1 => p.st = o.st
<1>1. PICK E : E = {e \in Events : o.st[e] = "PAUSED"}
  OBVIOUS
<1>2. PICK a : a = IF o.pauseCount = 1 THEN ChangeAll(o, E, "resume") ELSE o
  OBVIOUS
<1>3. o \in ObjectType
  BY DEF Sound
<1>4. o.pauseCount \in Nat /\ o.st \in [Events -> States]
  BY <1>3 DEF ObjectType
<1>5. /\ a \in ObjectType /\ Kept(a, o) /\ a.current = o.current /\ a.pauseCount = o.pauseCount
      /\ Agrees(o) => Agrees(a)
      /\ \A e \in Events : a.st[e] = "SLEEPING" <=> o.st[e] = "SLEEPING"
      /\ o.pauseCount = 1 => \A e \in Events : a.st[e] # "PAUSED"
      /\ o.pauseCount # 1 => a.st = o.st
  <2>1. CASE o.pauseCount = 1
    <3>1. E \subseteq Events
      BY <1>1
    <3>2. Changed(a, o, E, "resume")
      BY <1>2, <1>3, <2>1, <3>1, ChangeAllChanges DEF Actions
    <3>3. \A e \in Events : a.st[e] = IF e \in E /\ o.st[e] = "PAUSED" THEN "OCCURRING" ELSE o.st[e]
      BY <3>2, StatesOf DEF Changed
    <3> QED
      BY <1>1, <2>1, <3>2, <3>3 DEF Changed
  <2>2. CASE o.pauseCount # 1
    <3>1. a = o
      BY <1>2, <2>2
    <3> QED
      BY <1>3, <2>2, <3>1 DEF Kept
  <2> QED
    BY <2>1, <2>2
<1>6. PICK n : n = a.pauseCount - 1
  OBVIOUS
<1>7. n \in Nat /\ n = o.pauseCount - 1
  BY <1>4, <1>5, <1>6
<1>8. PICK p : p = [a EXCEPT !.pauseCount = n]
  OBVIOUS
<1>9. Counted(p, a, n)
  BY <1>5, <1>7, <1>8, CountIs
<1>10. ResumeObject(o) = p
  BY <1>1, <1>2, <1>3, <1>5, <1>6, <1>8 DEF ResumeObject, ObjectType
<1>11. Kept(p, o) /\ p.current = o.current
  BY <1>5, <1>9 DEF Counted, Kept
<1>12. p.current \in p.first..Len(p.table)
  BY <1>3, <1>11 DEF Sound, Kept, ObjectType
<1>13. Sound(p)
  BY <1>9, <1>11, <1>12, SoundKept DEF Counted
<1> QED
  BY <1>5, <1>7, <1>9, <1>10, <1>11, <1>13 DEF Counted, PauseChanged

-----------------------------------------------------------------------------
(* Preparing and starting an object.                                       *)

\* p is o prepared for its event e, with n transitions skipped.
Prepared(p, o, e, n) ==
    /\ Sound(p) /\ p.main = e /\ p.offset = BeginOf(e) /\ p.heard = o.heard \cup {e}
    /\ p.table = o.table /\ p.end = o.end /\ p.current = n /\ p.pauseCount = o.pauseCount
    /\ p.running = o.running /\ p.paused = o.paused
    /\ n \in 0..Len(o.table)
    /\ \A i \in 1..n : o.table[i].at < BeginOf(e)
    /\ n < Len(o.table) => o.table[n + 1].at >= BeginOf(e)
    /\ \A f \in Events :
          p.st[f] = IF f \in EventsAt(o, "end", 1..n) THEN "SLEEPING"
                    ELSE IF f \in EventsAt(o, "begin", 1..n) THEN "OCCURRING" ELSE o.st[f]

\* p is o with the n transitions before a time skipped.
Skipped(p, o, time, n) ==
    /\ p \in ObjectType /\ p.main = o.main /\ p.offset = o.offset /\ p.heard = o.heard
    /\ p.table = o.table /\ p.end = o.end /\ p.first = n /\ p.current = n
    /\ p.pauseCount = o.pauseCount /\ p.running = o.running /\ p.paused = o.paused
    /\ n \in 0..Len(o.table)
    /\ \A i \in 1..n : o.table[i].at < time
    /\ n < Len(o.table) => o.table[n + 1].at >= time
    /\ \A f \in Events :
          p.st[f] = IF f \in EventsAt(o, "end", 1..n) THEN "SLEEPING"
                    ELSE IF f \in EventsAt(o, "begin", 1..n) THEN "OCCURRING" ELSE o.st[f]

LEMMA PrepareSkips ==
    ASSUME NEW o, o \in ObjectType, NEW time, time \in Times
    PROVE  \E n : Skipped(PrepareTransitions(o, time), o, time, n)
<1>1. PICK n : n = IF o.main = Whole /\ time = 0 THEN 0 ELSE Upto(o.table, 0, time - 1)
  OBVIOUS
<1>2. Len(o.table) \in Nat /\ o.table \in Seq(Entries) /\ time \in Nat
  BY TimesOf DEF ObjectType
<1>3. \A i \in 1..Len(o.table) : o.table[i].at \in Nat
  <2>1. \A i \in 1..Len(o.table) : o.table[i] \in Entries
    BY <1>2
  <2> QED
    BY <2>1, TimesOf DEF Entries
<1>4. /\ n \in 0..Len(o.table)
      /\ \A i \in 1..n : o.table[i].at < time
      /\ n < Len(o.table) => o.table[n + 1].at >= time
  <2>1. CASE o.main = Whole /\ time = 0
    BY <1>1, <1>2, <1>3, <2>1
  <2>2. CASE ~(o.main = Whole /\ time = 0)
    <3>1. PICK m : m = time - 1
      OBVIOUS
    <3>2. n = Upto(o.table, 0, m)
      BY <1>1, <2>2, <3>1
    <3>3. 0 \in 0..Len(o.table) /\ m \in Int
      BY <1>2, <3>1
    <3>4. /\ n \in 0..Len(o.table)
          /\ \A i \in 0 + 1 .. n : o.table[i].at <= m
          /\ n < Len(o.table) => o.table[n + 1].at > m
      BY <3>2, <3>3, UptoOf
    <3> QED
      BY <1>2, <1>3, <3>1, <3>4
  <2> QED
    BY <2>1, <2>2
<1>5. PICK B, E : B = EventsAt(o, "begin", 1..n) /\ E = EventsAt(o, "end", 1..n)
  OBVIOUS
<1>6. PICK a : a = SetState(o, B, "OCCURRING")
  OBVIOUS
<1>7. StatesSet(a, o, B, "OCCURRING")
  BY <1>6, SetStateSets DEF States
<1>8. PICK c : c = SetState(a, E, "SLEEPING")
  OBVIOUS
<1>9. StatesSet(c, a, E, "SLEEPING")
  BY <1>7, <1>8, SetStateSets DEF States, StatesSet
<1>10. PICK q, p : q = [c EXCEPT !.first = n] /\ p = [q EXCEPT !.current = n]
  OBVIOUS
<1>11. PrepareTransitions(o, time) = p
  BY <1>1, <1>5, <1>6, <1>8, <1>10 DEF PrepareTransitions
<1>12. c \in ObjectType /\ n \in Nat
  BY <1>2, <1>4, <1>9 DEF StatesSet
<1>13. q \in ObjectType
  BY <1>10, <1>12 DEF ObjectType
<1>14. p \in ObjectType
  BY <1>10, <1>12, <1>13 DEF ObjectType
<1>15. /\ q.main = c.main /\ q.offset = c.offset /\ q.heard = c.heard
       /\ q.table = c.table /\ q.end = c.end /\ q.first = n
       /\ q.pauseCount = c.pauseCount /\ q.running = c.running /\ q.paused = c.paused /\ q.st = c.st
  BY <1>10, <1>12 DEF ObjectType
<1>16. /\ p.main = q.main /\ p.offset = q.offset /\ p.heard = q.heard
       /\ p.table = q.table /\ p.end = q.end /\ p.first = q.first /\ p.current = n
       /\ p.pauseCount = q.pauseCount /\ p.running = q.running /\ p.paused = q.paused /\ p.st = q.st
  BY <1>10, <1>13 DEF ObjectType
<1>17. /\ p.main = c.main /\ p.offset = c.offset /\ p.heard = c.heard
       /\ p.table = c.table /\ p.end = c.end /\ p.first = n /\ p.current = n
       /\ p.pauseCount = c.pauseCount /\ p.running = c.running /\ p.paused = c.paused /\ p.st = c.st
  BY <1>15, <1>16
<1>18. /\ p.main = o.main /\ p.offset = o.offset /\ p.heard = o.heard
       /\ p.table = o.table /\ p.end = o.end
       /\ p.pauseCount = o.pauseCount /\ p.running = o.running /\ p.paused = o.paused
  BY <1>7, <1>9, <1>17 DEF StatesSet, Kept
<1>19. \A f \in Events :
          p.st[f] = IF f \in E THEN "SLEEPING" ELSE IF f \in B THEN "OCCURRING" ELSE o.st[f]
  BY <1>7, <1>9, <1>17 DEF StatesSet
<1> QED
  BY <1>4, <1>5, <1>11, <1>14, <1>17, <1>18, <1>19 DEF Skipped

LEMMA PrepareObjectPrepares ==
    ASSUME NEW o, FullTable(o), NEW e, e \in Events, Asleep(o), o.end[e] >= BeginOf(e)
    PROVE  \E n : Prepared(PrepareObject(o, e), o, e, n)
<1>1. o \in ObjectType /\ BeginOf(e) \in Times /\ BeginOf(e) \in Nat
  BY TimesOf DEF FullTable
<1>2. o.end[e] \in Nat
  <2>1. o.end \in [Events -> 0..Inf]
    BY <1>1 DEF ObjectType
  <2> QED
    BY <2>1
<1>3. PICK time : time = BeginOf(e)
  OBVIOUS
<1>4. PICK a : a = [o EXCEPT !.main = e, !.heard = @ \cup {e}, !.offset = time]
  OBVIOUS
<1>5. PICK p : p = PrepareTransitions(a, time)
  OBVIOUS
<1>6. PrepareObject(o, e) = p
  BY <1>1, <1>2, <1>3, <1>4, <1>5 DEF PrepareObject
<1>7. a \in ObjectType
  BY <1>1, <1>3, <1>4 DEF ObjectType
<1>8. /\ a.main = e /\ a.offset = time /\ a.heard = o.heard \cup {e} /\ a.table = o.table /\ a.end = o.end
      /\ a.pauseCount = o.pauseCount /\ a.running = o.running /\ a.paused = o.paused /\ a.st = o.st
  BY <1>1, <1>4 DEF ObjectType
<1>9. PICK n : Skipped(p, a, time, n)
  BY <1>1, <1>3, <1>5, <1>7, PrepareSkips
<1>10. EventsAt(a, "end", 1..n) = EventsAt(o, "end", 1..n) /\ EventsAt(a, "begin", 1..n) = EventsAt(o, "begin", 1..n)
  BY <1>8 DEF EventsAt
<1>11. Len(o.table) \in Nat
  BY <1>1 DEF ObjectType
<1>12. p.first <= p.current /\ p.current <= Len(p.table) /\ AllIn(p.table) /\ TableInv(p)
  BY <1>8, <1>9, <1>11 DEF FullTable, TableInv, Skipped
<1>13. Sound(p)
  BY <1>9, <1>12 DEF Sound, Skipped
<1>14. Prepared(p, o, e, n)
  BY <1>3, <1>8, <1>9, <1>10, <1>13 DEF Prepared, Skipped
<1> QED
  BY <1>6, <1>14

\* Where the transitions of an event are among those that were skipped.
LEMMA PreparedIs ==
    ASSUME NEW o, NEW p, NEW e, e \in Events, NEW n, Prepared(p, o, e, n)
    PROVE  /\ EventsAt(o, "begin", 1..n) = EventsAt(p, "begin", 1..n)
           /\ EventsAt(o, "end", 1..n) = EventsAt(p, "end", 1..n)
           /\ n \in Nat /\ n <= Len(p.table) /\ Len(p.table) \in Nat
           /\ p \in ObjectType /\ p.main # None
           /\ \A f \in Events : \E b, c :
                 /\ Ends(p, f, b, c)
                 /\ f \in EventsAt(p, "begin", 1..n) <=> b <= n
                 /\ f \in EventsAt(p, "end", 1..n) <=> c <= n
<1>1. EventsAt(o, "begin", 1..n) = EventsAt(p, "begin", 1..n)
      /\ EventsAt(o, "end", 1..n) = EventsAt(p, "end", 1..n)
  BY DEF Prepared, EventsAt
<1>2. p \in ObjectType /\ p.main # None /\ Sound(p)
  BY EventsAssumption DEF Prepared, Sound
<1>3. Len(p.table) \in Nat
  BY <1>2 DEF ObjectType
<1>4. n \in Nat /\ n <= Len(p.table)
  BY <1>3 DEF Prepared
<1>5. ASSUME NEW f \in Events
      PROVE  \E b, c : /\ Ends(p, f, b, c)
                       /\ f \in EventsAt(p, "begin", 1..n) <=> b <= n
                       /\ f \in EventsAt(p, "end", 1..n) <=> c <= n
  <2>1. PICK b, c : Ends(p, f, b, c)
    BY <1>2, SoundEnds
  <2>2. b \in 1..Len(p.table) /\ c \in 1..Len(p.table)
        /\ p.table[b].kind = "begin" /\ p.table[b].event = f
        /\ p.table[c].kind = "end" /\ p.table[c].event = f
    BY <2>1 DEF Ends
  <2>3. \A i \in 1..n : i \in 1..Len(p.table)
    BY <1>3, <1>4
  <2>4. f \in EventsAt(p, "begin", 1..n) <=> b <= n
    <3>1. ASSUME b <= n PROVE f \in EventsAt(p, "begin", 1..n)
      <4>1. b \in 1..n
        BY <1>3, <1>4, <2>2, <3>1
      <4> QED
        BY <2>2, <4>1 DEF EventsAt
    <3>2. ASSUME f \in EventsAt(p, "begin", 1..n) PROVE b <= n
      <4>1. PICK i \in 1..n : p.table[i].kind = "begin" /\ p.table[i].event = f
        BY <3>2 DEF EventsAt
      <4>2. i = b
        BY <2>1, <2>3, <4>1 DEF Ends
      <4> QED
        BY <4>2
    <3> QED
      BY <3>1, <3>2
  <2>5. f \in EventsAt(p, "end", 1..n) <=> c <= n
    <3>1. ASSUME c <= n PROVE f \in EventsAt(p, "end", 1..n)
      <4>1. c \in 1..n
        BY <1>3, <1>4, <2>2, <3>1
      <4> QED
        BY <2>2, <4>1 DEF EventsAt
    <3>2. ASSUME f \in EventsAt(p, "end", 1..n) PROVE c <= n
      <4>1. PICK i \in 1..n : p.table[i].kind = "end" /\ p.table[i].event = f
        BY <3>2 DEF EventsAt
      <4>2. i = c
        BY <2>1, <2>3, <4>1 DEF Ends
      <4> QED
        BY <4>2
    <3> QED
      BY <3>1, <3>2
  <2> QED
    BY <2>1, <2>4, <2>5
<1> QED
  BY <1>1, <1>2, <1>3, <1>4, <1>5

\* Nothing that is skipped begins later than the object is started.
LEMMA PreparedInTime ==
    ASSUME NEW o, NEW p, NEW e, e \in Events, NEW n, Prepared(p, o, e, n),
           NEW f, f \in Events, o.st[f] = "SLEEPING", p.st[f] # "SLEEPING"
    PROVE  BeginOf(f) <= p.offset
<1>1. f \in EventsAt(o, "begin", 1..n)
  BY DEF Prepared
<1>2. PICK b, c : Ends(p, f, b, c) /\ b <= n
  BY <1>1, PreparedIs
<1>3. b \in 1..Len(p.table) /\ p.table[b].at = BeginOf(f)
  BY <1>2 DEF Ends
<1>4. n \in Nat /\ Len(p.table) \in Nat
  BY PreparedIs
<1>5. b \in 1..n
  BY <1>2, <1>3, <1>4
<1>6. p.table[b].at < BeginOf(e) /\ p.offset = BeginOf(e)
  BY <1>5 DEF Prepared
<1>7. BeginOf(f) \in Nat /\ BeginOf(e) \in Nat
  BY TimesOf
<1> QED
  BY <1>3, <1>6, <1>7

\* The event that is prepared is not among those skipped.
LEMMA PreparedSleeps ==
    ASSUME NEW o, NEW p, NEW e, e \in Events, NEW n, Prepared(p, o, e, n)
    PROVE  p.st[e] = o.st[e] /\ \A b, c : Ends(p, e, b, c) => b > n
<1>1. BeginOf(e) \in Nat
  BY TimesOf
<1>2. ASSUME NEW b, NEW c, Ends(p, e, b, c) PROVE b > n /\ c > n
  <2>1. b \in 1..Len(p.table) /\ c \in 1..Len(p.table) /\ b < c /\ p.table[b].at = BeginOf(e)
    BY <1>2 DEF Ends
  <2>2. n \in Nat /\ Len(p.table) \in Nat
    BY PreparedIs
  <2>3. ASSUME b <= n PROVE FALSE
    <3>1. b \in 1..n
      BY <2>1, <2>2, <2>3
    <3>2. p.table[b].at < BeginOf(e)
      BY <3>1 DEF Prepared
    <3> QED
      BY <1>1, <2>1, <3>2
  <2> QED
    BY <2>1, <2>2, <2>3
<1>3. PICK b, c : /\ Ends(p, e, b, c)
                  /\ e \in EventsAt(p, "begin", 1..n) <=> b <= n
                  /\ e \in EventsAt(p, "end", 1..n) <=> c <= n
  BY PreparedIs
<1>4. b > n /\ c > n /\ b \in Nat /\ c \in Nat /\ n \in Nat
  <2>1. b > n /\ c > n
    BY <1>2, <1>3
  <2>2. b \in 1..Len(p.table) /\ c \in 1..Len(p.table)
    BY <1>3 DEF Ends
  <2>3. n \in Nat
    BY PreparedIs
  <2> QED
    BY <2>1, <2>2, <2>3
<1>5. e \notin EventsAt(o, "begin", 1..n) /\ e \notin EventsAt(o, "end", 1..n)
  BY <1>3, <1>4, PreparedIs
<1> QED
  BY <1>2, <1>5 DEF Prepared

\* q is o prepared for its event e and started.
Started(q, o, e) ==
    /\ Sound(q) /\ q.main = e /\ q.pauseCount = o.pauseCount /\ q.st[e] = "OCCURRING"
    /\ (o.heard = {} /\ o.running = {} /\ o.paused = {}) => Agrees(q)
    /\ \A f \in Events :
          /\ o.st[f] = "SLEEPING" /\ q.st[f] # "SLEEPING" => BeginOf(f) <= q.offset
          /\ o.st[f] = "SLEEPING" /\ ~Touching(f) => Follows(q, f)

LEMMA StartStarts ==
    ASSUME NEW o, FullTable(o), NEW e, e \in Events, o.st[e] = "SLEEPING",
           NEW p, NEW n, Prepared(p, o, e, n)
    PROVE  Started(StartTransitions(p, p.offset), o, e)
<1>1. PICK time : time = p.offset
  OBVIOUS
<1>2. Sound(p) /\ p.main = e /\ time = BeginOf(e) /\ time \in Nat /\ p.current = n
      /\ p.pauseCount = o.pauseCount
  BY <1>1, TimesOf DEF Prepared
<1>3. n \in Nat /\ n <= Len(p.table) /\ Len(p.table) \in Nat /\ p \in ObjectType /\ p.main # None
  BY PreparedIs
<1>4. PICK q : q = StartTransitions(p, time)
  OBVIOUS
<1>5. PICK D, m : D = Due(p, time) /\ m = Upto(p.table, p.current, time)
  OBVIOUS
<1>6. Sound(q) /\ Begun(q, p, D) /\ D \subseteq 1..Len(p.table) /\ q.current = m
  BY <1>2, <1>4, <1>5, BegunUpto
<1>7. /\ m \in n..Len(p.table) /\ D = n + 1 .. m
      /\ \A i \in D : p.table[i].at <= time
      /\ m < Len(p.table) => p.table[m + 1].at > time
  <2>1. n \in 0..Len(p.table) /\ time \in Int /\ m = Upto(p.table, n, time)
    BY <1>2, <1>3, <1>5
  <2>2. D = n + 1 .. m
    BY <1>2, <1>5 DEF Due
  <2> QED
    BY <1>3, <2>1, <2>2, UptoOf
<1>8. q.main = e /\ q.pauseCount = o.pauseCount /\ q.offset = time /\ q.table = p.table /\ q.end = p.end
  BY <1>1, <1>2, <1>6 DEF Begun, Kept
<1>9. \A f \in Events :
          q.st[f] = IF p.st[f] = "SLEEPING" /\ f \in EventsAt(p, "begin", D)
                    THEN "OCCURRING" ELSE p.st[f]
  BY <1>6 DEF Begun
<1>10. p.st[e] = "SLEEPING"
  BY PreparedSleeps
<1>11. q.st[e] = "OCCURRING"
  <2>1. PICK b, c : Ends(p, e, b, c)
    BY <1>2, <1>3, SoundEnds
  <2>2. b \in 1..Len(p.table) /\ p.table[b].kind = "begin" /\ p.table[b].event = e
        /\ p.table[b].at = time
    BY <1>2, <2>1 DEF Ends
  <2>3. b > n
    BY <2>1, PreparedSleeps
  <2>4. ASSUME b > m PROVE FALSE
    <3>1. m < Len(p.table) /\ m \in Nat /\ m + 1 \in 1..Len(p.table)
      BY <1>3, <1>7, <2>2, <2>4
    <3>2. p.table[m + 1].at > time
      BY <1>7, <3>1
    <3>3. m + 1 # b
      BY <2>2, <3>2, <1>2
    <3>4. m + 1 < b
      BY <2>2, <2>4, <3>1, <3>3
    <3>5. /\ InOrder(p.table) /\ Timed(p.table, p.end) /\ p.table \in Seq(Entries)
          /\ DOMAIN p.table = 1..Len(p.table)
      BY <1>2, <1>3 DEF Sound, TableInv, ObjectType
    <3>6. ~Sooner(p.table[b], p.table[m + 1])
      BY <2>2, <3>1, <3>4, <3>5 DEF InOrder
    <3>7. /\ p.table[b] \in Entries /\ BeginsRight(p.table[b])
          /\ p.table[m + 1] \in Entries /\ BeginsRight(p.table[m + 1])
      BY <2>2, <3>1, <3>5, BeginsAreRight
    <3>8. p.table[m + 1].at <= time
      BY <2>2, <3>6, <3>7, BeginsInOrder
    <3>9. p.table[m + 1].at \in Nat
      BY <3>7, TimesOf DEF Entries
    <3> QED
      BY <1>2, <3>2, <3>8, <3>9
  <2>5. b \in D
    BY <1>3, <1>7, <2>2, <2>3, <2>4
  <2>6. e \in EventsAt(p, "begin", D)
    BY <2>2, <2>5 DEF EventsAt
  <2> QED
    BY <1>9, <1>10, <2>6
<1>12. ASSUME o.heard = {}, o.running = {}, o.paused = {} PROVE Agrees(q)
  <2>1. p.heard = {e} /\ p.running = {} /\ p.paused = {}
    BY <1>12 DEF Prepared
  <2>2. Agrees(p)
    BY <1>2, <1>10, <2>1 DEF Agrees
  <2> QED
    BY <1>6, <2>2 DEF Begun
<1>13. ASSUME NEW f \in Events, o.st[f] = "SLEEPING", q.st[f] # "SLEEPING" PROVE BeginOf(f) <= q.offset
  <2>1. CASE p.st[f] # "SLEEPING"
    BY <1>1, <1>8, <1>13, <2>1, PreparedInTime
  <2>2. CASE p.st[f] = "SLEEPING"
    <3>1. f \in EventsAt(p, "begin", Due(p, time))
      BY <1>5, <1>9, <1>13, <2>2
    <3> QED
      BY <1>2, <1>8, <3>1, DueBegins
  <2> QED
    BY <2>1, <2>2
<1>14. ASSUME NEW f \in Events, o.st[f] = "SLEEPING", ~Touching(f) PROVE Follows(q, f)
  <2>1. p.st[f] # "PAUSED" /\ q.st[f] # "PAUSED"
    BY <1>9, <1>14 DEF Prepared
  <2>2. ASSUME f # e, Passed(q, f) PROVE q.st[f] = "SLEEPING"
    <3>1. PICK b, c : /\ Ends(p, f, b, c)
                      /\ f \in EventsAt(p, "end", 1..n) <=> c <= n
      BY PreparedIs
    <3>2. b \in 1..Len(p.table) /\ c \in 1..Len(p.table) /\ b < c /\ p.table[c].at = p.end[f]
      BY <3>1 DEF Ends
    <3>3. c <= m
      <4>1. PICK i \in 1..m : p.table[i].kind = "end" /\ p.table[i].event = f
        BY <1>6, <1>8, <2>2 DEF Passed
      <4>2. i \in 1..Len(p.table)
        BY <1>3, <1>7
      <4>3. i = c
        BY <3>1, <4>1, <4>2 DEF Ends
      <4> QED
        BY <4>3
    <3>4. c <= n
      <4>1. ASSUME c > n PROVE FALSE
        <5>1. c \in D
          BY <1>3, <1>7, <3>2, <3>3, <4>1
        <5>2. p.end[f] <= time
          BY <1>7, <3>2, <5>1
        <5>3. n < Len(p.table) /\ n + 1 \in 1..Len(p.table) /\ n + 1 <= c
          BY <1>3, <3>2, <4>1
        <5>4. p.table[n + 1].at >= time
          BY <1>2, <5>3 DEF Prepared
        <5>5. p.end[f] >= time
          <6>1. CASE n + 1 = c
            BY <3>2, <5>4, <6>1
          <6>2. CASE n + 1 < c
            <7>1. InOrder(p.table) /\ DOMAIN p.table = 1..Len(p.table)
              BY <1>2, <1>3 DEF Sound, TableInv, ObjectType
            <7>2. ~Sooner(p.table[c], p.table[n + 1])
              BY <3>2, <5>3, <6>2, <7>1 DEF InOrder
            <7>3. p.table \in Seq(Entries)
              BY <1>3 DEF ObjectType
            <7>4. p.table[c] \in Entries /\ p.table[n + 1] \in Entries
              BY <3>2, <5>3, <7>1, <7>3
            <7>5. BeginOf(e) <= p.table[n + 1].at
              <8>1. p.table[n + 1].at \in Nat
                BY <7>4, TimesOf DEF Entries
              <8> QED
                BY <1>2, <5>4, <8>1
            <7>6. BeginOf(e) <= p.table[c].at
              BY <7>2, <7>4, <7>5, CutInOrder
            <7>7. p.table[c].at \in Nat
              BY <7>4, TimesOf DEF Entries
            <7> QED
              BY <1>2, <3>2, <7>6, <7>7
          <6> QED
            BY <5>3, <6>1, <6>2, <3>2, <1>3
        <5>6. p.end[f] = time
          <6>1. p.end \in [Events -> 0..Inf]
            BY <1>3 DEF ObjectType
          <6>2. p.end[f] \in 0..Inf
            BY <6>1
          <6> QED
            BY <1>2, <5>2, <5>5, <6>2
        <5>7. p.end[f] \in {EndOf(f), ExplicitDur}
          BY <1>2 DEF Sound, TableInv, EndsRight
        <5> QED
          BY <1>2, <1>14, <5>6, <5>7 DEF Touching
      <4> QED
        BY <1>3, <3>2, <4>1
    <3>5. f \in EventsAt(o, "end", 1..n)
      BY <3>1, <3>4, PreparedIs
    <3>6. p.st[f] = "SLEEPING"
      BY <3>5 DEF Prepared
    <3>7. f \notin EventsAt(p, "begin", D)
      <4>1. ASSUME NEW i \in D, p.table[i].kind = "begin", p.table[i].event = f PROVE FALSE
        <5>1. i \in 1..Len(p.table) /\ i > n
          BY <1>3, <1>6, <1>7
        <5>2. i = b
          BY <3>1, <4>1, <5>1 DEF Ends
        <5> QED
          BY <1>3, <3>2, <3>4, <5>1, <5>2
      <4> QED
        BY <4>1 DEF EventsAt
    <3> QED
      BY <1>9, <3>6, <3>7
  <2> QED
    BY <1>2, <1>3, <1>8, <2>1, <2>2 DEF Follows
<1> QED
  BY <1>1, <1>4, <1>6, <1>8, <1>11, <1>12, <1>13, <1>14 DEF Started

-----------------------------------------------------------------------------
(* The inductive invariant.                                                *)

Task == [ms : Times, run : Nat]

\* A task of the present presentation is of a time that has come.
TasksRight(ts) ==
    /\ ts \in Seq(Task)
    /\ \A i \in DOMAIN ts : ts[i].run <= run /\ (ts[i].run = run => Playing /\ ts[i].ms <= clock)

Typed ==
    /\ player \in PlayerStates /\ clock \in Times /\ timers \in [Times -> Nat] /\ run \in Nat
    /\ stale \in BOOLEAN /\ refused \in BOOLEAN /\ crashed \in BOOLEAN

\* The adapter and its object go together.
InStep ==
    /\ player \in {"none", "blank"} => object.main = None
    /\ Playing => ~Asleep(object)
    /\ PausedRight(object)
    /\ object.pauseCount > 0 => player # "playing"

\* While nothing has gone wrong, an event that does not touch another follows the main
\* event: it sleeps when there is none, and once its end is passed in the table.
SmoothInv == Smooth =>
    /\ object.main # None => Playing
    /\ player \notin {"ready", "blank"}
    /\ Agrees(object)
    /\ \A e \in Events : ~Touching(e) => Follows(object, e)

\* The inductive invariant.
IInv == Typed /\ Sound(object) /\ InStep /\ TasksRight(tasks) /\ SmoothInv

\* What NothingEarly says of a step.
NoneEarly ==
    \A e \in Areas :
        (object.st[e] = "SLEEPING" /\ object'.st[e] = "OCCURRING" /\ ~stale')
            => Begin[e] <= clock \/ Begin[e] <= object'.offset

LEMMA NoneEarlyIs ==
    ASSUME \A e \in Events :
              (object.st[e] = "SLEEPING" /\ object'.st[e] = "OCCURRING" /\ ~stale')
                  => BeginOf(e) <= clock \/ BeginOf(e) <= object'.offset
    PROVE  NoneEarly
<1>1. \A e \in Areas : e \in Events /\ BeginOf(e) = Begin[e]
  BY EventsAssumption DEF Events, BeginOf
<1> QED
  BY <1>1 DEF NoneEarly

LEMMA TailIsRight ==
    ASSUME NEW ts, TasksRight(ts), ts # <<>>
    PROVE  TasksRight(Tail(ts)) /\ Head(ts) \in Task
           /\ (Head(ts).run = run => Playing /\ Head(ts).ms <= clock)
<1>1. ts \in Seq(Task) /\ Len(ts) \in Nat /\ Len(ts) > 0
  BY DEF TasksRight
<1>2. /\ Tail(ts) \in Seq(Task) /\ DOMAIN Tail(ts) = 1..Len(ts) - 1
      /\ \A i \in 1..Len(ts) - 1 : Tail(ts)[i] = ts[i + 1]
  BY <1>1
<1>3. \A i \in 1..Len(ts) - 1 : i + 1 \in DOMAIN ts
  BY <1>1
<1>4. 1 \in DOMAIN ts /\ Head(ts) = ts[1] /\ ts[1] \in Task
  BY <1>1
<1> QED
  BY <1>2, <1>3, <1>4 DEF TasksRight

LEMMA AddTimerType ==
    ASSUME NEW o, Sound(o), NEW ts, ts \in [Times -> Nat]
    PROVE  AddTimer(ts, NextTransition(o)) \in [Times -> Nat]
<1>1. PICK at : at = NextTransition(o)
  OBVIOUS
<1>2. CASE at = None
  BY <1>1, <1>2 DEF AddTimer
<1>3. CASE at # None
  <2>1. o.main # None /\ o.current # Len(o.table)
    BY <1>1, <1>3 DEF NextTransition
  <2>2. PICK t : t = o.table[o.current + 1]
    OBVIOUS
  <2>3. at = t.at /\ t.at # Inf
    BY <1>1, <1>3, <2>1, <2>2 DEF NextTransition
  <2>4. o.current \in Nat /\ Len(o.table) \in Nat /\ o.current <= Len(o.table) /\ o.table \in Seq(Entries)
    BY DEF Sound, ObjectType
  <2>5. o.current + 1 \in 1..Len(o.table)
    BY <2>1, <2>4
  <2>6. t \in Entries
    BY <2>2, <2>4, <2>5
  <2>7. at \in Times
    BY <2>3, <2>6, EventsAssumption DEF Entries, Inf, Times
  <2>8. [ts EXCEPT ![at] = @ + 1] \in [Times -> Nat]
    BY <2>7
  <2> QED
    BY <1>1, <1>3, <2>8 DEF AddTimer
<1> QED
  BY <1>2, <1>3

\* What may be known of an object that is about to be stopped.
MayStop(o) ==
    /\ Sound(o) /\ PausedRight(o) /\ o.main = object.main
    /\ (~stale' /\ ~refused') =>
          Agrees(o) /\ \A e \in Events : ~Touching(e) /\ Asleep(o) => o.st[e] = "SLEEPING"

LEMMA StopPlayerKeeps ==
    ASSUME IInv, NEW o, MayStop(o), StopPlayer(o), TasksRight(tasks'),
           stale' \in BOOLEAN, refused' = refused, ~stale' => ~stale
    PROVE  IInv' /\ \A e \in Events : object'.st[e] \in {"SLEEPING", o.st[e]}
<1>1. Smooth' => Smooth
  BY DEF Smooth
<1>2. CASE player = "none"
  <2>1. object' = o /\ player' = player /\ clock' = clock /\ timers' = timers /\ run' = run /\ crashed' = crashed
    BY <1>2 DEF StopPlayer
  <2>2. o.main = None
    BY <1>2 DEF IInv, InStep, MayStop
  <2>3. Typed' /\ Sound(object)'
    BY <2>1 DEF IInv, Typed, MayStop
  <2>4. InStep'
    <3>1. ~Playing' /\ PausedRight(object)'
      BY <1>2, <2>1 DEF Playing, MayStop
    <3> QED
      BY <1>2, <2>1, <2>2, <3>1 DEF InStep
  <2>5. TasksRight(tasks)'
    BY <2>1 DEF TasksRight, Playing
  <2>6. SmoothInv'
    <3> SUFFICES ASSUME Smooth'
                 PROVE  SmoothInv'
      BY DEF SmoothInv
    <3>1. Agrees(o) /\ \A e \in Events : ~Touching(e) => o.st[e] = "SLEEPING"
      BY <2>2 DEF MayStop, Asleep, Smooth
    <3>2. \A e \in Events : ~Touching(e) => Follows(o, e)
      BY <3>1 DEF Follows
    <3> QED
      BY <1>2, <2>1, <2>2, <3>1, <3>2 DEF SmoothInv
  <2> QED
    BY <2>1, <2>3, <2>4, <2>5, <2>6 DEF IInv
<1>3. CASE player = "blank"
  <2>1. object' = o /\ player' = player /\ clock' = clock /\ timers' = timers /\ run' = run /\ crashed' = TRUE
    BY <1>3 DEF StopPlayer
  <2>2. o.main = None
    BY <1>3 DEF IInv, InStep, MayStop
  <2>3. Typed' /\ Sound(object)'
    BY <2>1 DEF IInv, Typed, MayStop
  <2>4. InStep'
    <3>1. ~Playing' /\ PausedRight(object)'
      BY <1>3, <2>1 DEF Playing, MayStop
    <3> QED
      BY <1>3, <2>1, <2>2, <3>1 DEF InStep
  <2>5. TasksRight(tasks)'
    BY <2>1 DEF TasksRight, Playing
  <2>6. SmoothInv'
    BY <1>1, <1>3 DEF SmoothInv, IInv
  <2> QED
    BY <2>1, <2>3, <2>4, <2>5, <2>6 DEF IInv
<1>4. CASE player \notin {"none", "blank"}
  <2>1. PICK p : p = Unprepare(StopObject(o))
    OBVIOUS
  <2>2. object' = p /\ player' = "none" /\ clock' = 0 /\ timers' = NoTimer /\ run' = run + 1 /\ crashed' = crashed
    BY <1>4, <2>1 DEF StopPlayer, DeletePlayer
  <2>3. Stopped(p, o)
    BY <2>1, StopStops DEF MayStop
  <2>4. Typed' /\ Sound(object)'
    <3>1. 0 \in Times /\ NoTimer \in [Times -> Nat]
      BY EventsAssumption DEF NoTimer, Times
    <3> QED
      BY <2>2, <2>3, <3>1 DEF IInv, Typed, Stopped, PlayerStates
  <2>5. InStep'
    BY <2>2, <2>3 DEF InStep, Playing, PausedRight, Stopped
  <2>6. TasksRight(tasks)'
    <3>1. run \in Nat /\ tasks' \in Seq(Task)
      BY DEF IInv, Typed, TasksRight
    <3>2. ASSUME NEW i \in DOMAIN tasks' PROVE tasks'[i].run <= run' /\ tasks'[i].run # run'
      <4>1. tasks'[i] \in Task
        BY <3>1
      <4>2. tasks'[i].run \in Nat /\ tasks'[i].run <= run
        BY <4>1 DEF TasksRight, Task
      <4> QED
        BY <2>2, <3>1, <4>2
    <3> QED
      BY <3>1, <3>2 DEF TasksRight
  <2>7. SmoothInv'
    <3> SUFFICES ASSUME Smooth'
                 PROVE  SmoothInv'
      BY DEF SmoothInv
    <3>1. Agrees(o) /\ \A e \in Events : ~Touching(e) /\ Asleep(o) => o.st[e] = "SLEEPING"
      BY DEF MayStop, Smooth
    <3>2. Agrees(p) /\ \A e \in Events : ~Touching(e) => p.st[e] = "SLEEPING"
      BY <2>3, <3>1 DEF Stopped
    <3>3. \A e \in Events : ~Touching(e) => Follows(p, e)
      BY <3>2 DEF Follows
    <3> QED
      BY <2>2, <2>3, <3>2, <3>3 DEF SmoothInv, Stopped
  <2> QED
    BY <2>2, <2>3, <2>4, <2>5, <2>6, <2>7 DEF IInv, Stopped
<1> QED
  BY <1>2, <1>3, <1>4

-----------------------------------------------------------------------------
(* Each action keeps the invariant, and begins nothing early.              *)

LEMMA Awake ==
    ASSUME IInv
    PROVE  /\ object.main # None => Sound(object) /\ AllIn(object.table)
           /\ HasPrepared => ~Asleep(object) /\ object.main # None /\ object.main \in Events
           /\ Playing => HasPrepared
           /\ \A e \in Events : object.st[e] \in States
<1>1. Sound(object) /\ object \in ObjectType /\ InStep
  BY DEF IInv, Sound
<1> QED
  BY <1>1 DEF Sound, HasPrepared, Playing, Asleep, InStep, ObjectType

LEMMA StopKeeps ==
    ASSUME IInv, Stop
    PROVE  IInv' /\ NoneEarly
<1>1. StopPlayer(object) /\ tasks' = tasks /\ stale' = stale /\ refused' = refused
  BY DEF Stop
<1>2. MayStop(object)
  <2>1. Sound(object) /\ PausedRight(object)
    BY DEF IInv, InStep
  <2> SUFFICES ASSUME ~stale', ~refused'
               PROVE  Agrees(object) /\ \A e \in Events : ~Touching(e) /\ Asleep(object) => object.st[e] = "SLEEPING"
    BY <2>1 DEF MayStop
  <2>2. Smooth
    BY <1>1 DEF Smooth
  <2>3. /\ object.main # None => Playing
        /\ Agrees(object) /\ \A e \in Events : ~Touching(e) => Follows(object, e)
    BY <2>2 DEF IInv, SmoothInv
  <2>4. Asleep(object) => object.main = None
    BY <2>3 DEF IInv, InStep
  <2> QED
    BY <2>3, <2>4 DEF Follows
<1>3. TasksRight(tasks')
  BY <1>1 DEF IInv
<1>4. stale' \in BOOLEAN
  BY <1>1 DEF IInv, Typed
<1>5. IInv' /\ \A e \in Events : object'.st[e] \in {"SLEEPING", object.st[e]}
  BY <1>1, <1>2, <1>3, <1>4, StopPlayerKeeps
<1>6. NoneEarly
  BY <1>5, NoneEarlyIs
<1> QED
  BY <1>5, <1>6

LEMMA AbortKeeps ==
    ASSUME IInv, Abort
    PROVE  IInv' /\ NoneEarly
<1>1. PICK o : o = AbortObject(object)
  OBVIOUS
<1>2. StopPlayer(o) /\ tasks' = tasks /\ stale' = stale /\ refused' = refused /\ HasPrepared
  BY <1>1 DEF Abort
<1>3. Sound(object) /\ ~Asleep(object)
  BY <1>2, Awake DEF IInv
<1>4. EndedAndReset(o, object, object.current + 1)
  BY <1>1, <1>3, AbortAborts
<1>5. o.main = object.main /\ o.pauseCount = 0 /\ Sound(o) /\ o.pauseCount \in Nat
  BY <1>4 DEF EndedAndReset, Kept
<1>6. MayStop(o)
  <2>1. PausedRight(o)
    BY <1>5 DEF PausedRight
  <2> SUFFICES ASSUME ~stale', ~refused'
               PROVE  Agrees(o) /\ \A e \in Events : ~Touching(e) /\ Asleep(o) => o.st[e] = "SLEEPING"
    BY <1>5, <2>1 DEF MayStop
  <2>2. Smooth
    BY <1>2 DEF Smooth
  <2>3. Agrees(object) /\ \A e \in Events : ~Touching(e) => Follows(object, e)
    BY <2>2 DEF IInv, SmoothInv
  <2>4. Agrees(o)
    BY <1>4, <2>3 DEF EndedAndReset
  <2>5. ASSUME NEW e \in Events, ~Touching(e), Asleep(o) PROVE o.st[e] = "SLEEPING"
    <3>1. CASE ~Passed(object, e)
      BY <1>1, <1>3, <3>1, AbortLeaves
    <3>2. CASE Passed(object, e) /\ e # object.main
      <4>1. object.st[e] = "SLEEPING"
        BY <2>3, <2>5, <3>2 DEF Follows
      <4> QED
        BY <1>4, <4>1 DEF EndedAndReset
    <3>3. CASE e = object.main
      <4>1. o.main # None
        BY <1>3, <1>5 DEF Asleep
      <4> QED
        BY <1>5, <2>5, <3>3, <4>1 DEF Asleep
    <3> QED
      BY <3>1, <3>2, <3>3
  <2> QED
    BY <2>4, <2>5
<1>7. TasksRight(tasks') /\ stale' \in BOOLEAN
  BY <1>2 DEF IInv, Typed
<1>8. IInv' /\ \A e \in Events : object'.st[e] \in {"SLEEPING", o.st[e]}
  BY <1>2, <1>6, <1>7, StopPlayerKeeps
<1>9. \A e \in Events : object'.st[e] \in {"SLEEPING", object.st[e]}
  BY <1>4, <1>8 DEF EndedAndReset
<1>10. NoneEarly
  BY <1>9, NoneEarlyIs
<1> QED
  BY <1>8, <1>10

\* A pause or a resume leaves asleep what is asleep, and awake what is awake.
LEMMA PauseChangeKeeps ==
    ASSUME IInv, NEW n, PauseChanged(object', object, n), HasPrepared \/ object.pauseCount > 0,
           player \notin {"none", "blank"}, player' \in {"ready", "playing", "paused"},
           Playing' <=> Playing, PausedRight(object)', n > 0 => player' # "playing",
           n = 0 => \A e \in Events : object'.st[e] # "PAUSED",
           UNCHANGED <<clock, timers, tasks, run, stale, refused, crashed>>,
           player' = "ready" => player = "ready"
    PROVE  IInv' /\ NoneEarly
<1>1. /\ object'.main = object.main /\ object'.table = object.table /\ object'.current = object.current
      /\ object'.pauseCount = n /\ Sound(object')
      /\ \A e \in Events : object'.st[e] = "SLEEPING" <=> object.st[e] = "SLEEPING"
      /\ Agrees(object) => Agrees(object')
  BY DEF PauseChanged, Kept
<1>2. object \in ObjectType /\ object.main \in Events \cup {None}
  BY DEF IInv, Sound, ObjectType
<1>3. Typed'
  BY DEF IInv, Typed, PlayerStates
<1>4. Asleep(object)' <=> Asleep(object)
  BY <1>1, <1>2 DEF Asleep
<1>5. InStep'
  BY <1>1, <1>4 DEF IInv, InStep
<1>6. TasksRight(tasks)'
  BY DEF IInv, TasksRight
<1>7. SmoothInv'
  <2> SUFFICES ASSUME Smooth'
               PROVE  SmoothInv'
    BY DEF SmoothInv
  <2>1. Smooth
    BY DEF Smooth
  <2>2. /\ object.main # None => Playing
        /\ player \notin {"ready", "blank"}
        /\ Agrees(object)
        /\ \A e \in Events : ~Touching(e) => Follows(object, e)
    BY <2>1 DEF IInv, SmoothInv
  <2>3. \A e \in Events : ~Touching(e) => Follows(object, e)'
    BY <1>1, <2>2 DEF Follows, Passed
  <2> QED
    BY <1>1, <2>2, <2>3 DEF SmoothInv
<1>8. NoneEarly
  <2>1. \A e \in Events : object.st[e] = "SLEEPING" => object'.st[e] = "SLEEPING"
    BY <1>1
  <2> QED
    BY <2>1, NoneEarlyIs
<1> QED
  BY <1>1, <1>3, <1>5, <1>6, <1>7, <1>8 DEF IInv

LEMMA PauseKeeps ==
    ASSUME IInv, Pause
    PROVE  IInv' /\ NoneEarly
<1>1. /\ HasPrepared /\ object' = PauseObject(object)
      /\ player' = IF player = "playing" THEN "paused" ELSE player
      /\ UNCHANGED <<clock, timers, tasks, run, stale, refused, crashed>>
  BY DEF Pause
<1>2. Sound(object) /\ ~Asleep(object) /\ PausedRight(object) /\ player \in PlayerStates
  BY <1>1, Awake DEF IInv, InStep, Typed
<1>3. PICK n : n = object.pauseCount + 1
  OBVIOUS
<1>4. PauseChanged(object', object, n) /\ object'.st[object'.main] = "PAUSED"
  BY <1>1, <1>2, <1>3, PausePauses
<1>5. n \in Nat /\ n > 0
  BY <1>2, <1>3 DEF Sound, ObjectType
<1>6. player \notin {"none", "blank"} /\ player \in {"ready", "playing", "paused"}
  BY <1>1, <1>2 DEF HasPrepared, PlayerStates
<1>7. player' \in {"ready", "playing", "paused"} /\ (Playing' <=> Playing) /\ player' # "playing"
      /\ (player' = "ready" => player = "ready")
  BY <1>1, <1>6 DEF Playing
<1>8. PausedRight(object)'
  <2>1. object'.main = object.main /\ object.main # None
    BY <1>2, <1>4 DEF PauseChanged, Kept, Asleep
  <2> QED
    BY <1>4, <2>1 DEF PausedRight
<1> QED
  BY <1>1, <1>4, <1>5, <1>6, <1>7, <1>8, PauseChangeKeeps

LEMMA ResumeKeeps ==
    ASSUME IInv, Resume
    PROVE  IInv' /\ NoneEarly
<1>1. /\ player \notin {"none", "blank"} /\ object.pauseCount > 0 /\ object' = ResumeObject(object)
      /\ player' = IF object.pauseCount = 1 /\ player = "paused" THEN "playing" ELSE player
      /\ UNCHANGED <<clock, timers, tasks, run, stale, refused, crashed>>
  BY DEF Resume
<1>2. /\ Sound(object) /\ PausedRight(object) /\ player \in PlayerStates /\ player # "playing"
      /\ object.pauseCount \in Nat
  BY <1>1 DEF IInv, InStep, Typed, Sound, ObjectType
<1>3. PICK n : n = object.pauseCount - 1
  OBVIOUS
<1>4. /\ PauseChanged(object', object, n)
      /\ object.pauseCount = 1 => \A e \in Events : object'.st[e] # "PAUSED"
      /\ object.pauseCount # 1 => object'.st = object.st
  BY <1>1, <1>2, <1>3, ResumeResumes
<1>5. n \in Nat /\ (n > 0 <=> object.pauseCount # 1) /\ (n = 0 <=> object.pauseCount = 1)
  BY <1>1, <1>2, <1>3
<1>6. player \in {"ready", "paused"}
  BY <1>1, <1>2 DEF PlayerStates
<1>7. player' \in {"ready", "playing", "paused"} /\ (Playing' <=> Playing) /\ (n > 0 => player' # "playing")
      /\ (player' = "ready" => player = "ready")
  BY <1>1, <1>5, <1>6 DEF Playing
<1>8. PausedRight(object)'
  <2>1. object'.main = object.main /\ object'.pauseCount = n
    BY <1>4 DEF PauseChanged, Kept
  <2> QED
    BY <1>1, <1>2, <1>4, <1>5, <2>1 DEF PausedRight
<1>9. n = 0 => \A e \in Events : object'.st[e] # "PAUSED"
  BY <1>4, <1>5
<1> QED
  BY <1>1, <1>4, <1>7, <1>8, <1>9, PauseChangeKeeps

LEMMA TickKeeps ==
    ASSUME IInv, Tick
    PROVE  IInv' /\ NoneEarly
<1>1. /\ player = "playing" /\ clock < MaxTime /\ clock' = clock + 1
      /\ UNCHANGED <<object, player, timers, tasks, run, stale, refused, crashed>>
  BY DEF Tick
<1>2. clock \in Nat /\ clock' \in Times /\ clock <= clock'
  BY <1>1, EventsAssumption DEF IInv, Typed, Times
<1>3. Typed' /\ Sound(object)' /\ InStep' /\ SmoothInv'
  <2>1. Typed'
    BY <1>1, <1>2 DEF IInv, Typed
  <2>2. InStep'
    BY <1>1 DEF IInv, InStep, Playing, PausedRight, Asleep
  <2>3. SmoothInv'
    BY <1>1 DEF IInv, SmoothInv, Smooth, Playing, Agrees, Follows, Passed
  <2> QED
    BY <1>1, <2>1, <2>2, <2>3 DEF IInv
<1>4. TasksRight(tasks)'
  <2>1. ASSUME NEW i \in DOMAIN tasks
        PROVE  tasks[i].run <= run /\ (tasks[i].run = run => Playing /\ tasks[i].ms <= clock')
    <3>1. tasks[i] \in Task /\ tasks[i].run <= run /\ (tasks[i].run = run => Playing /\ tasks[i].ms <= clock)
      BY DEF IInv, TasksRight
    <3>2. tasks[i].ms \in Nat
      BY <3>1, TimesOf DEF Task
    <3> QED
      BY <1>2, <3>1, <3>2, EventsAssumption DEF Times
  <2> QED
    BY <1>1, <2>1 DEF IInv, TasksRight, Playing
<1>5. NoneEarly
  BY <1>1 DEF NoneEarly
<1> QED
  BY <1>3, <1>4, <1>5 DEF IInv

LEMMA TimerFiresKeeps ==
    ASSUME IInv, TimerFires
    PROVE  IInv' /\ NoneEarly
<1>1. PICK t \in Times :
          /\ player = "playing" /\ timers[t] > 0 /\ t <= clock
          /\ timers' = [timers EXCEPT ![t] = @ - 1]
          /\ tasks' = Append(tasks, [ms |-> t, run |-> run])
          /\ UNCHANGED <<object, player, clock, run, stale, refused, crashed>>
  BY DEF TimerFires
<1>2. timers' \in [Times -> Nat]
  BY <1>1 DEF IInv, Typed
<1>3. Typed' /\ Sound(object)' /\ InStep' /\ SmoothInv'
  <2>1. Typed'
    BY <1>1, <1>2 DEF IInv, Typed
  <2>2. InStep'
    BY <1>1 DEF IInv, InStep, Playing, PausedRight, Asleep
  <2>3. SmoothInv'
    BY <1>1 DEF IInv, SmoothInv, Smooth, Playing, Agrees, Follows, Passed
  <2> QED
    BY <1>1, <2>1, <2>2, <2>3 DEF IInv
<1>4. TasksRight(tasks)'
  <2>1. PICK x : x = [ms |-> t, run |-> run]
    OBVIOUS
  <2>2. x \in Task /\ x.run = run /\ x.ms = t /\ run \in Nat
    BY <2>1 DEF IInv, Typed, Task
  <2>3. tasks \in Seq(Task) /\ tasks' = Append(tasks, x)
    BY <1>1, <2>1 DEF IInv, TasksRight
  <2>4. tasks' \in Seq(Task) /\ \A i \in DOMAIN tasks' : tasks'[i] = x \/ (i \in DOMAIN tasks /\ tasks'[i] = tasks[i])
    BY <2>2, <2>3
  <2> QED
    BY <1>1, <2>2, <2>4 DEF IInv, TasksRight, Playing
<1>5. NoneEarly
  BY <1>1 DEF NoneEarly
<1> QED
  BY <1>3, <1>4, <1>5 DEF IInv

LEMMA ProccessKeeps ==
    ASSUME IInv, ProccessTransition
    PROVE  IInv' /\ NoneEarly
<1>1. PICK ms, r, o : ms = Head(tasks).ms /\ r = Head(tasks).run /\ o = UpdateTransitionTable(object, ms)
  OBVIOUS
<1>2. /\ tasks # <<>> /\ tasks' = Tail(tasks) /\ stale' = (stale \/ r # run) /\ refused' = refused
      /\ \/ /\ MustGoOn(object, ms) /\ object' = o /\ ProcessTransitions(o)
            /\ UNCHANGED <<clock, run, crashed>>
         \/ ~MustGoOn(object, ms) /\ StopPlayer(o)
  BY <1>1 DEF ProccessTransition
<1>3. TasksRight(tasks') /\ ms \in Times /\ (r = run => Playing /\ ms <= clock)
  <2>1. TasksRight(tasks)
    BY DEF IInv
  <2>2. TasksRight(Tail(tasks)) /\ Head(tasks) \in Task
        /\ (Head(tasks).run = run => Playing /\ Head(tasks).ms <= clock)
    BY <1>2, <2>1, TailIsRight
  <2> QED
    BY <1>1, <1>2, <2>2 DEF Task
<1>4. Sound(object) /\ PausedRight(object) /\ ms \in Int /\ object \in ObjectType
  BY <1>3, TimesOf DEF IInv, InStep, Sound
<1>5. Updated(o, object, ms)
  BY <1>1, <1>4, UpdateUpdates
<1>6. /\ Sound(o) /\ o.main = object.main /\ o.pauseCount = object.pauseCount
      /\ Agrees(object) => Agrees(o)
      /\ \A e \in Events :
            /\ o.st[e] \in {object.st[e], "SLEEPING", "OCCURRING"}
            /\ e = object.main /\ object.st[e] # "SLEEPING" => o.st[e] = object.st[e]
            /\ object.st[e] = "SLEEPING" /\ o.st[e] = "OCCURRING" => BeginOf(e) <= ms
            /\ e # object.main /\ object.main # None /\ Passed(o, e)
                  /\ (Passed(object, e) => object.st[e] = "SLEEPING")
                  => o.st[e] = "SLEEPING"
  BY <1>5 DEF Updated, Kept
<1>7. ~Asleep(object) => ~Asleep(o)
  <2>1. ~Asleep(object) => object.main \in Events
    BY <1>4 DEF Asleep, ObjectType
  <2> QED
    BY <1>6, <2>1 DEF Asleep
<1>8. PausedRight(o)
  <2>1. object.main # None => object.main \in Events
    BY <1>4 DEF ObjectType
  <2> QED
    BY <1>4, <1>6, <2>1 DEF PausedRight
<1>9. stale' \in BOOLEAN /\ (~stale' => ~stale /\ Playing /\ ms <= clock)
  BY <1>2, <1>3 DEF IInv, Typed
<1>10. ASSUME ~stale', ~refused'
       PROVE  /\ Playing /\ ~Asleep(object) /\ ~Asleep(o) /\ Agrees(o) /\ player \notin {"ready", "blank"}
              /\ \A e \in Events : ~Touching(e) => Follows(o, e)
  <2>1. Smooth /\ Playing
    BY <1>2, <1>9, <1>10 DEF Smooth
  <2>2. ~Asleep(object) /\ ~Asleep(o) /\ object.main # None /\ o.main # None
    BY <1>6, <1>7, <2>1 DEF IInv, InStep, Asleep
  <2>3. /\ Agrees(object) /\ player \notin {"ready", "blank"}
        /\ \A e \in Events : ~Touching(e) => Follows(object, e)
    BY <2>1 DEF IInv, SmoothInv
  <2>4. ASSUME NEW e \in Events, ~Touching(e) PROVE Follows(o, e)
    <3>1. Follows(object, e)
      BY <2>3, <2>4
    <3>2. e # o.main /\ Passed(o, e) => o.st[e] = "SLEEPING"
      BY <1>6, <2>2, <3>1 DEF Follows
    <3>3. o.pauseCount = 0 => o.st[e] # "PAUSED"
      BY <1>6, <3>1 DEF Follows
    <3> QED
      BY <2>2, <3>2, <3>3 DEF Follows
  <2> QED
    BY <1>6, <2>1, <2>2, <2>3, <2>4
<1>11. CASE MustGoOn(object, ms) /\ object' = o /\ ProcessTransitions(o) /\ UNCHANGED <<clock, run, crashed>>
  <2>1. /\ player' = IF player = "none" THEN "blank" ELSE player
        /\ timers' = IF player' = "blank" THEN timers ELSE AddTimer(timers, NextTransition(o))
    BY <1>11 DEF ProcessTransitions
  <2>2. AddTimer(timers, NextTransition(o)) \in [Times -> Nat]
    BY <1>6, AddTimerType DEF IInv, Typed
  <2>3. Typed'
    BY <1>2, <1>9, <1>11, <2>1, <2>2 DEF IInv, Typed, PlayerStates
  <2>4. Playing' <=> Playing
    BY <2>1 DEF Playing
  <2>5. InStep'
    <3>1. player' \in {"none", "blank"} => object'.main = None
      BY <1>6, <1>11, <2>1 DEF IInv, InStep
    <3>2. Playing' => ~Asleep(object)'
      BY <1>7, <1>11, <2>4 DEF IInv, InStep
    <3>3. PausedRight(object)'
      BY <1>8, <1>11
    <3>4. object'.pauseCount > 0 => player' # "playing"
      BY <1>6, <1>11, <2>1 DEF IInv, InStep
    <3> QED
      BY <3>1, <3>2, <3>3, <3>4 DEF InStep
  <2>6. TasksRight(tasks)'
    BY <1>3, <1>11, <2>4 DEF TasksRight
  <2>7. SmoothInv'
    <3> SUFFICES ASSUME Smooth'
                 PROVE  SmoothInv'
      BY DEF SmoothInv
    <3>1. /\ Playing /\ Agrees(o) /\ player \notin {"ready", "blank"}
          /\ \A e \in Events : ~Touching(e) => Follows(o, e)
      BY <1>10 DEF Smooth
    <3>2. player' = player
      BY <2>1, <3>1 DEF Playing
    <3> QED
      BY <1>11, <2>4, <3>1, <3>2 DEF SmoothInv
  <2>8. NoneEarly
    <3>1. \A e \in Events :
              (object.st[e] = "SLEEPING" /\ object'.st[e] = "OCCURRING" /\ ~stale') => BeginOf(e) <= clock
      <4> SUFFICES ASSUME NEW e \in Events, object.st[e] = "SLEEPING", o.st[e] = "OCCURRING", ~stale'
                   PROVE  BeginOf(e) <= clock
        BY <1>11
      <4>1. BeginOf(e) <= ms /\ ms <= clock /\ BeginOf(e) \in Nat /\ ms \in Nat /\ clock \in Nat
        BY <1>3, <1>6, <1>9, TimesOf DEF IInv, Typed
      <4> QED
        BY <4>1
    <3> QED
      BY <3>1, NoneEarlyIs
  <2> QED
    BY <1>6, <1>11, <2>3, <2>5, <2>6, <2>7, <2>8 DEF IInv
<1>12. CASE ~MustGoOn(object, ms) /\ StopPlayer(o)
  <2>1. MayStop(o)
    BY <1>6, <1>8, <1>10 DEF MayStop
  <2>2. IInv' /\ \A e \in Events : object'.st[e] \in {"SLEEPING", o.st[e]}
    BY <1>2, <1>3, <1>9, <1>12, <2>1, StopPlayerKeeps
  <2>3. NoneEarly
    <3>1. \A e \in Events :
              (object.st[e] = "SLEEPING" /\ object'.st[e] = "OCCURRING" /\ ~stale') => BeginOf(e) <= clock
      <4> SUFFICES ASSUME NEW e \in Events, object.st[e] = "SLEEPING", o.st[e] = "OCCURRING", ~stale'
                   PROVE  BeginOf(e) <= clock
        BY <2>2
      <4>1. BeginOf(e) <= ms /\ ms <= clock /\ BeginOf(e) \in Nat /\ ms \in Nat /\ clock \in Nat
        BY <1>3, <1>6, <1>9, TimesOf DEF IInv, Typed
      <4> QED
        BY <4>1
    <3> QED
      BY <3>1, NoneEarlyIs
  <2> QED
    BY <2>2, <2>3
<1> QED
  BY <1>2, <1>11, <1>12

\* An event is in the table with its begin, and so with its end, or not at all.
LEMMA InTableIs ==
    ASSUME NEW o, o \in ObjectType, BothEnds(o.table), NEW e, e \in Events
    PROVE  /\ InTable(o.table, e) => <<"begin", e>> \in Keys(o.table) /\ <<"end", e>> \in Keys(o.table)
           /\ ~InTable(o.table, e) => <<"begin", e>> \notin Keys(o.table) /\ <<"end", e>> \notin Keys(o.table)
<1>1. \A i \in DOMAIN o.table : o.table[i] \in Entries
  BY DEF ObjectType
<1>2. ASSUME InTable(o.table, e) PROVE <<"begin", e>> \in Keys(o.table) /\ <<"end", e>> \in Keys(o.table)
  <2>1. PICK i \in DOMAIN o.table : o.table[i].event = e
    BY <1>2 DEF InTable
  <2>2. o.table[i].kind \in Kinds
    BY <1>1 DEF Entries
  <2>3. <<"begin", e>> \in Keys(o.table) \/ <<"end", e>> \in Keys(o.table)
    BY <2>1, <2>2 DEF Kinds, Keys
  <2> QED
    BY <2>3 DEF BothEnds
<1>3. ASSUME ~InTable(o.table, e) PROVE <<"begin", e>> \notin Keys(o.table) /\ <<"end", e>> \notin Keys(o.table)
  BY <1>3 DEF InTable, Keys
<1> QED
  BY <1>2, <1>3

LEMMA AddEventKeeps ==
    ASSUME IInv, NEW e, e \in Events, AddEvent(e)
    PROVE  IInv' /\ NoneEarly
<1>1. PICK t, end : t = object.table /\ end = object.end
  OBVIOUS
<1>2. PICK v : v = AddPresentationEvent(t, e, end[e])
  OBVIOUS
<1>3. /\ ~InTable(t, e) /\ object' = [object EXCEPT !.table = v]
      /\ UNCHANGED <<player, clock, timers, tasks, run, stale, refused, crashed>>
  <2>1. object \in ObjectType
    BY DEF IInv, Sound
  <2> QED
    BY <1>1, <1>2, <2>1 DEF AddEvent, ObjectType
<1>4. /\ object \in ObjectType /\ Sound(object) /\ Once(t) /\ InOrder(t) /\ Timed(t, end)
      /\ BothEnds(t) /\ EndsRight(t, end)
  BY <1>1 DEF IInv, Sound, TableInv
<1>5. <<"begin", e>> \notin Keys(t) /\ <<"end", e>> \notin Keys(t)
  BY <1>1, <1>3, <1>4, InTableIs
<1>6. end[e] = EndOf(e) /\ end[e] \in BeginOf(e)..Inf
  BY <1>4, <1>5, TimesOf DEF EndsRight
<1>7. Orderly(t, end)
  BY <1>1, <1>4 DEF Orderly, ObjectType
<1>8. e = Whole => \A i \in DOMAIN t : Cut(t[i].at) <= Cut(end[e])
  <2> SUFFICES ASSUME e = Whole, NEW i, i \in DOMAIN t
               PROVE  Cut(t[i].at) <= Cut(Inf)
    BY <1>6 DEF EndOf
  <2>1. t[i] \in Entries
    BY <1>7 DEF Orderly
  <2>2. t[i].at \in 0..Inf
    BY <2>1 DEF Entries
  <2>3. Inf \in 0..Inf /\ t[i].at <= Inf
    BY <2>2, TimesOf
  <2> QED
    BY <2>2, <2>3, CutOf
<1>9. Grown(v, t, end, KeysOf(e), 2)
  BY <1>2, <1>5, <1>6, <1>7, <1>8, AddedEvent
<1>10. v \in Seq(Entries) /\ Len(v) = Len(t) + 2 /\ Keys(v) = Keys(t) \cup KeysOf(e)
  BY <1>9 DEF Grown, Orderly
<1>11. object.main = None
  BY <1>1, <1>4, <1>5 DEF Sound, AllIn
<1>12. object' \in ObjectType
  BY <1>3, <1>4, <1>10 DEF ObjectType
<1>13. /\ object'.st = object.st /\ object'.main = None /\ object'.end = end /\ object'.table = v
       /\ object'.first = object.first /\ object'.current = object.current
       /\ object'.pauseCount = object.pauseCount /\ object'.heard = object.heard
       /\ object'.running = object.running /\ object'.paused = object.paused
  BY <1>1, <1>3, <1>4, <1>11 DEF ObjectType
<1>14. Sound(object)'
  <2>1. BothEnds(v)
    BY <1>4, <1>10 DEF BothEnds, KeysOf
  <2>2. EndsRight(v, end)
    BY <1>4, <1>10 DEF EndsRight
  <2>3. TableInv(object')
    BY <1>9, <1>13, <2>1, <2>2 DEF TableInv, Grown, Orderly
  <2>4. object.first \in Nat /\ object.current \in Nat /\ Len(t) \in Nat /\ object.first <= object.current
        /\ object.current <= Len(t)
    BY <1>1, <1>4 DEF Sound, ObjectType
  <2>5. object'.first <= object'.current /\ object'.current <= Len(object'.table)
    BY <1>10, <1>13, <2>4
  <2> QED
    BY <1>12, <1>13, <2>3, <2>5 DEF Sound
<1>15. Typed' /\ TasksRight(tasks)'
  BY <1>3 DEF IInv, Typed, TasksRight, Playing
<1>16. InStep'
  <2>1. object.pauseCount \in Nat /\ ~(object.pauseCount > 0) /\ ~Playing
    BY <1>4, <1>11 DEF IInv, InStep, PausedRight, Asleep, ObjectType
  <2> QED
    BY <1>3, <1>13, <2>1 DEF InStep, PausedRight, Playing
<1>17. SmoothInv'
  <2> SUFFICES ASSUME Smooth'
               PROVE  SmoothInv'
    BY DEF SmoothInv
  <2>1. /\ player \notin {"ready", "blank"} /\ Agrees(object)
        /\ \A f \in Events : ~Touching(f) => Follows(object, f)
    BY <1>3 DEF Smooth, IInv, SmoothInv
  <2>2. \A f \in Events : ~Touching(f) => object.st[f] = "SLEEPING"
    BY <1>11, <2>1 DEF Follows
  <2>3. \A f \in Events : ~Touching(f) => Follows(object, f)'
    BY <1>13, <2>2 DEF Follows
  <2>4. Agrees(object)'
    BY <1>11, <1>13, <2>1 DEF Agrees
  <2> QED
    BY <1>3, <1>13, <2>1, <2>3, <2>4 DEF SmoothInv
<1>18. NoneEarly
  BY <1>13 DEF NoneEarly
<1> QED
  BY <1>14, <1>15, <1>16, <1>17, <1>18 DEF IInv

\* An object that is left with a player that does not play.
LEMMA LeftReady ==
    ASSUME IInv, ~Playing, NEW o, Sound(o), PausedRight(o), object' = o, player' = "ready",
           clock' \in Times, timers' = timers, refused' = TRUE,
           UNCHANGED <<tasks, run, stale, crashed>>
    PROVE  IInv'
<1>1. Typed' /\ Sound(object)'
  BY DEF IInv, Typed, PlayerStates
<1>2. InStep' /\ SmoothInv'
  BY DEF InStep, Playing, PausedRight, SmoothInv, Smooth
<1>3. TasksRight(tasks)'
  BY DEF IInv, TasksRight
<1> QED
  BY <1>1, <1>2, <1>3 DEF IInv

LEMMA StartKeeps ==
    ASSUME IInv, NEW e, e \in Events, Start(e)
    PROVE  IInv' /\ NoneEarly
<1>1. PICK o, ready : o = SetExplicitDur(object, e) /\ ready = PrepareObject(o, e)
  OBVIOUS
<1>2. /\ ~HasPrepared /\ \A f \in Events : InTable(object.table, f)
      /\ UNCHANGED <<tasks, run, stale, crashed>>
      /\ \/ o.st[e] # "SLEEPING" /\ NotPlayed(o)
         \/ o.st[e] = "SLEEPING" /\ NotPlayed(ready)
         \/ o.st[e] = "SLEEPING" /\ Asleep(ready) /\ (Play(ready) \/ PlayFailed(ready))
  BY <1>1 DEF Start
<1>3. ~Playing /\ Sound(object) /\ PausedRight(object) /\ object \in ObjectType
  BY <1>2, Awake DEF IInv, InStep, Sound
<1>4. FullTable(object)
  <2>1. BothEnds(object.table) /\ TableInv(object)
    BY <1>3 DEF Sound, TableInv
  <2> QED
    BY <1>2, <1>3, <2>1, InTableIs DEF FullTable, AllIn
<1>5. FullTable(o) /\ Retimed(o, object, e, o.end[e]) /\ o.end[e] >= BeginOf(e)
  BY <1>1, <1>4, SetExplicitDurKeepsTable
<1>6. /\ o.st = object.st /\ o.main = object.main /\ o.first = object.first /\ o.current = object.current
      /\ o.pauseCount = object.pauseCount /\ o.heard = object.heard /\ o.running = object.running
      /\ o.paused = object.paused /\ Len(o.table) = Len(object.table)
  BY <1>5 DEF Retimed
<1>7. Sound(o) /\ PausedRight(o)
  BY <1>3, <1>5, <1>6 DEF Sound, FullTable, PausedRight
<1>8. \A f \in Areas : f \in Events /\ BeginOf(f) = Begin[f]
  BY EventsAssumption DEF Events, BeginOf
<1>9. CASE NotPlayed(o)
  <2>1. object' = o /\ player' = "ready" /\ refused' = TRUE /\ clock' = clock /\ timers' = timers
    BY <1>3, <1>9 DEF NotPlayed
  <2>2. IInv'
    BY <1>2, <1>3, <1>7, <2>1, LeftReady DEF IInv, Typed
  <2>3. NoneEarly
    BY <1>6, <2>1 DEF NoneEarly
  <2> QED
    BY <2>2, <2>3
<1>10. CASE o.st[e] = "SLEEPING" /\ ~Asleep(o)
  <2>1. ready = o
    BY <1>1, <1>10 DEF PrepareObject
  <2> QED
    BY <1>2, <1>9, <1>10, <2>1
<1>11. CASE o.st[e] = "SLEEPING" /\ Asleep(o)
  <2>1. PICK n : Prepared(ready, o, e, n)
    BY <1>1, <1>5, <1>11, PrepareObjectPrepares
  <2>2. /\ Sound(ready) /\ ready.main = e /\ ready.pauseCount = o.pauseCount /\ ready.offset \in Times
    BY <2>1 DEF Prepared, Sound, ObjectType
  <2>3. o.pauseCount = 0
    <3>1. o.pauseCount \in Nat
      BY <1>7 DEF Sound, ObjectType
    <3> QED
      BY <1>7, <1>11, <3>1 DEF PausedRight, Asleep
  <2>4. PausedRight(ready)
    BY <2>2, <2>3 DEF PausedRight
  <2>5. ASSUME object' = ready PROVE NoneEarly
    <3>1. \A f \in Events : (object.st[f] = "SLEEPING" /\ object'.st[f] = "OCCURRING" /\ ~stale')
                              => BeginOf(f) <= object'.offset
      BY <1>6, <2>1, <2>5, PreparedInTime
    <3> QED
      BY <3>1, NoneEarlyIs
  <2>6. CASE NotPlayed(ready)
    <3>1. object' = ready /\ player' = "ready" /\ refused' = TRUE /\ clock' = clock /\ timers' = timers
      BY <1>3, <2>6 DEF NotPlayed
    <3>2. IInv'
      BY <1>2, <1>3, <2>2, <2>4, <3>1, LeftReady DEF IInv, Typed
    <3> QED
      BY <2>5, <3>1, <3>2
  <2>7. CASE PlayFailed(ready)
    <3>1. object' = ready /\ player' = "ready" /\ refused' = TRUE /\ clock' \in Times /\ timers' = timers
      BY <1>3, <2>7, EventsAssumption DEF PlayFailed, Times
    <3>2. IInv'
      BY <1>2, <1>3, <2>2, <2>4, <3>1, LeftReady
    <3> QED
      BY <2>5, <3>1, <3>2
  <2>8. CASE Play(ready)
    <3>1. PICK q : q = StartTransitions(ready, ready.offset)
      OBVIOUS
    <3>2. object' = q /\ player' = "playing" /\ clock' = 0 /\ refused' = refused
          /\ timers' = AddTimer(timers, NextTransition(q))
      BY <1>3, <2>8, <3>1 DEF Play
    <3>3. Started(q, o, e)
      BY <1>5, <1>11, <2>1, <3>1, StartStarts
    <3>4. /\ Sound(q) /\ q.main = e /\ q.pauseCount = 0 /\ q.st[e] = "OCCURRING" /\ e # None
      BY <2>3, <3>3, EventsAssumption DEF Started
    <3>5. Typed' /\ Sound(object)'
      <4>1. timers' \in [Times -> Nat]
        BY <3>2, <3>4, AddTimerType DEF IInv, Typed
      <4> QED
        BY <1>2, <3>2, <3>4, <4>1, EventsAssumption DEF IInv, Typed, PlayerStates, Times
    <3>6. InStep'
      BY <3>2, <3>4 DEF InStep, PausedRight, Asleep
    <3>7. TasksRight(tasks)'
      BY <1>2, <1>3, <3>2 DEF IInv, TasksRight
    <3>8. SmoothInv'
      <4> SUFFICES ASSUME Smooth'
                   PROVE  SmoothInv'
        BY DEF SmoothInv
      <4>1. /\ object.main = None /\ Agrees(object)
            /\ \A f \in Events : ~Touching(f) => Follows(object, f)
        BY <1>2, <1>3, <3>2 DEF IInv, SmoothInv, Smooth
      <4>2. o.heard = {} /\ o.running = {} /\ o.paused = {}
        BY <1>6, <4>1, EventsAssumption DEF Agrees
      <4>3. \A f \in Events : ~Touching(f) => o.st[f] = "SLEEPING"
        BY <1>6, <4>1 DEF Follows
      <4>4. Agrees(q) /\ \A f \in Events : ~Touching(f) => Follows(q, f)
        BY <3>3, <4>2, <4>3 DEF Started
      <4> QED
        BY <3>2, <4>4 DEF SmoothInv, Playing
    <3>9. NoneEarly
      <4>1. \A f \in Events : (object.st[f] = "SLEEPING" /\ object'.st[f] = "OCCURRING" /\ ~stale')
                                => BeginOf(f) <= object'.offset
        BY <1>6, <3>2, <3>3 DEF Started
      <4> QED
        BY <4>1, NoneEarlyIs
    <3> QED
      BY <3>5, <3>6, <3>7, <3>8, <3>9 DEF IInv
  <2> QED
    BY <1>2, <1>11, <2>6, <2>7, <2>8, <1>9
<1> QED
  BY <1>2, <1>9, <1>10, <1>11

LEMMA InitEstablishes == Init => IInv
<1> SUFFICES ASSUME Init
             PROVE  IInv
  OBVIOUS
<1>1. /\ object = [st |-> [e \in Events |-> "SLEEPING"], main |-> None, offset |-> 0,
                   table |-> <<>>, end |-> [e \in Events |-> EndOf(e)],
                   first |-> 0, current |-> 0, pauseCount |-> 0,
                   heard |-> {}, running |-> {}, paused |-> {}]
      /\ player = "none" /\ clock = 0 /\ timers = NoTimer
      /\ tasks = <<>> /\ run = 0 /\ stale = FALSE /\ refused = FALSE
      /\ crashed = FALSE
  BY DEF Init
<1>2. PICK end : end = [e \in Events |-> EndOf(e)]
  OBVIOUS
<1>3. end \in [Events -> 0..Inf] /\ 0 \in Times
  <2>1. ASSUME NEW e \in Events PROVE EndOf(e) \in 0..Inf
    <3>1. BeginOf(e) \in Nat /\ EndOf(e) \in BeginOf(e)..Inf
      BY TimesOf
    <3> QED
      BY <3>1
  <2> QED
    BY <1>2, <2>1, EventsAssumption DEF Times
<1>4. object \in ObjectType /\ object.st \in [Events -> States] /\ object.main = None /\ object.table = <<>>
      /\ object.end = end /\ object.first = 0 /\ object.current = 0 /\ object.pauseCount = 0
      /\ object.heard = {} /\ object.running = {} /\ object.paused = {}
      /\ \A e \in Events : object.st[e] = "SLEEPING"
  BY <1>1, <1>2, <1>3 DEF ObjectType, States
<1>5. TableInv(object)
  BY <1>2, <1>4 DEF TableInv, Once, InOrder, Timed, BothEnds, EndsRight, Keys
<1>6. Sound(object)
  BY <1>4, <1>5 DEF Sound
<1>7. Typed
  BY <1>1, <1>3 DEF Typed, PlayerStates, NoTimer
<1>8. InStep
  BY <1>1, <1>4 DEF InStep, Playing, PausedRight
<1>9. TasksRight(tasks)
  BY <1>1 DEF TasksRight
<1>10. SmoothInv
  BY <1>1, <1>4, EventsAssumption DEF SmoothInv, Agrees, Follows
<1> QED
  BY <1>6, <1>7, <1>8, <1>9, <1>10 DEF IInv

LEMMA NextKeeps == IInv /\ [Next]_vars => IInv' /\ [NoneEarly]_vars
<1> SUFFICES ASSUME IInv, [Next]_vars
             PROVE  IInv' /\ [NoneEarly]_vars
  OBVIOUS
<1>1. ASSUME NEW e \in Events, AddEvent(e) PROVE IInv' /\ NoneEarly
  BY <1>1, AddEventKeeps
<1>2. ASSUME NEW e \in Events, Start(e) PROVE IInv' /\ NoneEarly
  BY <1>2, StartKeeps
<1>3. CASE Stop
  BY <1>3, StopKeeps
<1>4. CASE Abort
  BY <1>4, AbortKeeps
<1>5. CASE Pause
  BY <1>5, PauseKeeps
<1>6. CASE Resume
  BY <1>6, ResumeKeeps
<1>7. CASE Tick
  BY <1>7, TickKeeps
<1>8. CASE TimerFires
  BY <1>8, TimerFiresKeeps
<1>9. CASE ProccessTransition
  BY <1>9, ProccessKeeps
<1>10. CASE UNCHANGED vars
  <2>1. UNCHANGED <<object, player, clock, timers, tasks, run, stale, refused, crashed>>
    BY <1>10 DEF vars
  <2>2. Typed' /\ Sound(object)' /\ InStep' /\ TasksRight(tasks)'
    BY <2>1 DEF IInv, Typed, InStep, Playing, PausedRight, Asleep, TasksRight
  <2>3. SmoothInv'
    BY <2>1 DEF IInv, SmoothInv, Smooth, Playing, Agrees, Follows, Passed
  <2> QED
    BY <1>10, <2>2, <2>3 DEF IInv
<1> QED
  BY <1>1, <1>2, <1>3, <1>4, <1>5, <1>6, <1>7, <1>8, <1>9, <1>10 DEF Next

\* The invariant holds in every state: every action of the document, the timers and the
\* queued tasks keeps it.
THEOREM Invariance == Spec => []IInv
<1>1. Init => IInv
  BY InitEstablishes
<1>2. IInv /\ [Next]_vars => IInv'
  BY NextKeeps
<1> QED
  BY <1>1, <1>2, PTL DEF Spec

-----------------------------------------------------------------------------

\* The variables are of their types, the table of transitions has both the ends of
\* each event that was added, in their places, and the index into it is within it.
THEOREM MediaObjectIsTyped == Spec => []TypeOK
<1>1. IInv => TypeOK
  <2> SUFFICES ASSUME IInv
               PROVE  TypeOK
    OBVIOUS
  <2>1. object \in ObjectType /\ Sound(object) /\ Typed
    BY DEF IInv, Sound
  <2>2. /\ object.st \in [Events -> States] /\ object.main \in Events \cup {None}
        /\ object.heard \subseteq Events /\ object.running \subseteq Events /\ object.paused \subseteq Events
        /\ object.first \in Nat /\ object.current \in Nat /\ Len(object.table) \in Nat
    BY <2>1 DEF ObjectType
  <2>3. object.first \in 0..Len(object.table) /\ object.current \in object.first..Len(object.table)
    BY <2>1, <2>2 DEF Sound
  <2>4. ASSUME NEW e \in Events, InTable(object.table, e), NEW kind \in {"begin", "end"}
        PROVE  \E i \in DOMAIN object.table :
                  object.table[i] = Transition(kind, IF kind = "begin" THEN BeginOf(e) ELSE object.end[e], e)
    <3>1. TableInv(object)
      BY <2>1 DEF Sound
    <3>2. <<"begin", e>> \in Keys(object.table)
      BY <2>1, <2>4, <3>1, InTableIs DEF TableInv
    <3>3. PICK b, c : Ends(object, e, b, c)
      BY <2>1, <3>1, <3>2, EndsOf
    <3>4. /\ b \in 1..Len(object.table) /\ c \in 1..Len(object.table)
          /\ object.table[b].kind = "begin" /\ object.table[b].event = e /\ object.table[b].at = BeginOf(e)
          /\ object.table[c].kind = "end" /\ object.table[c].event = e /\ object.table[c].at = object.end[e]
      BY <3>3 DEF Ends
    <3>5. object.table \in Seq(Entries) /\ DOMAIN object.table = 1..Len(object.table)
      BY <2>1 DEF ObjectType
    <3>6. PICK x, y : x = object.table[b] /\ y = object.table[c]
      OBVIOUS
    <3>7. x \in Entries /\ y \in Entries
      BY <3>4, <3>5, <3>6
    <3>8. x = Transition("begin", BeginOf(e), e) /\ y = Transition("end", object.end[e], e)
      BY <3>4, <3>6, <3>7 DEF Entries, Transition
    <3>9. CASE kind = "begin"
      BY <3>4, <3>5, <3>6, <3>8, <3>9
    <3>10. CASE kind = "end"
      BY <3>4, <3>5, <3>6, <3>8, <3>10
    <3> QED
      BY <3>9, <3>10
  <2> QED
    BY <2>1, <2>2, <2>3, <2>4 DEF TypeOK, Typed
<1> QED
  BY <1>1, Invariance, PTL

\* ParentAgrees, for any areas, explicit duration and bounds: the parent composition
\* holds the main event exactly as it is, and no other event of the object.
THEOREM ParentIsTold == Spec => []ParentAgrees
<1>1. IInv => ParentAgrees
  BY DEF IInv, SmoothInv, Agrees, ParentAgrees, Main
<1> QED
  BY <1>1, Invariance, PTL

\* EventsFollowMain, for any areas, explicit duration and bounds: no event that does not
\* touch another is left behind by its main event, nor paused when no pause is in force.
THEOREM NoneOutlivesMain == Spec => []EventsFollowMain
<1>1. IInv => EventsFollowMain
  <2> SUFFICES ASSUME IInv
               PROVE  EventsFollowMain
    OBVIOUS
  <2>1. object.pauseCount > 0 => object.main # None /\ object.st[object.main] = "PAUSED" /\ player # "playing"
    BY DEF IInv, InStep, PausedRight
  <2>2. ASSUME Smooth, NEW e \in Events, ~Touching(e)
        PROVE  /\ Asleep(object) => object.st[e] = "SLEEPING"
               /\ object.pauseCount = 0 => object.st[e] # "PAUSED"
    <3>1. Follows(object, e) /\ (object.main # None => Playing)
      BY <2>2 DEF IInv, SmoothInv
    <3>2. Asleep(object) => object.main = None
      BY <3>1 DEF IInv, InStep
    <3> QED
      BY <3>1, <3>2 DEF Follows
  <2> QED
    BY <2>1, <2>2 DEF EventsFollowMain, Main
<1> QED
  BY <1>1, Invariance, PTL

\* NothingEarly, for any areas, explicit duration and bounds: a step begins no area
\* before its time on the player's clock or at the offset of the start.
THEOREM NoneBeginsEarly == Spec => NothingEarly
<1>1. IInv /\ [Next]_vars => [NoneEarly]_vars
  BY NextKeeps
<1>2. IInv /\ [Next]_vars =>
          [\A e \in Areas :
              (object.st[e] = "SLEEPING" /\ object'.st[e] = "OCCURRING" /\ ~stale')
                  => Begin[e] <= clock \/ Begin[e] <= object'.offset]_vars
  BY <1>1 DEF NoneEarly
<1> QED
  BY <1>2, Invariance, PTL DEF Spec, NothingEarly
=============================================================================
