-------------------------- MODULE LoginPathProofs --------------------------
(***************************************************************************)
(* The rate limiter gives every client its own quota, and the login        *)
(* throttle bounds the guesses at an identity, for every number of         *)
(* clients, proxies and attempts, every limit and every length of the      *)
(* window and of a lockout.                                                *)
(***************************************************************************)
EXTENDS LoginPath, FiniteSetTheorems, SequenceTheorems, TLAPS

-----------------------------------------------------------------------------
(***************************************************************************)
(* What PopPast leaves of a sequence of ages, the oldest first.            *)
(***************************************************************************)
Declining(ages) == \A i, j \in 1..Len(ages) : i < j => ages[j] <= ages[i]

(***************************************************************************)
(* A set of naturals that is not empty has a least element.                *)
(***************************************************************************)
LEMMA LeastExists ==
  ASSUME NEW S, S \subseteq Nat, S # {}
  PROVE  \E m \in S : \A x \in S : m <= x
<1>1. PICK m \in S : \A x \in S : ~(<<x, m>> \in OpToRel(<, Nat))
  BY NatLessThanWellFounded, WFMin
<1>2. ASSUME NEW x \in S PROVE m <= x
  <2>1. x \in Nat /\ m \in Nat
    OBVIOUS
  <2>2. x < m => <<x, m>> \in OpToRel(<, Nat)
    BY <2>1 DEF OpToRel
  <2>3. ~(x < m)
    BY <1>1, <2>2, Zenon
  <2>4. QED
    BY <2>1, <2>3
<1>3. QED
  BY <1>2

(***************************************************************************)
(* Min is a lower bound that belongs to the set.                           *)
(***************************************************************************)
LEMMA MinIs ==
  ASSUME NEW S, S \subseteq Int, NEW m \in S, \A x \in S : m <= x
  PROVE  Min(S) = m
<1> DEFINE x == Min(S)
<1>1. x \in S /\ \A y \in S : x <= y
  BY Zenon DEF Min
<1> HIDE DEF x
<1>2. x = m
  BY <1>1
<1>3. QED
  BY <1>2 DEF x

(***************************************************************************)
(* Max is an upper bound that belongs to the set.                          *)
(***************************************************************************)
LEMMA MaxIs ==
  ASSUME NEW S, S \subseteq Int, NEW m \in S, \A x \in S : x <= m
  PROVE  Max(S) = m
<1> DEFINE x == Max(S)
<1>1. x \in S /\ \A y \in S : x >= y
  <2>1. \A y \in S : m >= y
    OBVIOUS
  <2>2. QED
    BY <2>1, Zenon DEF Max
<1> HIDE DEF x
<1>2. x = m
  BY <1>1
<1>3. QED
  BY <1>2 DEF x

(***************************************************************************)
(* PopPast drops the first k ages when those are past the bound and the    *)
(* next one is not.                                                        *)
(***************************************************************************)
LEMMA PopPastIs ==
  ASSUME NEW ages \in Seq(Int), NEW bound \in Int, NEW k \in 0..Len(ages),
         \A i \in 1..k : ages[i] > bound,
         k < Len(ages) => ages[k + 1] <= bound
  PROVE  PopPast(ages, bound) = SubSeq(ages, k + 1, Len(ages))
<1> DEFINE S == {i \in DOMAIN ages : ages[i] <= bound} \cup {Len(ages) + 1}
<1>1. Len(ages) \in Nat /\ DOMAIN ages = 1..Len(ages)
  BY LenProperties
<1>2. S \subseteq Int
  BY <1>1
<1>3. k + 1 \in S
  BY <1>1
<1>4. ASSUME NEW x \in S PROVE k + 1 <= x
  BY <1>1
<1>5. Min(S) = k + 1
  <2> HIDE DEF S
  <2> QED
    BY <1>2, <1>3, <1>4, MinIs
<1>6. QED
  BY <1>5 DEF PopPast

(***************************************************************************)
(* What is left of declining ages, element by element.                     *)
(***************************************************************************)
LEMMA Popped ==
  ASSUME NEW ages \in Seq(Int), NEW bound \in Int, Declining(ages)
  PROVE  \E k \in 0..Len(ages) :
            /\ PopPast(ages, bound) \in Seq(Int)
            /\ Len(PopPast(ages, bound)) = Len(ages) - k
            /\ \A i \in 1..(Len(ages) - k) : PopPast(ages, bound)[i] = ages[i + k]
            /\ \A i \in 1..k : ages[i] > bound
            /\ \A i \in (k + 1)..Len(ages) : ages[i] <= bound
<1> DEFINE S == {i \in DOMAIN ages : ages[i] <= bound} \cup {Len(ages) + 1}
<1>1. Len(ages) \in Nat /\ DOMAIN ages = 1..Len(ages)
      /\ \A i \in 1..Len(ages) : ages[i] \in Int
  BY LenProperties, ElementOfSeq
<1>2. S \subseteq Nat /\ S # {}
  BY <1>1
<1>3. PICK m \in S : \A x \in S : m <= x
  <2> HIDE DEF S
  <2> QED
    BY <1>2, LeastExists
<1> DEFINE k == m - 1
<1>4. k \in 0..Len(ages) /\ m = k + 1
  BY <1>1, <1>3
<1>5. ASSUME NEW i \in 1..k PROVE ages[i] > bound
  BY <1>1, <1>3, <1>4
<1>6. k < Len(ages) => ages[k + 1] <= bound
  BY <1>1, <1>3, <1>4
<1>7. ASSUME NEW i \in (k + 1)..Len(ages) PROVE ages[i] <= bound
  BY <1>1, <1>4, <1>6 DEF Declining
<1> HIDE DEF k, S
<1>8. PopPast(ages, bound) = SubSeq(ages, k + 1, Len(ages))
  BY <1>4, <1>5, <1>6, PopPastIs
<1>9. /\ SubSeq(ages, k + 1, Len(ages)) \in Seq(Int)
      /\ Len(SubSeq(ages, k + 1, Len(ages))) = Len(ages) - k
      /\ \A i \in 1..(Len(ages) - k) : SubSeq(ages, k + 1, Len(ages))[i] = ages[i + k]
  <2>1. \A i \in (k + 1)..Len(ages) : ages[i] \in Int
    BY <1>1, <1>4
  <2>2. k + 1 \in Int /\ Len(ages) \in Int /\ Len(ages) - (k + 1) + 1 = Len(ages) - k
    BY <1>1, <1>4
  <2> DEFINE n == Len(ages)
  <2>5. (IF k + 1 <= n THEN n - (k + 1) + 1 ELSE 0) = n - k
    <3>1. n \in Nat /\ k \in 0..n
      BY <1>1, <1>4
    <3> HIDE DEF n
    <3>2. QED
      BY <3>1
  <2>3. \A i \in 1..(Len(ages) - k) : (k + 1) + i - 1 = i + k
    BY <1>1, <1>4
  <2>4. QED
    BY <2>1, <2>2, <2>3, <2>5, SubSeqProperties
<1>10. QED
  BY <1>4, <1>5, <1>7, <1>8, <1>9

(***************************************************************************)
(* What is left declines, is within the bound, and is no longer.           *)
(***************************************************************************)
LEMMA PopPastDeclines ==
  ASSUME NEW ages \in Seq(Nat), NEW bound \in Nat, Declining(ages)
  PROVE  /\ PopPast(ages, bound) \in Seq(0..bound)
         /\ Declining(PopPast(ages, bound))
         /\ Len(PopPast(ages, bound)) <= Len(ages)
<1>1. ages \in Seq(Int)
  BY SeqMonotonic, Nat \subseteq Int, Zenon
<1>2. Len(ages) \in Nat /\ \A i \in 1..Len(ages) : ages[i] \in Nat
  BY LenProperties, ElementOfSeq
<1>3. PICK k \in 0..Len(ages) :
            /\ PopPast(ages, bound) \in Seq(Int)
            /\ Len(PopPast(ages, bound)) = Len(ages) - k
            /\ \A i \in 1..(Len(ages) - k) : PopPast(ages, bound)[i] = ages[i + k]
            /\ \A i \in 1..k : ages[i] > bound
            /\ \A i \in (k + 1)..Len(ages) : ages[i] <= bound
  <2>1. bound \in Int
    OBVIOUS
  <2>2. QED
    BY <1>1, <2>1, Popped
<1> DEFINE p == PopPast(ages, bound)
<1>4. Len(p) \in Nat /\ Len(p) <= Len(ages)
  BY <1>2, <1>3
<1>5. ASSUME NEW i \in 1..Len(p) PROVE p[i] = ages[i + k] /\ i + k \in (k + 1)..Len(ages)
  BY <1>2, <1>3
<1>6. Declining(p)
  <2> SUFFICES ASSUME NEW i \in 1..Len(p), NEW j \in 1..Len(p), i < j
               PROVE  p[j] <= p[i]
    BY DEF Declining
  <2>1. ages[j + k] <= ages[i + k]
    <3>1. i + k \in 1..Len(ages) /\ j + k \in 1..Len(ages) /\ i + k < j + k
      BY <1>2, <1>3
    <3>2. QED
      BY <3>1 DEF Declining
  <2>2. QED
    BY <1>5, <2>1
<1>7. p \in Seq(0..bound)
  <2>1. p \in Seq(Int)
    BY <1>3
  <2> HIDE DEF p
  <2>2. p = [i \in 1..Len(p) |-> p[i]]
    BY <2>1, LenProperties
  <2>3. \A i \in 1..Len(p) : p[i] \in 0..bound
    <3> TAKE i \in 1..Len(p)
    <3>1. p[i] = ages[i + k] /\ i + k \in (k + 1)..Len(ages) /\ i + k \in 1..Len(ages)
      BY <1>2, <1>4, <1>5
    <3>2. ages[i + k] \in Nat /\ ages[i + k] <= bound
      BY <1>2, <1>3, <3>1
    <3>3. QED
      BY <3>1, <3>2
  <2>4. [i \in 1..Len(p) |-> p[i]] \in Seq(0..bound)
    BY <1>4, <2>3, IsASeq
  <2>5. QED
    BY <2>2, <2>4
<1>8. QED
  BY <1>4, <1>6, <1>7

(***************************************************************************)
(* Nothing is dropped when everything is within the bound, and everything  *)
(* when nothing is.                                                        *)
(***************************************************************************)
LEMMA PopNone ==
  ASSUME NEW ages \in Seq(Int), NEW bound \in Int,
         \A i \in 1..Len(ages) : ages[i] <= bound
  PROVE  PopPast(ages, bound) = ages
<1>1. Len(ages) \in Nat
  BY LenProperties
<1>2. PopPast(ages, bound) = SubSeq(ages, 0 + 1, Len(ages))
  BY <1>1, PopPastIs
<1>3. QED
  BY <1>2, SubSeqFull

LEMMA PopAll ==
  ASSUME NEW ages \in Seq(Int), NEW bound \in Int,
         \A i \in 1..Len(ages) : ages[i] > bound
  PROVE  PopPast(ages, bound) = <<>>
<1>1. Len(ages) \in Nat
  BY LenProperties
<1>2. PopPast(ages, bound) = SubSeq(ages, Len(ages) + 1, Len(ages))
  BY <1>1, PopPastIs
<1>3. QED
  BY <1>1, <1>2, SubSeqEmpty
-----------------------------------------------------------------------------
(***************************************************************************)
(* Appending to a sequence of ages, and letting it age.                    *)
(***************************************************************************)
LEMMA AppendDeclines ==
  ASSUME NEW top \in Nat, NEW ages \in Seq(0..top), Declining(ages)
  PROVE  /\ Append(ages, 0) \in Seq(0..top)
         /\ Declining(Append(ages, 0))
<1>1. /\ Append(ages, 0) \in Seq(0..top)
      /\ Len(Append(ages, 0)) = Len(ages) + 1
      /\ \A i \in 1..Len(ages) : Append(ages, 0)[i] = ages[i]
      /\ Append(ages, 0)[Len(ages) + 1] = 0
  <2>1. 0 \in 0..top
    OBVIOUS
  <2>2. QED
    BY <2>1, AppendProperties
<1>2. Len(ages) \in Nat /\ \A i \in 1..Len(ages) : ages[i] \in 0..top
  BY LenProperties, ElementOfSeq
<1> DEFINE longer == Append(ages, 0)
<1>3. ASSUME NEW i \in 1..Len(longer), NEW j \in 1..Len(longer), i < j
      PROVE  longer[j] <= longer[i]
  <2> HIDE DEF longer
  <2>0. /\ Len(longer) = Len(ages) + 1
        /\ \A n \in 1..Len(ages) : longer[n] = ages[n]
        /\ longer[Len(ages) + 1] = 0
    BY <1>1 DEF longer
  <2>1. i \in 1..Len(ages)
    BY <1>2, <1>3, <2>0
  <2>2. CASE j \in 1..Len(ages)
    BY <1>3, <2>0, <2>1, <2>2 DEF Declining
  <2>3. CASE j = Len(ages) + 1
    BY <1>2, <2>0, <2>1, <2>3
  <2>4. QED
    BY <1>2, <2>0, <2>2, <2>3
<1>4. QED
  BY <1>1, <1>3 DEF Declining

(***************************************************************************)
(* A sequence whose elements are all one older.                            *)
(***************************************************************************)
LEMMA AgedSequence ==
  ASSUME NEW top \in Nat, NEW ages \in Seq(0..top), Declining(ages)
  PROVE  LET aged == [i \in DOMAIN ages |-> ages[i] + 1]
         IN  /\ aged \in Seq(Nat)
             /\ Len(aged) = Len(ages)
             /\ \A i \in 1..Len(ages) : aged[i] = ages[i] + 1
             /\ Declining(aged)
<1> DEFINE aged == [i \in DOMAIN ages |-> ages[i] + 1]
           Goal == /\ aged \in Seq(Nat)
                   /\ Len(aged) = Len(ages)
                   /\ \A i \in 1..Len(ages) : aged[i] = ages[i] + 1
                   /\ Declining(aged)
<1> SUFFICES Goal
  OBVIOUS
<1>1. Len(ages) \in Nat /\ DOMAIN ages = 1..Len(ages)
      /\ \A i \in 1..Len(ages) : ages[i] \in 0..top
  BY LenProperties, ElementOfSeq
<1>2. aged = [i \in 1..Len(ages) |-> ages[i] + 1]
  BY <1>1
<1>3. \A i \in 1..Len(ages) : ages[i] + 1 \in Nat
  BY <1>1
<1>4. aged \in Seq(Nat)
  BY <1>1, <1>2, <1>3, IsASeq
<1>5. DOMAIN aged = 1..Len(ages) /\ \A i \in 1..Len(ages) : aged[i] = ages[i] + 1
  BY <1>1
<1> HIDE DEF aged
<1>6. Len(aged) = Len(ages)
  BY <1>1, <1>4, <1>5, LenProperties
<1>7. Declining(aged)
  BY <1>1, <1>5, <1>6 DEF Declining
<1>8. QED
  BY <1>4, <1>5, <1>6, <1>7

(***************************************************************************)
(* After a tick, what is left of the ages is the end of what there was.    *)
(***************************************************************************)
LEMMA AgeWithinIs ==
  ASSUME NEW top \in Nat, NEW ages \in Seq(0..top), Declining(ages), NEW bound \in Nat
  PROVE  /\ AgeWithin(ages, bound) \in Seq(0..bound)
         /\ Declining(AgeWithin(ages, bound))
         /\ \E k \in 0..Len(ages) :
               /\ Len(AgeWithin(ages, bound)) = Len(ages) - k
               /\ \A i \in 1..(Len(ages) - k) :
                     AgeWithin(ages, bound)[i] = ages[i + k] + 1
               /\ \A i \in 1..k : ages[i] + 1 > bound
               /\ \A i \in (k + 1)..Len(ages) : ages[i] + 1 <= bound
<1> DEFINE aged == [i \in DOMAIN ages |-> ages[i] + 1]
<1>0. Len(ages) \in Nat
  BY LenProperties
<1>1. /\ aged \in Seq(Nat)
      /\ Len(aged) = Len(ages)
      /\ \A i \in 1..Len(ages) : aged[i] = ages[i] + 1
      /\ Declining(aged)
  BY AgedSequence
<1>2. AgeWithin(ages, bound) = PopPast(aged, bound)
  BY DEF AgeWithin
<1> HIDE DEF aged
<1>3. aged \in Seq(Int)
  BY <1>1, SeqMonotonic, Nat \subseteq Int, Zenon
<1>4. PICK k \in 0..Len(aged) :
            /\ Len(PopPast(aged, bound)) = Len(aged) - k
            /\ \A i \in 1..(Len(aged) - k) : PopPast(aged, bound)[i] = aged[i + k]
            /\ \A i \in 1..k : aged[i] > bound
            /\ \A i \in (k + 1)..Len(aged) : aged[i] <= bound
  <2>1. bound \in Int
    OBVIOUS
  <2>2. QED
    BY <1>1, <1>3, <2>1, Popped
<1>5. PopPast(aged, bound) \in Seq(0..bound) /\ Declining(PopPast(aged, bound))
  BY <1>1, PopPastDeclines
<1>6. k \in 0..Len(ages) /\ \A i \in 1..(Len(ages) - k) : i + k \in 1..Len(ages)
  BY <1>0, <1>1
<1>7. \A i \in 1..(Len(ages) - k) : PopPast(aged, bound)[i] = ages[i + k] + 1
  BY <1>1, <1>4, <1>6
<1>8. \A i \in 1..k : ages[i] + 1 > bound
  <2> TAKE i \in 1..k
  <2>1. i \in 1..Len(ages)
    BY <1>0, <1>6
  <2>2. QED
    BY <1>1, <1>4, <2>1
<1>9. \A i \in (k + 1)..Len(ages) : ages[i] + 1 <= bound
  <2> TAKE i \in (k + 1)..Len(ages)
  <2>1. i \in 1..Len(ages)
    BY <1>0, <1>6
  <2>2. QED
    BY <1>1, <1>4, <2>1
<1>10. Len(PopPast(aged, bound)) = Len(ages) - k
  BY <1>1, <1>4
<1>11. QED
  BY <1>2, <1>5, <1>6, <1>7, <1>8, <1>9, <1>10

(***************************************************************************)
(* Older ages decline too.                                                 *)
(***************************************************************************)
LEMMA OlderDeclines ==
  ASSUME NEW ages \in Seq(0..(Window + 1)), Declining(ages)
  PROVE  /\ Older(ages) \in Seq(0..(Window + 1))
         /\ Len(Older(ages)) = Len(ages)
         /\ \A i \in 1..Len(ages) :
               Older(ages)[i] = IF ages[i] <= Window THEN ages[i] + 1 ELSE ages[i]
         /\ Declining(Older(ages))
<1> DEFINE e(i) == IF ages[i] <= Window THEN ages[i] + 1 ELSE ages[i]
           older == Older(ages)
<1>0. Window \in Nat
  BY LimiterAssumption
<1>1. Len(ages) \in Nat /\ DOMAIN ages = 1..Len(ages)
      /\ \A i \in 1..Len(ages) : ages[i] \in 0..(Window + 1)
  BY LenProperties, ElementOfSeq
<1>2. older = [i \in 1..Len(ages) |-> e(i)]
  BY <1>1 DEF Older
<1>3. \A i \in 1..Len(ages) : e(i) \in 0..(Window + 1)
  BY <1>0, <1>1
<1>4. older \in Seq(0..(Window + 1))
  <2> HIDE DEF e
  <2> QED
    BY <1>1, <1>2, <1>3, IsASeq
<1>5. DOMAIN older = 1..Len(ages) /\ \A i \in 1..Len(ages) : older[i] = e(i)
  BY <1>2
<1> HIDE DEF older
<1>6. Len(older) = Len(ages)
  BY <1>1, <1>4, <1>5, LenProperties
<1>7. ASSUME NEW i \in 1..Len(older), NEW j \in 1..Len(older), i < j
      PROVE  older[j] <= older[i]
  <2>1. ages[i] \in 0..(Window + 1) /\ ages[j] \in 0..(Window + 1) /\ ages[j] <= ages[i]
    BY <1>1, <1>6, <1>7 DEF Declining
  <2>2. older[i] = e(i) /\ older[j] = e(j)
    BY <1>5, <1>6
  <2>3. QED
    BY <1>0, <2>1, <2>2
<1>8. QED
  BY <1>4, <1>5, <1>6, <1>7 DEF Declining, older

(***************************************************************************)
(* What a client was let through for and what counts against it age alike, *)
(* although the deque keeps what has left the window until it is looked at.*)
(***************************************************************************)
LEMMA WindowTick ==
  ASSUME NEW ages \in Seq(0..(Window + 1)), Declining(ages)
  PROVE  InWindow(Older(ages)) = AgeWithin(InWindow(ages), Window)
<1> DEFINE older == Older(ages)
           s == InWindow(ages)
           t == AgeWithin(s, Window)
<1>0. Window \in Nat /\ Window \in Int /\ 0..(Window + 1) \subseteq Nat /\ 0..(Window + 1) \subseteq Int
  BY LimiterAssumption
<1>1. Len(ages) \in Nat /\ \A i \in 1..Len(ages) : ages[i] \in 0..(Window + 1)
  BY LenProperties, ElementOfSeq
<1>2. ages \in Seq(Int) /\ ages \in Seq(Nat)
  BY <1>0, SeqMonotonic
<1>3. PICK k \in 0..Len(ages) :
            /\ Len(s) = Len(ages) - k
            /\ \A i \in 1..(Len(ages) - k) : s[i] = ages[i + k]
            /\ \A i \in 1..k : ages[i] > Window
            /\ \A i \in (k + 1)..Len(ages) : ages[i] <= Window
  BY <1>0, <1>2, Popped DEF InWindow
<1>4. s \in Seq(0..Window) /\ Declining(s)
  BY <1>0, <1>2, PopPastDeclines DEF InWindow
<1>5. /\ older \in Seq(0..(Window + 1))
      /\ Len(older) = Len(ages)
      /\ \A i \in 1..Len(ages) :
            older[i] = IF ages[i] <= Window THEN ages[i] + 1 ELSE ages[i]
      /\ Declining(older)
  BY OlderDeclines
<1> HIDE DEF s, older
<1>6. /\ t \in Seq(0..Window)
      /\ \E m \in 0..Len(s) :
               /\ Len(t) = Len(s) - m
               /\ \A i \in 1..(Len(s) - m) : t[i] = s[i + m] + 1
               /\ \A i \in 1..m : s[i] + 1 > Window
               /\ \A i \in (m + 1)..Len(s) : s[i] + 1 <= Window
  BY <1>0, <1>4, AgeWithinIs
<1>7. PICK m \in 0..Len(s) :
               /\ Len(t) = Len(s) - m
               /\ \A i \in 1..(Len(s) - m) : t[i] = s[i + m] + 1
               /\ \A i \in 1..m : s[i] + 1 > Window
               /\ \A i \in (m + 1)..Len(s) : s[i] + 1 <= Window
  BY <1>6
<1> HIDE DEF t
<1> DEFINE n == k + m
<1>8. n \in 0..Len(older) /\ k \in Nat /\ m \in Nat /\ Len(s) = Len(ages) - k
  BY <1>1, <1>3, <1>5
<1>9. ASSUME NEW i \in 1..n PROVE older[i] > Window
  <2>1. i \in 1..Len(ages)
    BY <1>1, <1>5, <1>8
  <2>2. older[i] = IF ages[i] <= Window THEN ages[i] + 1 ELSE ages[i]
    BY <1>5, <2>1
  <2>3. CASE i \in 1..k
    <3>1. ages[i] > Window
      BY <1>3, <2>3
    <3>2. QED
      BY <1>0, <1>1, <2>1, <2>2, <3>1
  <2>4. CASE i \in (k + 1)..n
    <3>1. i - k \in 1..m /\ i - k \in 1..(Len(ages) - k) /\ (i - k) + k = i
      BY <1>1, <1>8, <2>1, <2>4
    <3>2. s[i - k] = ages[i] /\ s[i - k] + 1 > Window
      BY <1>3, <1>7, <3>1
    <3>3. QED
      BY <1>0, <1>1, <2>1, <2>2, <3>2
  <2>5. QED
    BY <1>8, <2>3, <2>4
<1>10. ASSUME NEW i \in (n + 1)..Len(ages)
       PROVE  older[i] = ages[i] + 1 /\ older[i] <= Window /\ older[i] = t[i - n]
  <2>1. i \in 1..Len(ages) /\ i \in (k + 1)..Len(ages)
    BY <1>1, <1>8
  <2>2. ages[i] <= Window
    BY <1>3, <2>1
  <2>3. older[i] = ages[i] + 1
    BY <1>5, <2>1, <2>2
  <2>4. i - k \in (m + 1)..Len(s) /\ i - k \in 1..(Len(ages) - k) /\ (i - k) + k = i
        /\ i - n \in 1..(Len(s) - m) /\ (i - n) + m = i - k
    BY <1>1, <1>8
  <2>5. s[i - k] = ages[i] /\ s[i - k] + 1 <= Window
    BY <1>3, <1>7, <2>4
  <2>6. t[i - n] = s[i - k] + 1
    BY <1>7, <2>4
  <2>7. QED
    BY <2>3, <2>5, <2>6
<1> HIDE DEF n
<1>11. older \in Seq(Int)
  BY <1>0, <1>5, SeqMonotonic
<1>12. n < Len(older) => older[n + 1] <= Window
  <2> SUFFICES ASSUME n < Len(older) PROVE older[n + 1] <= Window
    OBVIOUS
  <2>1. n + 1 \in (n + 1)..Len(ages)
    BY <1>1, <1>5, <1>8
  <2>2. QED
    BY <1>10, <2>1
<1>13. InWindow(older) = SubSeq(older, n + 1, Len(older))
  BY <1>0, <1>8, <1>9, <1>11, <1>12, PopPastIs DEF InWindow
<1> DEFINE u == SubSeq(older, n + 1, Len(older))
<1>14. /\ u \in Seq(Int)
       /\ Len(u) = IF n + 1 <= Len(older) THEN Len(older) - (n + 1) + 1 ELSE 0
       /\ \A i \in 1..(Len(older) - (n + 1) + 1) : u[i] = older[(n + 1) + i - 1]
  <2>1. \A i \in (n + 1)..Len(older) : older[i] \in Int
    <3> TAKE i \in (n + 1)..Len(older)
    <3>1. i \in 1..Len(older)
      BY <1>1, <1>5, <1>8
    <3>2. QED
      BY <1>11, <3>1, ElementOfSeq
  <2>2. n + 1 \in Int /\ Len(older) \in Int
    BY <1>1, <1>5, <1>8
  <2>3. QED
    BY <2>1, <2>2, SubSeqProperties
<1> HIDE DEF u
<1>15. Len(t) = Len(ages) - n /\ Len(u) = Len(ages) - n
  <2>1. Len(t) = Len(ages) - n
    BY <1>1, <1>7, <1>8 DEF n
  <2>2. Len(u) = Len(ages) - n
    BY <1>1, <1>5, <1>8, <1>14
  <2>3. QED
    BY <2>1, <2>2
<1>16. ASSUME NEW i \in 1..Len(u) PROVE u[i] = t[i]
  <2>1. i + n \in (n + 1)..Len(ages) /\ (i + n) - n = i /\ (n + 1) + i - 1 = i + n
        /\ i \in 1..(Len(older) - (n + 1) + 1)
    BY <1>1, <1>5, <1>8, <1>15
  <2>2. u[i] = older[i + n]
    BY <1>14, <2>1
  <2>3. QED
    BY <1>10, <2>1, <2>2
<1>17. t \in Seq(Int)
  BY <1>0, <1>6, SeqMonotonic, 0..Window \subseteq Int
<1>18. u = t
  BY <1>14, <1>15, <1>16, <1>17, SeqEqual
<1>19. QED
  BY <1>13, <1>18 DEF u, t, s, older

-----------------------------------------------------------------------------
(***************************************************************************)
(* resolve_client_ip sees through the proxies: whatever header a client    *)
(* makes up and whatever proxies its request comes through, the address    *)
(* its requests are counted under is its own.                              *)
(***************************************************************************)
LEMMA ResolveSeesOrigin ==
  ASSUME NEW o \in Origin, NEW header \in MadeUpHeader, NEW path \in ProxyPath
  PROVE  LET route == Route(o, header, path)
         IN  ResolveClientIp(route.peer, route.forwarded) = o
<1> DEFINE route == Route(o, header, path)
           networks == ParseNetworks(TrustedProxies)
           Hop == Origin \cup Proxy \cup {Garbage}
           Goal == ResolveClientIp(route.peer, route.forwarded) = o
<1> SUFFICES Goal
  OBVIOUS
<1>1. /\ ~IsTrusted(o, networks)
      /\ o # NoAddress
      /\ \A p \in Proxy : IsTrusted(p, networks) /\ p # NoAddress
  BY AddressAssumption DEF IsTrusted, ParseNetworks
<1>2. header \in Seq(Hop)
  <2>1. PICK n \in Nat : header \in [1..n -> Hop]
    BY AddressAssumption DEF MadeUpHeader, BoundedSeq, SeqOf
  <2>2. QED
    BY <2>1
<1>3. path \in Seq(Proxy)
  <2>1. PICK n \in Nat : path \in [1..n -> Proxy]
    BY AddressAssumption DEF ProxyPath, BoundedSeq, SeqOf
  <2>2. QED
    BY <2>1
<1>4. Len(header) \in Nat /\ Len(path) \in Nat /\ \A i \in 1..Len(path) : path[i] \in Proxy
  BY <1>2, <1>3, LenProperties, ElementOfSeq
<1>5. CASE path = <<>>
  <2>1. route.peer = o
    BY <1>5 DEF Route, Last
  <2>2. QED
    BY <1>1, <2>1 DEF ResolveClientIp
<1>6. CASE path # <<>>
  <2> DEFINE front == Front(path)
             way == (header \o <<o>>) \o front
             own == Len(header) + 1
             others == {i \in DOMAIN way : ~IsTrusted(way[i], networks)}
  <2>1. Len(path) > 0
    BY <1>3, <1>4, <1>6, EmptySeq
  <2>2. route.peer \in Proxy
    <3>1. route.peer = Last(<<o>> \o path)
      BY DEF Route
    <3>2. <<o>> \in Seq(Hop) /\ path \in Seq(Hop) /\ Len(<<o>>) = 1
      BY <1>3, SeqMonotonic
    <3>3. /\ Len(<<o>> \o path) = 1 + Len(path)
          /\ (<<o>> \o path)[1 + Len(path)] = path[Len(path)]
      <4>1. 1 + Len(path) \in 1..(Len(<<o>>) + Len(path)) /\ ~(1 + Len(path) <= Len(<<o>>))
            /\ (1 + Len(path)) - Len(<<o>>) = Len(path)
        BY <1>4, <2>1, <3>2
      <4>2. QED
        BY <3>2, <4>1, ConcatProperties
    <3>4. QED
      BY <1>4, <2>1, <3>1, <3>3 DEF Last
  <2>3. route.forwarded = way
    BY <1>6 DEF Route
  <2>4. front \in Seq(Proxy) /\ Len(front) = Len(path) - 1
        /\ \A i \in 1..Len(front) : front[i] \in Proxy
    <3>1. \A i \in 1..(Len(path) - 1) : path[i] \in Proxy
      BY <1>4
    <3>2. front \in Seq(Proxy) /\ Len(front) = Len(path) - 1
      <4>1. front = SubSeq(path, 1, Len(path) - 1)
        BY DEF Front
      <4>2. /\ SubSeq(path, 1, Len(path) - 1) \in Seq(Proxy)
            /\ Len(SubSeq(path, 1, Len(path) - 1)) =
                 IF 1 <= Len(path) - 1 THEN (Len(path) - 1) - 1 + 1 ELSE 0
        BY <1>4, <3>1, SubSeqProperties
      <4> DEFINE n == Len(path)
      <4>3. (IF 1 <= n - 1 THEN (n - 1) - 1 + 1 ELSE 0) = n - 1
        <5>1. n \in Nat /\ n > 0
          BY <1>4, <2>1
        <5> HIDE DEF n
        <5>2. QED
          BY <5>1
      <4>4. QED
        BY <4>1, <4>2, <4>3
    <3>3. QED
      BY <3>2, ElementOfSeq
  <2>5. front \in Seq(Hop) /\ <<o>> \in Seq(Hop) /\ Len(<<o>>) = 1 /\ <<o>>[1] = o
    BY <2>4, SeqMonotonic
  <2> HIDE DEF front
  <2>6. /\ header \o <<o>> \in Seq(Hop)
        /\ Len(header \o <<o>>) = own
        /\ (header \o <<o>>)[own] = o
    <3>1. own \in 1..(Len(header) + Len(<<o>>)) /\ ~(own <= Len(header))
          /\ own - Len(header) = 1
      BY <1>4, <2>5
    <3>2. QED
      BY <1>2, <2>5, <3>1, ConcatProperties
  <2>7. /\ way \in Seq(Hop)
        /\ Len(way) = own + Len(front)
        /\ \A i \in 1..(own + Len(front)) :
              way[i] = IF i <= own THEN (header \o <<o>>)[i] ELSE front[i - own]
    BY <2>5, <2>6, ConcatProperties
  <2>8. way[own] = o /\ own \in DOMAIN way /\ DOMAIN way = 1..(own + Len(front))
    <3>1. own \in 1..(own + Len(front)) /\ own <= own
      BY <1>4, <2>1, <2>4
    <3>2. QED
      BY <2>6, <2>7, <3>1, LenProperties
  <2>9. \A i \in 1..(own + Len(front)) : i > own => way[i] \in Proxy
    <3> TAKE i \in 1..(own + Len(front))
    <3> HAVE i > own
    <3>1. i - own \in 1..Len(front) /\ ~(i <= own)
      BY <1>4, <2>1, <2>4
    <3>2. way[i] = front[i - own]
      BY <2>7, <3>1
    <3>3. QED
      BY <2>4, <3>1, <3>2
  <2> HIDE DEF way
  <2>10. others \subseteq Int /\ own \in others /\ \A i \in others : i <= own
    BY <1>1, <1>4, <2>8, <2>9
  <2>11. Max(others) = own
    <3> HIDE DEF others
    <3> QED
      BY <2>10, MaxIs
  <2>12. ResolveClientIp(route.peer, way) = way[own]
    <3>1. others # {} /\ IsTrusted(route.peer, networks) /\ route.peer # NoAddress
      BY <1>1, <2>2, <2>10
    <3>2. QED
      BY <2>11, <3>1 DEF ResolveClientIp
  <2>13. QED
    BY <2>3, <2>8, <2>12
<1>7. QED
  BY <1>5, <1>6

LEMMA ClientIsCaller ==
  ASSUME NEW o \in Caller, NEW c \in ClientsOf(o)
  PROVE  c = o
<1>1. PICK route \in RoutesFrom(o) : c = Client(route)
  BY DEF ClientsOf
<1>2. CASE o = Unknown
  <2>1. route.peer = NoAddress
    BY <1>1, <1>2 DEF RoutesFrom
  <2>2. QED
    BY <1>1, <1>2, <2>1 DEF Client, ResolveClientIp
<1>3. CASE o # Unknown
  <2>1. o \in Origin /\ o # NoAddress
    BY <1>3, AddressAssumption DEF Caller
  <2>2. PICK header \in MadeUpHeader, path \in ProxyPath : route = Route(o, header, path)
    BY <1>1, <1>3 DEF RoutesFrom
  <2>3. ResolveClientIp(route.peer, route.forwarded) = o
    BY <2>1, <2>2, ResolveSeesOrigin
  <2>4. QED
    BY <1>1, <2>1, <2>3 DEF Client
<1>4. QED
  BY <1>2, <1>3

-----------------------------------------------------------------------------
(***************************************************************************)
(* The table of hits: what it may hold, and what of it counts against a    *)
(* client.                                                                 *)
(***************************************************************************)
TableOK(table) ==
    /\ DOMAIN table \subseteq Caller
    /\ \A c \in DOMAIN table :
          /\ table[c] \in Seq(0..(Window + 1))
          /\ Len(table[c]) \in 1..Limit
          /\ Declining(table[c])

Counts(table, c) == InWindow(IF c \in DOMAIN table THEN table[c] ELSE <<>>)

LEMMA EmptyWindow ==
  /\ InWindow(<<>>) = <<>>
  /\ <<>> \in Seq(0..(Window + 1))
  /\ Declining(<<>>)
<1>1. <<>> \in Seq(Int) /\ Len(<<>>) = 0 /\ <<>> \in Seq(0..(Window + 1))
  BY EmptySeq
<1>2. Declining(<<>>)
  BY <1>1 DEF Declining
<1>3. \A i \in 1..Len(<<>>) : <<>>[i] <= Window
  BY <1>1
<1>4. PopPast(<<>>, Window) = <<>>
  BY <1>1, <1>3, PopNone, LimiterAssumption, Window \in Int
<1>5. QED
  BY <1>1, <1>2, <1>4 DEF InWindow

LEMMA WindowFacts ==
  ASSUME NEW ages \in Seq(0..(Window + 1)), Declining(ages)
  PROVE  /\ InWindow(ages) \in Seq(0..Window)
         /\ Declining(InWindow(ages))
         /\ Len(InWindow(ages)) <= Len(ages)
<1>1. Window \in Nat /\ 0..(Window + 1) \subseteq Nat
  BY LimiterAssumption
<1>2. ages \in Seq(Nat)
  BY <1>1, SeqMonotonic
<1>3. QED
  BY <1>1, <1>2, PopPastDeclines DEF InWindow

LEMMA CountsFacts ==
  ASSUME NEW table, TableOK(table), NEW c
  PROVE  /\ Counts(table, c) \in Seq(0..Window)
         /\ Declining(Counts(table, c))
         /\ Len(Counts(table, c)) <= Limit
<1>1. Limit \in Nat /\ Window \in Nat
  BY LimiterAssumption
<1>2. CASE c \in DOMAIN table
  <2>1. /\ table[c] \in Seq(0..(Window + 1))
        /\ Len(table[c]) \in 1..Limit
        /\ Declining(table[c])
    BY <1>2 DEF TableOK
  <2>2. Counts(table, c) = InWindow(table[c])
    BY <1>2 DEF Counts
  <2>3. /\ InWindow(table[c]) \in Seq(0..Window)
        /\ Declining(InWindow(table[c]))
        /\ Len(InWindow(table[c])) <= Len(table[c])
    BY <2>1, WindowFacts
  <2>4. Len(InWindow(table[c])) \in Nat
    BY <2>3, LenProperties
  <2>5. QED
    BY <1>1, <2>1, <2>2, <2>3, <2>4
<1>3. CASE c \notin DOMAIN table
  <2>1. Counts(table, c) = <<>>
    BY <1>3, EmptyWindow DEF Counts
  <2>2. <<>> \in Seq(0..Window) /\ Len(<<>>) = 0
    BY EmptySeq
  <2>3. QED
    BY <1>1, <2>1, <2>2, EmptyWindow
<1>4. QED
  BY <1>2, <1>3

LEMMA OverwriteCounts ==
  ASSUME NEW table, TableOK(table), NEW c \in Caller, NEW ages \in Seq(0..(Window + 1)),
         Declining(ages), Len(ages) \in 1..Limit
  PROVE  /\ TableOK(Overwrite(table, c, ages))
         /\ Counts(Overwrite(table, c, ages), c) = InWindow(ages)
         /\ \A d : d # c => Counts(Overwrite(table, c, ages), d) = Counts(table, d)
<1> DEFINE t == Overwrite(table, c, ages)
<1>1. /\ DOMAIN t = DOMAIN table \cup {c}
      /\ t[c] = ages
      /\ \A d \in DOMAIN table : d # c => t[d] = table[d]
  BY DEF Overwrite
<1> HIDE DEF t
<1>2. TableOK(t)
  BY <1>1 DEF TableOK
<1>3. Counts(t, c) = InWindow(ages)
  BY <1>1 DEF Counts
<1>4. ASSUME NEW d, d # c PROVE Counts(t, d) = Counts(table, d)
  BY <1>1, <1>4 DEF Counts
<1>5. QED
  BY <1>2, <1>3, <1>4 DEF t

(***************************************************************************)
(* _maybe_sweep drops no bucket that still counts: the newest hit is last. *)
(***************************************************************************)
LEMMA SweepCounts ==
  ASSUME NEW table, TableOK(table)
  PROVE  TableOK(Sweep(table)) /\ \A c : Counts(Sweep(table), c) = Counts(table, c)
<1> DEFINE t == Sweep(table)
           kept == {d \in DOMAIN table : table[d] # <<>> /\ Last(table[d]) <= Window}
<1>1. DOMAIN t = kept /\ \A c \in kept : t[c] = table[c]
  BY DEF Sweep
<1>2. kept \subseteq DOMAIN table
  OBVIOUS
<1> HIDE DEF t
<1>3. TableOK(t)
  <2> HIDE DEF kept
  <2> QED
    BY <1>1, <1>2 DEF TableOK
<1>4. ASSUME NEW c PROVE Counts(t, c) = Counts(table, c)
  <2>1. CASE c \in kept
    BY <1>1, <1>2, <2>1 DEF Counts
  <2>2. CASE c \notin DOMAIN table
    BY <1>1, <2>2 DEF Counts
  <2>3. CASE c \in DOMAIN table /\ c \notin kept
    <3> DEFINE ages == table[c]
               n == Len(ages)
    <3>1. ages \in Seq(0..(Window + 1)) /\ n \in 1..Limit /\ Declining(ages)
      BY <2>3 DEF TableOK
    <3>2. n \in Nat /\ n >= 1 /\ Window \in Nat
      BY <3>1, LimiterAssumption
    <3>3. ages # <<>> /\ ~(ages[n] <= Window)
      <4>1. ages # <<>>
        BY <3>1, <3>2, EmptySeq
      <4>2. QED
        BY <2>3, <4>1 DEF Last
    <3> HIDE DEF ages
    <3>4. \A i \in 1..n : ages[i] \in 0..(Window + 1)
      BY <3>1, ElementOfSeq
    <3>5. ASSUME NEW i \in 1..n PROVE ages[i] > Window
      <4>1. n \in 1..n
        BY <3>2
      <4>2. ages[n] <= ages[i]
        <5>1. CASE i = n
          BY <3>4, <4>1, <5>1
        <5>2. CASE i < n
          BY <3>1, <4>1, <5>2 DEF Declining
        <5>3. QED
          BY <3>2, <5>1, <5>2
      <4>3. QED
        BY <3>2, <3>3, <3>4, <4>1, <4>2
    <3>6. ages \in Seq(Int)
      BY <3>1, <3>2, SeqMonotonic, 0..(Window + 1) \subseteq Int
    <3>7. PopPast(ages, Window) = <<>>
      BY <3>2, <3>5, <3>6, PopAll, Window \in Int
    <3>8. Counts(table, c) = PopPast(ages, Window)
      BY <2>3 DEF Counts, InWindow, ages
    <3>9. Counts(t, c) = InWindow(<<>>)
      BY <1>1, <2>3 DEF Counts
    <3>10. QED
      BY <3>7, <3>8, <3>9, EmptyWindow
  <2>4. QED
    BY <2>1, <2>2, <2>3
<1>5. QED
  BY <1>3, <1>4 DEF t

(***************************************************************************)
(* Time takes from what counts against a client what leaves the window.    *)
(***************************************************************************)
LEMMA TickCounts ==
  ASSUME NEW table, TableOK(table)
  PROVE  LET older == [c \in DOMAIN table |-> Older(table[c])]
         IN  /\ TableOK(older)
             /\ \A c : Counts(older, c) = AgeWithin(Counts(table, c), Window)
<1> DEFINE older == [c \in DOMAIN table |-> Older(table[c])]
           Goal == /\ TableOK(older)
                   /\ \A c : Counts(older, c) = AgeWithin(Counts(table, c), Window)
<1> SUFFICES Goal
  OBVIOUS
<1>1. DOMAIN older = DOMAIN table /\ \A c \in DOMAIN table : older[c] = Older(table[c])
  OBVIOUS
<1> HIDE DEF older
<1>2. ASSUME NEW c \in DOMAIN table
      PROVE  /\ Older(table[c]) \in Seq(0..(Window + 1))
             /\ Len(Older(table[c])) \in 1..Limit
             /\ Declining(Older(table[c]))
             /\ InWindow(Older(table[c])) = AgeWithin(InWindow(table[c]), Window)
  <2>1. /\ table[c] \in Seq(0..(Window + 1))
        /\ Len(table[c]) \in 1..Limit
        /\ Declining(table[c])
    BY DEF TableOK
  <2>2. /\ Older(table[c]) \in Seq(0..(Window + 1))
        /\ Len(Older(table[c])) = Len(table[c])
        /\ Declining(Older(table[c]))
    BY <2>1, OlderDeclines
  <2>3. InWindow(Older(table[c])) = AgeWithin(InWindow(table[c]), Window)
    BY <2>1, WindowTick
  <2>4. QED
    BY <2>1, <2>2, <2>3
<1>3. TableOK(older)
  BY <1>1, <1>2 DEF TableOK
<1>4. ASSUME NEW c PROVE Counts(older, c) = AgeWithin(Counts(table, c), Window)
  <2>1. CASE c \in DOMAIN table
    <3>1. Counts(older, c) = InWindow(Older(table[c])) /\ Counts(table, c) = InWindow(table[c])
      BY <1>1, <2>1 DEF Counts
    <3>2. QED
      BY <1>2, <2>1, <3>1
  <2>2. CASE c \notin DOMAIN table
    <3>1. Counts(older, c) = <<>> /\ Counts(table, c) = <<>>
      BY <1>1, <2>2, EmptyWindow DEF Counts
    <3>2. Older(<<>>) = <<>>
      <4>1. Older(<<>>) \in Seq(0..(Window + 1)) /\ Len(Older(<<>>)) = Len(<<>>)
        BY EmptyWindow, OlderDeclines
      <4>2. QED
        BY <4>1, EmptySeq
    <3>3. InWindow(Older(<<>>)) = AgeWithin(InWindow(<<>>), Window)
      BY EmptyWindow, WindowTick
    <3>4. QED
      BY <3>1, <3>2, <3>3, EmptyWindow
  <2>3. QED
    BY <2>1, <2>2
<1>5. QED
  BY <1>3, <1>4

-----------------------------------------------------------------------------
(***************************************************************************)
(* Quotas.  OwnQuota is not inductive as it stands: that a bucket can be   *)
(* dropped by its newest hit, and emptied from its oldest, needs the hits  *)
(* to be in order.                                                         *)
(***************************************************************************)
QuotaInv ==
    /\ TableOK(hits)
    /\ sinceSweep \in 0..Window
    /\ admitted \in [Caller -> Seq(0..Window)]
    /\ \A o \in Caller : Counts(hits, o) = admitted[o]

LEMMA QuotaMeans ==
  ASSUME QuotaInv
  PROVE  /\ OwnQuota
         /\ LimiterTypeOK(Caller)
         /\ \A o \in Caller : \A i \in DOMAIN admitted[o] : admitted[o][i] \in 0..Window
<1>1. \A o \in Caller : InWindow(Bucket(o)) = Counts(hits, o)
  BY DEF Bucket, Counts
<1>2. \A o \in Caller : Len(Counts(hits, o)) <= Limit
  BY CountsFacts DEF QuotaInv
<1>3. OwnQuota
  BY <1>1, <1>2 DEF QuotaInv, OwnQuota
<1>4. LimiterTypeOK(Caller)
  <2>1. ASSUME NEW c \in DOMAIN hits
        PROVE  /\ Len(hits[c]) \in 1..Limit
               /\ \A i \in DOMAIN hits[c] : hits[c][i] \in 0..(Window + 1)
    <3>1. hits[c] \in Seq(0..(Window + 1)) /\ Len(hits[c]) \in 1..Limit
      BY DEF QuotaInv, TableOK
    <3>2. DOMAIN hits[c] = 1..Len(hits[c])
      BY <3>1, LenProperties
    <3>3. QED
      BY <3>1, <3>2, ElementOfSeq
  <2>2. DOMAIN hits \subseteq Caller /\ sinceSweep \in 0..Window
    BY DEF QuotaInv, TableOK
  <2>3. QED
    BY <2>1, <2>2 DEF LimiterTypeOK
<1>5. ASSUME NEW o \in Caller, NEW i \in DOMAIN admitted[o] PROVE admitted[o][i] \in 0..Window
  <2>1. admitted[o] \in Seq(0..Window)
    BY DEF QuotaInv
  <2>2. i \in 1..Len(admitted[o])
    BY <2>1, LenProperties
  <2>3. QED
    BY <2>1, <2>2, ElementOfSeq
<1>6. QED
  BY <1>3, <1>4, <1>5

LEMMA EmptyTable == TableOK(<<>>) /\ \A c : Counts(<<>>, c) = <<>>
<1>1. DOMAIN <<>> = {}
  OBVIOUS
<1>2. TableOK(<<>>)
  BY <1>1 DEF TableOK
<1>3. \A c : Counts(<<>>, c) = InWindow(<<>>)
  BY <1>1 DEF Counts
<1>4. QED
  BY <1>2, <1>3, EmptyWindow

LEMMA QuotaInit == Init => QuotaInv
<1> SUFFICES ASSUME Init PROVE QuotaInv
  OBVIOUS
<1>1. hits = <<>> /\ sinceSweep \in {0, Window} /\ admitted = [o \in Caller |-> <<>>]
  BY DEF Init, LimiterInit
<1>2. sinceSweep \in 0..Window
  BY <1>1, LimiterAssumption
<1>3. admitted \in [Caller -> Seq(0..Window)]
  BY <1>1, EmptySeq
<1>4. QED
  BY <1>1, <1>2, <1>3, EmptyTable DEF QuotaInv

LEMMA QuotaArrive ==
  ASSUME QuotaInv, NEW a \in Attempt, NEW o \in Caller, Arrive(a, o, o)
  PROVE  QuotaInv'
<1> DEFINE ages == Counts(hits, o)
           bucket == Append(ages, 0)
           table == Overwrite(hits, o, bucket)
<1>1. /\ Len(ages) < Limit
      /\ IF sinceSweep < Window
         THEN hits' = table /\ sinceSweep' = sinceSweep
         ELSE hits' = Sweep(table) /\ sinceSweep' = 0
      /\ admitted' = [admitted EXCEPT ![o] = Append(@, 0)]
  BY DEF Arrive, Admit, Counts, Bucket
<1>2. Window \in Nat /\ Window \in Int /\ Limit \in Nat /\ 0..Window \subseteq 0..(Window + 1)
      /\ 0..Window \subseteq Int
  BY LimiterAssumption
<1>3. ages \in Seq(0..Window) /\ Declining(ages) /\ Len(ages) \in Nat
  <2>1. ages \in Seq(0..Window) /\ Declining(ages)
    BY CountsFacts DEF QuotaInv
  <2>2. QED
    BY <2>1, LenProperties
<1>4. ages = admitted[o]
  BY DEF QuotaInv
<1> HIDE DEF ages
<1>5. bucket \in Seq(0..Window) /\ Declining(bucket) /\ Len(bucket) = Len(ages) + 1
  <2>1. bucket \in Seq(0..Window) /\ Declining(bucket)
    BY <1>2, <1>3, AppendDeclines
  <2>2. Len(bucket) = Len(ages) + 1
    BY <1>2, <1>3, AppendProperties, 0 \in 0..Window
  <2>3. QED
    BY <2>1, <2>2
<1> HIDE DEF bucket
<1>6. bucket \in Seq(0..(Window + 1)) /\ Len(bucket) \in 1..Limit
  <2>1. bucket \in Seq(0..(Window + 1))
    BY <1>2, <1>5, SeqMonotonic
  <2>2. Len(bucket) \in 1..Limit
    BY <1>1, <1>2, <1>3, <1>5
  <2>3. QED
    BY <2>1, <2>2
<1>7. InWindow(bucket) = bucket
  <2>1. bucket \in Seq(Int)
    BY <1>2, <1>5, SeqMonotonic
  <2>2. \A i \in 1..Len(bucket) : bucket[i] <= Window
    BY <1>2, <1>5, ElementOfSeq
  <2>3. QED
    BY <1>2, <2>1, <2>2, PopNone DEF InWindow
<1>8. /\ TableOK(table)
      /\ Counts(table, o) = bucket
      /\ \A d : d # o => Counts(table, d) = Counts(hits, d)
  BY <1>5, <1>6, <1>7, OverwriteCounts DEF QuotaInv
<1> HIDE DEF table
<1>9. TableOK(hits') /\ \A d : Counts(hits', d) = Counts(table, d)
  <2>1. TableOK(Sweep(table)) /\ \A d : Counts(Sweep(table), d) = Counts(table, d)
    BY <1>8, SweepCounts
  <2>2. CASE hits' = table
    BY <1>8, <2>2
  <2>3. CASE hits' = Sweep(table)
    BY <2>1, <2>3
  <2>4. QED
    BY <1>1, <2>2, <2>3
<1>10. sinceSweep' \in 0..Window
  BY <1>1, <1>2 DEF QuotaInv
<1>11. admitted' \in [Caller -> Seq(0..Window)]
       /\ admitted'[o] = bucket /\ \A d \in Caller : d # o => admitted'[d] = admitted[d]
  <2>1. admitted' = [admitted EXCEPT ![o] = bucket]
    BY <1>1, <1>4 DEF bucket
  <2>2. QED
    BY <1>5, <2>1 DEF QuotaInv
<1>12. ASSUME NEW d \in Caller PROVE Counts(hits', d) = admitted'[d]
  <2>1. CASE d = o
    BY <1>8, <1>9, <1>11, <2>1
  <2>2. CASE d # o
    <3>1. Counts(hits, d) = admitted[d]
      BY DEF QuotaInv
    <3>2. QED
      BY <1>8, <1>9, <1>11, <2>2, <3>1
  <2>3. QED
    BY <2>1, <2>2
<1>13. QED
  BY <1>9, <1>10, <1>11, <1>12 DEF QuotaInv, Counts

LEMMA QuotaTurnAway ==
  ASSUME QuotaInv, NEW o \in Caller, TurnAway(o)
  PROVE  QuotaInv'
<1> DEFINE ages == Counts(hits, o)
           table == Overwrite(hits, o, ages)
<1>1. Len(ages) >= Limit /\ hits' = table /\ sinceSweep' = sinceSweep /\ admitted' = admitted
  BY DEF TurnAway, Refuse, Counts, Bucket
<1>2. Window \in Nat /\ Window \in Int /\ Limit \in Nat \ {0} /\ 0..Window \subseteq 0..(Window + 1)
      /\ 0..Window \subseteq Int
  BY LimiterAssumption
<1>3. ages \in Seq(0..Window) /\ Declining(ages) /\ Len(ages) <= Limit
  BY CountsFacts DEF QuotaInv
<1>4. ages = admitted[o]
  BY DEF QuotaInv
<1> HIDE DEF ages
<1>5. ages \in Seq(0..(Window + 1)) /\ Len(ages) \in 1..Limit
  <2>1. ages \in Seq(0..(Window + 1)) /\ Len(ages) \in Nat
    BY <1>2, <1>3, SeqMonotonic, LenProperties
  <2>2. QED
    BY <1>1, <1>2, <1>3, <2>1
<1>6. InWindow(ages) = ages
  <2>1. ages \in Seq(Int)
    BY <1>2, <1>3, SeqMonotonic
  <2>2. \A i \in 1..Len(ages) : ages[i] <= Window
    BY <1>2, <1>3, ElementOfSeq
  <2>3. QED
    BY <1>2, <2>1, <2>2, PopNone DEF InWindow
<1>7. /\ TableOK(table)
      /\ Counts(table, o) = ages
      /\ \A d : d # o => Counts(table, d) = Counts(hits, d)
  BY <1>3, <1>5, <1>6, OverwriteCounts DEF QuotaInv
<1> HIDE DEF table
<1>8. ASSUME NEW d \in Caller PROVE Counts(hits', d) = admitted'[d]
  <2>1. Counts(hits, d) = admitted[d]
    BY DEF QuotaInv
  <2>2. QED
    BY <1>1, <1>4, <1>7, <2>1
<1>9. TableOK(hits')
  BY <1>1, <1>7
<1>10. QED
  BY <1>1, <1>8, <1>9 DEF QuotaInv, Counts

LEMMA QuotaTick ==
  ASSUME QuotaInv, Tick
  PROVE  QuotaInv'
<1> DEFINE older == [c \in DOMAIN hits |-> Older(hits[c])]
<1>1. /\ hits' = older
      /\ sinceSweep' = IF sinceSweep < Window THEN sinceSweep + 1 ELSE sinceSweep
      /\ admitted' = [o \in Caller |-> AgeWithin(admitted[o], Window)]
  BY DEF Tick, LimiterTick
<1>2. TableOK(older) /\ \A c : Counts(older, c) = AgeWithin(Counts(hits, c), Window)
  BY TickCounts DEF QuotaInv
<1> HIDE DEF older
<1>3. TableOK(hits')
  BY <1>1, <1>2
<1>4. ASSUME NEW o \in Caller
      PROVE  Counts(hits', o) = admitted'[o] /\ Counts(hits', o) \in Seq(0..Window)
  <2>1. Counts(hits, o) = admitted[o]
    BY DEF QuotaInv
  <2>2. Counts(hits', o) \in Seq(0..Window)
    BY <1>3, CountsFacts
  <2>3. QED
    BY <1>1, <1>2, <2>1, <2>2
<1>5. admitted' \in [Caller -> Seq(0..Window)]
  <2>1. \A o \in Caller : AgeWithin(admitted[o], Window) \in Seq(0..Window)
    BY <1>1, <1>4
  <2>2. QED
    BY <1>1, <2>1
<1>6. sinceSweep' \in 0..Window
  BY <1>1, LimiterAssumption DEF QuotaInv
<1>7. QED
  BY <1>3, <1>4, <1>5, <1>6 DEF QuotaInv, Counts

LEMMA QuotaNext ==
  ASSUME QuotaInv, [Next]_vars
  PROVE  QuotaInv'
<1>0. ASSUME UNCHANGED <<limiter, admitted>> PROVE QuotaInv'
  BY <1>0 DEF QuotaInv, TableOK, Counts, Declining, InWindow, PopPast, limiter
<1>1. ASSUME NEW o \in Caller, NEW c \in ClientsOf(o), TurnAway(c) PROVE QuotaInv'
  BY <1>1, ClientIsCaller, QuotaTurnAway
<1>2. ASSUME NEW o \in Caller, NEW c \in ClientsOf(o), NEW a \in Attempt, Arrive(a, o, c)
      PROVE  QuotaInv'
  BY <1>2, ClientIsCaller, QuotaArrive
<1>3. ASSUME NEW a \in Attempt, Reject(a) PROVE QuotaInv'
  BY <1>0, <1>3 DEF Reject
<1>4. ASSUME NEW a \in Attempt, Proceed(a) PROVE QuotaInv'
  BY <1>0, <1>4 DEF Proceed
<1>5. ASSUME NEW a \in Attempt, Fail(a) PROVE QuotaInv'
  BY <1>0, <1>5 DEF Fail
<1>6. ASSUME NEW a \in Attempt, SetLock(a) PROVE QuotaInv'
  BY <1>0, <1>6 DEF SetLock
<1>7. ASSUME NEW a \in Attempt, AskForCode(a) PROVE QuotaInv'
  BY <1>0, <1>7 DEF AskForCode
<1>8. ASSUME NEW a \in Attempt, Succeed(a) PROVE QuotaInv'
  BY <1>0, <1>8 DEF Succeed
<1>9. ASSUME Restart PROVE QuotaInv'
  <2>1. hits' = <<>> /\ sinceSweep' \in {0, Window} /\ admitted' = [o \in Caller |-> <<>>]
    BY <1>9 DEF Restart, LimiterRestart
  <2>2. sinceSweep' \in 0..Window
    BY <2>1, LimiterAssumption
  <2>3. admitted' \in [Caller -> Seq(0..Window)]
    BY <2>1, EmptySeq
  <2>4. TableOK(hits') /\ \A o \in Caller : Counts(hits', o) = admitted'[o]
    BY <2>1, EmptyTable
  <2>5. QED
    BY <2>2, <2>3, <2>4 DEF QuotaInv, Counts
<1>10. CASE Tick
  BY <1>10, QuotaTick
<1>11. CASE UNCHANGED vars
  BY <1>0, <1>11 DEF vars, limiter
<1>12. QED
  BY <1>1, <1>2, <1>3, <1>4, <1>5, <1>6, <1>7, <1>8, <1>9, <1>10, <1>11 DEF Next

(***************************************************************************)
(* No client is let through more often than `limit` in any window, and     *)
(* what counts against it is exactly what it was let through for           *)
(* (InMemoryRateLimiter.dispatch, _maybe_sweep, resolve_client_ip): for    *)
(* any number of clients and proxies, any header and any limit.            *)
(***************************************************************************)
THEOREM QuotasKept == Spec => []OwnQuota
<1>1. Init => QuotaInv
  BY QuotaInit
<1>2. QuotaInv /\ [Next]_vars => QuotaInv'
  BY QuotaNext
<1>3. QuotaInv => OwnQuota
  BY QuotaMeans
<1>4. QED
  BY <1>1, <1>2, <1>3, PTL DEF Spec

-----------------------------------------------------------------------------
(***************************************************************************)
(* Guesses.  `timer` outlasts a wrong guess that leaves the lockout's      *)
(* length before it expires.  A lock outlasts every guess but the newest   *)
(* max_attempts - 1, or fewer if fewer are counted: hence, with the lock   *)
(* expired, no more than these are left, and each attempt past the lock    *)
(* check adds at most one.                                                 *)
(***************************************************************************)
Outlasts(timer, age) == age >= Lockout - timer

PastLock == {a \in Attempt : attempt[a] \in {"verifying", "counted"}}

GuessTypes ==
    /\ ThrottleTypeOK
    /\ attempt \in [Attempt -> {"idle", "arrived", "verifying", "counted"}]
    /\ wrong \in Seq(0..(Lockout - 1))
    /\ Declining(wrong)
    /\ backend = "memory" => decay = 0

Covered ==
    /\ \A i \in 1..Len(wrong) :
          Len(wrong) - i >= failures \/ Len(wrong) - i >= MaxAttempts - 1
              => Outlasts(lock, wrong[i])
    /\ backend = "memory" /\ failures >= MaxAttempts
          => \A i \in 1..Len(wrong) : Outlasts(lock, wrong[i])
    /\ backend = "redis"
          => \A i \in 1..Len(wrong) : Outlasts(lock, wrong[i]) \/ Outlasts(decay, wrong[i])

Room == Len(wrong) + Cardinality(PastLock) <= MaxAttempts - 1 + Cardinality(Attempt)

GuessInv == GuessTypes /\ Covered /\ Room

LEMMA WrongFacts ==
  ASSUME GuessTypes
  PROVE  /\ Len(wrong) \in Nat
         /\ DOMAIN wrong = 1..Len(wrong)
         /\ \A i \in 1..Len(wrong) : wrong[i] \in Nat /\ wrong[i] < Lockout
<1>1. wrong \in Seq(0..(Lockout - 1))
  BY DEF GuessTypes
<1>2. Len(wrong) \in Nat /\ DOMAIN wrong = 1..Len(wrong)
      /\ \A i \in 1..Len(wrong) : wrong[i] \in 0..(Lockout - 1)
  BY <1>1, LenProperties, ElementOfSeq
<1>3. QED
  BY <1>2, ThrottleAssumption

LEMMA PastLockFinite ==
  /\ IsFiniteSet(PastLock) /\ Cardinality(PastLock) \in Nat
  /\ Cardinality(Attempt) \in Nat /\ Cardinality(PastLock) <= Cardinality(Attempt)
BY AttemptAssumption, FS_Subset, FS_CardinalityType DEF PastLock

(***************************************************************************)
(* With no lock, the wrong guesses of a lockout's length are fewer than    *)
(* max_attempts.                                                           *)
(***************************************************************************)
LEMMA FewWhenUnlocked ==
  ASSUME GuessTypes, Covered, lock = 0
  PROVE  Len(wrong) <= MaxAttempts - 1
<1>1. /\ Len(wrong) \in Nat
      /\ \A i \in 1..Len(wrong) : wrong[i] \in Nat /\ wrong[i] < Lockout
  BY WrongFacts
<1>2. SUFFICES ASSUME Len(wrong) >= MaxAttempts PROVE FALSE
  BY <1>1, ThrottleAssumption
<1>3. 1 \in 1..Len(wrong) /\ Len(wrong) - 1 >= MaxAttempts - 1
  BY <1>1, <1>2, ThrottleAssumption
<1>4. Outlasts(lock, wrong[1])
  BY <1>3 DEF Covered
<1>5. QED
  BY <1>1, <1>3, <1>4, ThrottleAssumption DEF Outlasts

LEMMA GuessInit == Init => GuessInv
<1> SUFFICES ASSUME Init PROVE GuessInv
  OBVIOUS
<1>1. wrong = <<>> /\ Len(wrong) = 0 /\ wrong \in Seq(0..(Lockout - 1)) /\ Declining(wrong)
  BY EmptySeq, EmptyWindow DEF Init
<1>2. GuessTypes
  BY <1>1, ThrottleAssumption DEF Init, ThrottleInit, GuessTypes, ThrottleTypeOK
<1>3. Covered
  BY <1>1 DEF Covered
<1>4. Room
  BY <1>1, PastLockFinite, ThrottleAssumption DEF Room
<1>5. QED
  BY <1>2, <1>3, <1>4 DEF GuessInv

(***************************************************************************)
(* An attempt that goes somewhere: how many are past the lock check.       *)
(***************************************************************************)
LEMMA StepsIn ==
  ASSUME GuessTypes, NEW a \in Attempt, attempt[a] = "arrived", Goto(a, "verifying")
  PROVE  /\ Cardinality(PastLock') = Cardinality(PastLock) + 1
         /\ Cardinality(PastLock') <= Cardinality(Attempt)
         /\ attempt' \in [Attempt -> {"idle", "arrived", "verifying", "counted"}]
<1>1. attempt' \in [Attempt -> {"idle", "arrived", "verifying", "counted"}]
  BY DEF Goto, GuessTypes
<1>2. PastLock' = PastLock \cup {a} /\ a \notin PastLock
  BY DEF Goto, GuessTypes, PastLock
<1>3. Cardinality(PastLock') = Cardinality(PastLock) + 1
  BY <1>2, PastLockFinite, FS_AddElement
<1>4. PastLock' \subseteq Attempt
  BY DEF PastLock
<1>5. QED
  BY <1>1, <1>3, <1>4, AttemptAssumption, FS_Subset

LEMMA StepsOut ==
  ASSUME GuessTypes, NEW a \in Attempt, a \in PastLock, End(a)
  PROVE  /\ Cardinality(PastLock') = Cardinality(PastLock) - 1
         /\ attempt' \in [Attempt -> {"idle", "arrived", "verifying", "counted"}]
<1>1. attempt' \in [Attempt -> {"idle", "arrived", "verifying", "counted"}]
  BY DEF End, Goto, GuessTypes
<1>2. PastLock' = PastLock \ {a}
  BY DEF End, Goto, GuessTypes, PastLock
<1>3. Cardinality(PastLock') = Cardinality(PastLock) - 1
  BY <1>2, PastLockFinite, FS_RemoveElement
<1>4. QED
  BY <1>1, <1>3

LEMMA StepsBeside ==
  ASSUME GuessTypes, NEW a \in Attempt, NEW pc \in {"idle", "arrived", "counted"},
         Goto(a, pc), a \in PastLock <=> pc = "counted"
  PROVE  /\ PastLock' = PastLock
         /\ attempt' \in [Attempt -> {"idle", "arrived", "verifying", "counted"}]
BY DEF Goto, GuessTypes, PastLock

(***************************************************************************)
(* A wrong guess is recorded.                                              *)
(***************************************************************************)
LEMMA OneMoreWrong ==
  ASSUME GuessTypes, wrong' = Append(wrong, 0)
  PROVE  /\ wrong' \in Seq(0..(Lockout - 1))
         /\ Declining(wrong)'
         /\ Len(wrong') = Len(wrong) + 1
         /\ \A i \in 1..Len(wrong) : wrong'[i] = wrong[i]
         /\ wrong'[Len(wrong) + 1] = 0
<1>1. Lockout - 1 \in Nat /\ 0 \in 0..(Lockout - 1)
  BY ThrottleAssumption
<1>2. wrong \in Seq(0..(Lockout - 1)) /\ Declining(wrong)
  BY DEF GuessTypes
<1>3. Append(wrong, 0) \in Seq(0..(Lockout - 1)) /\ Declining(Append(wrong, 0))
  BY <1>1, <1>2, AppendDeclines
<1>4. /\ Len(Append(wrong, 0)) = Len(wrong) + 1
      /\ \A i \in 1..Len(wrong) : Append(wrong, 0)[i] = wrong[i]
      /\ Append(wrong, 0)[Len(wrong) + 1] = 0
  BY <1>1, <1>2, AppendProperties
<1>5. Declining(wrong)'
  BY <1>3 DEF Declining
<1>6. QED
  BY <1>3, <1>4, <1>5

(***************************************************************************)
(* A lock that has just been set outlasts everything.                      *)
(***************************************************************************)
LEMMA FreshLockCovers ==
  ASSUME wrong' \in Seq(0..(Lockout - 1)), lock' = Lockout
  PROVE  Covered'
<1>1. \A i \in 1..Len(wrong') : wrong'[i] \in 0..(Lockout - 1)
  BY ElementOfSeq
<1>2. \A i \in 1..Len(wrong') : Outlasts(lock', wrong'[i])
  BY <1>1, ThrottleAssumption DEF Outlasts
<1>3. QED
  BY <1>2 DEF Covered, Outlasts

(***************************************************************************)
(* A failure that is not the last one allowed: one more is recorded, and   *)
(* one more is counted.                                                    *)
(***************************************************************************)
LEMMA CountedCovers ==
  ASSUME GuessTypes, Covered, wrong' = Append(wrong, 0), lock' = lock, backend' = backend,
         failures' = failures + 1, failures' < MaxAttempts,
         backend = "redis" => decay' = Lockout
  PROVE  Covered'
<1>1. /\ Len(wrong') = Len(wrong) + 1
      /\ \A i \in 1..Len(wrong) : wrong'[i] = wrong[i]
      /\ wrong'[Len(wrong) + 1] = 0
      /\ wrong' \in Seq(0..(Lockout - 1))
  BY OneMoreWrong
<1>2. Len(wrong) \in Nat
  BY WrongFacts
<1>3. failures \in Nat /\ MaxAttempts \in Nat /\ Lockout \in Nat
  BY ThrottleAssumption DEF GuessTypes, ThrottleTypeOK
<1>4. ASSUME NEW i \in 1..Len(wrong'),
             Len(wrong') - i >= failures' \/ Len(wrong') - i >= MaxAttempts - 1
      PROVE  Outlasts(lock', wrong'[i])
  <2>1. i \in 1..Len(wrong) /\ Len(wrong) - i >= failures
    BY <1>1, <1>2, <1>3, <1>4
  <2>2. Outlasts(lock, wrong[i])
    BY <2>1 DEF Covered
  <2>3. QED
    BY <1>1, <2>1, <2>2
<1>5. ~(failures' >= MaxAttempts)
  BY <1>3
<1>6. ASSUME backend' = "redis", NEW i \in 1..Len(wrong') PROVE Outlasts(decay', wrong'[i])
  <2>1. wrong'[i] \in 0..(Lockout - 1)
    BY <1>1, ElementOfSeq
  <2>2. QED
    BY <1>3, <1>6, <2>1 DEF Outlasts
<1>7. QED
  BY <1>4, <1>5, <1>6 DEF Covered, Outlasts

LEMMA GuessFail ==
  ASSUME GuessInv, NEW a \in Attempt, Fail(a)
  PROVE  GuessInv'
<1>0. GuessTypes /\ Covered /\ Room
  BY DEF GuessInv
<1>1. a \in PastLock
  BY DEF Fail, PastLock
<1>2. /\ failures \in Nat /\ failures <= MaxFailures
      /\ MaxFailures \in Nat /\ MaxAttempts \in Nat \ {0} /\ MaxAttempts < MaxFailures
      /\ Lockout \in Nat \ {0}
      /\ Counted \in 0..MaxFailures /\ Counted >= failures /\ Counted > 0
      /\ Counted < MaxAttempts => Counted = failures + 1
  BY <1>0, ThrottleAssumption DEF GuessTypes, ThrottleTypeOK, Counted
<1>3. /\ backend \in {"memory", "redis"} /\ decay \in 0..Lockout /\ lock \in 0..Lockout
      /\ backend = "memory" => decay = 0
  BY <1>0 DEF GuessTypes, ThrottleTypeOK
<1>4. Len(wrong) \in Nat /\ Cardinality(PastLock) \in Nat /\ Cardinality(Attempt) \in Nat
  BY <1>0, WrongFacts, PastLockFinite
<1>5. ASSUME wrong' = Append(wrong, 0), End(a)
      PROVE  /\ attempt' \in [Attempt -> {"idle", "arrived", "verifying", "counted"}]
             /\ wrong' \in Seq(0..(Lockout - 1)) /\ Declining(wrong)'
             /\ Room'
  <2>1. /\ Cardinality(PastLock') = Cardinality(PastLock) - 1
        /\ attempt' \in [Attempt -> {"idle", "arrived", "verifying", "counted"}]
    BY <1>0, <1>1, <1>5, StepsOut
  <2>2. /\ wrong' \in Seq(0..(Lockout - 1)) /\ Declining(wrong)'
        /\ Len(wrong') = Len(wrong) + 1
    BY <1>0, <1>5, OneMoreWrong
  <2>3. Room'
    BY <1>0, <1>2, <1>4, <2>1, <2>2 DEF Room
  <2>4. QED
    BY <2>1, <2>2, <2>3
<1>6. CASE MemoryFailure /\ End(a) /\ wrong' = Append(wrong, 0)
  <2>1. /\ backend = "memory" /\ backend' = backend /\ failures' = Counted /\ decay' = decay
        /\ lock' = IF failures' >= MaxAttempts THEN Lockout ELSE lock
    BY <1>6 DEF MemoryFailure
  <2>2. GuessTypes'
    BY <1>2, <1>3, <1>5, <1>6, <2>1 DEF GuessTypes, ThrottleTypeOK
  <2>3. CASE failures' >= MaxAttempts
    <3>1. lock' = Lockout
      BY <2>1, <2>3
    <3>2. Covered'
      BY <1>5, <1>6, <3>1, FreshLockCovers
    <3>3. QED
      BY <1>5, <1>6, <2>2, <3>2 DEF GuessInv
  <2>4. CASE ~(failures' >= MaxAttempts)
    <3>1. lock' = lock /\ failures' < MaxAttempts /\ failures' = failures + 1 /\ backend # "redis"
      BY <1>2, <2>1, <2>4
    <3>2. Covered'
      BY <1>0, <1>6, <2>1, <3>1, CountedCovers
    <3>3. QED
      BY <1>5, <1>6, <2>2, <3>2 DEF GuessInv
  <2>5. QED
    BY <2>3, <2>4
<1>7. CASE RedisCount /\ Counted >= MaxAttempts /\ Goto(a, "counted") /\ UNCHANGED wrong
  <2>1. /\ backend = "redis" /\ backend' = backend /\ failures' = Counted /\ decay' = Lockout
        /\ lock' = lock /\ wrong' = wrong
    BY <1>7 DEF RedisCount
  <2>2. /\ PastLock' = PastLock
        /\ attempt' \in [Attempt -> {"idle", "arrived", "verifying", "counted"}]
    BY <1>0, <1>1, <1>7, StepsBeside
  <2>3. GuessTypes'
    BY <1>0, <1>2, <1>3, <2>1, <2>2 DEF GuessTypes, ThrottleTypeOK, Declining
  <2>4. ASSUME NEW i \in 1..Len(wrong'),
               Len(wrong') - i >= failures' \/ Len(wrong') - i >= MaxAttempts - 1
        PROVE  Outlasts(lock', wrong'[i])
    <3>1. i \in 1..Len(wrong) /\ (Len(wrong) - i >= failures \/ Len(wrong) - i >= MaxAttempts - 1)
      BY <1>2, <1>4, <2>1, <2>4
    <3>2. Outlasts(lock, wrong[i])
      BY <1>0, <3>1 DEF Covered
    <3>3. QED
      BY <2>1, <3>2
  <2>5. ASSUME NEW i \in 1..Len(wrong') PROVE Outlasts(decay', wrong'[i])
    BY <1>0, <1>2, <2>1, WrongFacts DEF Outlasts
  <2>6. Covered'
    BY <2>1, <2>4, <2>5 DEF Covered, Outlasts
  <2>7. Room'
    BY <1>0, <2>1, <2>2 DEF Room
  <2>8. QED
    BY <2>3, <2>6, <2>7 DEF GuessInv
<1>8. CASE RedisCount /\ ~(Counted >= MaxAttempts) /\ End(a) /\ wrong' = Append(wrong, 0)
  <2>1. /\ backend = "redis" /\ backend' = backend /\ failures' = Counted /\ decay' = Lockout
        /\ lock' = lock
    BY <1>8 DEF RedisCount
  <2>2. failures' < MaxAttempts /\ failures' = failures + 1
    BY <1>2, <1>8, <2>1
  <2>3. GuessTypes'
    BY <1>2, <1>3, <1>5, <1>8, <2>1 DEF GuessTypes, ThrottleTypeOK
  <2>4. Covered'
    BY <1>0, <1>8, <2>1, <2>2, CountedCovers
  <2>5. QED
    BY <1>5, <1>8, <2>3, <2>4 DEF GuessInv
<1>9. QED
  BY <1>6, <1>7, <1>8 DEF Fail

LEMMA GuessSetLock ==
  ASSUME GuessInv, NEW a \in Attempt, SetLock(a)
  PROVE  GuessInv'
<1>0. GuessTypes /\ Covered /\ Room
  BY DEF GuessInv
<1>1. a \in PastLock
  BY DEF SetLock, PastLock
<1>2. /\ backend' = backend /\ failures' = failures /\ decay' = decay /\ lock' = Lockout
      /\ End(a) /\ wrong' = Append(wrong, 0)
  BY DEF SetLock, RedisLock
<1>3. Len(wrong) \in Nat /\ Cardinality(PastLock) \in Nat /\ Cardinality(Attempt) \in Nat
      /\ MaxAttempts \in Nat /\ Lockout \in Nat
  BY <1>0, WrongFacts, PastLockFinite, ThrottleAssumption
<1>4. /\ Cardinality(PastLock') = Cardinality(PastLock) - 1
      /\ attempt' \in [Attempt -> {"idle", "arrived", "verifying", "counted"}]
  BY <1>0, <1>1, <1>2, StepsOut
<1>5. /\ wrong' \in Seq(0..(Lockout - 1)) /\ Declining(wrong)'
      /\ Len(wrong') = Len(wrong) + 1
  BY <1>0, <1>2, OneMoreWrong
<1>6. GuessTypes'
  BY <1>0, <1>2, <1>3, <1>4, <1>5 DEF GuessTypes, ThrottleTypeOK
<1>7. Covered'
  BY <1>2, <1>5, FreshLockCovers
<1>8. Room'
  BY <1>0, <1>3, <1>4, <1>5 DEF Room
<1>9. QED
  BY <1>6, <1>7, <1>8 DEF GuessInv

(***************************************************************************)
(* Nothing is recorded and the throttle is left alone.                     *)
(***************************************************************************)
LEMMA GuessBeside ==
  ASSUME GuessInv, UNCHANGED <<backend, throttle, wrong>>,
         attempt' \in [Attempt -> {"idle", "arrived", "verifying", "counted"}],
         PastLock' \subseteq PastLock
  PROVE  GuessInv'
<1>0. GuessTypes /\ Covered /\ Room
  BY DEF GuessInv
<1>1. backend' = backend /\ failures' = failures /\ decay' = decay /\ lock' = lock /\ wrong' = wrong
  BY DEF throttle
<1>2. GuessTypes'
  BY <1>0, <1>1 DEF GuessTypes, ThrottleTypeOK, Declining
<1>3. Covered'
  BY <1>0, <1>1 DEF Covered, Outlasts
<1>4. Room'
  <2>1. IsFiniteSet(PastLock) /\ Cardinality(PastLock) \in Nat /\ Cardinality(Attempt) \in Nat
        /\ Len(wrong) \in Nat /\ MaxAttempts \in Nat
    BY <1>0, PastLockFinite, WrongFacts, ThrottleAssumption
  <2>2. Cardinality(PastLock') <= Cardinality(PastLock) /\ Cardinality(PastLock') \in Nat
    BY <2>1, FS_Subset, FS_CardinalityType
  <2>3. QED
    BY <1>0, <1>1, <2>1, <2>2 DEF Room
<1>5. QED
  BY <1>2, <1>3, <1>4 DEF GuessInv

LEMMA GuessProceed ==
  ASSUME GuessInv, NEW a \in Attempt, Proceed(a)
  PROVE  GuessInv'
<1>0. GuessTypes /\ Covered /\ Room
  BY DEF GuessInv
<1>1. /\ lock' = lock /\ backend' = backend /\ decay' = decay /\ wrong' = wrong
      /\ failures' = IF backend = "memory" /\ failures >= MaxAttempts THEN 0 ELSE failures
      /\ attempt[a] = "arrived" /\ Goto(a, "verifying") /\ ~(lock > 0)
  BY DEF Proceed, PassLock, IsLocked
<1>2. lock = 0
  BY <1>0, <1>1, ThrottleAssumption DEF GuessTypes, ThrottleTypeOK
<1>3. Len(wrong) <= MaxAttempts - 1
  BY <1>0, <1>2, FewWhenUnlocked
<1>4. Len(wrong) \in Nat /\ Cardinality(Attempt) \in Nat /\ MaxAttempts \in Nat \ {0}
      /\ Lockout \in Nat /\ MaxFailures \in Nat
      /\ \A i \in 1..Len(wrong) : wrong[i] \in Nat /\ wrong[i] < Lockout
  BY <1>0, WrongFacts, PastLockFinite, ThrottleAssumption
<1>5. /\ Cardinality(PastLock') = Cardinality(PastLock) + 1
      /\ Cardinality(PastLock') <= Cardinality(Attempt)
      /\ attempt' \in [Attempt -> {"idle", "arrived", "verifying", "counted"}]
  BY <1>0, <1>1, StepsIn
<1>6. GuessTypes'
  <2>1. failures' \in 0..MaxFailures /\ (backend = "redis" => failures' = failures)
    BY <1>0, <1>1, <1>4 DEF GuessTypes, ThrottleTypeOK
  <2>2. QED
    BY <1>0, <1>1, <1>5, <2>1 DEF GuessTypes, ThrottleTypeOK, Declining
<1>7. Covered'
  <2>1. CASE backend = "memory" /\ failures >= MaxAttempts
    <3>1. \A i \in 1..Len(wrong) : Outlasts(lock, wrong[i])
      BY <1>0, <2>1 DEF Covered
    <3>2. QED
      BY <1>1, <3>1 DEF Covered, Outlasts
  <2>2. CASE ~(backend = "memory" /\ failures >= MaxAttempts)
    <3>1. failures' = failures
      BY <1>1, <2>2
    <3>2. QED
      BY <1>0, <1>1, <3>1 DEF Covered, Outlasts
  <2>3. QED
    BY <2>1, <2>2
<1>8. Room'
  <2>1. Cardinality(PastLock') \in Nat
    BY <1>5, PastLockFinite
  <2>2. QED
    BY <1>1, <1>3, <1>4, <1>5, <2>1 DEF Room
<1>9. QED
  BY <1>6, <1>7, <1>8 DEF GuessInv

(***************************************************************************)
(* record_success, or a restart of a process that keeps the throttle.      *)
(***************************************************************************)
LEMMA GuessCleared ==
  ASSUME GuessInv, RecordSuccess, wrong' = <<>>,
         attempt' \in [Attempt -> {"idle", "arrived", "verifying", "counted"}]
  PROVE  GuessInv'
<1>0. GuessTypes /\ Covered /\ Room
  BY DEF GuessInv
<1>1. /\ failures' = 0 /\ decay' = 0 /\ lock' = 0 /\ backend' = backend
  BY DEF RecordSuccess
<1>2. Len(wrong') = 0 /\ wrong' \in Seq(0..(Lockout - 1)) /\ Declining(wrong)'
  <2>1. Len(wrong') = 0 /\ wrong' \in Seq(0..(Lockout - 1))
    BY EmptySeq
  <2>2. QED
    BY <2>1 DEF Declining
<1>3. GuessTypes'
  BY <1>0, <1>1, <1>2, ThrottleAssumption DEF GuessTypes, ThrottleTypeOK
<1>4. Covered'
  BY <1>2 DEF Covered
<1>5. Room'
  <2>1. PastLock' \subseteq Attempt
    BY DEF PastLock
  <2>2. Cardinality(PastLock') <= Cardinality(Attempt) /\ Cardinality(PastLock') \in Nat
        /\ Cardinality(Attempt) \in Nat
    BY <2>1, AttemptAssumption, FS_Subset, FS_CardinalityType
  <2>3. QED
    BY <1>2, <2>2, ThrottleAssumption DEF Room
<1>6. QED
  BY <1>3, <1>4, <1>5 DEF GuessInv

LEMMA GuessTick ==
  ASSUME GuessInv, Tick
  PROVE  GuessInv'
<1>0. GuessTypes /\ Covered /\ Room
  BY DEF GuessInv
<1>1. /\ decay' = Less(decay) /\ lock' = Less(lock) /\ backend' = backend
      /\ failures' = IF decay = 1 THEN 0 ELSE failures
      /\ wrong' = AgeWithin(wrong, Lockout - 1) /\ attempt' = attempt
  BY DEF Tick, ThrottleTick
<1>2. /\ Lockout \in Nat \ {0} /\ Lockout - 1 \in Nat /\ MaxAttempts \in Nat \ {0}
      /\ MaxFailures \in Nat
  BY ThrottleAssumption
<1>3. /\ backend \in {"memory", "redis"} /\ failures \in 0..MaxFailures
      /\ decay \in 0..Lockout /\ lock \in 0..Lockout
      /\ backend = "redis" => (failures > 0 <=> decay > 0)
      /\ backend = "memory" => decay = 0
      /\ wrong \in Seq(0..(Lockout - 1)) /\ Declining(wrong)
  BY <1>0 DEF GuessTypes, ThrottleTypeOK
<1>4. Len(wrong) \in Nat /\ \A i \in 1..Len(wrong) : wrong[i] \in Nat /\ wrong[i] < Lockout
  BY <1>0, WrongFacts
<1>5. /\ AgeWithin(wrong, Lockout - 1) \in Seq(0..(Lockout - 1))
      /\ Declining(AgeWithin(wrong, Lockout - 1))
      /\ \E k \in 0..Len(wrong) :
            /\ Len(AgeWithin(wrong, Lockout - 1)) = Len(wrong) - k
            /\ \A i \in 1..(Len(wrong) - k) :
                  AgeWithin(wrong, Lockout - 1)[i] = wrong[i + k] + 1
            /\ \A i \in (k + 1)..Len(wrong) : wrong[i] + 1 <= Lockout - 1
  BY <1>2, <1>3, AgeWithinIs
<1>6. PICK k \in 0..Len(wrong) :
            /\ Len(wrong') = Len(wrong) - k
            /\ \A i \in 1..(Len(wrong) - k) : wrong'[i] = wrong[i + k] + 1
            /\ \A i \in (k + 1)..Len(wrong) : wrong[i] + 1 <= Lockout - 1
  BY <1>1, <1>5
<1>7. GuessTypes'
  <2>1. wrong' \in Seq(0..(Lockout - 1)) /\ Declining(wrong)'
    BY <1>1, <1>5 DEF Declining
  <2>2. ThrottleTypeOK'
    BY <1>1, <1>2, <1>3 DEF ThrottleTypeOK, Less
  <2>3. backend' = "memory" => decay' = 0
    BY <1>1, <1>3 DEF Less
  <2>4. attempt' \in [Attempt -> {"idle", "arrived", "verifying", "counted"}]
    BY <1>0, <1>1 DEF GuessTypes
  <2>5. QED
    BY <2>1, <2>2, <2>3, <2>4 DEF GuessTypes
<1>8. ASSUME NEW i \in 1..Len(wrong')
      PROVE  /\ i + k \in 1..Len(wrong)
             /\ wrong'[i] = wrong[i + k] + 1
             /\ Len(wrong') - i = Len(wrong) - (i + k)
             /\ wrong'[i] <= Lockout - 1
             /\ wrong[i + k] \in Nat
  <2>1. i \in 1..(Len(wrong) - k) /\ i + k \in (k + 1)..Len(wrong) /\ i + k \in 1..Len(wrong)
        /\ Len(wrong') - i = Len(wrong) - (i + k)
    BY <1>4, <1>6
  <2>2. wrong'[i] = wrong[i + k] + 1 /\ wrong[i + k] + 1 <= Lockout - 1
    BY <1>6, <2>1
  <2>3. QED
    BY <1>4, <2>1, <2>2
<1>9. ASSUME NEW i \in 1..Len(wrong'), Outlasts(lock, wrong[i + k])
      PROVE  Outlasts(lock', wrong'[i])
  BY <1>1, <1>2, <1>3, <1>8, <1>9 DEF Outlasts, Less
<1>10. ASSUME NEW i \in 1..Len(wrong'), Outlasts(decay, wrong[i + k])
       PROVE  Outlasts(decay', wrong'[i]) /\ decay > 1
  BY <1>1, <1>2, <1>3, <1>8, <1>10 DEF Outlasts, Less
<1>11. Covered'
  <2>1. ASSUME NEW i \in 1..Len(wrong'),
               Len(wrong') - i >= failures' \/ Len(wrong') - i >= MaxAttempts - 1
        PROVE  Outlasts(lock', wrong'[i])
    <3>1. CASE decay = 1
      <4>1. backend = "redis"
        BY <1>3, <3>1
      <4>2. Outlasts(lock, wrong[i + k]) \/ Outlasts(decay, wrong[i + k])
        BY <1>0, <1>8, <4>1 DEF Covered
      <4>3. QED
        BY <1>9, <1>10, <3>1, <4>2
    <3>2. CASE decay # 1
      <4>1. Len(wrong) - (i + k) >= failures \/ Len(wrong) - (i + k) >= MaxAttempts - 1
        BY <1>1, <1>8, <2>1, <3>2
      <4>2. Outlasts(lock, wrong[i + k])
        BY <1>0, <1>8, <4>1 DEF Covered
      <4>3. QED
        BY <1>9, <4>2
    <3>3. QED
      BY <3>1, <3>2
  <2>2. ASSUME backend' = "memory", failures' >= MaxAttempts, NEW i \in 1..Len(wrong')
        PROVE  Outlasts(lock', wrong'[i])
    <3>1. backend = "memory" /\ failures >= MaxAttempts
      BY <1>1, <1>3, <2>2
    <3>2. Outlasts(lock, wrong[i + k])
      BY <1>0, <1>8, <3>1 DEF Covered
    <3>3. QED
      BY <1>9, <3>2
  <2>3. ASSUME backend' = "redis", NEW i \in 1..Len(wrong')
        PROVE  Outlasts(lock', wrong'[i]) \/ Outlasts(decay', wrong'[i])
    <3>1. Outlasts(lock, wrong[i + k]) \/ Outlasts(decay, wrong[i + k])
      BY <1>0, <1>1, <1>8, <2>3 DEF Covered
    <3>2. QED
      BY <1>9, <1>10, <3>1
  <2>4. QED
    BY <2>1, <2>2, <2>3 DEF Covered, Outlasts
<1>12. Room'
  <2>1. PastLock' = PastLock
    BY <1>1 DEF PastLock
  <2>2. Len(wrong') <= Len(wrong) /\ Len(wrong') \in Nat
    BY <1>4, <1>6
  <2>3. QED
    BY <1>0, <1>2, <1>4, <2>1, <2>2, PastLockFinite DEF Room
<1>13. QED
  BY <1>7, <1>11, <1>12 DEF GuessInv

LEMMA GuessNext ==
  ASSUME GuessInv, [Next]_vars
  PROVE  GuessInv'
<1>0. GuessTypes
  BY DEF GuessInv
<1>1. ASSUME NEW c, TurnAway(c) PROVE GuessInv'
  BY <1>0, <1>1, GuessBeside DEF TurnAway, GuessTypes, PastLock
<1>2. ASSUME NEW o \in Caller, NEW c, NEW a \in Attempt, Arrive(a, o, c) PROVE GuessInv'
  <2>1. attempt[a] = "idle" /\ (Goto(a, "arrived") \/ attempt' = attempt)
        /\ UNCHANGED <<backend, throttle, wrong>>
    BY <1>2 DEF Arrive
  <2>2. attempt' \in [Attempt -> {"idle", "arrived", "verifying", "counted"}]
        /\ PastLock' \subseteq PastLock
    BY <1>0, <2>1 DEF Goto, GuessTypes, PastLock
  <2>3. QED
    BY <2>1, <2>2, GuessBeside
<1>3. ASSUME NEW a \in Attempt, End(a)
      PROVE  /\ attempt' \in [Attempt -> {"idle", "arrived", "verifying", "counted"}]
             /\ PastLock' \subseteq PastLock
  BY <1>0, <1>3 DEF End, Goto, GuessTypes, PastLock
<1>4. ASSUME NEW a \in Attempt, Reject(a) PROVE GuessInv'
  BY <1>3, <1>4, GuessBeside DEF Reject, LockedOut
<1>5. ASSUME NEW a \in Attempt, AskForCode(a) PROVE GuessInv'
  BY <1>3, <1>5, GuessBeside DEF AskForCode
<1>6. ASSUME NEW a \in Attempt, Succeed(a) PROVE GuessInv'
  BY <1>3, <1>6, GuessCleared DEF Succeed
<1>7. CASE Restart
  <2>1. attempt' \in [Attempt -> {"idle", "arrived", "verifying", "counted"}]
        /\ PastLock' \subseteq PastLock
    BY <1>7 DEF Restart, PastLock
  <2>2. CASE backend = "memory"
    BY <1>7, <2>1, <2>2, GuessCleared DEF Restart, ThrottleRestart
  <2>3. CASE backend # "memory"
    BY <1>7, <2>1, <2>3, GuessBeside DEF Restart, ThrottleRestart
  <2>4. QED
    BY <2>2, <2>3
<1>8. CASE UNCHANGED vars
  BY <1>0, <1>8, GuessBeside DEF vars, throttle, GuessTypes, PastLock
<1>9. QED
  BY <1>1, <1>2, <1>4, <1>5, <1>6, <1>7, <1>8, GuessProceed, GuessFail, GuessSetLock, GuessTick
     DEF Next

(***************************************************************************)
(* In the length of a lockout no more wrong guesses are answered than      *)
(* max_attempts - 1 and one for each attempt in flight, on either backend, *)
(* whatever overlaps and wherever the process crashes (is_locked,          *)
(* record_failure): for any number of attempts, any max_attempts and any   *)
(* lockout_seconds.                                                        *)
(***************************************************************************)
THEOREM GuessesKept == Spec => []GuessesBounded
<1>1. Init => GuessInv
  BY GuessInit
<1>2. GuessInv /\ [Next]_vars => GuessInv'
  BY GuessNext
<1>3. GuessInv => GuessesBounded
  <2> SUFFICES ASSUME GuessInv PROVE GuessesBounded
    OBVIOUS
  <2>1. Len(wrong) \in Nat /\ Cardinality(PastLock) \in Nat /\ Cardinality(Attempt) \in Nat
        /\ MaxAttempts \in Nat
    BY WrongFacts, PastLockFinite, ThrottleAssumption DEF GuessInv
  <2>2. QED
    BY <2>1 DEF GuessInv, Room, GuessesBounded
<1>4. QED
  BY <1>1, <1>2, <1>3, PTL DEF Spec

(***************************************************************************)
(* The limiter's table, the throttle's counters and the ages kept for the  *)
(* properties stay what they should be: a bucket is never empty nor over   *)
(* the limit, and on Redis a counter without an expiry does not exist      *)
(* (dispatch, _maybe_sweep, record_failure).                               *)
(***************************************************************************)
THEOREM LoginTypeCorrect == Spec => []TypeOK
<1>1. Init => QuotaInv /\ GuessInv
  BY QuotaInit, GuessInit
<1>2. QuotaInv /\ GuessInv /\ [Next]_vars => (QuotaInv /\ GuessInv)'
  BY QuotaNext, GuessNext
<1>3. QuotaInv /\ GuessInv => TypeOK
  <2> SUFFICES ASSUME QuotaInv, GuessInv PROVE TypeOK
    OBVIOUS
  <2>1. GuessTypes
    BY DEF GuessInv
  <2>2. \A i \in DOMAIN wrong : wrong[i] \in 0..(Lockout - 1)
    <3>1. wrong \in Seq(0..(Lockout - 1))
      BY <2>1 DEF GuessTypes
    <3>2. QED
      BY <3>1, LenProperties, ElementOfSeq
  <2>3. QED
    BY <2>1, <2>2, QuotaMeans DEF GuessTypes, TypeOK
<1>4. QED
  BY <1>1, <1>2, <1>3, PTL DEF Spec
=============================================================================
