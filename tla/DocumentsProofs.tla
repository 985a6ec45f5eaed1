--------------------------- MODULE DocumentsProofs ---------------------------
(***************************************************************************)
(* Proofs about what a user does around the pipeline, for every value of   *)
(* the constants.  A part moves alone: what holds of a part's own steps    *)
(* holds of the sum.                                                       *)
(***************************************************************************)
EXTENDS Documents, PipelineProofs, Integers, FiniteSetTheorems, WellFoundedInduction, TLAPS

-----------------------------------------------------------------------------
(* Induction: least numbers, and sets that hold 0 and every successor. *)

LEMMA LeastNatural ==
    ASSUME NEW T, T \subseteq Nat, T # {}
    PROVE  \E x \in T : \A y \in T : x <= y
<1> DEFINE R == OpToRel(<, Nat)
<1>1. IsWellFoundedOn(R, Nat)
    BY NatLessThanWellFounded
<1>2. \A x, y \in Nat : x < y => <<x, y>> \in R
    BY DEF OpToRel
<1> HIDE DEF R
<1>3. PICK x \in T : \A y \in T : ~(<<y, x>> \in R)
    BY <1>1, WFMin
<1>4. ASSUME NEW y \in T PROVE x <= y
    <2>1. x \in Nat /\ y \in Nat /\ ~(y < x)
        BY <1>2, <1>3
    <2> QED BY <2>1
<1> QED BY <1>4

LEMMA NatSetInduction ==
    ASSUME NEW S, 0 \in S, \A n \in Nat : n \in S => n + 1 \in S
    PROVE  Nat \subseteq S
<1> DEFINE T == Nat \ S
<1> SUFFICES ASSUME T # {} PROVE FALSE
    OBVIOUS
<1>1. PICK x \in T : \A y \in T : x <= y
    BY LeastNatural
<1>2. x \in Nat /\ x # 0 /\ x - 1 \in Nat /\ ~(x <= x - 1)
    OBVIOUS
<1>3. x - 1 \in S
    BY <1>1, <1>2
<1>4. (x - 1) + 1 \in S
    BY <1>2, <1>3
<1> QED BY <1>2, <1>4

-----------------------------------------------------------------------------
\* What is left of a listing without some documents is the rest of it.
LEMMA WithoutKeepsTheRest ==
    ASSUME NEW X, NEW s \in Seq(X), NEW W
    PROVE  /\ Bin!Without(s, W) \in Seq(X)
           /\ Bin!ToSet(Bin!Without(s, W)) = Bin!ToSet(s) \ W
           /\ Len(Bin!Without(s, W)) <= Len(s)
           /\ Bin!IsInjective(s) => Bin!IsInjective(Bin!Without(s, W))
<1> DEFINE Step(v, n) == IF s[n] \in W THEN v ELSE Append(v, s[n])
           Upto(f, m) == f = [n \in 0..m |-> IF n = 0 THEN <<>> ELSE Step(f[n - 1], n)]
           left == CHOOSE f : Upto(f, Len(s))
           Seen(n) == {s[i] : i \in 1..n}
           Good(n) == /\ left[n] \in Seq(X)
                      /\ Bin!ToSet(left[n]) = Seen(n) \ W
                      /\ Len(left[n]) <= n
                      /\ Bin!IsInjective(s) => Bin!IsInjective(left[n])
<1>1. Bin!Without(s, W) = left[Len(s)]
    BY DEF Bin!Without
<1>2. Len(s) \in Nat /\ DOMAIN s = 1..Len(s)
    OBVIOUS
<1>3. \E f : Upto(f, Len(s))
    <2> HIDE DEF Step
    <2> DEFINE S == {m \in Nat : \E f : Upto(f, m)}
    <2>1. 0 \in S
        <3>1. Upto([n \in 0..0 |-> <<>>], 0)
            OBVIOUS
        <3> HIDE DEF Upto
        <3> QED BY <3>1
    <2>2. ASSUME NEW m \in Nat, m \in S PROVE m + 1 \in S
        <3>1. PICK f : Upto(f, m)
            BY <2>2
        <3> DEFINE g == [n \in 0..(m + 1) |-> IF n = m + 1 THEN Step(f[m], n) ELSE f[n]]
        <3>2. ASSUME NEW n \in 0..(m + 1)
              PROVE  g[n] = IF n = 0 THEN <<>> ELSE Step(g[n - 1], n)
            <4>1. CASE n = 0
                BY <3>1, <4>1
            <4>2. CASE n = m + 1
                <5>1. g[n] = Step(f[m], n) /\ n - 1 = m /\ g[m] = f[m] /\ n # 0
                    BY <4>2
                <5> QED BY <5>1
            <4>3. CASE n \in 1..m
                <5>1. g[n] = f[n] /\ g[n - 1] = f[n - 1] /\ n # 0 /\ n \in 0..m
                    BY <4>3
                <5>2. f[n] = Step(f[n - 1], n)
                    BY <3>1, <5>1
                <5> QED BY <5>1, <5>2
            <4> QED BY <4>1, <4>2, <4>3
        <3>3. Upto(g, m + 1)
            BY <3>2
        <3> HIDE DEF g, Upto
        <3> QED BY <3>3
    <2> HIDE DEF S
    <2>3. Nat \subseteq S
        BY <2>1, <2>2, NatSetInduction
    <2> QED BY <1>2, <2>3 DEF S
<1>4. Upto(left, Len(s))
    BY <1>3
<1>5. /\ left[0] = <<>>
      /\ \A n \in 1..Len(s) : left[n] = Step(left[n - 1], n)
    <2> HIDE DEF left, Step
    <2>1. \A n \in 0..Len(s) : left[n] = IF n = 0 THEN <<>> ELSE Step(left[n - 1], n)
        BY <1>4
    <2> QED BY <1>2, <2>1
<1> HIDE DEF left
<1> DEFINE S == {n \in Nat : n <= Len(s) => Good(n)}
<1>6. 0 \in S
    <2>1. <<>> \in Seq(X) /\ Len(<<>>) = 0 /\ Seen(0) = {}
        OBVIOUS
    <2>2. PICK e : e = <<>> /\ DOMAIN e = {}
        OBVIOUS
    <2>3. Bin!ToSet(e) = {} /\ Bin!IsInjective(e)
        BY <2>2 DEF Bin!ToSet, Bin!IsInjective
    <2>4. /\ left[0] \in Seq(X) /\ Len(left[0]) = 0
          /\ Bin!ToSet(left[0]) = {} /\ Bin!IsInjective(left[0])
        BY <1>5, <2>1, <2>2, <2>3
    <2> HIDE DEF Seen
    <2>5. Good(0)
        BY <2>1, <2>4
    <2> HIDE DEF Good
    <2> QED BY <2>5
<1>7. ASSUME NEW n \in Nat, n \in S PROVE n + 1 \in S
    <2> SUFFICES ASSUME n + 1 <= Len(s) PROVE Good(n + 1)
        OBVIOUS
    <2> DEFINE v == left[n]
               e == s[n + 1]
    <2>1. /\ v \in Seq(X) /\ Bin!ToSet(v) = Seen(n) \ W /\ Len(v) <= n
          /\ Bin!IsInjective(s) => Bin!IsInjective(v)
        BY <1>2, <1>7
    <2>2. left[n + 1] = IF e \in W THEN v ELSE Append(v, e)
        BY <1>2, <1>5
    <2>3. e \in X /\ Seen(n + 1) = Seen(n) \cup {e}
        BY <1>2
    <2>4. Bin!IsInjective(s) => e \notin Seen(n)
        BY <1>2 DEF Bin!IsInjective
    <2>5. /\ Append(v, e) \in Seq(X) /\ Len(Append(v, e)) <= n + 1 /\ Len(v) <= n + 1
          /\ Bin!ToSet(Append(v, e)) = Bin!ToSet(v) \cup {e}
          /\ Bin!IsInjective(v) /\ e \notin Bin!ToSet(v) => Bin!IsInjective(Append(v, e))
        <3> HIDE DEF v, e, Seen
        <3>1. /\ Append(v, e) \in Seq(X) /\ Len(v) \in Nat
              /\ Len(Append(v, e)) = Len(v) + 1
              /\ DOMAIN v = 1..Len(v) /\ DOMAIN Append(v, e) = 1..(Len(v) + 1)
              /\ \A i \in 1..Len(v) : Append(v, e)[i] = v[i]
              /\ Append(v, e)[Len(v) + 1] = e
            BY <2>1, <2>3
        <3>2. Bin!ToSet(Append(v, e)) = Bin!ToSet(v) \cup {e}
            BY <3>1 DEF Bin!ToSet
        <3>3. ASSUME Bin!IsInjective(v), e \notin Bin!ToSet(v) PROVE Bin!IsInjective(Append(v, e))
            BY <3>1, <3>3 DEF Bin!ToSet, Bin!IsInjective
        <3> QED BY <2>1, <3>1, <3>2, <3>3
    <2> HIDE DEF v, e, Seen
    <2> QED BY <2>1, <2>2, <2>3, <2>4, <2>5
<1> HIDE DEF S
<1>8. Nat \subseteq S
    BY <1>6, <1>7, NatSetInduction
<1>9. Good(Len(s))
    <2> HIDE DEF Good
    <2> QED BY <1>2, <1>8 DEF S
<1>10. Seen(Len(s)) = Bin!ToSet(s)
    BY <1>2 DEF Bin!ToSet
<1> QED BY <1>1, <1>9, <1>10

\* Paperless takes a list up to the first document it refuses.
LEMMA TakenTakes ==
    ASSUME NEW X, NEW ids \in Seq(X)
    PROVE  /\ Bin!Taken(ids) \in 0..Len(ids)
           /\ \A i \in 1..Bin!Taken(ids) : ids[i] \in Bin!ToSet(trash)
<1> DEFINE fits(n) == n = 0 \/ (ids[n] \in Bin!ToSet(trash) /\ \A i \in 1..(n - 1) : ids[i] # ids[n])
           Ends(n) == (\A i \in 1..n : fits(i)) /\ (n = Len(ids) \/ ~fits(n + 1))
           T == {m \in 1..(Len(ids) + 1) : m = Len(ids) + 1 \/ ~fits(m)}
<1>1. Bin!Taken(ids) = CHOOSE n \in 0..Len(ids) : Ends(n)
    BY DEF Bin!Taken
<1>2. Len(ids) \in Nat
    OBVIOUS
<1>3. \E n \in 0..Len(ids) : Ends(n)
    <2> HIDE DEF fits
    <2>1. PICK x \in T : \A y \in T : x <= y
        <3>1. T \subseteq Nat /\ Len(ids) + 1 \in T
            BY <1>2
        <3> QED BY <3>1, LeastNatural
    <2>2. x - 1 \in 0..Len(ids) /\ (x - 1) + 1 = x
        BY <1>2
    <2>3. ASSUME NEW i \in 1..(x - 1) PROVE fits(i)
        BY <1>2, <2>1, <2>2
    <2>4. x - 1 = Len(ids) \/ ~fits(x)
        BY <1>2
    <2> QED BY <2>2, <2>3, <2>4
<1>4. Bin!Taken(ids) \in 0..Len(ids) /\ Ends(Bin!Taken(ids))
    <2> HIDE DEF Ends
    <2> QED BY <1>1, <1>3
<1> QED BY <1>2, <1>4

\* A document filed at place i of a listing moves what comes after it.
LEMMA InsertedAt ==
    ASSUME NEW X, NEW s \in Seq(X), NEW e \in X, NEW i \in 1..(Len(s) + 1)
    PROVE  /\ Bin!InsertAt(s, i, e) \in Seq(X)
           /\ Len(Bin!InsertAt(s, i, e)) = Len(s) + 1
           /\ \A k \in 1..(Len(s) + 1) :
                Bin!InsertAt(s, i, e)[k] = IF k < i THEN s[k] ELSE IF k = i THEN e ELSE s[k - 1]
<1> DEFINE a == SubSeq(s, 1, i - 1)
           b == SubSeq(s, i, Len(s))
<1>1. a \in Seq(X) /\ Len(a) = i - 1 /\ \A k \in 1..(i - 1) : a[k] = s[k]
    OBVIOUS
<1>2. /\ b \in Seq(X) /\ Len(b) = Len(s) - i + 1
      /\ \A k \in 1..(Len(s) - i + 1) : b[k] = s[i + k - 1]
    OBVIOUS
<1>3. Bin!InsertAt(s, i, e) = a \o <<e>> \o b
    BY DEF Bin!InsertAt
<1> HIDE DEF a, b
<1> DEFINE c == a \o <<e>>
<1>4. /\ c \in Seq(X) /\ Len(c) = i /\ c[i] = e
      /\ \A k \in 1..(i - 1) : c[k] = s[k]
    BY <1>1
<1> HIDE DEF c
<1>5. /\ c \o b \in Seq(X) /\ Len(c \o b) = Len(s) + 1
      /\ \A k \in 1..i : (c \o b)[k] = c[k]
      /\ \A k \in (i + 1)..(Len(s) + 1) : (c \o b)[k] = b[k - i]
    BY <1>2, <1>4
<1>6. \A k \in (i + 1)..(Len(s) + 1) : b[k - i] = s[k - 1]
    BY <1>2
<1>7. Bin!InsertAt(s, i, e) = c \o b
    BY <1>3 DEF c
<1>8. ASSUME NEW k \in 1..(Len(s) + 1)
      PROVE  (c \o b)[k] = IF k < i THEN s[k] ELSE IF k = i THEN e ELSE s[k - 1]
    <2>1. CASE k < i
        BY <1>4, <1>5, <2>1
    <2>2. CASE k = i
        BY <1>4, <1>5, <2>2
    <2>3. CASE k > i
        <3>1. k \in (i + 1)..(Len(s) + 1)
            BY <2>3
        <3>2. ~(k < i) /\ k # i
            BY <2>3
        <3>3. (c \o b)[k] = b[k - i]
            BY <1>5, <3>1
        <3>4. b[k - i] = s[k - 1]
            BY <1>6, <3>1
        <3> QED BY <3>2, <3>3, <3>4
    <2>4. k < i \/ k = i \/ k > i
        OBVIOUS
    <2> QED BY <2>1, <2>2, <2>3, <2>4
<1> HIDE DEF c
<1> QED BY <1>5, <1>7, <1>8

LEMMA InsertedSet ==
    ASSUME NEW X, NEW s \in Seq(X), NEW e \in X, NEW i \in 1..(Len(s) + 1)
    PROVE  Bin!ToSet(Bin!InsertAt(s, i, e)) = Bin!ToSet(s) \cup {e}
<1> DEFINE t == Bin!InsertAt(s, i, e)
<1>1. /\ Len(s) \in Nat /\ DOMAIN s = 1..Len(s) /\ DOMAIN t = 1..(Len(s) + 1)
      /\ \A k \in 1..(Len(s) + 1) :
            t[k] = IF k < i THEN s[k] ELSE IF k = i THEN e ELSE s[k - 1]
    <2>1. /\ t \in Seq(X) /\ Len(t) = Len(s) + 1
          /\ \A k \in 1..(Len(s) + 1) :
                t[k] = IF k < i THEN s[k] ELSE IF k = i THEN e ELSE s[k - 1]
        BY InsertedAt
    <2> QED BY <2>1
<1> HIDE DEF t
<1>2. ASSUME NEW k \in 1..(Len(s) + 1) PROVE t[k] \in Bin!ToSet(s) \cup {e}
    <2>1. CASE k < i
        <3>1. k \in DOMAIN s /\ t[k] = s[k]
            BY <1>1, <2>1
        <3> QED BY <3>1 DEF Bin!ToSet
    <2>2. CASE k > i
        <3>1. k - 1 \in DOMAIN s /\ t[k] = s[k - 1]
            BY <1>1, <2>2
        <3> QED BY <3>1 DEF Bin!ToSet
    <2>3. CASE k = i
        BY <1>1, <2>3
    <2> QED BY <2>1, <2>2, <2>3
<1>3. ASSUME NEW k \in 1..Len(s) PROVE s[k] \in Bin!ToSet(t)
    <2>1. CASE k < i
        <3>1. k \in DOMAIN t /\ t[k] = s[k]
            BY <1>1, <2>1
        <3> QED BY <3>1 DEF Bin!ToSet
    <2>2. CASE ~(k < i)
        <3>1. k + 1 \in DOMAIN t /\ t[k + 1] = s[k]
            BY <1>1, <2>2
        <3> QED BY <3>1 DEF Bin!ToSet
    <2> QED BY <2>1, <2>2
<1>4. e \in Bin!ToSet(t)
    <2>1. i \in DOMAIN t /\ t[i] = e
        BY <1>1
    <2> QED BY <2>1 DEF Bin!ToSet
<1>5. Bin!ToSet(t) \subseteq Bin!ToSet(s) \cup {e}
    BY <1>1, <1>2 DEF Bin!ToSet
<1>6. Bin!ToSet(s) \subseteq Bin!ToSet(t)
    BY <1>1, <1>3 DEF Bin!ToSet
<1> QED BY <1>4, <1>5, <1>6 DEF t

\* A new document is there once.
LEMMA InsertedOnce ==
    ASSUME NEW X, NEW s \in Seq(X), NEW e \in X, NEW i \in 1..(Len(s) + 1),
           Bin!IsInjective(s), e \notin Bin!ToSet(s)
    PROVE  Bin!IsInjective(Bin!InsertAt(s, i, e))
<1> DEFINE t == Bin!InsertAt(s, i, e)
           old(k) == IF k < i THEN k ELSE k - 1
<1>1. /\ Len(s) \in Nat /\ DOMAIN s = 1..Len(s) /\ DOMAIN t = 1..(Len(s) + 1)
      /\ \A k \in 1..(Len(s) + 1) :
            t[k] = IF k < i THEN s[k] ELSE IF k = i THEN e ELSE s[k - 1]
    <2>1. /\ t \in Seq(X) /\ Len(t) = Len(s) + 1
          /\ \A k \in 1..(Len(s) + 1) :
                t[k] = IF k < i THEN s[k] ELSE IF k = i THEN e ELSE s[k - 1]
        BY InsertedAt
    <2> QED BY <2>1
<1> HIDE DEF t
<1>2. /\ t[i] = e
      /\ \A k \in DOMAIN t \ {i} : old(k) \in DOMAIN s /\ t[k] = s[old(k)] /\ t[k] # e
    BY <1>1 DEF Bin!ToSet
<1>3. \A k, j \in DOMAIN t \ {i} : old(k) = old(j) => k = j
    BY <1>1
<1> HIDE DEF old
<1>4. ASSUME NEW k \in DOMAIN t, NEW j \in DOMAIN t, t[k] = t[j] PROVE k = j
    <2>1. CASE k = i \/ j = i
        BY <1>2, <1>4, <2>1
    <2>2. CASE k # i /\ j # i
        <3>1. old(k) = old(j)
            BY <1>2, <1>4, <2>2 DEF Bin!IsInjective
        <3> QED BY <1>3, <2>2, <3>1
    <2> QED BY <2>1, <2>2
<1>5. Bin!IsInjective(t)
    BY <1>4 DEF Bin!IsInjective
<1> QED BY <1>5 DEF t

\* What a sequence holds after place k and up to place m.
Slice(t, k, m) == {t[i] : i \in (k + 1)..m}

LEMMA Appended ==
    ASSUME NEW X, NEW s \in Seq(X), NEW p \in Seq(X)
    PROVE  s \o p \in Seq(X) /\ Len(s \o p) = Len(s) + Len(p) /\ Len(s) \in Nat
    OBVIOUS

\* A page appended to what was listed before.
LEMMA PageAppended ==
    ASSUME NEW X, NEW s \in Seq(X), NEW t \in Seq(X), NEW k \in Nat, NEW m \in 0..Len(t)
    PROVE  /\ s \o SubSeq(t, k + 1, m) \in Seq(X)
           /\ Bin!ToSet(s \o SubSeq(t, k + 1, m)) = Bin!ToSet(s) \cup Slice(t, k, m)
<1> DEFINE p == SubSeq(t, k + 1, m)
           n == IF k + 1 <= m THEN m - k ELSE 0
<1>1. p \in Seq(X) /\ Len(p) = n /\ n \in Nat /\ \A i \in 1..n : p[i] = t[k + i]
    OBVIOUS
<1> HIDE DEF p
<1>2. /\ s \o p \in Seq(X) /\ Len(s) \in Nat
      /\ DOMAIN (s \o p) = 1..(Len(s) + n) /\ DOMAIN s = 1..Len(s)
      /\ \A i \in 1..Len(s) : (s \o p)[i] = s[i]
      /\ \A i \in 1..n : (s \o p)[Len(s) + i] = p[i]
    <2>1. /\ s \o p \in Seq(X) /\ Len(s \o p) = Len(s) + n /\ Len(s) \in Nat
          /\ \A i \in 1..Len(s) : (s \o p)[i] = s[i]
          /\ \A i \in 1..n : (s \o p)[Len(s) + i] = p[i]
        <3>1. s \o p \in Seq(X) /\ Len(s \o p) = Len(s) + Len(p) /\ Len(s) \in Nat
            BY <1>1, Appended
        <3>2. \A i \in 1..Len(s) : (s \o p)[i] = s[i]
            BY <1>1
        <3>3. \A i \in 1..Len(p) : (s \o p)[Len(s) + i] = p[i]
            BY <1>1
        <3> HIDE DEF n
        <3> QED BY <1>1, <3>1, <3>2, <3>3
    <2>2. DOMAIN (s \o p) = 1..Len(s \o p) /\ DOMAIN s = 1..Len(s)
        BY <2>1
    <2> QED BY <2>1, <2>2
<1>3. ASSUME NEW x \in Bin!ToSet(s \o p)
      PROVE  x \in Bin!ToSet(s) \cup {t[i] : i \in (k + 1)..m}
    <2>1. PICK i \in 1..(Len(s) + n) : x = (s \o p)[i]
        BY <1>2 DEF Bin!ToSet
    <2>2. CASE i <= Len(s)
        <3>1. i \in DOMAIN s /\ x = s[i]
            BY <1>2, <2>1, <2>2
        <3> QED BY <3>1 DEF Bin!ToSet
    <2>3. CASE ~(i <= Len(s))
        <3>1. i - Len(s) \in 1..n /\ Len(s) + (i - Len(s)) = i
            BY <1>1, <1>2, <2>1, <2>3
        <3>2. x = t[k + (i - Len(s))] /\ k + (i - Len(s)) \in (k + 1)..m
            BY <1>1, <1>2, <2>1, <3>1
        <3> QED BY <3>2
    <2> QED BY <2>2, <2>3
<1>4. ASSUME NEW x \in Bin!ToSet(s) PROVE x \in Bin!ToSet(s \o p)
    <2>1. PICK i \in 1..Len(s) : x = s[i]
        BY <1>2 DEF Bin!ToSet
    <2>2. i \in 1..(Len(s) + n) /\ (s \o p)[i] = x
        BY <1>1, <1>2, <2>1
    <2> QED BY <1>2, <2>2 DEF Bin!ToSet
<1>5. ASSUME NEW i \in (k + 1)..m PROVE t[i] \in Bin!ToSet(s \o p)
    <2>1. i - k \in 1..n /\ k + (i - k) = i /\ Len(s) + (i - k) \in 1..(Len(s) + n)
        BY <1>2
    <2>2. (s \o p)[Len(s) + (i - k)] = t[i]
        BY <1>1, <1>2, <2>1
    <2>3. Len(s) + (i - k) \in DOMAIN (s \o p)
        BY <1>2, <2>1
    <2> QED BY <2>2, <2>3 DEF Bin!ToSet
<1> QED BY <1>2, <1>3, <1>4, <1>5 DEF p, Slice

-----------------------------------------------------------------------------
(* The parts. *)

LEMMA PartsBegin ==
    SumInit => Up!Init /\ Bin!Init /\ Form!Init /\ Page!Init /\ Set!Init /\ Auth!Init
BY DEF SumInit

LEMMA PartsMove ==
    ASSUME [SumNext]_sumVars
    PROVE  /\ [Next]_vars
           /\ [Lib!Next]_library
           /\ [Up!Next]_uploads
           /\ [Bin!Next]_bin
           /\ [Form!Next]_review
           /\ [Page!Next]_page
           /\ [Set!Next]_settings
           /\ [Auth!Next]_sessions
BY DEF SumNext, sumVars

-----------------------------------------------------------------------------
(* The review form. *)

FormText == [Fields -> Values]

Patch == {<<>>} \cup UNION {[some -> Values] : some \in SUBSET Fields}

ReviewTyped ==
    /\ stored \in [Docs -> FormText]
    /\ detail \in [Docs -> FormText \cup {Null}]
    /\ fetching \in [doc : Docs, fields : FormText] \cup {Null}
    /\ open \in Docs \cup {Null}
    /\ form \in FormText
    /\ hydrated \in FormText \cup {Null}
    /\ typed \in [Fields -> Values \cup {Null}]
    /\ approving \in [kind : {"save", "review"}, doc : Docs, patch : Patch, at : {"sent"}]
                        \cup [kind : {"save", "review"}, doc : Docs, patch : FormText,
                              at : {"applied"}]
                        \cup {Null}

\* The page shows the detail of its document; the form holds what it was filled with or
\* what the user has typed since.
FilledOrTyped ==
    /\ open = Null => hydrated = Null
    /\ open # Null => hydrated = detail[open]
    /\ hydrated # Null =>
            \A f \in Fields : form[f] = hydrated[f] \/ (typed[f] # Null /\ form[f] = typed[f])

ReviewInv == ReviewTyped /\ FilledOrTyped

LEMMA TextOperators ==
    \A v \in Values : Trim[v] \in Values /\ Normal[v] \in Values
BY TextsAssumption

LEMMA ReviewInit == Form!Init => ReviewInv
<1> SUFFICES ASSUME Form!Init PROVE ReviewInv
    OBVIOUS
<1>1. stored \in [Docs -> FormText]
    <2>1. \A v \in {Normal[w] : w \in Values} : v \in Values
        BY TextOperators
    <2>2. [Fields -> {Normal[w] : w \in Values}] \subseteq FormText
        BY <2>1 DEF FormText
    <2> QED BY <2>2 DEF Form!Init
<1>2. form \in FormText /\ typed \in [Fields -> Values \cup {Null}]
    BY TextsAssumption DEF Form!Init, Form!EMPTY_FORM, Form!Untouched, FormText
<1> QED BY <1>1, <1>2 DEF Form!Init, ReviewInv, ReviewTyped, FilledOrTyped

\* What the dirty patch holds, and when.
LEMMA DirtyPatch ==
    ASSUME ReviewTyped
    PROVE  /\ Form!buildDirtyPatch \in Patch
           /\ Form!dirty => open \in Docs /\ detail[open] # Null
           /\ \A f \in DOMAIN Form!buildDirtyPatch :
                /\ f \in Fields
                /\ open \in Docs /\ detail[open] # Null
                /\ form[f] # detail[open][f]
                /\ Form!buildDirtyPatch[f] = Trim[form[f]]
<1>1. CASE open = Null \/ detail[open] = Null
    <2>1. Form!buildDirtyPatch = <<>> /\ DOMAIN Form!buildDirtyPatch = {}
        BY <1>1 DEF Form!buildDirtyPatch
    <2> QED BY <2>1 DEF Patch, Form!dirty
<1>2. CASE ~(open = Null \/ detail[open] = Null)
    <2> DEFINE S == {f \in Fields : Trim[form[f]] # Trim[detail[open][f]]}
    <2>1. Form!buildDirtyPatch = [f \in S |-> Trim[form[f]]]
        BY <1>2 DEF Form!buildDirtyPatch
    <2>2. [f \in S |-> Trim[form[f]]] \in [S -> Values]
        BY TextsAssumption DEF ReviewTyped, FormText
    <2>3. Form!buildDirtyPatch \in Patch
        BY <2>1, <2>2 DEF Patch
    <2>4. open \in Docs /\ detail[open] # Null
        BY <1>2 DEF ReviewTyped
    <2> QED BY <2>1, <2>3, <2>4
<1> QED BY <1>1, <1>2

\* A page that opens is filled from the cache, and nothing has been typed.
LEMMA OpenPageInv ==
    ASSUME ReviewInv, NEW d \in Docs \cup {Null}, Form!OpenPage(d), UNCHANGED <<stored, detail, fetching>>,
           approving' \in {approving, Null}
    PROVE  ReviewInv'
<1>1. typed' \in [Fields -> Values \cup {Null}] /\ typed' = Form!Untouched
    BY DEF Form!OpenPage, Form!Untouched
<1>2. Form!EMPTY_FORM \in FormText
    BY TextsAssumption DEF Form!EMPTY_FORM, FormText
<1>3. CASE d = Null
    BY <1>1, <1>2, <1>3 DEF Form!OpenPage, ReviewInv, ReviewTyped, FilledOrTyped
<1>4. CASE d # Null
    <2>1. d \in Docs /\ detail'[d] = detail[d] /\ detail[d] \in FormText \cup {Null}
        BY <1>4 DEF ReviewInv, ReviewTyped
    <2>2. CASE detail[d] = Null
        BY <1>1, <1>2, <1>4, <2>1, <2>2 DEF Form!OpenPage, ReviewInv, ReviewTyped, FilledOrTyped
    <2>3. CASE detail[d] # Null
        BY <1>1, <1>4, <2>1, <2>3 DEF Form!OpenPage, ReviewInv, ReviewTyped, FilledOrTyped
    <2> QED BY <2>2, <2>3
<1> QED BY <1>3, <1>4

\* A detail that arrives refills the fields the user left alone.
LEMMA ReceiveInv ==
    ASSUME ReviewInv, NEW d \in Docs, NEW fields \in FormText, Form!Receive(d, fields),
           UNCHANGED <<stored, open, typed>>,
           fetching' \in {fetching, Null}, approving' \in {approving, Null}
    PROVE  ReviewInv'
<1>1. detail' = [detail EXCEPT ![d] = fields] /\ detail' \in [Docs -> FormText \cup {Null}]
    BY DEF Form!Receive, ReviewInv, ReviewTyped
<1>2. CASE d # open
    <2>1. UNCHANGED <<form, hydrated>>
        BY <1>2 DEF Form!Receive
    <2>2. open # Null => detail'[open] = detail[open]
        BY <1>1, <1>2 DEF ReviewInv, ReviewTyped
    <2> QED BY <1>1, <2>1, <2>2 DEF ReviewInv, ReviewTyped, FilledOrTyped
<1>3. CASE d = open
    <2>1. form' = Form!mergeHydration(form, hydrated, fields) /\ hydrated' = fields
        BY <1>3 DEF Form!Receive
    <2>2. d # Null /\ detail'[d] = fields
        BY <1>1, NullAssumption DEF ReviewInv, ReviewTyped
    <2>3. CASE hydrated = Null
        <3>1. form' = fields
            BY <2>1, <2>3 DEF Form!mergeHydration
        <3> QED BY <1>1, <1>3, <2>1, <2>2, <3>1 DEF ReviewInv, ReviewTyped, FilledOrTyped
    <2>4. CASE hydrated # Null
        <3>1. form' = [f \in Fields |-> IF form[f] = hydrated[f] THEN fields[f] ELSE form[f]]
            BY <2>1, <2>4 DEF Form!mergeHydration
        <3>2. form' \in FormText
            BY <3>1 DEF ReviewInv, ReviewTyped, FormText
        <3>3. \A f \in Fields : form'[f] = fields[f] \/ (typed[f] # Null /\ form'[f] = typed[f])
            BY <2>4, <3>1 DEF ReviewInv, FilledOrTyped
        <3> QED BY <1>1, <1>3, <2>1, <2>2, <3>2, <3>3 DEF ReviewInv, ReviewTyped, FilledOrTyped
    <2> QED BY <2>3, <2>4
<1> QED BY <1>2, <1>3

\* A request carries the open document and a patch.
LEMMA RequestInv ==
    ASSUME ReviewInv, NEW kind \in {"save", "review"}, NEW patch \in Patch, open \in Docs,
           Form!Request(kind, patch)
    PROVE  ReviewInv'
<1>1. approving' \in [kind : {"save", "review"}, doc : Docs, patch : Patch, at : {"sent"}]
    BY DEF Form!Request
<1> QED BY <1>1 DEF Form!Request, ReviewInv, ReviewTyped, FilledOrTyped

LEMMA ReviewNext == ReviewInv /\ [Form!Next]_review => ReviewInv'
<1> SUFFICES ASSUME ReviewInv, [Form!Next]_review PROVE ReviewInv'
    OBVIOUS
<1>1. CASE Form!Open
    BY <1>1, OpenPageInv DEF Form!Open
<1>2. CASE Form!setField
    <2>1. PICK f \in Fields, v \in Values :
            form' = [form EXCEPT ![f] = v] /\ typed' = [typed EXCEPT ![f] = v]
        BY <1>2 DEF Form!setField
    <2>2. v # Null
        BY NullAssumption
    <2>3. form' \in FormText /\ typed' \in [Fields -> Values \cup {Null}]
        BY <2>1 DEF ReviewInv, ReviewTyped, FormText
    <2>4. \A g \in Fields : /\ form'[g] = IF g = f THEN v ELSE form[g]
                            /\ typed'[g] = IF g = f THEN v ELSE typed[g]
        BY <2>1 DEF ReviewInv, ReviewTyped, FormText
    <2> QED BY <1>2, <2>2, <2>3, <2>4 DEF Form!setField, ReviewInv, ReviewTyped, FilledOrTyped
<1>3. CASE Form!reset
    <2>1. open \in Docs /\ detail[open] # Null
        BY <1>3, DirtyPatch DEF Form!reset, ReviewInv
    <2>2. detail[open] \in FormText /\ hydrated = detail[open]
        BY <2>1, NullAssumption DEF ReviewInv, ReviewTyped, FilledOrTyped
    <2>3. Form!Untouched \in [Fields -> Values \cup {Null}]
        BY DEF Form!Untouched
    <2> QED BY <1>3, <2>2, <2>3 DEF Form!reset, ReviewInv, ReviewTyped, FilledOrTyped
<1>4. CASE Form!onSave
    BY <1>4, DirtyPatch, RequestInv DEF Form!onSave, ReviewInv
<1>5. CASE Form!onApprove \/ Form!onReject
    <2>1. open \in Docs /\ <<>> \in Patch /\ Form!buildDirtyPatch \in Patch
        BY <1>5, DirtyPatch
        DEF Form!onApprove, Form!onReject, ReviewInv, ReviewTyped, FilledOrTyped, Patch
    <2> QED BY <1>5, <2>1, RequestInv DEF Form!onApprove, Form!onReject
<1>6. CASE Form!Apply
    <2> DEFINE fields == [f \in Fields |-> IF f \in DOMAIN approving.patch
                                           THEN Normal[approving.patch[f]]
                                           ELSE stored[approving.doc][f]]
    <2>1. approving \in [kind : {"save", "review"}, doc : Docs, patch : Patch, at : {"sent"}]
        BY <1>6 DEF Form!Apply, ReviewInv, ReviewTyped
    <2>2. \A f \in DOMAIN approving.patch : approving.patch[f] \in Values
        BY <2>1 DEF Patch
    <2>3. fields \in FormText
        <3>1. stored[approving.doc] \in FormText
            BY <2>1 DEF ReviewInv, ReviewTyped
        <3>2. ASSUME NEW f \in Fields
              PROVE  (IF f \in DOMAIN approving.patch THEN Normal[approving.patch[f]]
                      ELSE stored[approving.doc][f]) \in Values
            BY <2>2, <3>1, TextOperators DEF FormText
        <3> QED BY <3>2 DEF FormText
    <2>4. /\ stored' = [stored EXCEPT ![approving.doc] = fields]
          /\ approving' = [approving EXCEPT !.at = "applied", !.patch = fields]
        BY <1>6 DEF Form!Apply
    <2> HIDE DEF fields
    <2>5. stored' \in [Docs -> FormText]
        BY <2>1, <2>3, <2>4 DEF ReviewInv, ReviewTyped
    <2>6. approving' \in [kind : {"save", "review"}, doc : Docs, patch : FormText, at : {"applied"}]
        BY <2>1, <2>3, <2>4
    <2> QED BY <1>6, <2>5, <2>6 DEF Form!Apply, ReviewInv, ReviewTyped, FilledOrTyped
<1>7. CASE Form!Saved
    <2>1. approving.doc \in Docs /\ approving.patch \in FormText
        BY <1>7 DEF Form!Saved, ReviewInv, ReviewTyped
    <2> QED BY <1>7, <2>1, ReceiveInv DEF Form!Saved
<1>8. CASE Form!Reviewed
    BY <1>8, OpenPageInv DEF Form!Reviewed
<1>9. CASE Form!Failed
    BY <1>9 DEF Form!Failed, ReviewInv, ReviewTyped, FilledOrTyped
<1>10. CASE Form!FetchStarts
    <2>1. fetching' \in [doc : Docs, fields : FormText]
        BY <1>10 DEF Form!FetchStarts, ReviewInv, ReviewTyped
    <2> QED BY <1>10, <2>1 DEF Form!FetchStarts, ReviewInv, ReviewTyped, FilledOrTyped
<1>11. CASE Form!Fetched
    <2>1. fetching.doc \in Docs /\ fetching.fields \in FormText
        BY <1>11 DEF Form!Fetched, ReviewInv, ReviewTyped
    <2>2. CASE Form!Receive(fetching.doc, fetching.fields)
        BY <1>11, <2>1, <2>2, ReceiveInv DEF Form!Fetched
    <2>3. CASE UNCHANGED <<detail, form, hydrated>>
        BY <1>11, <2>3 DEF Form!Fetched, ReviewInv, ReviewTyped, FilledOrTyped
    <2> QED BY <1>11, <2>2, <2>3 DEF Form!Fetched
<1>12. CASE Form!OthersWrite
    <2>1. stored' \in [Docs -> FormText]
        <3>1. PICK d \in Docs, f \in Fields, v \in Values :
                stored' = [stored EXCEPT ![d][f] = Normal[v]]
            BY <1>12 DEF Form!OthersWrite
        <3>2. stored[d] \in FormText /\ Normal[v] \in Values
            BY TextOperators DEF ReviewInv, ReviewTyped
        <3>3. [stored[d] EXCEPT ![f] = Normal[v]] \in FormText
            BY <3>2 DEF FormText
        <3> QED BY <3>1, <3>3 DEF ReviewInv, ReviewTyped
    <2> QED BY <1>12, <2>1 DEF Form!OthersWrite, ReviewInv, ReviewTyped, FilledOrTyped
<1>13. CASE UNCHANGED review
    BY <1>13 DEF review, ReviewInv, ReviewTyped, FilledOrTyped
<1> QED BY <1>1, <1>2, <1>3, <1>4, <1>5, <1>6, <1>7, <1>8, <1>9, <1>10, <1>11, <1>12, <1>13
        DEF Form!Next

(***************************************************************************)
(* Nothing goes out as the reviewer's edit that the reviewer has not       *)
(* typed, whatever the fields, the texts and the documents are and however *)
(* often the detail changes under the form (useHydratedForm).              *)
(***************************************************************************)
THEOREM ReviewersEditsOnly == SumSpec => []EditsWereTyped
<1>1. SumInit => ReviewInv
    BY PartsBegin, ReviewInit
<1>2. ReviewInv /\ [SumNext]_sumVars => ReviewInv'
    BY PartsMove, ReviewNext
<1>3. ReviewInv => EditsWereTyped
    <2> SUFFICES ASSUME ReviewInv, NEW f \in DOMAIN Form!buildDirtyPatch
                 PROVE  typed[f] # Null /\ Form!buildDirtyPatch[f] = Trim[typed[f]]
        BY DEF EditsWereTyped, Form!EditsWereTyped
    <2>1. /\ f \in Fields
          /\ open \in Docs /\ detail[open] # Null
          /\ form[f] # detail[open][f]
          /\ Form!buildDirtyPatch[f] = Trim[form[f]]
        BY DirtyPatch DEF ReviewInv
    <2>2. open # Null
        BY <2>1, NullAssumption
    <2>3. hydrated = detail[open] /\ hydrated # Null
        BY <2>1, <2>2 DEF ReviewInv, FilledOrTyped
    <2>4. typed[f] # Null /\ form[f] = typed[f]
        BY <2>1, <2>3 DEF ReviewInv, FilledOrTyped
    <2> QED BY <2>1, <2>4
<1> QED BY <1>1, <1>2, <1>3, PTL DEF SumSpec

-----------------------------------------------------------------------------
(* The settings. *)

AnyModel == Set!AnyModel
Callers == Set!Callers
Columns == Set!Column \cup {"rule"}
Hundredth == {10 * h : h \in 0 .. 100}
Value == AnyModel \cup Nat \cup {Null}

ApiCall == [pc : {"idle", "select", "insert", "update", "upsert", "list", "answered"},
            op : {"none", "get", "set"}, col : Columns, value : Value]

\* A request of the API: what it was answered is what the tables held.
CallOK(c, tables) ==
    /\ c.pc \in {"select", "insert", "update"} => c.col \in Set!Column
    /\ c.pc \in {"upsert", "list"} => c.col = "rule"
    /\ c.pc = "update" \/ (c.pc \in {"select", "insert"} /\ c.op = "set") => c.value \in Models
    /\ c.pc = "update" => c.op = "set"
    /\ c.pc = "upsert" => c.value \in 0 .. 1000
    /\ c.pc = "answered" => c.value \in tables[c.col]

SettingsTyped ==
    /\ row \in [Set!Column -> AnyModel] \cup {Null}
    /\ minConf \in Hundredth
    /\ asking \in [Callers -> ApiCall]
    /\ held \in [Columns -> SUBSET (AnyModel \cup Hundredth)]
    /\ displayed \in [Columns -> AnyModel \cup Hundredth \cup {Null}]
    /\ draft \in 0 .. 1000 \cup {Null}
    /\ cache \in AnyModel \cup {Null}
    /\ now \in Nat /\ loadedAt \in Nat /\ asked \in Nat \cup {Null}
    /\ saved \in [Set!Column -> AnyModel]
    /\ inForce \in [AnyModel -> Int]

\* What was ever in a table is held; the page and the requests know of nothing else.
TablesHeld ==
    /\ \A c \in Set!Column : held[c] \subseteq AnyModel /\ DEFAULT_MODEL \in held[c]
    /\ held["rule"] \subseteq Hundredth
    /\ row # Null => row = saved /\ \A c \in Set!Column : row[c] \in held[c]
    /\ row = Null => saved = Set!Fresh
    /\ minConf \in held["rule"]
    /\ \A c \in Callers : CallOK(asking[c], held)
    /\ \A x \in Columns : displayed[x] \in held[x] \cup {Null}
    /\ draft = Null => displayed["rule"] = Null

\* v is the active model, or was it at time t or later.
ActiveSince(v, t) == v = Set!active \/ inForce[v] \geq t

\* The worker's request is for the model and no older than the timeout; what it was
\* answered, what it caches and what it gave was active at the time.
WorkerRecent ==
    /\ \A m \in AnyModel : inForce[m] \leq now
    /\ loadedAt \leq now
    /\ asked = Null => asking["worker"].pc = "idle"
    /\ asked # Null => asked \leq now /\ now - asked \leq Timeout /\ loadedAt \leq asked
    /\ asking["worker"].pc # "idle" =>
            asking["worker"].op = "get" /\ asking["worker"].col = "llmModel"
    /\ asking["worker"].pc = "answered" => ActiveSince(asking["worker"].value, asked)
    /\ cache # Null => ActiveSince(cache, loadedAt)
    /\ given # Null =>
            IF given.fallback THEN given.model = IF cache = Null THEN fallbackModel ELSE cache
            ELSE /\ given.model \in AnyModel
                 /\ given.at \in Nat /\ given.at \leq now
                 /\ ActiveSince(given.model, given.at - TTL)

SettingsInv == SettingsTyped /\ TablesHeld /\ WorkerRecent

LEMMA SettingsConstants ==
    /\ "worker" \in Callers /\ Admins \subseteq Callers \ {"worker"}
    /\ Callers = Admins \cup {"worker"}
    /\ DEFAULT_MODEL \in AnyModel /\ Models \subseteq AnyModel
    /\ Null \notin AnyModel /\ Null \notin Nat
    /\ "llmModel" \in Set!Column /\ "rule" \notin Set!Column
    /\ Set!Fresh \in [Set!Column -> AnyModel] /\ Set!Fresh # Null
    /\ Set!Idle \in ApiCall
    /\ \A tables : CallOK(Set!Idle, tables)
<1>1. Set!Fresh \in [Set!Column -> AnyModel]
    BY DEF Set!Fresh, AnyModel, Set!AnyModel
<1>2. Null \notin [Set!Column -> AnyModel]
    BY SettingsAssumption DEF Set!Column, AnyModel, Set!AnyModel
<1>3. Set!Idle \in ApiCall /\ \A tables : CallOK(Set!Idle, tables)
    BY DEF Set!Idle, ApiCall, Value, Columns, Set!Column, CallOK
<1> QED BY <1>1, <1>2, <1>3, SettingsAssumption
        DEF Callers, Set!Callers, AnyModel, Set!AnyModel, Set!Column

LEMMA SettingsInit == Set!Init => SettingsInv
<1> SUFFICES ASSUME Set!Init PROVE SettingsInv
    OBVIOUS
<1>1. 900 = 10 * 90 /\ 90 \in 0 .. 100
    OBVIOUS
<1>2. minConf \in Hundredth
    BY <1>1 DEF Set!Init, Hundredth
<1>3. /\ held \in [Columns -> SUBSET (AnyModel \cup Hundredth)]
      /\ \A c \in Set!Column : held[c] = {DEFAULT_MODEL}
      /\ held["rule"] = {900}
    BY <1>2, SettingsConstants DEF Set!Init, Columns
<1>4. /\ inForce \in [AnyModel -> Int]
      /\ \A m \in AnyModel : inForce[m] \leq 0
    BY DEF Set!Init, AnyModel
<1>5. /\ asking \in [Callers -> ApiCall]
      /\ \A c \in Callers : asking[c] = Set!Idle
    BY SettingsConstants DEF Set!Init, Callers
<1>6. /\ displayed \in [Columns -> AnyModel \cup Hundredth \cup {Null}]
      /\ \A x \in Columns : displayed[x] = Null
    BY DEF Set!Init, Columns
<1>7. SettingsTyped
    BY <1>2, <1>3, <1>4, <1>5, <1>6, SettingsConstants DEF Set!Init, SettingsTyped
<1>8. TablesHeld
    <2>1. "rule" \in Columns /\ minConf \in held["rule"]
        BY <1>3 DEF Set!Init, Columns
    <2> QED BY <1>2, <1>3, <1>5, <1>6, <2>1, SettingsConstants DEF Set!Init, TablesHeld
<1>9. WorkerRecent
    <2>1. asking["worker"].pc = "idle"
        BY <1>5, SettingsConstants DEF Set!Idle
    <2> QED BY <1>4, <2>1 DEF Set!Init, WorkerRecent
<1> QED BY <1>7, <1>8, <1>9 DEF SettingsInv

\* What a request of the worker may be.
WorkerCallOK(c) ==
    \/ c.pc = "idle"
    \/ /\ c.op = "get" /\ c.col = "llmModel"
       /\ asked # Null
       /\ c.pc = "answered" => ActiveSince(c.value, asked)

LEMMA CallOnly ==
    ASSUME SettingsInv, NEW c \in Callers, NEW r \in ApiCall, CallOK(r, held),
           c = "worker" => WorkerCallOK(r),
           asking' = [asking EXCEPT ![c] = r],
           UNCHANGED <<row, minConf, displayed, draft, cache, loadedAt, asked, given, now,
                       saved, held, inForce>>
    PROVE  SettingsInv'
<1>1. /\ asking' \in [Callers -> ApiCall]
      /\ \A d \in Callers : asking'[d] = IF d = c THEN r ELSE asking[d]
    BY DEF SettingsInv, SettingsTyped
<1>2. SettingsTyped'
    BY <1>1 DEF SettingsInv, SettingsTyped
<1>3. TablesHeld'
    BY <1>1 DEF SettingsInv, TablesHeld
<1>4. WorkerRecent'
    BY <1>1, SettingsConstants DEF SettingsInv, WorkerRecent, WorkerCallOK, ActiveSince, Set!active
<1> QED BY <1>2, <1>3, <1>4 DEF SettingsInv

\* The calls the service moves without touching a table.
LEMMA SelectInv == ASSUME SettingsInv, NEW c \in Callers, Set!Select(c) PROVE SettingsInv'
<1>1. /\ asking[c] \in ApiCall /\ asking[c].pc = "select" /\ asking[c].col \in Set!Column
      /\ CallOK(asking[c], held)
    BY DEF Set!Select, Set!at, SettingsInv, SettingsTyped, TablesHeld, CallOK
<1>2. c = "worker" => asking[c].op = "get" /\ asking[c].col = "llmModel" /\ asked # Null
    BY <1>1 DEF SettingsInv, WorkerRecent
<1>3. UNCHANGED <<row, minConf, displayed, draft, cache, loadedAt, asked, given, now,
                  saved, held, inForce>>
    BY DEF Set!Select, Set!db, Set!worker, Set!history
<1>4. ASSUME NEW pc \in {"insert", "update"}, pc = "update" => asking[c].op = "set",
             asking' = [asking EXCEPT ![c].pc = pc]
      PROVE  SettingsInv'
    <2> DEFINE r == [asking[c] EXCEPT !.pc = pc]
    <2>1. r \in ApiCall /\ CallOK(r, held) /\ (c = "worker" => WorkerCallOK(r))
        BY <1>1, <1>2, <1>4 DEF ApiCall, CallOK, WorkerCallOK
    <2> QED BY <1>3, <1>4, <2>1, CallOnly
<1>5. ASSUME row # Null,
             asking' = [asking EXCEPT ![c].pc = "answered", ![c].value = row[asking[c].col]]
      PROVE  SettingsInv'
    <2> DEFINE v == row[asking[c].col]
               r == [asking[c] EXCEPT !.pc = "answered", !.value = v]
    <2>1. v \in held[asking[c].col] /\ v \in AnyModel
        BY <1>1, <1>5 DEF SettingsInv, SettingsTyped, TablesHeld
    <2>2. c = "worker" => v = Set!active
        BY <1>2, <1>5 DEF Set!active
    <2>3. asking' = [asking EXCEPT ![c] = r]
        BY <1>5
    <2> HIDE DEF v
    <2>4. /\ r \in ApiCall /\ r.pc = "answered" /\ r.value = v
          /\ r.op = asking[c].op /\ r.col = asking[c].col
        BY <1>1, <2>1 DEF ApiCall, Value
    <2> HIDE DEF r
    <2>5. CallOK(r, held)
        BY <2>1, <2>4 DEF CallOK
    <2>6. c = "worker" => WorkerCallOK(r)
        BY <1>2, <2>2, <2>4 DEF WorkerCallOK, ActiveSince
    <2> QED BY <1>3, <2>3, <2>4, <2>5, <2>6, CallOnly
<1> QED BY <1>4, <1>5 DEF Set!Select, Set!To, Set!Answer

LEMMA ListRulesInv == ASSUME SettingsInv, NEW c \in Callers, Set!ListRules(c) PROVE SettingsInv'
<1> DEFINE r == [asking[c] EXCEPT !.pc = "answered", !.value = minConf]
<1>1. /\ asking[c] \in ApiCall /\ asking[c].pc = "list" /\ asking[c].col = "rule"
      /\ minConf \in held["rule"]
    BY DEF Set!ListRules, Set!at, SettingsInv, SettingsTyped, TablesHeld, CallOK
<1>2. c # "worker"
    BY <1>1 DEF SettingsInv, WorkerRecent
<1>3. minConf \in Nat
    BY DEF SettingsInv, SettingsTyped, Hundredth
<1>4. r \in ApiCall /\ CallOK(r, held)
    BY <1>1, <1>3 DEF ApiCall, CallOK, Value
<1> QED BY <1>2, <1>4, CallOnly DEF Set!ListRules, Set!Answer, Set!db, Set!worker, Set!history

LEMMA CallFailsInv == ASSUME SettingsInv, NEW c \in Callers, Set!CallFails(c) PROVE SettingsInv'
<1>1. WorkerCallOK(Set!Idle)
    BY DEF WorkerCallOK, Set!Idle
<1> QED BY <1>1, CallOnly, SettingsConstants
        DEF Set!CallFails, Set!Fail, Set!db, Set!worker, Set!history

\* What an administrator's page asks for.
LEMMA PageCallsInv ==
    ASSUME SettingsInv, NEW a \in Admins, Set!Load(a) \/ Set!Pick(a) \/ Set!SaveRule(a)
    PROVE  SettingsInv'
<1>1. a \in Callers /\ a # "worker"
    BY SettingsConstants
<1>2. UNCHANGED <<row, minConf, displayed, draft, cache, loadedAt, asked, given, now,
                  saved, held, inForce>>
    BY DEF Set!Load, Set!Pick, Set!SaveRule, Set!db, Set!worker, Set!history
<1>3. ASSUME NEW pc, NEW op, NEW col, NEW value, Set!Request(a, pc, op, col, value),
             [pc |-> pc, op |-> op, col |-> col, value |-> value] \in ApiCall,
             CallOK([pc |-> pc, op |-> op, col |-> col, value |-> value], held)
      PROVE  SettingsInv'
    BY <1>1, <1>2, <1>3, CallOnly DEF Set!Request
<1>4. CASE Set!Load(a)
    <2>1. PICK pc \in {"select", "list"}, col \in Columns :
            /\ pc = "select" <=> col \in Set!Column
            /\ Set!Request(a, pc, "get", col, Null)
        BY <1>4, SettingsConstants DEF Set!Load, Columns
    <2>2. /\ [pc |-> pc, op |-> "get", col |-> col, value |-> Null] \in ApiCall
          /\ CallOK([pc |-> pc, op |-> "get", col |-> col, value |-> Null], held)
        BY <2>1 DEF ApiCall, CallOK, Value, Columns
    <2> QED BY <1>3, <2>1, <2>2
<1>5. CASE Set!Pick(a)
    <2>1. PICK col \in Set!Column, m \in Models : Set!Request(a, "update", "set", col, m)
        BY <1>5 DEF Set!Pick
    <2>2. /\ [pc |-> "update", op |-> "set", col |-> col, value |-> m] \in ApiCall
          /\ CallOK([pc |-> "update", op |-> "set", col |-> col, value |-> m], held)
        BY SettingsConstants DEF ApiCall, CallOK, Value, Columns
    <2> QED BY <1>3, <2>1, <2>2
<1>6. CASE Set!SaveRule(a)
    <2>1. draft \in 0 .. 1000
        BY <1>6 DEF Set!SaveRule, SettingsInv, SettingsTyped, TablesHeld
    <2>2. /\ [pc |-> "upsert", op |-> "set", col |-> "rule", value |-> draft] \in ApiCall
          /\ CallOK([pc |-> "upsert", op |-> "set", col |-> "rule", value |-> draft], held)
        BY <2>1 DEF ApiCall, CallOK, Value, Columns
    <2> QED BY <1>3, <1>6, <2>2 DEF Set!SaveRule
<1> QED BY <1>4, <1>5, <1>6

\* A request that writes: the tables go on to hold what they held.
LEMMA CallWrites ==
    ASSUME SettingsInv, NEW c \in Callers, NEW r \in ApiCall,
           asking' = [asking EXCEPT ![c] = r],
           \A x \in Columns : held[x] \subseteq held'[x],
           CallOK(r, held')
    PROVE  /\ asking' \in [Callers -> ApiCall]
           /\ \A d \in Callers : asking'[d] = IF d = c THEN r ELSE asking[d]
           /\ \A d \in Callers : CallOK(asking'[d], held')
           /\ \A x \in Columns : displayed[x] \in held'[x] \cup {Null}
<1>1. /\ asking' \in [Callers -> ApiCall]
      /\ \A d \in Callers : asking'[d] = IF d = c THEN r ELSE asking[d]
    BY DEF SettingsInv, SettingsTyped
<1>2. ASSUME NEW d \in Callers PROVE CallOK(asking'[d], held')
    <2>1. CASE d = c
        BY <1>1, <2>1
    <2>2. CASE d # c
        <3>1. asking'[d] = asking[d] /\ asking[d].col \in Columns /\ CallOK(asking[d], held)
            BY <1>1, <2>2 DEF SettingsInv, SettingsTyped, TablesHeld, ApiCall
        <3> QED BY <3>1 DEF CallOK
    <2> QED BY <2>1, <2>2
<1> QED BY <1>1, <1>2 DEF SettingsInv, TablesHeld

\* A row that is stored, with the models it has by then.
LEMMA StoresHolds ==
    ASSUME SettingsInv, NEW r \in [Set!Column -> AnyModel], Set!Stores(r)
    PROVE  /\ row' = r
           /\ held' \in [Columns -> SUBSET (AnyModel \cup Hundredth)]
           /\ \A x \in Columns : held[x] \subseteq held'[x]
           /\ held'["rule"] = held["rule"]
           /\ \A c \in Set!Column : r[c] \in held'[c] /\ held'[c] \subseteq AnyModel
<1>1. DOMAIN held = Columns /\ Set!Column \subseteq Columns
    BY DEF SettingsInv, SettingsTyped, Columns
<1>2. /\ DOMAIN held' = Columns
      /\ \A x \in Set!Column : held'[x] = held[x] \cup {r[x]}
      /\ \A x \in Columns \ Set!Column : held'[x] = held[x] \cup {}
      /\ held' = [x \in Columns |-> held'[x]]
    BY <1>1 DEF Set!Stores
<1>3. \A x \in Columns : held[x] \in SUBSET (AnyModel \cup Hundredth)
    BY DEF SettingsInv, SettingsTyped
<1>4. ASSUME NEW x \in Columns PROVE held'[x] \in SUBSET (AnyModel \cup Hundredth)
    BY <1>2, <1>3
<1>5. "rule" \in Columns \ Set!Column
    BY SettingsConstants DEF Columns
<1> QED BY <1>1, <1>2, <1>4, <1>5 DEF Set!Stores, SettingsInv, TablesHeld

LEMMA InsertInv == ASSUME SettingsInv, NEW c \in Callers, Set!Insert(c) PROVE SettingsInv'
<1>1. /\ asking[c] \in ApiCall /\ asking[c].pc = "insert" /\ asking[c].col \in Set!Column
      /\ CallOK(asking[c], held)
    BY DEF Set!Insert, Set!at, SettingsInv, SettingsTyped, TablesHeld, CallOK
<1>2. c = "worker" => asking[c].op = "get" /\ asking[c].col = "llmModel" /\ asked # Null
    BY <1>1 DEF SettingsInv, WorkerRecent
<1>3. UNCHANGED <<minConf, displayed, draft, cache, loadedAt, asked, given, now, saved, inForce>>
    BY DEF Set!Insert, Set!worker
<1>4. CASE row # Null
    <2>1. WorkerCallOK(Set!Idle)
        BY DEF WorkerCallOK, Set!Idle
    <2> QED BY <1>3, <1>4, <2>1, CallOnly, SettingsConstants DEF Set!Insert, Set!Fail
<1>5. CASE row = Null
    <2>1. Set!Stores(Set!Fresh)
        BY <1>5 DEF Set!Insert
    <2>2. /\ row' = Set!Fresh /\ saved = Set!Fresh
          /\ held' \in [Columns -> SUBSET (AnyModel \cup Hundredth)]
          /\ \A x \in Columns : held[x] \subseteq held'[x]
          /\ held'["rule"] = held["rule"]
          /\ \A x \in Set!Column : Set!Fresh[x] \in held'[x] /\ held'[x] \subseteq AnyModel
        BY <1>5, <2>1, StoresHolds, SettingsConstants DEF SettingsInv, TablesHeld
    <2>3. Set!active = DEFAULT_MODEL /\ Set!active' = DEFAULT_MODEL
        <3>1. row'.llmModel = DEFAULT_MODEL /\ row' # Null
            BY <2>2, SettingsConstants DEF Set!Fresh
        <3> QED BY <1>5, <3>1 DEF Set!active
    <2>4. PICK r \in ApiCall :
             /\ asking' = [asking EXCEPT ![c] = r]
             /\ CallOK(r, held')
             /\ c = "worker" =>
                    /\ r.op = "get" /\ r.col = "llmModel"
                    /\ r.pc = "answered" => r.value = DEFAULT_MODEL
        <3>1. CASE asking[c].op = "set"
            <4> DEFINE r == [asking[c] EXCEPT !.pc = "update"]
            <4>1. r \in ApiCall /\ CallOK(r, held') /\ c # "worker"
                BY <1>1, <1>2, <3>1 DEF ApiCall, CallOK
            <4>2. asking' = [asking EXCEPT ![c] = r]
                BY <1>5, <3>1 DEF Set!Insert, Set!To
            <4> QED BY <4>1, <4>2
        <3>2. CASE asking[c].op # "set"
            <4> DEFINE r == [asking[c] EXCEPT !.pc = "answered", !.value = DEFAULT_MODEL]
            <4>1. DEFAULT_MODEL \in held'[asking[c].col]
                BY <1>1, <2>2 DEF Set!Fresh
            <4>2. r \in ApiCall
                BY <1>1, SettingsConstants DEF ApiCall, Value
            <4>3. r.pc = "answered" /\ r.value = DEFAULT_MODEL /\ r.op = asking[c].op
                  /\ r.col = asking[c].col
                BY <1>1 DEF ApiCall
            <4>4. CallOK(r, held')
                BY <4>1, <4>3 DEF CallOK
            <4>5. asking' = [asking EXCEPT ![c] = r]
                BY <1>5, <3>2 DEF Set!Insert, Set!Answer
            <4> HIDE DEF r
            <4> QED BY <1>2, <4>2, <4>3, <4>4, <4>5
        <3> QED BY <3>1, <3>2
    <2>5. /\ asking' \in [Callers -> ApiCall]
          /\ \A d \in Callers : asking'[d] = IF d = c THEN r ELSE asking[d]
          /\ \A d \in Callers : CallOK(asking'[d], held')
          /\ \A x \in Columns : displayed[x] \in held'[x] \cup {Null}
        BY <2>2, <2>4, CallWrites
    <2>6. SettingsTyped'
        BY <1>3, <2>2, <2>5, SettingsConstants DEF SettingsInv, SettingsTyped
    <2>7. TablesHeld'
        BY <1>3, <2>2, <2>5, SettingsConstants DEF SettingsInv, TablesHeld, Set!Fresh
    <2>8. WorkerRecent'
        BY <1>1, <1>2, <1>3, <2>3, <2>4, <2>5, SettingsConstants
        DEF SettingsInv, WorkerRecent, ActiveSince
    <2> QED BY <2>6, <2>7, <2>8 DEF SettingsInv
<1> QED BY <1>4, <1>5

LEMMA UpdateInv == ASSUME SettingsInv, NEW c \in Callers, Set!Update(c) PROVE SettingsInv'
<1>1. /\ asking[c] \in ApiCall /\ asking[c].pc = "update" /\ asking[c].col \in Set!Column
      /\ asking[c].value \in Models
    BY DEF Set!Update, Set!at, SettingsInv, SettingsTyped, TablesHeld, CallOK
<1>2. UNCHANGED <<minConf, displayed, draft, cache, loadedAt, asked, given, now>>
    BY DEF Set!Update, Set!worker
<1>3. CASE /\ row = Null
           /\ Set!To(c, "select")
           /\ UNCHANGED <<row, held, saved, inForce>>
    <2> DEFINE r == [asking[c] EXCEPT !.pc = "select"]
    <2>1. r \in ApiCall /\ CallOK(r, held)
        BY <1>1 DEF ApiCall, CallOK
    <2>2. c = "worker" => WorkerCallOK(r)
        BY <1>1 DEF SettingsInv, WorkerRecent, WorkerCallOK, ApiCall
    <2>3. asking' = [asking EXCEPT ![c] = r]
        BY <1>3 DEF Set!To
    <2> QED BY <1>2, <1>3, <2>1, <2>2, <2>3, CallOnly
<1>4. CASE /\ row # Null
           /\ Set!Stores([row EXCEPT ![asking[c].col] = asking[c].value])
           /\ saved' = [saved EXCEPT ![asking[c].col] = asking[c].value]
           /\ inForce' = [inForce EXCEPT ![Set!active] = now]
           /\ Set!To(c, "answered")
    <2> DEFINE new == [row EXCEPT ![asking[c].col] = asking[c].value]
               r == [asking[c] EXCEPT !.pc = "answered"]
    <2>1. row \in [Set!Column -> AnyModel] /\ asking[c].value \in AnyModel
        BY <1>1, <1>4, SettingsConstants DEF SettingsInv, SettingsTyped
    <2>2. new \in [Set!Column -> AnyModel] /\ new[asking[c].col] = asking[c].value
        BY <1>1, <2>1
    <2>3. /\ row' = new
          /\ held' \in [Columns -> SUBSET (AnyModel \cup Hundredth)]
          /\ \A x \in Columns : held[x] \subseteq held'[x]
          /\ held'["rule"] = held["rule"]
          /\ \A x \in Set!Column : new[x] \in held'[x] /\ held'[x] \subseteq AnyModel
        BY <1>4, <2>2, StoresHolds
    <2>4. new # Null
        BY <2>2, SettingsAssumption DEF Set!Column, AnyModel, Set!AnyModel
    <2>5. saved' \in [Set!Column -> AnyModel] /\ row' = saved'
        BY <1>1, <1>4, <2>1, <2>3 DEF SettingsInv, SettingsTyped, TablesHeld
    <2>6. r \in ApiCall /\ CallOK(r, held')
        <3>1. r \in ApiCall /\ r.pc = "answered" /\ r.col = asking[c].col
              /\ r.value = asking[c].value
            BY <1>1 DEF ApiCall
        <3>2. asking[c].value \in held'[asking[c].col]
            BY <1>1, <2>2, <2>3
        <3> QED BY <3>1, <3>2 DEF CallOK
    <2>7. asking' = [asking EXCEPT ![c] = r]
        BY <1>4 DEF Set!To
    <2>8. c # "worker"
        BY <1>1 DEF SettingsInv, WorkerRecent, TablesHeld, CallOK
    <2> HIDE DEF new, r
    <2>9. /\ asking' \in [Callers -> ApiCall]
          /\ \A d \in Callers : asking'[d] = IF d = c THEN r ELSE asking[d]
          /\ \A d \in Callers : CallOK(asking'[d], held')
          /\ \A x \in Columns : displayed[x] \in held'[x] \cup {Null}
        BY <2>3, <2>6, <2>7, CallWrites
    <2>10. /\ Set!active \in AnyModel
           /\ now \in Nat
           /\ inForce' \in [AnyModel -> Int]
           /\ \A m \in AnyModel : /\ inForce'[m] \geq inForce[m]
                                  /\ inForce'[m] \leq now
           /\ inForce'[Set!active] = now
        BY <1>4, <2>1, SettingsConstants
        DEF Set!active, SettingsInv, SettingsTyped, WorkerRecent
    <2>11. SettingsTyped'
        BY <1>2, <2>2, <2>3, <2>5, <2>9, <2>10 DEF SettingsInv, SettingsTyped
    <2>12. TablesHeld'
        <3>1. \A x \in Set!Column : x \in Columns /\ DEFAULT_MODEL \in held'[x]
            BY <2>3 DEF SettingsInv, TablesHeld, Columns
        <3> QED BY <1>2, <2>3, <2>4, <2>5, <2>9, <3>1, SettingsConstants
                DEF SettingsInv, TablesHeld
    <2>13. ASSUME NEW v \in AnyModel, NEW t \in Int, t \leq now, ActiveSince(v, t)
           PROVE  ActiveSince(v, t)'
        BY <2>10, <2>13 DEF ActiveSince, SettingsInv, SettingsTyped
    <2>14. WorkerRecent'
        <3>1. /\ asking'["worker"] = asking["worker"]
              /\ asked \in Nat \cup {Null} /\ loadedAt \in Nat /\ TTL \in Nat
              /\ cache \in AnyModel \cup {Null}
            BY <2>8, <2>9, SettingsConstants, SettingsAssumption DEF SettingsInv, SettingsTyped
        <3>2. asking["worker"].pc = "answered" =>
                    /\ asking["worker"].value \in AnyModel
                    /\ asked \in Nat /\ asked \leq now
            <4> SUFFICES ASSUME asking["worker"].pc = "answered"
                         PROVE  /\ asking["worker"].value \in AnyModel
                                /\ asked \in Nat /\ asked \leq now
                OBVIOUS
            <4>1. asked # Null /\ asking["worker"].col = "llmModel"
                BY DEF SettingsInv, WorkerRecent
            <4>2. asking["worker"].value \in held["llmModel"]
                BY <4>1, SettingsConstants DEF SettingsInv, TablesHeld, CallOK
            <4> QED BY <4>1, <4>2, <3>1, SettingsConstants DEF SettingsInv, TablesHeld, WorkerRecent
        <3>3. asking["worker"].pc = "answered" => ActiveSince(asking["worker"].value, asked)'
            BY <1>2, <2>13, <3>1, <3>2 DEF SettingsInv, WorkerRecent, ActiveSince
        <3>4. cache # Null => ActiveSince(cache, loadedAt)'
            BY <1>2, <2>13, <3>1 DEF SettingsInv, WorkerRecent, ActiveSince
        <3>5. ASSUME given # Null, ~given.fallback
              PROVE  /\ given.model \in AnyModel
                     /\ given.at \in Nat /\ given.at \leq now
                     /\ ActiveSince(given.model, given.at - TTL)'
            <4>1. /\ given.model \in AnyModel
                  /\ given.at \in Nat /\ given.at \leq now
                  /\ ActiveSince(given.model, given.at - TTL)
                BY <3>5 DEF SettingsInv, WorkerRecent
            <4>2. given.at - TTL \in Int /\ given.at - TTL \leq now
                BY <2>10, <3>1, <4>1
            <4>3. \/ given.model = Set!active /\ now \geq given.at - TTL
                  \/ inForce[given.model] \geq given.at - TTL
                BY <4>1, <4>2 DEF ActiveSince
            <4>4. inForce'[given.model] \geq given.at - TTL
                BY <2>10, <4>1, <4>2, <4>3 DEF SettingsInv, SettingsTyped
            <4> QED BY <1>2, <4>1, <4>4 DEF ActiveSince
        <3> QED BY <1>2, <2>10, <3>1, <3>3, <3>4, <3>5 DEF SettingsInv, WorkerRecent
    <2> QED BY <2>11, <2>12, <2>14 DEF SettingsInv
<1> QED BY <1>3, <1>4 DEF Set!Update

LEMMA ToHundredths == \A x \in 0 .. 1000 : Set!toFixed2(x) \subseteq Hundredth
<1> SUFFICES ASSUME NEW x \in 0 .. 1000, NEW h \in Set!toFixed2(x) PROVE h \in Hundredth
    OBVIOUS
<1>1. x \div 10 \in 0 .. 100 /\ (x \div 10) * 10 \leq x /\ x < (x \div 10 + 1) * 10
    OBVIOUS
<1>2. PICK q \in 0 .. 101 : h = q * 10 /\ h - x \in -5 .. 5
    BY <1>1 DEF Set!toFixed2
<1>3. q \in 0 .. 100 /\ h = 10 * q
    BY <1>2
<1> QED BY <1>3 DEF Hundredth

LEMMA UpsertRuleInv == ASSUME SettingsInv, NEW c \in Callers, Set!UpsertRule(c) PROVE SettingsInv'
<1> DEFINE r == [asking[c] EXCEPT !.pc = "list"]
<1>1. /\ asking[c] \in ApiCall /\ asking[c].pc = "upsert" /\ asking[c].col = "rule"
      /\ asking[c].value \in 0 .. 1000
    BY DEF Set!UpsertRule, Set!at, SettingsInv, SettingsTyped, TablesHeld, CallOK
<1>2. c # "worker"
    BY <1>1 DEF SettingsInv, WorkerRecent
<1>3. minConf' \in Hundredth
    BY <1>1, ToHundredths DEF Set!UpsertRule
<1>4. /\ held' = [held EXCEPT !["rule"] = @ \cup {minConf'}]
      /\ asking' = [asking EXCEPT ![c] = r]
      /\ UNCHANGED <<row, displayed, draft, cache, loadedAt, asked, given, now, saved, inForce>>
    BY DEF Set!UpsertRule, Set!To, Set!worker
<1>5. /\ held' \in [Columns -> SUBSET (AnyModel \cup Hundredth)]
      /\ \A x \in Columns : held[x] \subseteq held'[x]
      /\ \A x \in Set!Column : held'[x] = held[x]
      /\ held'["rule"] = held["rule"] \cup {minConf'}
    BY <1>3, <1>4, SettingsConstants DEF SettingsInv, SettingsTyped, Columns
<1>6. r \in ApiCall /\ CallOK(r, held')
    BY <1>1 DEF ApiCall, CallOK
<1> HIDE DEF r
<1>7. /\ asking' \in [Callers -> ApiCall]
      /\ \A d \in Callers : asking'[d] = IF d = c THEN r ELSE asking[d]
      /\ \A d \in Callers : CallOK(asking'[d], held')
      /\ \A x \in Columns : displayed[x] \in held'[x] \cup {Null}
    BY <1>4, <1>5, <1>6, CallWrites
<1>8. SettingsTyped'
    BY <1>3, <1>4, <1>5, <1>7 DEF SettingsInv, SettingsTyped
<1>9. TablesHeld'
    BY <1>3, <1>4, <1>5, <1>7 DEF SettingsInv, TablesHeld
<1>10. WorkerRecent'
    BY <1>2, <1>4, <1>7, SettingsConstants DEF SettingsInv, WorkerRecent, ActiveSince, Set!active
<1> QED BY <1>8, <1>9, <1>10 DEF SettingsInv

\* The page.
LEMMA ReceiveSettingsInv ==
    ASSUME SettingsInv, NEW a \in Admins, Set!Receive(a)
    PROVE  SettingsInv'
<1>1. a \in Callers /\ a # "worker"
    BY SettingsConstants
<1>2. /\ asking[a] \in ApiCall
      /\ asking[a].col \in Columns
      /\ asking[a].value \in held[asking[a].col]
    BY <1>1 DEF Set!Receive, Set!at, SettingsInv, SettingsTyped, TablesHeld, CallOK, ApiCall
<1>3. /\ asking' = [asking EXCEPT ![a] = Set!Idle]
      /\ displayed' = [displayed EXCEPT ![asking[a].col] = asking[a].value]
      /\ draft' = IF displayed'["rule"] = displayed["rule"] THEN draft ELSE displayed'["rule"]
      /\ UNCHANGED <<row, minConf, cache, loadedAt, asked, given, now, saved, held, inForce>>
    BY DEF Set!Receive, Set!db, Set!worker, Set!history
<1>4. /\ displayed' \in [Columns -> AnyModel \cup Hundredth \cup {Null}]
      /\ \A x \in Columns : displayed'[x] \in held[x] \cup {Null}
    BY <1>2, <1>3 DEF SettingsInv, SettingsTyped, TablesHeld
<1>5. "rule" \in Columns /\ displayed'["rule"] \in Hundredth \cup {Null}
    BY <1>4 DEF SettingsInv, TablesHeld, Columns
<1>6. Hundredth \subseteq 0 .. 1000
    BY DEF Hundredth
<1>7. /\ draft' \in 0 .. 1000 \cup {Null}
      /\ draft' = Null => displayed'["rule"] = Null
    <2>1. CASE displayed'["rule"] = displayed["rule"]
        <3>1. draft' = draft
            BY <2>1 DEF Set!Receive
        <3>2. /\ draft \in 0 .. 1000 \cup {Null}
              /\ draft = Null => displayed["rule"] = Null
            BY DEF SettingsInv, SettingsTyped, TablesHeld
        <3> QED BY <2>1, <3>1, <3>2
    <2>2. CASE displayed'["rule"] # displayed["rule"]
        <3>1. draft' = displayed'["rule"]
            BY <2>2 DEF Set!Receive
        <3>2. draft' \in Hundredth \cup {Null}
            BY <1>5, <3>1
        <3>3. draft' \in 0 .. 1000 \cup {Null}
            BY <1>6, <3>2
        <3> QED BY <3>1, <3>3
    <2> QED BY <2>1, <2>2
<1>8. /\ asking' \in [Callers -> ApiCall]
      /\ \A d \in Callers : asking'[d] = IF d = a THEN Set!Idle ELSE asking[d]
    BY <1>1, <1>3, SettingsConstants DEF SettingsInv, SettingsTyped
<1>9. SettingsTyped'
    BY <1>3, <1>4, <1>7, <1>8 DEF SettingsInv, SettingsTyped
<1>10. TablesHeld'
    BY <1>3, <1>4, <1>7, <1>8, SettingsConstants DEF SettingsInv, TablesHeld
<1>11. WorkerRecent'
    BY <1>1, <1>3, <1>8, SettingsConstants DEF SettingsInv, WorkerRecent, ActiveSince, Set!active
<1> QED BY <1>9, <1>10, <1>11 DEF SettingsInv

LEMMA SetMinConfidenceInv == ASSUME SettingsInv, Set!SetMinConfidence PROVE SettingsInv'
<1>1. draft' \in 0 .. 1000 /\ draft' # Null
    BY SettingsAssumption DEF Set!SetMinConfidence
<1>2. UNCHANGED <<row, minConf, asking, displayed, cache, loadedAt, asked, given, now,
                  saved, held, inForce>>
    BY DEF Set!SetMinConfidence, Set!db, Set!worker, Set!history
<1>3. SettingsTyped' /\ TablesHeld'
    BY <1>1, <1>2 DEF SettingsInv, SettingsTyped, TablesHeld
<1>4. WorkerRecent'
    BY <1>2 DEF SettingsInv, WorkerRecent, ActiveSince, Set!active
<1> QED BY <1>3, <1>4 DEF SettingsInv

\* The worker.
LEMMA getModelInv == ASSUME SettingsInv, Set!getModel PROVE SettingsInv'
<1>1. asked = Null /\ UNCHANGED <<row, minConf, displayed, draft, cache, loadedAt, now, saved,
                                  held, inForce>>
    BY DEF Set!getModel, Set!db, Set!history
<1>2. asking["worker"].pc = "idle" /\ TTL \in Nat /\ Timeout \in Nat /\ now \in Nat /\ loadedAt \in Nat
    BY <1>1, SettingsAssumption DEF SettingsInv, WorkerRecent, SettingsTyped
<1>3. CASE Set!fresh
    <2>1. /\ given' = [model |-> cache, fallback |-> FALSE, at |-> now]
          /\ UNCHANGED <<asking, asked>>
          /\ cache # Null /\ now - loadedAt \leq TTL
        BY <1>3 DEF Set!getModel, Set!Give, Set!fresh
    <2>2. cache \in AnyModel /\ ActiveSince(cache, loadedAt)
        BY <2>1 DEF SettingsInv, SettingsTyped, WorkerRecent
    <2>3. ActiveSince(cache, now - TTL)
        BY <1>2, <2>1, <2>2 DEF ActiveSince, SettingsInv, SettingsTyped
    <2>4. SettingsTyped' /\ TablesHeld'
        BY <1>1, <2>1 DEF SettingsInv, SettingsTyped, TablesHeld
    <2>5. WorkerRecent'
        BY <1>1, <1>2, <2>1, <2>2, <2>3 DEF SettingsInv, WorkerRecent, ActiveSince, Set!active
    <2> QED BY <2>4, <2>5 DEF SettingsInv
<1>4. CASE ~Set!fresh
    <2> DEFINE r == [pc |-> "select", op |-> "get", col |-> "llmModel", value |-> Null]
    <2>1. /\ asked' = now /\ UNCHANGED given
          /\ asking' = [asking EXCEPT !["worker"] = r]
        BY <1>4 DEF Set!getModel, Set!Request
    <2>2. r \in ApiCall /\ CallOK(r, held) /\ r.pc = "select" /\ r.op = "get" /\ r.col = "llmModel"
        BY SettingsConstants DEF ApiCall, CallOK, Value, Columns
    <2> HIDE DEF r
    <2>3. /\ asking' \in [Callers -> ApiCall]
          /\ \A d \in Callers : asking'[d] = IF d = "worker" THEN r ELSE asking[d]
        BY <2>1, <2>2, SettingsConstants DEF SettingsInv, SettingsTyped
    <2>4. SettingsTyped'
        BY <1>1, <1>2, <2>1, <2>3 DEF SettingsInv, SettingsTyped
    <2>5. TablesHeld'
        BY <1>1, <2>2, <2>3 DEF SettingsInv, TablesHeld
    <2>6. WorkerRecent'
        BY <1>1, <1>2, <2>1, <2>2, <2>3, SettingsConstants
        DEF SettingsInv, WorkerRecent, ActiveSince, Set!active
    <2> QED BY <2>4, <2>5, <2>6 DEF SettingsInv
<1> QED BY <1>3, <1>4

LEMMA LoadedInv == ASSUME SettingsInv, Set!Loaded PROVE SettingsInv'
<1> DEFINE v == asking["worker"].value
<1>1. /\ asking["worker"].pc = "answered" /\ cache' = v /\ loadedAt' = asked /\ asked' = Null
      /\ given' = [model |-> v, fallback |-> FALSE, at |-> now]
      /\ asking' = [asking EXCEPT !["worker"] = Set!Idle]
      /\ UNCHANGED <<row, minConf, displayed, draft, now, saved, held, inForce>>
    BY DEF Set!Loaded, Set!at, Set!Give, Set!db, Set!history
<1>2. /\ asked \in Nat /\ now \in Nat /\ TTL \in Nat /\ Timeout \in Nat /\ Timeout \leq TTL
      /\ asked \leq now /\ now - asked \leq Timeout
      /\ ActiveSince(v, asked) /\ asking["worker"].col = "llmModel"
    BY <1>1, SettingsAssumption DEF SettingsInv, SettingsTyped, WorkerRecent
<1>3. v \in AnyModel
    <2>1. v \in held["llmModel"]
        BY <1>1, <1>2, SettingsConstants DEF SettingsInv, TablesHeld, CallOK
    <2> QED BY <2>1, SettingsConstants DEF SettingsInv, TablesHeld
<1>4. ActiveSince(v, now - TTL)
    BY <1>2, <1>3 DEF ActiveSince, SettingsInv, SettingsTyped
<1>5. /\ asking' \in [Callers -> ApiCall]
      /\ \A d \in Callers : asking'[d] = IF d = "worker" THEN Set!Idle ELSE asking[d]
    BY <1>1, SettingsConstants DEF SettingsInv, SettingsTyped
<1>6. Set!Idle.pc = "idle"
    BY DEF Set!Idle
<1> HIDE DEF v
<1>7. SettingsTyped'
    BY <1>1, <1>2, <1>3, <1>5 DEF SettingsInv, SettingsTyped
<1>8. TablesHeld'
    BY <1>1, <1>5, SettingsConstants DEF SettingsInv, TablesHeld
<1>9. WorkerRecent'
    BY <1>1, <1>2, <1>3, <1>4, <1>5, <1>6, SettingsConstants
    DEF SettingsInv, WorkerRecent, ActiveSince, Set!active
<1> QED BY <1>7, <1>8, <1>9 DEF SettingsInv

LEMMA LoadFailsInv == ASSUME SettingsInv, Set!LoadFails PROVE SettingsInv'
<1>1. /\ asked' = Null
      /\ given' = [model |-> IF cache = Null THEN fallbackModel ELSE cache,
                   fallback |-> TRUE, at |-> now]
      /\ asking' = [asking EXCEPT !["worker"] = Set!Idle]
      /\ UNCHANGED <<row, minConf, displayed, draft, cache, loadedAt, now, saved, held, inForce>>
    BY DEF Set!LoadFails, Set!Give, Set!db, Set!history
<1>2. /\ asking' \in [Callers -> ApiCall]
      /\ \A d \in Callers : asking'[d] = IF d = "worker" THEN Set!Idle ELSE asking[d]
    BY <1>1, SettingsConstants DEF SettingsInv, SettingsTyped
<1>3. Set!Idle.pc = "idle"
    BY DEF Set!Idle
<1>4. SettingsTyped'
    BY <1>1, <1>2 DEF SettingsInv, SettingsTyped
<1>5. TablesHeld'
    BY <1>1, <1>2, SettingsConstants DEF SettingsInv, TablesHeld
<1>6. WorkerRecent'
    BY <1>1, <1>2, <1>3, SettingsConstants DEF SettingsInv, WorkerRecent, ActiveSince, Set!active
<1> QED BY <1>4, <1>5, <1>6 DEF SettingsInv

LEMMA TickInv == ASSUME SettingsInv, Set!Tick PROVE SettingsInv'
<1>1. /\ now' = now + 1 /\ now \in Nat /\ Timeout \in Nat
      /\ asked # Null => now - asked < Timeout
      /\ UNCHANGED <<row, minConf, asking, displayed, draft, cache, loadedAt, asked, given,
                     saved, held, inForce>>
    BY SettingsAssumption DEF Set!Tick, Set!db, Set!worker, Set!history, SettingsInv, SettingsTyped
<1>2. SettingsTyped' /\ TablesHeld'
    BY <1>1 DEF SettingsInv, SettingsTyped, TablesHeld
<1>3. WorkerRecent'
    BY <1>1 DEF SettingsInv, SettingsTyped, WorkerRecent, ActiveSince, Set!active
<1> QED BY <1>2, <1>3 DEF SettingsInv

LEMMA SettingsNext == SettingsInv /\ [Set!Next]_settings => SettingsInv'
<1>1. ASSUME SettingsInv, UNCHANGED settings PROVE SettingsInv'
    BY <1>1 DEF settings, SettingsInv, SettingsTyped, TablesHeld, WorkerRecent, ActiveSince, Set!active
<1> QED BY <1>1, SelectInv, InsertInv, UpdateInv, UpsertRuleInv, ListRulesInv, CallFailsInv,
           PageCallsInv, ReceiveSettingsInv, SetMinConfidenceInv, getModelInv, LoadedInv,
           LoadFailsInv, TickInv
        DEF Set!Next, Callers

LEMMA SettingsSafe == SumSpec => []SettingsInv
<1>1. SumInit => SettingsInv
    BY PartsBegin, SettingsInit
<1>2. SettingsInv /\ [SumNext]_sumVars => SettingsInv'
    BY PartsMove, SettingsNext
<1> QED BY <1>1, <1>2, PTL DEF SumSpec

\* A saved model stays until another one is saved, whichever request inserts the row.
THEOREM SavedModelsStay == SumSpec => []SavedModelKept
<1>1. SettingsInv => SavedModelKept
    BY DEF SettingsInv, TablesHeld, SavedModelKept, Set!SavedModelKept
<1> QED BY <1>1, SettingsSafe, PTL

(***************************************************************************)
(* The page shows what the tables held, and the worker runs with a model   *)
(* that was active at most TTL ago, or with its fallback, for every number *)
(* of administrators and any times: the request of a load gives up before  *)
(* what it would bring is older than what the cache may hold.              *)
(***************************************************************************)
THEOREM ReadersFollow == SumSpec => []ReadersFollowTables
<1>1. SettingsInv => ReadersFollowTables
    <2> SUFFICES ASSUME SettingsInv PROVE Set!PageShowsStored /\ Set!ModelIsRecent
        BY DEF ReadersFollowTables, Set!ReadersFollowTables
    <2>1. DOMAIN displayed = Columns
        BY DEF SettingsInv, SettingsTyped
    <2>2. Set!PageShowsStored
        BY <2>1 DEF SettingsInv, TablesHeld, Set!PageShowsStored
    <2>3. Set!ModelIsRecent
        <3> SUFFICES ASSUME given # Null, ~given.fallback
                     PROVE  given.model = Set!active \/ given.at - inForce[given.model] \leq TTL
            BY DEF Set!ModelIsRecent, SettingsInv, WorkerRecent
        <3>1. /\ given.model \in AnyModel /\ given.at \in Nat /\ TTL \in Nat
              /\ ActiveSince(given.model, given.at - TTL)
            BY SettingsAssumption DEF SettingsInv, WorkerRecent
        <3>2. inForce[given.model] \in Int
            BY <3>1 DEF SettingsInv, SettingsTyped
        <3> QED BY <3>1, <3>2 DEF ActiveSince
    <2> QED BY <2>2, <2>3
<1> QED BY <1>1, SettingsSafe, PTL

-----------------------------------------------------------------------------
(* Signing in: what SessionProofs proves of a session holds of the sum. *)

Sess == INSTANCE SessionProofs WITH MaxClock <- MaxTime, clock <- time, page <- view

LEMMA SessionConstants == Sess!ConstantsOK
BY SessionAssumption, SettingsAssumption DEF Sess!ConstantsOK, Sess!Row, Sess!Call

LEMMA SessionInit == SumInit => Sess!Init
BY DEF SumInit, Auth!Init, Sess!Init

LEMMA SessionMoves == [SumNext]_sumVars => [Sess!Next]_sessions
<1> SUFFICES ASSUME Auth!Next PROVE Sess!Next
    BY DEF SumNext, sumVars
<1>1. CASE Auth!bootstrapUserIfEmpty \/ Auth!Tick
    BY <1>1 DEF Auth!bootstrapUserIfEmpty, Auth!Tick,
                Sess!Next, Sess!bootstrapUserIfEmpty, Sess!Tick
<1>2. ASSUME NEW b \in Browsers,
             Auth!onSubmit(b) \/ Auth!LoginAnswered(b) \/ Auth!PasswordSet(b)
                \/ Auth!ChangeAnswered(b) \/ Auth!logout(b) \/ Auth!Navigates(b)
      PROVE  Sess!Next
    BY <1>2 DEF Auth!onSubmit, Auth!LoginAnswered, Auth!PasswordSet, Auth!ChangeAnswered,
                Auth!logout, Auth!Navigates, Auth!Calls,
                Sess!Next, Sess!onSubmit, Sess!LoginAnswered, Sess!PasswordSet,
                Sess!ChangeAnswered, Sess!logout, Sess!Navigates, Sess!Calls
<1>3. ASSUME NEW b \in Browsers, Auth!changePassword(b) \/ Auth!FetchMe(b)
      PROVE  Sess!Next
    BY <1>3 DEF Auth!changePassword, Auth!FetchMe, Auth!Calls, Auth!canActivate,
                Auth!verifySession, Sess!Next, Sess!changePassword, Sess!FetchMe, Sess!Calls,
                Sess!canActivate, Sess!verifySession
<1>4. Auth!recent = Sess!recent
    BY DEF Auth!recent, Sess!recent, Auth!Without, Sess!Without, Auth!ToSet, Sess!ToSet
<1>5. ASSUME NEW b \in Browsers, Auth!login(b)
      PROVE  Sess!Next
    BY <1>4, <1>5 DEF Auth!login, Auth!Throttled, Sess!Next, Sess!login, Sess!Throttled
<1>6. ASSUME NEW b \in Browsers, Auth!LoginDecided(b)
      PROVE  Sess!Next
    BY <1>4, <1>6 DEF Auth!LoginDecided, Auth!createToken,
                      Sess!Next, Sess!LoginDecided, Sess!createToken
<1> QED BY <1>1, <1>2, <1>3, <1>5, <1>6 DEF Auth!Next

(***************************************************************************)
(* Whoever is signed in began the session with the password in force,      *)
(* however logins and changes of the password overlap (auth.service.ts).   *)
(***************************************************************************)
THEOREM SignedInWithThePassword == SumSpec => []SessionIsOfThePassword
<1>1. Sess!Inv => SessionIsOfThePassword
    BY DEF Sess!Inv, Sess!CookiesSound, Sess!Of, SessionIsOfThePassword,
           Auth!SessionIsOfThePassword, Auth!canActivate, Auth!verifySession
<1>2. SumInit => Sess!Inv
    BY SessionConstants, SessionInit, Sess!InitInv
<1>3. Sess!Inv /\ [SumNext]_sumVars => Sess!Inv'
    BY SessionConstants, SessionMoves, Sess!NextInv DEF Sess!vars, sessions
<1> QED BY <1>1, <1>2, <1>3, PTL DEF SumSpec

-----------------------------------------------------------------------------
(* The library page. *)

\* Every navigation under way leads to a first page, or to the next page of the same listing.
OneThingAtATime ==
    nav # Null =>
        \/ nav.page = 1
        \/ nav.filters = route.filters /\ nav.page \in {route.page - 1, route.page + 1}

LEMMA PageInit == Page!Init => OneThingAtATime
BY DEF Page!Init, OneThingAtATime

LEMMA PageNext == OneThingAtATime /\ [Page!Next]_page => OneThingAtATime'
<1> SUFFICES ASSUME OneThingAtATime, [Page!Next]_page PROVE OneThingAtATime'
    OBVIOUS
<1>1. ASSUME NEW tab, NEW filters, nav' = Page!Url(tab, filters, 1) PROVE OneThingAtATime'
    BY <1>1 DEF Page!Url, OneThingAtATime
<1>2. CASE Page!DebounceEnds \/ Page!toggleType \/ Page!onStatusChange \/ Page!switchTab
              \/ Page!clearFilters
    BY <1>1, <1>2 DEF Page!DebounceEnds, Page!toggleType, Page!onStatusChange, Page!switchTab,
                      Page!clearFilters, Page!syncUrl, Page!navigateTo
<1>3. CASE Page!goToPage
    <2>1. PICK n \in {route.page - 1, route.page + 1} :
             nav' = Page!Url("archive", route.filters, n) /\ route' = route
        BY <1>3 DEF Page!goToPage, Page!syncUrl, Page!navigateTo
    <2> QED BY <2>1 DEF Page!Url, OneThingAtATime
<1>4. CASE UNCHANGED <<route, nav>> \/ nav' = Null
    BY <1>4 DEF OneThingAtATime
<1> QED BY <1>2, <1>3, <1>4
        DEF Page!Next, page, Page!onTextInput, Page!onBulkReprocess, Page!Navigated,
            Page!NavigationFails, Page!Fetched, Page!BulkAnswered

(***************************************************************************)
(* However navigations, typing and answers interleave, other filters start *)
(* at the first page, and a page is left only for the first or for one     *)
(* beside it (library/index.vue: syncUrl).                                 *)
(***************************************************************************)
THEOREM FiltersStartAtPageOne == SumSpec => OtherFiltersFirstPage
<1> DEFINE Step ==
        IF route'.filters # route.filters THEN route'.page = 1
        ELSE route'.page \in {1, route.page - 1, route.page, route.page + 1}
<1>1. SumInit => OneThingAtATime
    BY PartsBegin, PageInit
<1>2. OneThingAtATime /\ [SumNext]_sumVars => OneThingAtATime'
    BY PartsMove, PageNext
<1>3. ASSUME OneThingAtATime, [SumNext]_sumVars PROVE [Step]_(Page!vars)
    <2>1. route' = route \/ (nav # Null /\ route' = nav)
        BY <1>3, PartsMove
        DEF Page!Next, page, Page!DebounceEnds, Page!toggleType, Page!onStatusChange,
            Page!switchTab, Page!clearFilters, Page!goToPage, Page!onTextInput,
            Page!onBulkReprocess, Page!Navigated, Page!NavigationFails, Page!Fetched,
            Page!BulkAnswered
    <2> QED BY <1>3, <2>1 DEF OneThingAtATime
<1> QED BY <1>1, <1>2, <1>3, PTL DEF SumSpec, OtherFiltersFirstPage, Page!OtherFiltersFirstPage

-----------------------------------------------------------------------------
(* Uploads. *)

Phase == {"uploading", "consuming", "classifying", "inbox", "library", "error"}

\* What a row says is true of a file of its name.
Tells(n, r) ==
    /\ r.phase \in Phase
    /\ r.doc # Null =>
            r.doc \in Files /\ nameOf[r.doc] = n /\ task[r.doc] = "success"
    /\ r.phase \in {"inbox", "library"} =>
            \E f \in Files : /\ nameOf[f] = n
                             /\ result[f] = "accepted"
                             /\ tag[f] \notin {"none", "ai-error"}

UploadsTyped ==
    /\ batch \in [Files -> Batches \cup {Null}]
    /\ result \in [Files -> {"none", "queued", "accepted", "error"}]
    /\ tracker \in [Files -> {"none", "task", "status", "done"}]
    /\ task \in [Files -> {"none", "started", "success", "failure"}]
    /\ tag \in [Files -> {"none", "ai-pending", "ai-approved", "ai-rejected", "ai-error",
                          "ai-propagated", "ai-propagation-error"}]
    /\ \A n \in DOMAIN fileRows :
            fileRows[n] = [phase |-> fileRows[n].phase, doc |-> fileRows[n].doc]

\* A file is consumed once, and followed only when it was accepted.
Followed ==
    \A f \in Files :
        /\ batch[f] = Null => result[f] = "none"
        /\ result[f] \in {"none", "queued"} => task[f] = "none"
        /\ tracker[f] # "none" => result[f] = "accepted"
        /\ tracker[f] = "status" => task[f] = "success"

RowsTell == \A n \in DOMAIN fileRows : Tells(n, fileRows[n])

UploadsInv == UploadsTyped /\ Followed /\ RowsTell

LEMMA UploadsInit == Up!Init => UploadsInv
<1> SUFFICES ASSUME Up!Init PROVE UploadsInv
    OBVIOUS
<1>1. DOMAIN fileRows = {}
    BY DEF Up!Init
<1> QED BY <1>1 DEF Up!Init, UploadsInv, UploadsTyped, Followed, RowsTell

\* What rows tell stays true while files only move on.
LEMMA TellsLater ==
    ASSUME NEW n, NEW r, Tells(n, r), nameOf' = nameOf,
           \A f \in Files : /\ task[f] = "success" => task'[f] = "success"
                            /\ result[f] = "accepted" => result'[f] = "accepted"
                            /\ tag[f] \notin {"none", "ai-error"} =>
                                    tag'[f] \notin {"none", "ai-error"}
    PROVE  /\ r.phase \in Phase
           /\ r.doc # Null =>
                r.doc \in Files /\ nameOf'[r.doc] = n /\ task'[r.doc] = "success"
           /\ r.phase \in {"inbox", "library"} =>
                \E f \in Files : /\ nameOf'[f] = n
                                 /\ result'[f] = "accepted"
                                 /\ tag'[f] \notin {"none", "ai-error"}
BY DEF Tells

LEMMA FilesMoveInv ==
    ASSUME UploadsInv, NEW f \in Files,
           \/ Up!FileRefused(f) \/ Up!FileAccepted(f) \/ Up!GiveUp(f)
           \/ Up!TaskEnds(f) \/ Up!WorkerMoves(f) \/ Up!ReviewerMoves(f)
    PROVE  UploadsInv'
<1>1. UNCHANGED <<nameOf, fileRows, batch>>
    BY DEF Up!FileRefused, Up!FileAccepted, Up!GiveUp, Up!TaskEnds, Up!WorkerMoves,
           Up!ReviewerMoves, Up!page, Up!api
<1>2. /\ \A g \in Files : /\ task[g] = "success" => task'[g] = "success"
                          /\ result[g] = "accepted" => result'[g] = "accepted"
                          /\ tag[g] \notin {"none", "ai-error"} =>
                                tag'[g] \notin {"none", "ai-error"}
      /\ UploadsTyped'
      /\ Followed'
    <2>1. CASE Up!FileRefused(f)
        BY <2>1 DEF Up!FileRefused, Up!page, UploadsInv, UploadsTyped, Followed
    <2>2. CASE Up!FileAccepted(f)
        BY <2>2 DEF Up!FileAccepted, Up!page, UploadsInv, UploadsTyped, Followed
    <2>3. CASE Up!GiveUp(f)
        BY <2>3 DEF Up!GiveUp, Up!api, UploadsInv, UploadsTyped, Followed
    <2>4. CASE Up!TaskEnds(f)
        <3>1. PICK s \in {"success", "failure"} : task' = [task EXCEPT ![f] = s]
            BY <2>4 DEF Up!TaskEnds
        <3> QED BY <2>4, <3>1 DEF Up!TaskEnds, Up!page, Up!api, UploadsInv, UploadsTyped, Followed
    <2>5. CASE Up!WorkerMoves(f)
        <3>1. PICK m \in Up!Moves : m[1] = tag[f] /\ tag' = [tag EXCEPT ![f] = m[2]]
            BY <2>5 DEF Up!WorkerMoves
        <3>2. /\ m[2] \in {"ai-pending", "ai-approved", "ai-rejected", "ai-error",
                           "ai-propagated", "ai-propagation-error"}
              /\ m[2] = "ai-error" => m[1] = "none"
            BY DEF Up!Moves
        <3> QED BY <2>5, <3>1, <3>2
                DEF Up!WorkerMoves, Up!page, Up!api, UploadsInv, UploadsTyped, Followed
    <2>6. CASE Up!ReviewerMoves(f)
        <3>1. PICK t \in {"ai-approved", "ai-rejected"} : tag' = [tag EXCEPT ![f] = t]
            BY <2>6 DEF Up!ReviewerMoves
        <3> QED BY <2>6, <3>1
                DEF Up!ReviewerMoves, Up!page, Up!api, UploadsInv, UploadsTyped, Followed
    <2> QED BY <2>1, <2>2, <2>3, <2>4, <2>5, <2>6
<1>3. RowsTell'
    BY <1>1, <1>2, TellsLater DEF UploadsInv, RowsTell, Tells
<1> QED BY <1>2, <1>3 DEF UploadsInv

LEMMA SendInv == ASSUME UploadsInv, NEW b \in Batches, Up!send(b) PROVE UploadsInv'
<1>1. PICK picked \in (SUBSET Up!Pickable) \ {{}} :
        /\ batch' = [f \in Files |-> IF f \in picked THEN b ELSE batch[f]]
        /\ result' = [f \in Files |-> IF f \in picked THEN "queued" ELSE result[f]]
        /\ fileRows' = [n \in {nameOf[f] : f \in picked} |->
                            [phase |-> "uploading", doc |-> Null]]
    BY DEF Up!send
<1>2. b # Null
    <2>1. PICK f \in picked : f \in Files /\ batch[f] = Null
        BY <1>1 DEF Up!Pickable
    <2> QED BY <2>1 DEF Up!send
<1>3. \A f \in picked : result[f] = "none" /\ task[f] = "none" /\ tracker[f] = "none"
    BY <1>1 DEF UploadsInv, Followed, Up!Pickable
<1>4. UNCHANGED <<nameOf, tracker, task, tag>>
    BY DEF Up!send
<1>5. \A n \in DOMAIN fileRows' : fileRows'[n] = [phase |-> "uploading", doc |-> Null]
    BY <1>1
<1>6. UploadsTyped'
    BY <1>1, <1>4, <1>5 DEF UploadsInv, UploadsTyped
<1>7. Followed'
    BY <1>1, <1>2, <1>3, <1>4 DEF UploadsInv, Followed
<1>8. RowsTell'
    BY <1>5 DEF RowsTell, Tells, Phase
<1> QED BY <1>6, <1>7, <1>8 DEF UploadsInv

\* The answer of a batch, and its failure: rows keep their documents.
LEMMA PatchPhases ==
    ASSUME UploadsInv, UNCHANGED <<nameOf, result, task, tag>>,
           DOMAIN fileRows' = DOMAIN fileRows,
           \A n \in DOMAIN fileRows :
                \/ fileRows'[n] = fileRows[n]
                \/ \E p \in {"error", "consuming"} : fileRows'[n] = [fileRows[n] EXCEPT !.phase = p]
    PROVE  /\ RowsTell'
           /\ \A n \in DOMAIN fileRows' :
                fileRows'[n] = [phase |-> fileRows'[n].phase, doc |-> fileRows'[n].doc]
<1> SUFFICES ASSUME NEW n \in DOMAIN fileRows
             PROVE  /\ Tells(n, fileRows[n])'
                    /\ fileRows'[n] = [phase |-> fileRows'[n].phase, doc |-> fileRows'[n].doc]
    BY DEF RowsTell
<1>1. /\ fileRows[n] = [phase |-> fileRows[n].phase, doc |-> fileRows[n].doc]
      /\ Tells(n, fileRows[n])
    BY DEF UploadsInv, UploadsTyped, RowsTell
<1>2. CASE fileRows'[n] = fileRows[n]
    BY <1>1, <1>2 DEF Tells
<1>3. ASSUME NEW p \in {"error", "consuming"}, fileRows'[n] = [fileRows[n] EXCEPT !.phase = p]
      PROVE  /\ Tells(n, fileRows[n])'
             /\ fileRows'[n] = [phase |-> fileRows'[n].phase, doc |-> fileRows'[n].doc]
    <2>1. fileRows'[n] = [phase |-> p, doc |-> fileRows[n].doc]
        BY <1>1, <1>3
    <2> QED BY <1>1, <2>1 DEF Tells, Phase
<1> QED BY <1>2, <1>3

LEMMA AnsweredInv ==
    ASSUME UploadsInv, NEW b \in Batches, Up!Answered(b) \/ Up!CallFails(b)
    PROVE  UploadsInv'
<1>1. CASE Up!Answered(b)
    <2>1. PICK last \in [DOMAIN fileRows -> Up!In(b)] :
            fileRows' = [n \in DOMAIN fileRows |->
                            IF nameOf[last[n]] # n THEN fileRows[n]
                            ELSE [fileRows[n] EXCEPT !.phase =
                                    IF result[last[n]] = "error" THEN "error" ELSE "consuming"]]
        BY <1>1 DEF Up!Answered
    <2>2. /\ UNCHANGED <<nameOf, batch, result, task, tag>>
          /\ tracker' = [f \in Files |->
                     IF f \in Up!In(b) /\ result[f] = "accepted" THEN "task" ELSE tracker[f]]
        BY <1>1 DEF Up!Answered
    <2>3. ASSUME NEW n \in DOMAIN fileRows
          PROVE  \/ fileRows'[n] = fileRows[n]
                 \/ \E p \in {"error", "consuming"} :
                        fileRows'[n] = [fileRows[n] EXCEPT !.phase = p]
        <3>1. CASE nameOf[last[n]] # n
            BY <2>1, <3>1
        <3>2. CASE nameOf[last[n]] = n
            <4>1. PICK p \in {"error", "consuming"} :
                    p = IF result[last[n]] = "error" THEN "error" ELSE "consuming"
                OBVIOUS
            <4> QED BY <2>1, <3>2, <4>1
        <3> QED BY <3>1, <3>2
    <2>4. DOMAIN fileRows' = DOMAIN fileRows
        BY <2>1
    <2>5. RowsTell' /\ \A n \in DOMAIN fileRows' :
                fileRows'[n] = [phase |-> fileRows'[n].phase, doc |-> fileRows'[n].doc]
        BY <2>2, <2>3, <2>4, PatchPhases
    <2>6. tracker' \in [Files -> {"none", "task", "status", "done"}] /\ Followed'
        BY <2>2 DEF UploadsInv, UploadsTyped, Followed
    <2> QED BY <2>2, <2>5, <2>6 DEF UploadsInv, UploadsTyped
<1>2. CASE Up!CallFails(b)
    <2>1. /\ UNCHANGED <<nameOf, batch, result, tracker, task, tag>>
          /\ fileRows' = [n \in DOMAIN fileRows |-> [fileRows[n] EXCEPT !.phase = "error"]]
        BY <1>2 DEF Up!CallFails
    <2>2. /\ DOMAIN fileRows' = DOMAIN fileRows
          /\ \A n \in DOMAIN fileRows : \E p \in {"error", "consuming"} :
                fileRows'[n] = [fileRows[n] EXCEPT !.phase = p]
        BY <2>1
    <2>3. RowsTell' /\ \A n \in DOMAIN fileRows' :
                fileRows'[n] = [phase |-> fileRows'[n].phase, doc |-> fileRows'[n].doc]
        BY <2>1, <2>2, PatchPhases
    <2> QED BY <2>1, <2>3 DEF UploadsInv, UploadsTyped, Followed
<1> QED BY <1>1, <1>2

\* A poll patches the row of its file's name with what it has just seen.
LEMMA PollInv ==
    ASSUME UploadsInv, NEW f \in Files, Up!PollTask(f) \/ Up!PollStatus(f)
    PROVE  UploadsInv'
<1>1. UNCHANGED <<nameOf, batch, result, task, tag>>
    BY DEF Up!PollTask, Up!PollStatus, Up!api
<1>2. ASSUME NEW phase \in {"classifying", "inbox", "library", "error"}, NEW doc \in {f, Null},
             fileRows' = Up!update(nameOf[f], phase, doc),
             phase \in {"inbox", "library"} =>
                /\ result[f] = "accepted" /\ tag[f] \notin {"none", "ai-error"},
             doc = f => task[f] = "success"
      PROVE  RowsTell' /\ \A n \in DOMAIN fileRows' :
                fileRows'[n] = [phase |-> fileRows'[n].phase, doc |-> fileRows'[n].doc]
    <2> SUFFICES ASSUME NEW n \in DOMAIN fileRows
                 PROVE  /\ Tells(n, fileRows[n])'
                        /\ fileRows'[n] = [phase |-> fileRows'[n].phase, doc |-> fileRows'[n].doc]
        BY <1>2 DEF RowsTell, Up!update
    <2>1. /\ fileRows[n] = [phase |-> fileRows[n].phase, doc |-> fileRows[n].doc]
          /\ Tells(n, fileRows[n])
        BY DEF UploadsInv, UploadsTyped, RowsTell
    <2>2. CASE n # nameOf[f]
        <3>1. fileRows'[n] = fileRows[n]
            BY <1>2, <2>2 DEF Up!update
        <3> QED BY <1>1, <2>1, <3>1 DEF Tells
    <2>3. CASE n = nameOf[f]
        <3>1. PICK d : d = IF doc = Null THEN fileRows[n].doc ELSE doc
            OBVIOUS
        <3>2. fileRows'[n] = [phase |-> phase, doc |-> d]
            BY <1>2, <2>3, <3>1 DEF Up!update
        <3>3. d # Null => d \in Files /\ nameOf[d] = n /\ task[d] = "success"
            BY <1>2, <2>1, <2>3, <3>1 DEF Tells
        <3> QED BY <1>1, <1>2, <2>3, <3>2, <3>3 DEF Tells, Phase
    <2> QED BY <2>2, <2>3
<1>3. CASE Up!PollTask(f)
    <2>1. tracker[f] = "task" /\ result[f] = "accepted"
        BY <1>3 DEF Up!PollTask, UploadsInv, Followed
    <2>2. \/ /\ task[f] = "success" /\ tracker' = [tracker EXCEPT ![f] = "status"]
             /\ fileRows' = Up!update(nameOf[f], "classifying", f)
          \/ /\ tracker' = [tracker EXCEPT ![f] = "done"]
             /\ fileRows' = Up!update(nameOf[f], "error", Null)
        BY <1>3 DEF Up!PollTask
    <2>3. RowsTell' /\ \A n \in DOMAIN fileRows' :
                fileRows'[n] = [phase |-> fileRows'[n].phase, doc |-> fileRows'[n].doc]
        <3>1. CASE task[f] = "success" /\ fileRows' = Up!update(nameOf[f], "classifying", f)
            BY <1>2, <3>1
        <3>2. CASE fileRows' = Up!update(nameOf[f], "error", Null)
            BY <1>2, <3>2, NullAssumption
        <3> QED BY <2>2, <3>1, <3>2
    <2> QED BY <1>1, <2>1, <2>2, <2>3 DEF UploadsInv, UploadsTyped, Followed
<1>4. CASE Up!PollStatus(f)
    <2> DEFINE p == Up!phaseFromTags(tag[f])
    <2>1. /\ result[f] = "accepted"
          /\ p # Null /\ fileRows' = Up!update(nameOf[f], p, Null)
          /\ tracker' = [tracker EXCEPT ![f] = "done"]
        BY <1>4 DEF Up!PollStatus, UploadsInv, Followed
    <2>2. /\ p \in {"inbox", "library", "error"}
          /\ p \in {"inbox", "library"} => tag[f] \notin {"none", "ai-error"}
        BY <2>1 DEF Up!phaseFromTags, UploadsInv, UploadsTyped
    <2> HIDE DEF p
    <2>3. RowsTell' /\ \A n \in DOMAIN fileRows' :
                fileRows'[n] = [phase |-> fileRows'[n].phase, doc |-> fileRows'[n].doc]
        BY <1>2, <2>1, <2>2, NullAssumption
    <2> QED BY <1>1, <2>1, <2>3 DEF UploadsInv, UploadsTyped, Followed
<1> QED BY <1>3, <1>4

LEMMA UploadsNext == UploadsInv /\ [Up!Next]_uploads => UploadsInv'
<1> SUFFICES ASSUME UploadsInv, [Up!Next]_uploads PROVE UploadsInv'
    OBVIOUS
<1>1. CASE UNCHANGED uploads
    BY <1>1 DEF uploads, UploadsInv, UploadsTyped, Followed, RowsTell, Tells
<1> QED BY <1>1, FilesMoveInv, SendInv, AnsweredInv, PollInv DEF Up!Next

LEMMA UploadsSafe == SumSpec => []UploadsInv
<1>1. SumInit => UploadsInv
    BY PartsBegin, UploadsInit
<1>2. UploadsInv /\ [SumNext]_sumVars => UploadsInv'
    BY PartsMove, UploadsNext
<1> QED BY <1>1, <1>2, PTL DEF SumSpec

\* A row never promises what did not happen to a file of its name, whichever batches and
\* polls still patch it (useUploadTracker: update by name).
THEOREM RowsKeepToTheirName == SumSpec => []RowsTellOfTheirName
<1>1. UploadsInv => RowsTellOfTheirName
    BY DEF UploadsInv, RowsTell, Tells, RowsTellOfTheirName, Up!RowsTellOfTheirName
<1> QED BY <1>1, UploadsSafe, PTL

\* While the activity page counts as settled, neither Paperless nor the worker changes what
\* it shows (utils/ingest.ts: activitySettled).
THEOREM SettledStaysSettled == SumSpec => SettledIsFinal
<1>1. Up!OnlyUsersMoveSettled
    <2> SUFFICES ASSUME NEW f \in DOMAIN Up!activity, Up!TaskEnds(f) \/ Up!WorkerMoves(f)
                 PROVE  ~Up!activitySettled(Up!activity)
        BY DEF Up!OnlyUsersMoveSettled
    <2>1. /\ Up!activity[f].outcome = Up!classifyOutcome(f)
          /\ Up!activity[f].tag = tag[f]
        BY DEF Up!activity
    <2>2. CASE Up!TaskEnds(f)
        <3>1. Up!classifyOutcome(f) = "running"
            BY <2>2 DEF Up!TaskEnds, Up!classifyOutcome
        <3> QED BY <2>1, <3>1 DEF Up!activitySettled
    <2>3. CASE Up!WorkerMoves(f)
        <3>1. Up!classifyOutcome(f) = "new"
            BY <2>3 DEF Up!WorkerMoves, Up!classifyOutcome
        <3>2. tag[f] \in {"none", "ai-approved"}
            BY <2>3 DEF Up!WorkerMoves, Up!Moves
        <3> QED BY <2>1, <3>1, <3>2 DEF Up!activitySettled, Up!FINAL_TAGS
    <2> QED BY <2>2, <2>3
<1> QED BY <1>1, PTL DEF SettledIsFinal

-----------------------------------------------------------------------------
(* The trash. *)

BinRequest == [stage : {"idle", "restore", "listing", "destroy", "purge"},
               ids : Seq(BinDocs), page : Nat \ {0}]

BinTyped ==
    /\ shelf \subseteq BinDocs /\ chunks \subseteq BinDocs
    /\ trash \in Seq(BinDocs)
    /\ Bin!ToSet(trash) \cap shelf = {}
    /\ request \in [Users -> BinRequest]
    /\ rows \in [Users -> SUBSET BinDocs]
    /\ due \in [Users -> SUBSET BinDocs]

Beyond(list, n) == Slice(list, n, Len(list))

(***************************************************************************)
(* What a request r that must destroy the documents of must knows of them, *)
(* while list is the trash and kept the library: it has listed them or     *)
(* they are still on the pages to come; the list it sends holds them; and  *)
(* once that is carried out they are nowhere.                              *)
(***************************************************************************)
Knows(r, must, list, kept) ==
    /\ r.stage = "listing" => must \subseteq Bin!ToSet(r.ids) \cup Beyond(list, (r.page - 1) * PageSize)
    /\ r.stage = "destroy" => r.ids # <<>> /\ must \subseteq Bin!ToSet(r.ids)
    /\ r.stage = "purge" =>
            r.ids # <<>> /\ (must \cup Bin!ToSet(r.ids)) \cap (Bin!ToSet(list) \cup kept) = {}
    /\ r.stage = "restore" => r.ids # <<>>

RequestsKnow == \A u \in Users : Knows(request[u], due[u], trash, shelf)

BinInv == BinTyped /\ RequestsKnow

LEMMA Pages ==
    \A p \in Nat \ {0} : /\ (p - 1) * PageSize \in Nat
                         /\ ((p + 1) - 1) * PageSize = (p - 1) * PageSize + PageSize
<1> SUFFICES ASSUME NEW p \in Nat \ {0}
             PROVE  /\ (p - 1) * PageSize \in Nat
                    /\ ((p + 1) - 1) * PageSize = (p - 1) * PageSize + PageSize
    OBVIOUS
<1>1. PICK q \in Nat : p = q + 1
    <2>1. p - 1 \in Nat /\ p = (p - 1) + 1
        OBVIOUS
    <2> QED BY <2>1
<1>2. q * PageSize \in Nat /\ (q + 1) * PageSize = q * PageSize + PageSize
    BY TrashAssumption
<1>3. p - 1 = q /\ (p + 1) - 1 = q + 1
    BY <1>1
<1> QED BY <1>2, <1>3

LEMMA BinInit == Bin!Init => BinInv
<1> SUFFICES ASSUME Bin!Init PROVE BinInv
    OBVIOUS
<1>1. trash \in Seq(BinDocs \ shelf) /\ shelf \subseteq BinDocs
    <2>1. shelf \subseteq BinDocs /\ trash \in Bin!SetToSeqs(BinDocs \ shelf)
        BY DEF Bin!Init
    <2>2. Cardinality(BinDocs \ shelf) \in Nat
        BY TrashAssumption, FS_CardinalityType, FS_Difference
    <2>3. Bin!Cardinality(BinDocs \ shelf) = Cardinality(BinDocs \ shelf)
        BY DEF Bin!Cardinality, Cardinality
    <2>4. trash \in [1..Bin!Cardinality(BinDocs \ shelf) -> BinDocs \ shelf]
        BY <2>1 DEF Bin!SetToSeqs
    <2>5. PICK n \in Nat : trash \in [1..n -> BinDocs \ shelf]
        BY <2>2, <2>3, <2>4
    <2> QED BY <2>1, <2>5
<1>2. trash \in Seq(BinDocs) /\ Bin!ToSet(trash) \cap shelf = {}
    BY <1>1 DEF Bin!ToSet
<1>3. /\ Bin!Idle \in BinRequest
      /\ Bin!Idle.stage = "idle"
    BY DEF Bin!Idle, BinRequest
<1>4. BinTyped
    BY <1>1, <1>2, <1>3 DEF Bin!Init, BinTyped
<1>5. RequestsKnow
    BY <1>3 DEF Bin!Init, RequestsKnow, Knows
<1> QED BY <1>4, <1>5 DEF BinInv

\* A request moves and nothing else does.
LEMMA RequestMoves ==
    ASSUME BinInv, NEW u \in Users, NEW r \in BinRequest, NEW must \in SUBSET BinDocs,
           request' = [request EXCEPT ![u] = r],
           due' = [due EXCEPT ![u] = must],
           UNCHANGED <<shelf, trash>>,
           chunks' \subseteq BinDocs, rows' \in [Users -> SUBSET BinDocs],
           Knows(r, must, trash, shelf)
    PROVE  BinInv'
<1>1. BinTyped'
    BY DEF BinInv, BinTyped
<1>2. ASSUME NEW v \in Users PROVE Knows(request'[v], due'[v], trash, shelf)
    BY DEF BinInv, BinTyped, RequestsKnow
<1>3. RequestsKnow'
    BY <1>2 DEF RequestsKnow, Knows, Beyond, Slice
<1> QED BY <1>1, <1>3 DEF BinInv

\* Documents leave the trash, for the library or for good.
LEMMA KnowsWithout ==
    ASSUME NEW r \in BinRequest, NEW must, NEW list, NEW kept, NEW rest, NEW home,
           Knows(r, must, list, kept),
           Bin!ToSet(rest) \cup home \subseteq Bin!ToSet(list) \cup kept
    PROVE  Knows(r, IF r.stage = "listing" THEN {} ELSE must, rest, home)
BY DEF Knows, BinRequest

LEMMA DocumentsLeave ==
    ASSUME BinInv, NEW gone \in SUBSET BinDocs, NEW home \in SUBSET gone,
           trash' = Bin!Without(trash, gone),
           shelf' = shelf \cup home,
           home \subseteq Bin!ToSet(trash),
           Bin!Leaves, UNCHANGED rows, chunks' \subseteq BinDocs
    PROVE  /\ trash' \in Seq(BinDocs)
           /\ Bin!ToSet(trash') = Bin!ToSet(trash) \ gone
           /\ Bin!ToSet(trash') \cap shelf' = {}
           /\ due' \in [Users -> SUBSET BinDocs]
           /\ \A v \in Users : Knows(request[v], due'[v], trash', shelf')
<1>1. trash' \in Seq(BinDocs) /\ Bin!ToSet(trash') = Bin!ToSet(trash) \ gone
    BY WithoutKeepsTheRest DEF BinInv, BinTyped
<1>2. Bin!ToSet(trash') \cap shelf' = {}
    BY <1>1 DEF BinInv, BinTyped
<1>3. /\ due' \in [Users -> SUBSET BinDocs]
      /\ \A v \in Users : due'[v] = IF request[v].stage = "listing" THEN {} ELSE due[v]
    BY DEF Bin!Leaves, BinInv, BinTyped
<1>4. Bin!ToSet(trash') \cup shelf' \subseteq Bin!ToSet(trash) \cup shelf
    BY <1>1
<1>5. ASSUME NEW v \in Users PROVE Knows(request[v], due'[v], trash', shelf')
    <2>1. request[v] \in BinRequest /\ Knows(request[v], due[v], trash, shelf)
        BY DEF BinInv, BinTyped, RequestsKnow
    <2>2. Knows(request[v], IF request[v].stage = "listing" THEN {} ELSE due[v], trash', shelf')
        BY <1>4, <2>1, KnowsWithout
    <2> QED BY <1>3, <2>2
<1> QED BY <1>1, <1>2, <1>3, <1>5

LEMMA Entered ==
    ASSUME NEW stage \in {"idle", "restore", "listing", "destroy", "purge"},
           NEW ids \in Seq(BinDocs)
    PROVE  [stage |-> stage, ids |-> ids, page |-> 1] \in BinRequest
BY DEF BinRequest

\* In other interfaces, and on the page.
LEMMA deleteDocumentInv == ASSUME BinInv, NEW d \in BinDocs, Bin!deleteDocument(d) PROVE BinInv'
<1>1. /\ d \in shelf /\ shelf' = shelf \ {d}
      /\ UNCHANGED <<chunks, request, rows, confirm, due>>
    BY DEF Bin!deleteDocument, Bin!page
<1>2. PICK i \in 1..(Len(trash) + 1) : trash' = Bin!InsertAt(trash, i, d)
    BY DEF Bin!deleteDocument
<1>3. /\ trash' \in Seq(BinDocs) /\ Len(trash') = Len(trash) + 1 /\ Len(trash) \in Nat
      /\ \A k \in 1..(Len(trash) + 1) :
            trash'[k] = IF k < i THEN trash[k] ELSE IF k = i THEN d ELSE trash[k - 1]
    BY <1>2, InsertedAt DEF BinInv, BinTyped
<1>4. Bin!ToSet(trash') \subseteq Bin!ToSet(trash) \cup {d}
    BY <1>2, InsertedSet DEF BinInv, BinTyped
<1>5. ASSUME NEW n \in Nat PROVE Beyond(trash, n) \subseteq Beyond(trash', n)
    <2> SUFFICES ASSUME NEW j \in (n + 1)..Len(trash) PROVE trash[j] \in Beyond(trash', n)
        BY DEF Beyond, Slice
    <2>1. CASE j < i
        <3>1. trash'[j] = trash[j] /\ j \in (n + 1)..Len(trash')
            BY <1>3, <2>1
        <3> QED BY <3>1 DEF Beyond, Slice
    <2>2. CASE ~(j < i)
        <3>1. trash'[j + 1] = trash[j] /\ j + 1 \in (n + 1)..Len(trash')
            BY <1>3, <2>2
        <3> QED BY <3>1 DEF Beyond, Slice
    <2> QED BY <2>1, <2>2
<1>6. BinTyped'
    BY <1>1, <1>3, <1>4 DEF BinInv, BinTyped
<1>7. ASSUME NEW v \in Users PROVE Knows(request[v], due[v], trash', shelf')
    <2>1. request[v] \in BinRequest /\ Knows(request[v], due[v], trash, shelf)
        BY DEF BinInv, BinTyped, RequestsKnow
    <2>2. (request[v].page - 1) * PageSize \in Nat
        BY <2>1, Pages DEF BinRequest
    <2> QED BY <1>1, <1>4, <1>5, <2>1, <2>2 DEF Knows
<1>8. RequestsKnow'
    BY <1>1, <1>7 DEF RequestsKnow, Knows, Beyond, Slice
<1> QED BY <1>6, <1>8 DEF BinInv

LEMMA RestoredElsewhereInv ==
    ASSUME BinInv, NEW d \in BinDocs, Bin!RestoredElsewhere(d)
    PROVE  BinInv'
<1>1. /\ trash' = Bin!Without(trash, {d}) /\ shelf' = shelf \cup {d} /\ Bin!Leaves
      /\ UNCHANGED <<chunks, request, rows>>
    BY DEF Bin!RestoredElsewhere, Bin!page
<1>2. {d} \subseteq Bin!ToSet(trash)
    BY DEF Bin!RestoredElsewhere, Bin!Contains, Bin!ToSet, BinInv, BinTyped
<1>3. /\ trash' \in Seq(BinDocs)
      /\ Bin!ToSet(trash') \cap shelf' = {}
      /\ due' \in [Users -> SUBSET BinDocs]
      /\ \A v \in Users : Knows(request[v], due'[v], trash', shelf')
    <2>1. {d} \in SUBSET BinDocs /\ {d} \in SUBSET {d} /\ chunks' \subseteq BinDocs
        BY <1>1 DEF BinInv, BinTyped
    <2> DEFINE gone == {d}
    <2> HIDE DEF gone
    <2>2. gone \in SUBSET BinDocs /\ gone \in SUBSET gone /\ gone \subseteq Bin!ToSet(trash)
          /\ trash' = Bin!Without(trash, gone) /\ shelf' = shelf \cup gone
        BY <1>1, <1>2, <2>1 DEF gone
    <2> QED BY <1>1, <2>1, <2>2, DocumentsLeave
<1> QED BY <1>1, <1>3 DEF BinInv, BinTyped, RequestsKnow, Knows, Beyond, Slice

LEMMA TrashPageInv ==
    ASSUME BinInv, NEW u \in Users,
           \/ Bin!listTrashed(u) \/ Bin!onEmpty(u)
           \/ \E d \in BinDocs : Bin!onRestore(u, d) \/ Bin!onDelete(u, d)
    PROVE  BinInv'
<1>1. UNCHANGED <<shelf, trash, chunks>>
    BY DEF Bin!listTrashed, Bin!onEmpty, Bin!onRestore, Bin!onDelete
<1>2. Bin!ToSet(trash) \subseteq BinDocs
    BY DEF BinInv, BinTyped, Bin!ToSet
<1>3. rows' \in [Users -> SUBSET BinDocs]
    BY <1>2 DEF Bin!listTrashed, Bin!onEmpty, Bin!onRestore, Bin!onDelete, Bin!page, BinInv, BinTyped
<1>4. CASE UNCHANGED <<request, due>>
    BY <1>1, <1>3, <1>4 DEF BinInv, BinTyped, RequestsKnow, Knows, Beyond, Slice
<1>5. ASSUME NEW stage \in {"restore", "listing", "destroy"}, NEW ids \in Seq(BinDocs),
             NEW must \in SUBSET BinDocs,
             Bin!Enter(u, stage, ids), due' = [due EXCEPT ![u] = must],
             Knows([stage |-> stage, ids |-> ids, page |-> 1], must, trash, shelf)
      PROVE  BinInv'
    BY <1>1, <1>3, <1>5, Entered, RequestMoves DEF Bin!Enter, BinInv, BinTyped
<1>6. CASE Bin!listTrashed(u)
    BY <1>4, <1>6 DEF Bin!listTrashed
<1>7. CASE Bin!onEmpty(u)
    <2>1. CASE confirm[u] # "all"
        BY <1>4, <1>7, <2>1 DEF Bin!onEmpty
    <2>2. CASE confirm[u] = "all"
        <3>1. Bin!Enter(u, "listing", <<>>) /\ due' = [due EXCEPT ![u] = Bin!ToSet(trash)]
            BY <1>7, <2>2 DEF Bin!onEmpty
        <3>2. Bin!ToSet(trash) \subseteq Beyond(trash, (1 - 1) * PageSize)
            BY TrashAssumption DEF BinInv, BinTyped, Bin!ToSet, Beyond, Slice
        <3>3. Knows([stage |-> "listing", ids |-> <<>>, page |-> 1], Bin!ToSet(trash), trash, shelf)
            BY <3>2 DEF Knows
        <3>4. <<>> \in Seq(BinDocs) /\ Bin!ToSet(trash) \in SUBSET BinDocs
            BY <1>2
        <3> QED BY <1>5, <3>1, <3>3, <3>4
    <2> QED BY <2>1, <2>2
<1>8. ASSUME NEW d \in BinDocs, Bin!onRestore(u, d) PROVE BinInv'
    <2>1. Bin!Enter(u, "restore", <<d>>) /\ due' = [due EXCEPT ![u] = due[u]]
        BY <1>8 DEF Bin!onRestore, BinInv, BinTyped
    <2>2. Knows([stage |-> "restore", ids |-> <<d>>, page |-> 1], due[u], trash, shelf)
        BY DEF Knows
    <2>3. due[u] \in SUBSET BinDocs /\ <<d>> \in Seq(BinDocs)
        BY DEF BinInv, BinTyped
    <2> QED BY <1>5, <2>1, <2>2, <2>3
<1>9. ASSUME NEW d \in BinDocs, Bin!onDelete(u, d) PROVE BinInv'
    <2>1. CASE confirm[u] # d
        BY <1>4, <1>9, <2>1 DEF Bin!onDelete
    <2>2. CASE confirm[u] = d
        <3>1. Bin!Enter(u, "destroy", <<d>>) /\ due' = [due EXCEPT ![u] = {d}]
            BY <1>9, <2>2 DEF Bin!onDelete
        <3>2. Knows([stage |-> "destroy", ids |-> <<d>>, page |-> 1], {d}, trash, shelf)
            BY DEF Knows, Bin!ToSet
        <3>3. <<d>> \in Seq(BinDocs)
            OBVIOUS
        <3> QED BY <1>5, <3>1, <3>2, <3>3
    <2> QED BY <2>1, <2>2
<1> QED BY <1>6, <1>7, <1>8, <1>9

\* The service.
LEMMA restoreInv == ASSUME BinInv, NEW u \in Users, Bin!restore(u) PROVE BinInv'
<1> DEFINE d == request[u].ids[1]
           r == [stage |-> "idle", ids |-> <<>>, page |-> 1]
<1>1. /\ request[u] \in BinRequest /\ request[u].ids # <<>>
      /\ request' = [request EXCEPT ![u] = r]
      /\ UNCHANGED <<chunks, rows>>
    BY DEF Bin!restore, Bin!Enter, Bin!page, BinInv, BinTyped, RequestsKnow, Knows
<1>2. d \in BinDocs
    BY <1>1 DEF BinRequest
<1>3. r \in BinRequest /\ r.stage = "idle"
    <2>1. <<>> \in Seq(BinDocs)
        OBVIOUS
    <2> QED BY <2>1, Entered
<1> HIDE DEF r
<1>4. request' \in [Users -> BinRequest] /\ \A v \in Users : request'[v] = IF v = u THEN r ELSE request[v]
    BY <1>1, <1>3 DEF BinInv, BinTyped
<1>5. CASE Bin!Contains(trash, d)
    <2> DEFINE gone == {d}
    <2>1. /\ trash' = Bin!Without(trash, gone) /\ shelf' = shelf \cup gone /\ Bin!Leaves
          /\ gone \in SUBSET BinDocs /\ gone \in SUBSET gone /\ gone \subseteq Bin!ToSet(trash)
          /\ chunks' \subseteq BinDocs
        BY <1>1, <1>2, <1>5 DEF Bin!restore, Bin!Contains, Bin!ToSet, BinInv, BinTyped
    <2> HIDE DEF gone
    <2>2. /\ trash' \in Seq(BinDocs)
          /\ Bin!ToSet(trash') \cap shelf' = {}
          /\ due' \in [Users -> SUBSET BinDocs]
          /\ \A v \in Users : Knows(request[v], due'[v], trash', shelf')
        BY <1>1, <2>1, DocumentsLeave
    <2>3. \A v \in Users : Knows(request'[v], due'[v], trash', shelf')
        BY <1>3, <1>4, <2>2 DEF Knows
    <2> QED BY <1>1, <1>4, <2>1, <2>2, <2>3 DEF BinInv, BinTyped, RequestsKnow, Knows, Beyond, Slice
<1>6. CASE ~Bin!Contains(trash, d)
    <2>1. UNCHANGED <<trash, shelf, due>>
        BY <1>6 DEF Bin!restore
    <2>2. \A v \in Users : Knows(request'[v], due'[v], trash, shelf)
        BY <1>3, <1>4, <2>1 DEF Knows, BinInv, RequestsKnow
    <2> QED BY <1>1, <1>4, <2>1, <2>2 DEF BinInv, BinTyped, RequestsKnow, Knows, Beyond, Slice
<1> QED BY <1>5, <1>6

LEMMA listAllTrashedIdsInv ==
    ASSUME BinInv, NEW u \in Users, Bin!listAllTrashedIds(u)
    PROVE  BinInv'
<1> DEFINE from == (request[u].page - 1) * PageSize
           to == from + PageSize
           m == IF to < Len(trash) THEN to ELSE Len(trash)
           ids == request[u].ids \o SubSeq(trash, from + 1, m)
<1>1. /\ request[u] \in BinRequest /\ request[u].stage = "listing"
      /\ due[u] \subseteq Bin!ToSet(request[u].ids) \cup Beyond(trash, from)
      /\ UNCHANGED <<shelf, trash, chunks, rows, due>>
    BY DEF Bin!listAllTrashedIds, Bin!page, BinInv, BinTyped, RequestsKnow, Knows
<1>2. /\ from \in Nat /\ to \in Nat /\ PageSize \in Nat
      /\ Len(trash) \in Nat /\ m \in 0..Len(trash)
      /\ ((request[u].page + 1) - 1) * PageSize = to
    <2>1. request[u].page \in Nat \ {0} /\ PageSize \in Nat
        BY <1>1, TrashAssumption DEF BinRequest
    <2>2. trash \in Seq(BinDocs)
        BY DEF BinInv, BinTyped
    <2>3. Len(trash) \in Nat
        BY <2>2
    <2>4. PICK g \in Nat \ {0}, z \in Nat : g = request[u].page /\ z = PageSize
        BY <2>1
    <2>5. (g - 1) * z \in Nat /\ (g - 1) * z + z \in Nat /\ ((g + 1) - 1) * z = (g - 1) * z + z
        BY Pages
    <2>6. from \in Nat /\ to \in Nat /\ ((request[u].page + 1) - 1) * PageSize = to
        BY <2>4, <2>5
    <2> HIDE DEF from, to
    <2>7. m \in 0..Len(trash)
        BY <2>3, <2>6
    <2> QED BY <2>1, <2>3, <2>6, <2>7
<1>3. IF to < Len(trash)
      THEN request' = [request EXCEPT ![u].ids = ids, ![u].page = @ + 1]
      ELSE Bin!Enter(u, IF ids = <<>> THEN "idle" ELSE "destroy", ids)
    BY DEF Bin!listAllTrashedIds
<1>4. to < Len(trash) => m = to
    OBVIOUS
<1>5. ~(to < Len(trash)) => m = Len(trash)
    OBVIOUS
<1> HIDE DEF from, to, m
<1>6. /\ ids \in Seq(BinDocs)
      /\ Bin!ToSet(ids) = Bin!ToSet(request[u].ids) \cup Slice(trash, from, m)
    <2>1. request[u].ids \in Seq(BinDocs) /\ trash \in Seq(BinDocs)
        BY <1>1 DEF BinRequest, BinInv, BinTyped
    <2>2. PICK s \in Seq(BinDocs) : s = request[u].ids
        BY <2>1
    <2>3. PICK t \in Seq(BinDocs), k \in Nat : t = trash /\ k = from
        BY <1>2, <2>1
    <2>4. PICK n \in 0..Len(t) : n = m
        BY <1>2, <2>3
    <2>5. /\ s \o SubSeq(t, k + 1, n) \in Seq(BinDocs)
          /\ Bin!ToSet(s \o SubSeq(t, k + 1, n)) = Bin!ToSet(s) \cup Slice(t, k, n)
        BY PageAppended
    <2> QED BY <2>2, <2>3, <2>4, <2>5
<1> HIDE DEF ids
<1>7. CASE to < Len(trash)
    <2> DEFINE r == [stage |-> "listing", ids |-> ids, page |-> request[u].page + 1]
    <2>1. r \in BinRequest
        BY <1>1, <1>6 DEF BinRequest
    <2>2. request' = [request EXCEPT ![u] = r]
        BY <1>1, <1>3, <1>7 DEF BinRequest, BinInv, BinTyped
    <2>3. due[u] \subseteq Bin!ToSet(ids) \cup Beyond(trash, to)
        <3> SUFFICES ASSUME NEW j \in (from + 1)..Len(trash)
                     PROVE  trash[j] \in Bin!ToSet(ids) \cup Beyond(trash, to)
            BY <1>1, <1>6 DEF Beyond, Slice
        <3>1. CASE j <= to
            BY <1>2, <1>4, <1>6, <1>7, <3>1 DEF Slice
        <3>2. CASE ~(j <= to)
            BY <1>2, <3>2 DEF Beyond, Slice
        <3> QED BY <3>1, <3>2
    <2>4. Knows(r, due[u], trash, shelf)
        BY <1>2, <2>3 DEF Knows
    <2> HIDE DEF r
    <2>5. due' = [due EXCEPT ![u] = due[u]] /\ due[u] \in SUBSET BinDocs
          /\ chunks' \subseteq BinDocs /\ rows' \in [Users -> SUBSET BinDocs]
        BY <1>1 DEF BinInv, BinTyped
    <2> QED BY <1>1, <2>1, <2>2, <2>4, <2>5, RequestMoves
<1>8. CASE ~(to < Len(trash))
    <2>1. PICK stage \in {"idle", "destroy"} :
             /\ stage = IF ids = <<>> THEN "idle" ELSE "destroy"
             /\ Bin!Enter(u, stage, ids)
        BY <1>3, <1>8
    <2> DEFINE r == [stage |-> stage, ids |-> ids, page |-> 1]
    <2>2. r \in BinRequest /\ request' = [request EXCEPT ![u] = r]
        BY <1>6, <2>1, Entered DEF Bin!Enter
    <2>3. due[u] \subseteq Bin!ToSet(ids)
        BY <1>1, <1>5, <1>6, <1>8 DEF Beyond, Slice
    <2>4. Knows(r, due[u], trash, shelf)
        BY <2>1, <2>3 DEF Knows
    <2> HIDE DEF r
    <2>5. due' = [due EXCEPT ![u] = due[u]] /\ due[u] \in SUBSET BinDocs
          /\ chunks' \subseteq BinDocs /\ rows' \in [Users -> SUBSET BinDocs]
        BY <1>1 DEF BinInv, BinTyped
    <2> QED BY <1>1, <2>2, <2>4, <2>5, RequestMoves
<1> QED BY <1>7, <1>8

\* A list Paperless took whole has left the trash and was not in the library.
LEMMA TakenWhole ==
    ASSUME BinInv, NEW ids \in Seq(BinDocs), Bin!Taken(ids) = Len(ids)
    PROVE  Bin!ToSet(ids) \subseteq Bin!ToSet(trash) /\ Bin!ToSet(ids) \cap shelf = {}
<1>1. \A i \in 1..Len(ids) : ids[i] \in Bin!ToSet(trash)
    BY TakenTakes
<1>2. DOMAIN ids = 1..Len(ids)
    OBVIOUS
<1>3. Bin!ToSet(ids) \subseteq Bin!ToSet(trash)
    BY <1>1, <1>2 DEF Bin!ToSet
<1> QED BY <1>3 DEF BinInv, BinTyped

\* The documents of a destroying request are gone, and the request goes on.
LEMMA DestroyedInv ==
    ASSUME BinInv, NEW u \in Users, NEW r \in BinRequest, NEW gone \in SUBSET BinDocs,
           request[u].stage = "destroy",
           request' = [request EXCEPT ![u] = r],
           trash' = Bin!Without(trash, gone), Bin!Leaves,
           UNCHANGED <<shelf, chunks, rows>>,
           \/ r.stage = "idle"
           \/ /\ r.stage = "purge" /\ r.ids = request[u].ids
              /\ gone = Bin!ToSet(r.ids) /\ gone \cap shelf = {}
    PROVE  BinInv'
<1>1. /\ trash' \in Seq(BinDocs)
      /\ Bin!ToSet(trash') = Bin!ToSet(trash) \ gone
      /\ Bin!ToSet(trash') \cap shelf' = {}
      /\ due' \in [Users -> SUBSET BinDocs]
      /\ \A v \in Users : Knows(request[v], due'[v], trash', shelf')
    <2>1. shelf' = shelf \cup {} /\ {} \in SUBSET gone /\ {} \subseteq Bin!ToSet(trash)
          /\ chunks' \subseteq BinDocs
        BY DEF BinInv, BinTyped
    <2> QED BY <2>1, DocumentsLeave
<1>2. request' \in [Users -> BinRequest] /\ \A v \in Users : request'[v] = IF v = u THEN r ELSE request[v]
    BY DEF BinInv, BinTyped
<1>3. Knows(r, due'[u], trash', shelf')
    <2>1. CASE r.stage = "idle"
        BY <2>1 DEF Knows
    <2>2. CASE r.stage = "purge" /\ r.ids = request[u].ids /\ gone = Bin!ToSet(r.ids)
               /\ gone \cap shelf = {}
        <3>1. r.ids # <<>> /\ due'[u] \subseteq gone
            BY <1>1, <2>2 DEF Knows
        <3>2. gone \cap (Bin!ToSet(trash') \cup shelf') = {}
            BY <1>1, <2>2
        <3> QED BY <2>2, <3>1, <3>2 DEF Knows
    <2> QED BY <2>1, <2>2
<1>4. \A v \in Users : Knows(request'[v], due'[v], trash', shelf')
    BY <1>1, <1>2, <1>3
<1> QED BY <1>1, <1>2, <1>4 DEF BinInv, BinTyped, RequestsKnow, Knows, Beyond, Slice

LEMMA emptyTrashInv == ASSUME BinInv, NEW u \in Users, Bin!emptyTrash(u) PROVE BinInv'
<1> DEFINE ids == request[u].ids
           gone == Bin!ToSet(SubSeq(ids, 1, Bin!Taken(ids)))
           whole == Bin!Taken(ids) = Len(ids)
<1>1. /\ request[u] \in BinRequest /\ request[u].stage = "destroy"
      /\ ids # <<>> /\ ids \in Seq(BinDocs)
      /\ due[u] \subseteq Bin!ToSet(ids)
    BY DEF Bin!emptyTrash, BinInv, BinTyped, RequestsKnow, Knows, BinRequest
<1>2. /\ IF gone = {} THEN UNCHANGED <<trash, due>>
         ELSE trash' = Bin!Without(trash, gone) /\ Bin!Leaves
      /\ IF whole THEN Bin!Enter(u, "purge", ids) ELSE Bin!Enter(u, "idle", <<>>)
      /\ UNCHANGED <<shelf, chunks, rows>>
    BY <1>1 DEF Bin!emptyTrash, Bin!page
<1>3. Bin!Taken(ids) \in 0..Len(ids) /\ Len(ids) \in Nat /\ Len(ids) # 0
    BY <1>1, TakenTakes
<1>4. /\ gone \subseteq BinDocs
      /\ whole => gone = Bin!ToSet(ids) /\ gone # {}
    <2>1. PICK n \in 0..Len(ids) : n = Bin!Taken(ids)
        BY <1>3
    <2>2. /\ SubSeq(ids, 1, n) \in Seq(BinDocs)
          /\ n = Len(ids) => SubSeq(ids, 1, n) = ids
        BY <1>1, <1>3
    <2>3. gone = Bin!ToSet(SubSeq(ids, 1, n))
        BY <2>1
    <2>4. ids[1] \in Bin!ToSet(ids)
        BY <1>1, <1>3 DEF Bin!ToSet
    <2>5. Bin!ToSet(SubSeq(ids, 1, n)) \subseteq BinDocs
        BY <2>2 DEF Bin!ToSet
    <2> HIDE DEF gone, ids
    <2> QED BY <2>1, <2>2, <2>3, <2>4, <2>5
<1>5. PICK r \in BinRequest :
        /\ request' = [request EXCEPT ![u] = r]
        /\ IF whole THEN r.stage = "purge" /\ r.ids = ids ELSE r.stage = "idle"
    <2>1. <<>> \in Seq(BinDocs)
        OBVIOUS
    <2> HIDE DEF whole
    <2>2. CASE whole
        <3>1. [stage |-> "purge", ids |-> ids, page |-> 1] \in BinRequest
            BY <1>1, Entered
        <3> QED BY <1>2, <2>2, <3>1 DEF Bin!Enter
    <2>3. CASE ~whole
        <3>1. [stage |-> "idle", ids |-> <<>>, page |-> 1] \in BinRequest
            BY <2>1, Entered
        <3> QED BY <1>2, <2>3, <3>1 DEF Bin!Enter
    <2> QED BY <2>2, <2>3
<1>6. whole => gone \cap shelf = {}
    BY <1>1, <1>4, TakenWhole
<1> HIDE DEF gone, whole
<1>7. CASE gone = {}
    <2>1. UNCHANGED <<trash, due>> /\ r.stage = "idle"
        BY <1>2, <1>4, <1>5, <1>7
    <2>2. due' = [due EXCEPT ![u] = due[u]] /\ due[u] \in SUBSET BinDocs
          /\ chunks' \subseteq BinDocs /\ rows' \in [Users -> SUBSET BinDocs]
        BY <1>2, <2>1 DEF BinInv, BinTyped
    <2>3. Knows(r, due[u], trash, shelf)
        BY <2>1 DEF Knows
    <2> QED BY <1>2, <1>5, <2>1, <2>2, <2>3, RequestMoves
<1>8. CASE gone # {}
    BY <1>1, <1>2, <1>4, <1>5, <1>6, <1>8, DestroyedInv
<1> QED BY <1>7, <1>8

LEMMA purgeChunksInv == ASSUME BinInv, NEW u \in Users, Bin!purgeChunks(u) PROVE BinInv'
<1> DEFINE rest == Tail(request[u].ids)
<1>1. /\ request[u] \in BinRequest /\ request[u].ids # <<>>
      /\ request[u].ids \in Seq(BinDocs)
      /\ (due[u] \cup Bin!ToSet(request[u].ids)) \cap (Bin!ToSet(trash) \cup shelf) = {}
    BY DEF Bin!purgeChunks, BinInv, BinTyped, RequestsKnow, Knows, BinRequest
<1>2. rest \in Seq(BinDocs) /\ Bin!ToSet(rest) \subseteq Bin!ToSet(request[u].ids)
    <2>1. /\ rest \in Seq(BinDocs) /\ Len(rest) = Len(request[u].ids) - 1
          /\ \A i \in 1..Len(rest) : rest[i] = request[u].ids[i + 1]
          /\ Len(request[u].ids) \in Nat
        BY <1>1
    <2>2. \A i \in 1..Len(rest) : i + 1 \in 1..Len(request[u].ids)
        BY <2>1
    <2> HIDE DEF rest
    <2>3. DOMAIN rest = 1..Len(rest) /\ DOMAIN request[u].ids = 1..Len(request[u].ids)
        BY <1>1, <2>1
    <2> QED BY <2>1, <2>2, <2>3 DEF Bin!ToSet
<1>3. PICK stage \in {"idle", "purge"} :
        stage = (IF rest = <<>> THEN "idle" ELSE "purge") /\ Bin!Enter(u, stage, rest)
    BY DEF Bin!purgeChunks
<1>4. /\ UNCHANGED <<shelf, trash, rows, due>>
      /\ chunks' \subseteq BinDocs
    BY DEF Bin!purgeChunks, Bin!page, BinInv, BinTyped
<1> HIDE DEF rest
<1> DEFINE r == [stage |-> stage, ids |-> rest, page |-> 1]
<1>5. r \in BinRequest /\ request' = [request EXCEPT ![u] = r]
    BY <1>2, <1>3, Entered DEF Bin!Enter
<1>6. Knows(r, due[u], trash, shelf)
    BY <1>1, <1>2, <1>3 DEF Knows
<1> HIDE DEF r
<1>7. due' = [due EXCEPT ![u] = due[u]] /\ due[u] \in SUBSET BinDocs
      /\ rows' \in [Users -> SUBSET BinDocs]
    BY <1>4 DEF BinInv, BinTyped
<1> QED BY <1>4, <1>5, <1>6, <1>7, RequestMoves

LEMMA TrashRequestFailsInv == ASSUME BinInv, NEW u \in Users, Bin!RequestFails(u) PROVE BinInv'
<1> DEFINE r == [stage |-> "idle", ids |-> <<>>, page |-> 1]
<1>1. r \in BinRequest /\ r.stage = "idle" /\ request' = [request EXCEPT ![u] = r]
    <2>1. <<>> \in Seq(BinDocs)
        OBVIOUS
    <2> QED BY <2>1, Entered DEF Bin!RequestFails, Bin!Enter
<1> HIDE DEF r
<1>2. UNCHANGED <<shelf, chunks, rows>>
    BY DEF Bin!RequestFails, Bin!page
<1>3. CASE UNCHANGED <<trash, due>>
    <2>1. Knows(r, due[u], trash, shelf)
        BY <1>1 DEF Knows
    <2>2. due' = [due EXCEPT ![u] = due[u]] /\ due[u] \in SUBSET BinDocs
          /\ chunks' \subseteq BinDocs /\ rows' \in [Users -> SUBSET BinDocs]
        BY <1>2, <1>3 DEF BinInv, BinTyped
    <2> QED BY <1>1, <1>2, <1>3, <2>1, <2>2, RequestMoves
<1>4. CASE ~UNCHANGED <<trash, due>>
    <2>1. /\ request[u].stage = "destroy" /\ Bin!Leaves
          /\ trash' = Bin!Without(trash, Bin!ToSet(request[u].ids))
        BY <1>4 DEF Bin!RequestFails
    <2>2. Bin!ToSet(request[u].ids) \in SUBSET BinDocs
        BY DEF BinInv, BinTyped, BinRequest, Bin!ToSet
    <2> QED BY <1>1, <1>2, <2>1, <2>2, DestroyedInv
<1> QED BY <1>3, <1>4

LEMMA BinNext == BinInv /\ [Bin!Next]_bin => BinInv'
<1> SUFFICES ASSUME BinInv, [Bin!Next]_bin PROVE BinInv'
    OBVIOUS
<1>1. CASE UNCHANGED bin
    BY <1>1 DEF bin, BinInv, BinTyped, RequestsKnow, Knows, Beyond, Slice
<1> QED BY <1>1, deleteDocumentInv, RestoredElsewhereInv, TrashPageInv, restoreInv,
           listAllTrashedIdsInv, emptyTrashInv, purgeChunksInv, TrashRequestFailsInv
        DEF Bin!Next

\* Which documents are left by a step, and which lose their chunks.
LEMMA BinStepAsAsked == ASSUME BinInv, Bin!Next PROVE Bin!AsAsked
<1> DEFINE Kept == shelf \cup Bin!ToSet(trash)
           Asked(d) == \E u \in Users : Bin!Contains(request[u].ids, d)
<1> SUFFICES ASSUME NEW d \in BinDocs
             PROVE  /\ d \in Kept /\ d \notin Kept' => Asked(d)
                    /\ d \in chunks \ chunks' => d \notin Kept
    BY DEF Bin!AsAsked
<1>1. ASSUME NEW e \in BinDocs, Bin!deleteDocument(e)
      PROVE  Kept' = Kept /\ chunks' = chunks
    <2>1. PICK i \in 1..(Len(trash) + 1) : trash' = Bin!InsertAt(trash, i, e)
        BY <1>1 DEF Bin!deleteDocument
    <2>2. Bin!ToSet(trash') = Bin!ToSet(trash) \cup {e}
        BY <2>1, InsertedSet DEF BinInv, BinTyped
    <2> QED BY <1>1, <2>2 DEF Bin!deleteDocument
<1>2. ASSUME NEW e \in BinDocs, trash' = Bin!Without(trash, {e}), shelf' = shelf \cup {e}
      PROVE  Kept \subseteq Kept'
    <2>1. Bin!ToSet(trash') = Bin!ToSet(trash) \ {e}
        BY <1>2, WithoutKeepsTheRest DEF BinInv, BinTyped
    <2> QED BY <1>2, <2>1
<1>3. ASSUME NEW e \in BinDocs, Bin!RestoredElsewhere(e)
      PROVE  Kept \subseteq Kept' /\ chunks' = chunks
    BY <1>2, <1>3 DEF Bin!RestoredElsewhere
<1>4. ASSUME NEW u \in Users, Bin!restore(u)
      PROVE  Kept \subseteq Kept' /\ chunks' = chunks
    <2>1. /\ request[u] \in BinRequest /\ request[u].ids # <<>> /\ chunks' = chunks
        BY <1>4 DEF Bin!restore, BinInv, BinTyped, RequestsKnow, Knows
    <2>2. request[u].ids[1] \in BinDocs
        BY <2>1 DEF BinRequest
    <2> QED BY <1>2, <1>4, <2>1, <2>2 DEF Bin!restore
<1>5. ASSUME NEW u \in Users,
             \/ Bin!listTrashed(u) \/ Bin!onEmpty(u) \/ Bin!listAllTrashedIds(u)
             \/ \E e \in BinDocs : Bin!onRestore(u, e) \/ Bin!onDelete(u, e)
      PROVE  Kept' = Kept /\ chunks' = chunks
    BY <1>5 DEF Bin!listTrashed, Bin!onEmpty, Bin!listAllTrashedIds, Bin!onRestore, Bin!onDelete
<1>6. ASSUME NEW u \in Users, NEW gone \in SUBSET Bin!ToSet(request[u].ids),
             trash' = Bin!Without(trash, gone), shelf' = shelf, d \in Kept, d \notin Kept'
      PROVE  Asked(d)
    <2>1. Bin!ToSet(trash') = Bin!ToSet(trash) \ gone
        BY <1>6, WithoutKeepsTheRest DEF BinInv, BinTyped
    <2>2. d \in Bin!ToSet(request[u].ids) /\ request[u].ids \in Seq(BinDocs)
        BY <1>6, <2>1 DEF BinInv, BinTyped, BinRequest
    <2>3. Bin!Contains(request[u].ids, d)
        BY <2>2 DEF Bin!Contains, Bin!ToSet
    <2> QED BY <2>3
<1>7. ASSUME NEW u \in Users, Bin!emptyTrash(u)
      PROVE  (d \in Kept /\ d \notin Kept' => Asked(d)) /\ chunks' = chunks
    <2> DEFINE ids == request[u].ids
               gone == Bin!ToSet(SubSeq(ids, 1, Bin!Taken(ids)))
    <2>1. ids # <<>> /\ ids \in Seq(BinDocs)
        BY <1>7 DEF Bin!emptyTrash, BinInv, BinTyped, RequestsKnow, Knows, BinRequest
    <2>2. /\ trash' = trash \/ trash' = Bin!Without(trash, gone)
          /\ shelf' = shelf /\ chunks' = chunks
        BY <1>7, <2>1 DEF Bin!emptyTrash
    <2>3. gone \subseteq Bin!ToSet(ids)
        <3>1. PICK n \in 0..Len(ids) : n = Bin!Taken(ids)
            BY <2>1, TakenTakes
        <3> DEFINE some == SubSeq(ids, 1, n)
        <3>2. /\ some \in Seq(BinDocs) /\ Len(some) = n
              /\ \A i \in 1..n : some[i] = ids[i]
            BY <2>1
        <3> HIDE DEF some
        <3>3. DOMAIN some = 1..n /\ DOMAIN ids = 1..Len(ids) /\ Len(ids) \in Nat
            BY <2>1, <3>2
        <3>4. Bin!ToSet(some) \subseteq Bin!ToSet(ids)
            BY <3>2, <3>3 DEF Bin!ToSet
        <3> QED BY <3>1, <3>4 DEF some
    <2> HIDE DEF gone
    <2> QED BY <1>6, <2>2, <2>3
<1>8. ASSUME NEW u \in Users, Bin!purgeChunks(u)
      PROVE  Kept' = Kept /\ (d \in chunks \ chunks' => d \notin Kept)
    <2>1. /\ request[u].ids # <<>> /\ request[u].ids \in Seq(BinDocs)
          /\ Bin!ToSet(request[u].ids) \cap Kept = {}
        BY <1>8 DEF Bin!purgeChunks, BinInv, BinTyped, RequestsKnow, Knows, BinRequest
    <2>2. request[u].ids[1] \in Bin!ToSet(request[u].ids)
        BY <2>1 DEF Bin!ToSet
    <2> QED BY <1>8, <2>1, <2>2 DEF Bin!purgeChunks
<1>9. ASSUME NEW u \in Users, Bin!RequestFails(u)
      PROVE  (d \in Kept /\ d \notin Kept' => Asked(d)) /\ chunks' = chunks
    <2>1. /\ trash' = trash \/ trash' = Bin!Without(trash, Bin!ToSet(request[u].ids))
          /\ shelf' = shelf /\ chunks' = chunks
        BY <1>9 DEF Bin!RequestFails
    <2> QED BY <1>6, <2>1
<1> HIDE DEF Kept, Asked
<1> QED BY <1>1, <1>3, <1>4, <1>5, <1>7, <1>8, <1>9 DEF Bin!Next

LEMMA BinSafe == SumSpec => []BinInv
<1>1. SumInit => BinInv
    BY PartsBegin, BinInit
<1>2. BinInv /\ [SumNext]_sumVars => BinInv'
    BY PartsMove, BinNext
<1> QED BY <1>1, <1>2, PTL DEF SumSpec

(***************************************************************************)
(* Once a request to empty the trash, or to delete a document forever, has *)
(* been carried out, nothing it was to destroy is left, for any pages, any *)
(* users and whatever they move meanwhile (trash.service.ts).              *)
(***************************************************************************)
THEOREM EmptyingLeavesNothing == SumSpec => []EmptiedAll
<1>1. BinInv => EmptiedAll
    BY DEF BinInv, RequestsKnow, Knows, EmptiedAll, Bin!EmptiedAll
<1> QED BY <1>1, BinSafe, PTL

\* A document leaves Paperless only while a request holds its id, and its chunks go only
\* once it has left.
THEOREM NothingLostUnasked == SumSpec => LostAsAsked
<1>1. ASSUME BinInv, [SumNext]_sumVars PROVE [part = "bin" => Bin!AsAsked]_bin
    BY <1>1, PartsMove, BinStepAsAsked
<1> QED BY <1>1, BinSafe, PTL DEF SumSpec, LostAsAsked

-----------------------------------------------------------------------------
(* The library: its filters. *)

LibInv == Lib!TypeOK

LEMMA LibInit == Lib!Init => LibInv
  BY DEF Lib!Init, LibInv, Lib!TypeOK

LEMMA LibNext == LibInv /\ [Lib!Next]_library => LibInv'
<1> SUFFICES ASSUME LibInv, [Lib!Next]_library PROVE LibInv'
    OBVIOUS
<1>1. ASSUME NEW d \in Docs, Lib!Retag(d) PROVE LibInv'
    <2>1. PICK ts \in TagSets : tagsOf' = [tagsOf EXCEPT ![d] = ts] /\ existing' = existing \cup ts
        BY <1>1 DEF Lib!Retag
    <2>2. ts \subseteq Lib!Tag /\ inFlight' = inFlight
        BY <1>1, LibraryAssumption DEF Lib!Retag, Tag, LIFECYCLE_TAGS, AUXILIARY_TAGS, USER_TAGS,
              Lib!Tag, Lib!LIFECYCLE_TAGS, Lib!AUXILIARY_TAGS, Lib!USER_TAGS
    <2>3. tagsOf' \in [Docs -> SUBSET existing']
        BY <2>1 DEF LibInv, Lib!TypeOK
    <2> QED BY <2>1, <2>2, <2>3 DEF LibInv, Lib!TypeOK
<1>2. ASSUME NEW d \in Docs, Lib!Process(d) PROVE LibInv'
    BY <1>2 DEF Lib!Process, LibInv, Lib!TypeOK
<1>3. CASE UNCHANGED library
    BY <1>3 DEF library, LibInv, Lib!TypeOK
<1> QED BY <1>1, <1>2, <1>3 DEF Lib!Next

\* What Paperless is asked for with the filters of q finds what the badges promise.
LEMMA MatchesAreWanted ==
    ASSUME LibInv, NEW q \in Lib!Queries, NEW d \in Docs,
           q.status \in {"", "error"} \/ Lib!InOneState(d)
    PROVE  d \in Lib!matches(q) <=> d \in Lib!Wanted(q)
<1> DEFINE ts == tagsOf[d]
           Typed == q.type \in Types => TypeOf[d] = q.type
           Labelled == \/ q.status = "" \/ q.status = Lib!classify(ts \cap Lib!BADGE_TAGS)
                       \/ q.status = "error" /\ "ai-index-error" \in ts
           Asked(ask) == /\ ask.one = {} \/ ts \cap ask.one # {}
                         /\ ts \cap ask.none = {}
                         /\ ask.all \subseteq ts
<1>1. /\ ts \subseteq existing /\ existing \subseteq Lib!Tag
      /\ q.status \in {"error", "unprocessed", "approved", "done", "rejected", ""}
      /\ q.tags \subseteq {"wichtig", "Strom"}
      /\ q.type \in Types \cup {NoType}
    BY DEF LibInv, Lib!TypeOK, Lib!Queries, Lib!LIBRARY_STATUSES, Lib!USER_TAGS
<1>2. Typed <=> (q.type # NoType => TypeOf[d] = q.type)
    BY <1>1, LibraryAssumption
<1>3. d \in Lib!Wanted(q) <=> "ai-pending" \notin ts /\ Typed /\ q.tags \subseteq ts /\ Labelled
    <2>1. q.tags \subseteq ts <=> q.tags \subseteq Lib!project(d).tags
        BY <1>1 DEF Lib!project, Lib!INTERNAL_TAGS, Lib!LIFECYCLE_TAGS
    <2>2. Lib!project(d).badge = Lib!classify(ts \cap Lib!BADGE_TAGS)
        BY DEF Lib!project
    <2> HIDE DEF ts, Typed
    <2> QED BY <1>2, <2>1, <2>2 DEF Lib!Wanted, ts
<1>4. d \in Lib!matches(q) <=>
          /\ q.tags \subseteq existing
          /\ \E ask \in Lib!statusFilter(q.status) : Asked(ask)
          /\ "ai-pending" \notin ts /\ Typed /\ q.tags \subseteq ts
    <2>1. ASSUME NEW ask \in Lib!statusFilter(q.status)
          PROVE  d \in Lib!searchDocuments(Lib!Ask(ask.one, ask.none \cup ({"ai-pending"} \cap existing),
                                                   ask.all \cup q.tags), q.type)
                 <=> Asked(ask) /\ "ai-pending" \notin ts /\ Typed /\ q.tags \subseteq ts
        BY <1>1 DEF Lib!searchDocuments, Lib!Ask
    <2> HIDE DEF Asked, ts, Typed
    <2> QED BY <1>1, <2>1 DEF Lib!matches
<1>5. "ai-pending" \notin ts => ((\E ask \in Lib!statusFilter(q.status) : Asked(ask)) <=> Labelled)
    <2> SUFFICES ASSUME "ai-pending" \notin ts
                 PROVE  (\E ask \in Lib!statusFilter(q.status) : Asked(ask)) <=> Labelled
        OBVIOUS
    <2> DEFINE Finds(one, none, all) == (one = {} \/ ts \cap one # {}) /\ ts \cap none = {} /\ all \subseteq ts
    <2>1. \A one, none, all : Asked(Lib!Ask(one, none, all)) <=> Finds(one, none, all)
        BY DEF Lib!Ask
    <2>2. PICK e : e = {}
        OBVIOUS
    <2>3. ASSUME NEW one, NEW none, NEW all, Lib!statusFilter(q.status) = {Lib!Ask(one, none, all)}
          PROVE  (\E ask \in Lib!statusFilter(q.status) : Asked(ask)) <=> Finds(one, none, all)
        <3> HIDE DEF Asked, Finds
        <3> QED BY <2>1, <2>3
    <2> HIDE DEF Asked
    <2>4. CASE q.status = ""
        <3>1. Lib!statusFilter(q.status) = {Lib!Ask(e, e, e)}
            BY <2>2, <2>4 DEF Lib!statusFilter
        <3>2. (\E ask \in Lib!statusFilter(q.status) : Asked(ask)) <=> Finds(e, e, e)
            BY <2>3, <3>1
        <3> QED BY <2>2, <2>4, <3>2
    <2>5. CASE q.status = "error"
        <3>1. Labelled <=> ts \cap Lib!ERROR_TAGS # {}
            BY <2>5 DEF Lib!classify, Lib!BADGE_TAGS, Lib!LIFECYCLE_TAGS, Lib!ERROR_TAGS
        <3>2. PICK one : one = Lib!ERROR_TAGS \cap existing
            OBVIOUS
        <3>3. ts \cap Lib!ERROR_TAGS = ts \cap one
            BY <1>1, <3>2
        <3>4. Lib!statusFilter(q.status) = IF one = {} THEN {} ELSE {Lib!Ask(one, e, e)}
            BY <2>2, <2>5, <3>2 DEF Lib!statusFilter
        <3>5. CASE one = {}
            <4>1. Lib!statusFilter(q.status) = {}
                BY <3>4, <3>5
            <4> QED BY <3>1, <3>3, <3>5, <4>1
        <3>6. CASE one # {}
            <4>1. (\E ask \in Lib!statusFilter(q.status) : Asked(ask)) <=> Finds(one, e, e)
                BY <2>3, <3>4, <3>6
            <4> QED BY <2>2, <3>1, <3>3, <3>6, <4>1
        <3> QED BY <3>5, <3>6
    <2>6. CASE q.status = "unprocessed"
        <3>1. Labelled <=> ts \cap Lib!LIFECYCLE_TAGS = {}
            BY <2>6 DEF Lib!classify, Lib!BADGE_TAGS, Lib!LIFECYCLE_TAGS, Lib!InOneState
        <3>2. PICK none : none = Lib!LIFECYCLE_TAGS \cap existing
            OBVIOUS
        <3>3. ts \cap Lib!LIFECYCLE_TAGS = ts \cap none
            BY <1>1, <3>2
        <3>4. Lib!statusFilter(q.status) = {Lib!Ask(e, none, e)}
            BY <2>2, <2>6, <3>2 DEF Lib!statusFilter
        <3>5. (\E ask \in Lib!statusFilter(q.status) : Asked(ask)) <=> Finds(e, none, e)
            BY <2>3, <3>4
        <3> QED BY <2>2, <3>1, <3>3, <3>5
    <2>7. CASE q.status \in {"approved", "done", "rejected"}
        <3>1. PICK t \in {"ai-approved", "ai-propagated", "ai-rejected"} :
                  /\ t = Lib!SINGLE_TAG_STATUS[q.status]
                  /\ q.status = "approved" => t = "ai-approved"
                  /\ q.status = "done" => t = "ai-propagated"
                  /\ q.status = "rejected" => t = "ai-rejected"
            <4>1. /\ Lib!SINGLE_TAG_STATUS["approved"] = "ai-approved"
                  /\ Lib!SINGLE_TAG_STATUS["done"] = "ai-propagated"
                  /\ Lib!SINGLE_TAG_STATUS["rejected"] = "ai-rejected"
                BY DEF Lib!SINGLE_TAG_STATUS
            <4> QED BY <2>7, <4>1
        <3>2. PICK all : all = {t}
            OBVIOUS
        <3>3. Lib!statusFilter(q.status) = IF t \in existing THEN {Lib!Ask(e, e, all)} ELSE {}
            BY <2>2, <2>7, <3>1, <3>2 DEF Lib!statusFilter
        <3>4. Labelled <=> t \in ts
            <4>1. CASE q.status = "approved"
                BY <3>1, <4>1 DEF Lib!classify, Lib!BADGE_TAGS, Lib!LIFECYCLE_TAGS, Lib!InOneState
            <4>2. CASE q.status = "done"
                BY <3>1, <4>2 DEF Lib!classify, Lib!BADGE_TAGS, Lib!LIFECYCLE_TAGS, Lib!InOneState
            <4>3. CASE q.status = "rejected"
                BY <3>1, <4>3 DEF Lib!classify, Lib!BADGE_TAGS, Lib!LIFECYCLE_TAGS, Lib!InOneState
            <4> QED BY <2>7, <4>1, <4>2, <4>3
        <3>5. CASE t \in existing
            <4>1. (\E ask \in Lib!statusFilter(q.status) : Asked(ask)) <=> Finds(e, e, all)
                BY <2>3, <3>3, <3>5
            <4> QED BY <2>2, <3>2, <3>4, <4>1
        <3>6. CASE t \notin existing
            <4>1. Lib!statusFilter(q.status) = {}
                BY <3>3, <3>6
            <4> QED BY <1>1, <3>4, <3>6, <4>1
        <3> QED BY <3>5, <3>6
    <2> QED BY <1>1, <2>4, <2>5, <2>6, <2>7
<1> QED BY <1>1, <1>3, <1>4, <1>5

-----------------------------------------------------------------------------
(* The pages of the library. *)

LEMMA Division ==
    ASSUME NEW a \in Nat, NEW P \in Nat \ {0}
    PROVE  LET k == a \div P IN k \in Nat /\ k * P <= a /\ a <= k * P + (P - 1)
OBVIOUS

LEMMA Multiple ==
    ASSUME NEW a \in Nat, NEW P \in Nat \ {0}, NEW k \in Nat, k * P <= a
    PROVE  k <= a \div P
OBVIOUS

\* Place r among n is on one of the pages that n need.
LEMMA OnAPage ==
    ASSUME NEW n \in Nat, NEW r \in Nat, r < n
    PROVE  \E p \in 1..Lib!totalPages(n) : r \in (p - 1) * PAGE_SIZE .. p * PAGE_SIZE - 1
<1>1. PICK P \in Nat \ {0} : P = PAGE_SIZE
    BY LibraryAssumption
<1>2. PICK k \in Nat : k * P <= r /\ r <= k * P + (P - 1)
    BY Division
<1>3. (k + 1) * P = k * P + P /\ k * P \in Nat /\ (k + 1) - 1 = k
    OBVIOUS
<1> DEFINE x == k * P
           y == (k + 1) * P
<1>4. x \in Nat /\ y = x + P /\ x <= r /\ r <= x + (P - 1)
    BY <1>2, <1>3
<1>5. r \in ((k + 1) - 1) * P .. (k + 1) * P - 1
    <2>1. r \in x .. y - 1
        <3> HIDE DEF x, y
        <3> QED BY <1>4
    <2> QED BY <1>3, <2>1
<1>6. k + 1 <= (n + P - 1) \div P
    <2>1. n + P - 1 \in Nat /\ y <= n + P - 1
        <3> HIDE DEF x, y
        <3> QED BY <1>4
    <2>2. PICK a \in Nat : a = n + P - 1
        BY <2>1
    <2>3. PICK j \in Nat : j = k + 1
        OBVIOUS
    <2>4. j * P <= a
        BY <2>1, <2>2, <2>3
    <2>5. j <= a \div P
        BY <2>4, Multiple
    <2> QED BY <2>2, <2>3, <2>5
<1>7. Lib!totalPages(n) = (n + P - 1) \div P
    BY <1>1 DEF Lib!totalPages
<1>8. k + 1 \in 1..Lib!totalPages(n)
    <2>1. n + P - 1 \in Nat
        OBVIOUS
    <2>2. (n + P - 1) \div P \in Nat
        BY <2>1, Division
    <2> HIDE DEF x, y
    <2>3. PICK t \in Nat : t = (n + P - 1) \div P
        BY <2>2
    <2> QED BY <1>6, <1>7, <2>3
<1> QED BY <1>1, <1>5, <1>8

\* A place is on one page only.
LEMMA OnOnePage ==
    ASSUME NEW p \in Nat \ {0}, NEW o \in Nat \ {0}, p < o,
           NEW r \in (p - 1) * PAGE_SIZE .. p * PAGE_SIZE - 1
    PROVE  r \notin (o - 1) * PAGE_SIZE .. o * PAGE_SIZE - 1
<1>1. PICK P \in Nat \ {0} : P = PAGE_SIZE
    BY LibraryAssumption
<1>2. PICK k \in Nat : o - 1 = p + k
    <2>1. o - 1 - p \in Nat /\ o - 1 = p + (o - 1 - p)
        OBVIOUS
    <2> QED BY <2>1
<1>3. /\ (p + k) * P = p * P + k * P
      /\ p * P \in Nat /\ k * P \in Nat /\ (p - 1) * P \in Nat /\ o * P \in Nat
    <2>1. p - 1 \in Nat /\ p \in Nat /\ o \in Nat
        OBVIOUS
    <2> QED BY <2>1
<1> DEFINE a == p * P
           b == k * P
           c == (p - 1) * P
           d == o * P
<1>4. a \in Nat /\ b \in Nat /\ c \in Nat /\ d \in Nat /\ (o - 1) * P = a + b /\ r \in c .. a - 1
    BY <1>1, <1>2, <1>3
<1>5. r \notin a + b .. d - 1
    <2> HIDE DEF a, b, c, d
    <2> QED BY <1>4
<1> QED BY <1>1, <1>4, <1>5

LEMMA LibraryPages ==
    ASSUME NEW hits \in SUBSET Docs
    PROVE  /\ \A d \in hits : \E p \in 1..Lib!totalPages(Lib!Cardinality(hits)) : d \in Lib!pageOf(hits, p)
           /\ \A p \in Nat \ {0} : \A o \in Nat \ {0} :
                    p # o => Lib!pageOf(hits, p) \cap Lib!pageOf(hits, o) = {}
<1> DEFINE place(d) == Lib!Cardinality({e \in hits : e < d})
           n == Lib!Cardinality(hits)
<1>1. \A S : Lib!Cardinality(S) = Cardinality(S)
    BY DEF Lib!Cardinality, Cardinality
<1>2. IsFiniteSet(hits) /\ n \in Nat
    BY <1>1, LibraryAssumption, FS_Subset, FS_CardinalityType
<1>3. ASSUME NEW d \in hits PROVE place(d) \in Nat /\ place(d) < n
    <2> DEFINE S == {e \in hits : e < d}
    <2>1. d \in Nat /\ d \notin S /\ S \subseteq hits \ {d}
        BY DocsAssumption
    <2> HIDE DEF S
    <2>2. IsFiniteSet(hits \ {d}) /\ Cardinality(hits \ {d}) = Cardinality(hits) - 1
        BY <1>2, FS_RemoveElement
    <2>3. Cardinality(S) <= Cardinality(hits \ {d}) /\ Cardinality(S) \in Nat
        BY <2>1, <2>2, FS_Subset, FS_CardinalityType
    <2>4. place(d) = Cardinality(S) /\ n = Cardinality(hits)
        BY <1>1 DEF S
    <2> HIDE DEF place, n
    <2> QED BY <1>2, <2>2, <2>3, <2>4
<1>4. \A p : Lib!pageOf(hits, p) = {d \in hits : place(d) \in (p - 1) * PAGE_SIZE .. p * PAGE_SIZE - 1}
    BY DEF Lib!pageOf
<1> HIDE DEF place, n
<1>5. ASSUME NEW d \in hits PROVE \E p \in 1..Lib!totalPages(n) : d \in Lib!pageOf(hits, p)
    <2>1. PICK r \in Nat : r = place(d) /\ r < n
        BY <1>3
    <2>2. PICK p \in 1..Lib!totalPages(n) : r \in (p - 1) * PAGE_SIZE .. p * PAGE_SIZE - 1
        BY <1>2, <2>1, OnAPage
    <2> QED BY <1>4, <2>1, <2>2
<1>6. ASSUME NEW p \in Nat \ {0}, NEW o \in Nat \ {0}, p # o,
             NEW d \in Lib!pageOf(hits, p), d \in Lib!pageOf(hits, o)
      PROVE  FALSE
    <2>1. PICK r : r = place(d)
        OBVIOUS
    <2>2. r \in (p - 1) * PAGE_SIZE .. p * PAGE_SIZE - 1 /\ r \in (o - 1) * PAGE_SIZE .. o * PAGE_SIZE - 1
        BY <1>4, <1>6, <2>1
    <2>3. p < o \/ o < p
        BY <1>6
    <2> QED BY <2>2, <2>3, OnOnePage
<1> QED BY <1>5, <1>6 DEF n

\* The filters a query can have, from the library's page.
LEMMA ListsMatch == LibInv => Lib!ListsTheMatches
<1> SUFFICES ASSUME LibInv PROVE Lib!ListsTheMatches
    OBVIOUS
<1>1. ASSUME NEW q \in Lib!Queries
      PROVE  LET numbers == 1..Lib!totalPages(Lib!Cardinality(Lib!matches(q)))
                 listed == UNION {Lib!listLibrary(q, p).rest : p \in numbers}
             IN /\ \A d \in Docs \ Lib!listLibrary(q, 1).top :
                     q.status \in {"", "error"} \/ Lib!InOneState(d) => (d \in listed <=> d \in Lib!Wanted(q))
                /\ \A p \in numbers :
                     /\ Lib!listLibrary(q, p).top \cap Lib!listLibrary(q, p).rest = {}
                     /\ \A o \in numbers \ {p} :
                            Lib!listLibrary(q, p).rest \cap Lib!listLibrary(q, o).rest = {}
    <2> DEFINE hits == Lib!matches(q)
               numbers == 1..Lib!totalPages(Lib!Cardinality(hits))
               listed == UNION {Lib!listLibrary(q, p).rest : p \in numbers}
    <2>1. hits \in SUBSET Docs
        BY DEF Lib!matches, Lib!searchDocuments
    <2>2. \A p : /\ Lib!listLibrary(q, p).top = Lib!pinned(q, p)
                 /\ Lib!listLibrary(q, p).rest = Lib!pageOf(hits, p) \ Lib!pinned(q, p)
                 /\ Lib!pageOf(hits, p) \subseteq hits
                 /\ Lib!pinned(q, p) \subseteq Lib!pinned(q, 1)
        BY DEF Lib!listLibrary, Lib!pageOf, Lib!pinned
    <2> HIDE DEF hits
    <2>3. /\ \A d \in hits : \E p \in numbers : d \in Lib!pageOf(hits, p)
          /\ \A p \in Nat \ {0} : \A o \in Nat \ {0} :
                    p # o => Lib!pageOf(hits, p) \cap Lib!pageOf(hits, o) = {}
        BY <2>1, LibraryPages
    <2>4. numbers \subseteq Nat \ {0}
        OBVIOUS
    <2> HIDE DEF numbers
    <2>5. ASSUME NEW d \in Docs \ Lib!listLibrary(q, 1).top,
                 q.status \in {"", "error"} \/ Lib!InOneState(d)
          PROVE  d \in listed <=> d \in Lib!Wanted(q)
        <3>1. d \in hits <=> d \in Lib!Wanted(q)
            BY <2>5, MatchesAreWanted DEF hits
        <3>2. d \notin Lib!pinned(q, 1)
            BY <2>2, <2>5
        <3>3. d \in listed <=> d \in hits
            BY <2>2, <2>3, <3>2
        <3> QED BY <3>1, <3>3
    <2>6. ASSUME NEW p \in numbers
          PROVE  /\ Lib!listLibrary(q, p).top \cap Lib!listLibrary(q, p).rest = {}
                 /\ \A o \in numbers \ {p} :
                        Lib!listLibrary(q, p).rest \cap Lib!listLibrary(q, o).rest = {}
        BY <2>2, <2>3, <2>4
    <2> QED BY <2>5, <2>6 DEF hits, numbers
<1>2. ASSUME NEW t \in Lib!listTagFacet
      PROVE  Lib!Cardinality(Lib!Wanted([status |-> "", type |-> NoType, tags |-> {t}])) >= Lib!FACET_MIN_COUNT
    <2> DEFINE sample == {d \in Docs : "ai-pending" \notin tagsOf[d]}
               q == [status |-> "", type |-> NoType, tags |-> {t}]
    <2>1. t \notin Lib!INTERNAL_TAGS /\ Lib!Cardinality({d \in sample : t \in tagsOf[d]}) >= Lib!FACET_MIN_COUNT
        <3> DEFINE Often(u) == Lib!Cardinality({d \in sample : u \in tagsOf[d]}) >= Lib!FACET_MIN_COUNT
                   offered == (UNION {tagsOf[d] : d \in sample}) \ Lib!INTERNAL_TAGS
        <3>1. Lib!listTagFacet = {u \in offered : Often(u)}
            BY DEF Lib!listTagFacet
        <3> HIDE DEF Often
        <3>2. t \notin Lib!INTERNAL_TAGS /\ Often(t)
            BY <1>2, <3>1
        <3> QED BY <3>2 DEF Often
    <2>2. Lib!Wanted(q) = {d \in sample : t \in tagsOf[d]}
        <3>1. q.status = "" /\ q.type = NoType /\ q.tags = {t}
            OBVIOUS
        <3> HIDE DEF q
        <3>2. \A d \in Docs : q.tags \subseteq Lib!project(d).tags <=> t \in tagsOf[d]
            BY <2>1, <3>1 DEF Lib!project
        <3> QED BY <3>1, <3>2 DEF Lib!Wanted
    <2> QED BY <2>1, <2>2
<1> QED BY <1>1, <1>2 DEF Lib!ListsTheMatches

LEMMA LibSafe == SumSpec => []LibInv
<1>1. SumInit => LibInv
    BY LibInit DEF SumInit
<1>2. LibInv /\ [SumNext]_sumVars => LibInv'
    BY PartsMove, LibNext
<1> QED BY <1>1, <1>2, PTL DEF SumSpec

\* The pages of the library hold what its filters name, each document once, for any documents,
\* types and sizes of pages and whatever tags the documents carry (library.service.ts).
THEOREM LibraryListsTheMatches == SumSpec => []ListsTheMatches
<1>1. LibInv => ListsTheMatches
    BY ListsMatch DEF ListsTheMatches
<1> QED BY <1>1, LibSafe, PTL

-----------------------------------------------------------------------------
(* Types: what the invariants above leave open. *)

\* A row is of a name there is; a task is recorded when its file was accepted.
NamedInv ==
    /\ nameOf \in [Files -> FileNames]
    /\ DOMAIN fileRows \subseteq FileNames
    /\ calls \subseteq Batches
    /\ recorded \subseteq {f \in Files : result[f] = "accepted"}

LEMMA NamedInit == Up!Init => NamedInv
BY DEF Up!Init, NamedInv

LEMMA NamedNext == UploadsInv /\ NamedInv /\ [Up!Next]_uploads => NamedInv'
<1> SUFFICES ASSUME UploadsInv, NamedInv, [Up!Next]_uploads PROVE NamedInv'
    OBVIOUS
<1>1. result \in [Files -> {"none", "queued", "accepted", "error"}]
    BY DEF UploadsInv, UploadsTyped
<1>2. ASSUME NEW f \in Files, Up!FileRefused(f) PROVE NamedInv'
    BY <1>1, <1>2 DEF Up!FileRefused, Up!page, NamedInv
<1>3. ASSUME NEW f \in Files, Up!FileAccepted(f) PROVE NamedInv'
    BY <1>1, <1>3 DEF Up!FileAccepted, Up!page, NamedInv
<1>4. ASSUME NEW b \in Batches, Up!send(b) PROVE NamedInv'
    <2>1. PICK picked \in SUBSET Up!Pickable :
              /\ result' = [f \in Files |-> IF f \in picked THEN "queued" ELSE result[f]]
              /\ fileRows' = [n \in {nameOf[f] : f \in picked} |-> [phase |-> "uploading", doc |-> Null]]
        BY <1>4 DEF Up!send
    <2>2. calls' = calls \cup {b} /\ UNCHANGED <<nameOf, recorded>>
        BY <1>4 DEF Up!send
    <2>3. DOMAIN fileRows' \subseteq FileNames
        BY <2>1 DEF NamedInv, Up!Pickable
    <2>4. \A f \in recorded : f \notin picked
        BY <2>1 DEF NamedInv, Up!Pickable, UploadsInv, Followed
    <2> QED BY <2>1, <2>2, <2>3, <2>4 DEF NamedInv
<1>5. ASSUME NEW b \in Batches, Up!Answered(b) \/ Up!CallFails(b) PROVE NamedInv'
    <2>1. DOMAIN fileRows' = DOMAIN fileRows
        BY <1>5 DEF Up!Answered, Up!CallFails
    <2>2. calls' \subseteq calls /\ UNCHANGED <<nameOf, result, recorded>>
        BY <1>5 DEF Up!Answered, Up!CallFails
    <2> QED BY <2>1, <2>2 DEF NamedInv
<1>6. ASSUME NEW f \in Files, Up!PollTask(f) \/ Up!PollStatus(f) \/ Up!GiveUp(f) PROVE NamedInv'
    <2>1. DOMAIN fileRows' = DOMAIN fileRows
        BY <1>6 DEF Up!PollTask, Up!PollStatus, Up!GiveUp, Up!update
    <2>2. UNCHANGED <<nameOf, calls, result, recorded>>
        BY <1>6 DEF Up!PollTask, Up!PollStatus, Up!GiveUp, Up!api
    <2> QED BY <2>1, <2>2 DEF NamedInv
<1>7. ASSUME NEW f \in Files, Up!TaskEnds(f) \/ Up!WorkerMoves(f) \/ Up!ReviewerMoves(f) PROVE NamedInv'
    BY <1>7 DEF Up!TaskEnds, Up!WorkerMoves, Up!ReviewerMoves, Up!page, Up!api, NamedInv
<1>8. CASE UNCHANGED uploads
    BY <1>8 DEF uploads, NamedInv
<1> QED BY <1>2, <1>3, <1>4, <1>5, <1>6, <1>7, <1>8 DEF Up!Next

LEMMA UploadsTypeOK == UploadsInv /\ NamedInv => Up!TypeOK
<1> SUFFICES ASSUME UploadsInv, NamedInv PROVE Up!TypeOK
    OBVIOUS
<1>1. \A n \in DOMAIN fileRows :
          fileRows[n].phase \in Phase /\ fileRows[n].doc \in Files \cup {Null}
    BY DEF UploadsInv, RowsTell, Tells
<1>2. \A f \in Files : /\ result[f] \in {"none", "queued", "accepted", "error"}
                       /\ tracker[f] \in {"none", "task", "status", "done"}
                       /\ tracker[f] # "none" => result[f] = "accepted"
    BY DEF UploadsInv, UploadsTyped, Followed
<1> QED BY <1>1, <1>2 DEF NamedInv, Up!TypeOK, Phase

LEMMA FormTypeOK == ReviewInv => Form!TypeOK
BY DEF ReviewInv, ReviewTyped, FilledOrTyped, Form!TypeOK, Form!Texts, FormText

LEMMA SettingsTypeOK == SettingsInv => Set!TypeOK
<1> SUFFICES ASSUME SettingsInv PROVE Set!TypeOK
    OBVIOUS
<1>1. row = Null \/ row \in [Set!Column -> Set!AnyModel]
    BY DEF SettingsInv, SettingsTyped, AnyModel
<1>2. ASSUME NEW c \in Callers
      PROVE  /\ asking[c].pc \in {"idle", "select", "insert", "update", "upsert", "list", "answered"}
             /\ asking[c].pc \in {"select", "insert", "update"} => asking[c].col \in Set!Column
             /\ asking[c].pc = "answered" => asking[c].value # Null
    <2>1. asking[c] \in ApiCall /\ CallOK(asking[c], held)
        BY DEF SettingsInv, SettingsTyped, TablesHeld
    <2>2. ASSUME asking[c].pc = "answered" PROVE asking[c].value # Null
        <3>1. asking[c].col \in Columns /\ asking[c].value \in held[asking[c].col]
            BY <2>1, <2>2 DEF ApiCall, CallOK
        <3>2. held[asking[c].col] \subseteq AnyModel \cup Hundredth
            BY <3>1 DEF SettingsInv, SettingsTyped
        <3>3. Null \notin AnyModel \cup Hundredth
            BY SettingsAssumption DEF AnyModel, Set!AnyModel, Hundredth
        <3> QED BY <3>1, <3>2, <3>3
    <2> QED BY <2>1, <2>2 DEF ApiCall, CallOK
<1>3. /\ minConf \in {10 * h : h \in 0 .. 100} /\ cache \in Set!AnyModel \cup {Null}
      /\ row = Null => saved = Set!Fresh
      /\ asked # Null => asked \leq now /\ loadedAt \leq asked
    BY DEF SettingsInv, SettingsTyped, TablesHeld, WorkerRecent, Hundredth, AnyModel
<1> QED BY <1>1, <1>2, <1>3 DEF Set!TypeOK, Callers

\* A document is in the trash once.
TrashInv ==
    /\ Bin!IsInjective(trash)
    /\ confirm \in [Users -> BinDocs \cup {"all", Null}]

LEMMA TrashInit == Bin!Init => TrashInv
<1> SUFFICES ASSUME Bin!Init PROVE TrashInv
    OBVIOUS
<1>1. trash \in Bin!SetToSeqs(BinDocs \ shelf) /\ confirm = [u \in Users |-> Null]
    BY DEF Bin!Init
<1>2. PICK D : /\ D = 1..Bin!Cardinality(BinDocs \ shelf)
               /\ trash \in {f \in [D -> BinDocs \ shelf] : \A i, j \in D : i # j => f[i] # f[j]}
    BY <1>1 DEF Bin!SetToSeqs
<1>3. Bin!IsInjective(trash)
    BY <1>2 DEF Bin!IsInjective
<1> QED BY <1>1, <1>3 DEF TrashInv

LEMMA TrashNext == BinInv /\ TrashInv /\ [Bin!Next]_bin => TrashInv'
<1> SUFFICES ASSUME BinInv, TrashInv, [Bin!Next]_bin PROVE TrashInv'
    OBVIOUS
<1> DEFINE Typed(f) == f \in [Users -> BinDocs \cup {"all", Null}]
<1>1. trash \in Seq(BinDocs) /\ Bin!ToSet(trash) \cap shelf = {} /\ Bin!IsInjective(trash)
    BY DEF BinInv, BinTyped, TrashInv
<1>2. ASSUME NEW W, trash' = Bin!Without(trash, W) PROVE Bin!IsInjective(trash')
    BY <1>1, <1>2, WithoutKeepsTheRest
<1>3. ASSUME trash' = trash PROVE Bin!IsInjective(trash')
    BY <1>1, <1>3
<1>4. ASSUME NEW d \in BinDocs, Bin!deleteDocument(d) PROVE TrashInv'
    <2>1. PICK i \in 1..(Len(trash) + 1) : trash' = Bin!InsertAt(trash, i, d)
        BY <1>4 DEF Bin!deleteDocument
    <2>2. d \notin Bin!ToSet(trash) /\ confirm' = confirm
        BY <1>1, <1>4 DEF Bin!deleteDocument, Bin!page
    <2>3. Bin!IsInjective(trash')
        BY <1>1, <2>1, <2>2, InsertedOnce
    <2> QED BY <2>2, <2>3 DEF TrashInv
<1>5. ASSUME NEW u \in Users, NEW c \in BinDocs \cup {"all", Null},
             confirm' = [confirm EXCEPT ![u] = c] \/ confirm' = confirm, trash' = trash
      PROVE  TrashInv'
    BY <1>3, <1>5 DEF TrashInv
<1>6. ASSUME NEW u \in Users, \/ Bin!onEmpty(u)
                              \/ \E d \in BinDocs : Bin!onDelete(u, d)
      PROVE  TrashInv'
    BY <1>5, <1>6 DEF Bin!onEmpty, Bin!onDelete
<1>7. ASSUME NEW u \in Users, \/ Bin!listTrashed(u) \/ Bin!listAllTrashedIds(u) \/ Bin!purgeChunks(u)
                              \/ \E d \in BinDocs : Bin!onRestore(u, d)
      PROVE  TrashInv'
    <2>1. UNCHANGED <<trash, confirm>>
        BY <1>7 DEF Bin!listTrashed, Bin!listAllTrashedIds, Bin!purgeChunks, Bin!onRestore, Bin!page
    <2> QED BY <1>3, <2>1 DEF TrashInv
<1>8. ASSUME NEW u \in Users, Bin!restore(u) \/ Bin!emptyTrash(u) \/ Bin!RequestFails(u)
      PROVE  TrashInv'
    <2>1. confirm' = confirm
        BY <1>8 DEF Bin!restore, Bin!emptyTrash, Bin!RequestFails, Bin!page
    <2>2. trash' = trash \/ \E W : trash' = Bin!Without(trash, W)
        BY <1>8 DEF Bin!restore, Bin!emptyTrash, Bin!RequestFails
    <2> QED BY <1>2, <1>3, <2>1, <2>2 DEF TrashInv
<1>9. ASSUME NEW d \in BinDocs, Bin!RestoredElsewhere(d) PROVE TrashInv'
    <2>1. confirm' = confirm /\ trash' = Bin!Without(trash, {d})
        BY <1>9 DEF Bin!RestoredElsewhere, Bin!page
    <2> QED BY <1>2, <2>1 DEF TrashInv
<1>10. CASE UNCHANGED bin
    BY <1>3, <1>10 DEF bin, TrashInv
<1> QED BY <1>4, <1>6, <1>7, <1>8, <1>9, <1>10 DEF Bin!Next

LEMMA TrashTypeOK == BinInv /\ TrashInv => Bin!TypeOK
<1> SUFFICES ASSUME BinInv, TrashInv PROVE Bin!TypeOK
    OBVIOUS
<1>1. Bin!ToSet(trash) \subseteq BinDocs \ shelf
    BY DEF BinInv, BinTyped, Bin!ToSet
<1>2. ASSUME NEW u \in Users
      PROVE  /\ request[u].stage \in {"idle", "restore", "listing", "destroy", "purge"}
             /\ Bin!ToSet(request[u].ids) \subseteq BinDocs
    <2>1. request[u] \in BinRequest
        BY DEF BinInv, BinTyped
    <2> QED BY <2>1 DEF BinRequest, Bin!ToSet
<1> QED BY <1>1, <1>2 DEF BinInv, BinTyped, TrashInv, Bin!TypeOK

-----------------------------------------------------------------------------
PageTyped == Page!TypeOK

LEMMA PageTypedInit == Page!Init => PageTyped
<1> SUFFICES ASSUME Page!Init PROVE PageTyped
    OBVIOUS
<1>1. PICK f \in Page!Filters, n \in 1..MaxPages : route = Page!Url("archive", f, n)
    BY DEF Page!Init
<1>2. route \in Page!Urls /\ route.filters.text \in SearchTexts
    BY <1>1 DEF Page!Url, Page!Urls, Page!Filters
<1> QED BY <1>2 DEF Page!Init, PageTyped, Page!TypeOK

LEMMA PageTypedNext == PageTyped /\ [Page!Next]_page => PageTyped'
<1> SUFFICES ASSUME PageTyped, [Page!Next]_page PROVE PageTyped'
    OBVIOUS
<1> USE DEF PageTyped, Page!TypeOK
<1>1. \A tab \in {"archive", "review"}, f \in Page!Filters, n \in 1..MaxPages :
            Page!Url(tab, f, n) \in Page!Urls
    BY DEF Page!Url, Page!Urls
<1>2. 1 \in 1..MaxPages /\ Page!NoFilters \in Page!Filters
    <2>1. MaxPages \in Nat \ {0}
        BY PageAssumption, Zenon
    <2>2. PICK e : /\ e \in SearchTexts /\ e \in PageTypes /\ e \in Statuses
                   /\ Page!NoFilters = [text |-> e, type |-> e, status |-> e]
        BY PageAssumption, Zenon DEF Page!NoFilters
    <2> QED BY <2>1, <2>2 DEF Page!Filters
<1>3. route.filters \in Page!Filters
    BY DEF Page!Urls
<1>4. ASSUME NEW tab \in {"archive", "review"}, NEW f \in Page!Filters, NEW n \in 1..MaxPages,
             nav' = Page!Url(tab, f, n), UNCHANGED <<route, text, pages, bulk>>,
             timer' \in BOOLEAN, armed' \in {armed, FALSE}
      PROVE  PageTyped'
    BY <1>1, <1>4
<1>5. CASE Page!DebounceEnds
    <2>1. [route.filters EXCEPT !.text = text] \in Page!Filters
        BY <1>3 DEF Page!Filters
    <2> QED BY <1>2, <1>4, <1>5, <2>1 DEF Page!DebounceEnds, Page!syncUrl, Page!navigateTo
<1>6. CASE Page!toggleType
    <2>1. PICK t \in PageTypes : nav' = Page!Url("archive", [route.filters EXCEPT !.type = t], 1)
        BY <1>6 DEF Page!toggleType, Page!syncUrl, Page!navigateTo
    <2>2. [route.filters EXCEPT !.type = t] \in Page!Filters
        BY <1>3 DEF Page!Filters
    <2> QED BY <1>2, <1>4, <1>6, <2>1, <2>2 DEF Page!toggleType
<1>7. CASE Page!onStatusChange
    <2>1. PICK t \in Statuses : nav' = Page!Url("archive", [route.filters EXCEPT !.status = t], 1)
        BY <1>7 DEF Page!onStatusChange, Page!syncUrl, Page!navigateTo
    <2>2. [route.filters EXCEPT !.status = t] \in Page!Filters
        BY <1>3 DEF Page!Filters
    <2> QED BY <1>2, <1>4, <1>7, <2>1, <2>2 DEF Page!onStatusChange
<1>8. CASE Page!switchTab \/ Page!clearFilters
    BY <1>2, <1>4, <1>8 DEF Page!switchTab, Page!clearFilters, Page!navigateTo
<1>9. CASE Page!goToPage
    <2>1. PICK n \in {route.page - 1, route.page + 1} :
             n \in 1..pages /\ nav' = Page!Url("archive", route.filters, n)
        BY <1>9 DEF Page!goToPage, Page!syncUrl, Page!navigateTo
    <2>2. pages \in 1..MaxPages
        BY <1>9 DEF Page!goToPage
    <2>3. n \in 1..MaxPages
        <3>1. MaxPages \in Nat
            BY PageAssumption, Zenon
        <3> QED BY <2>1, <2>2, <3>1
    <2> QED BY <1>3, <1>4, <1>9, <2>1, <2>3 DEF Page!goToPage
<1>10. CASE Page!Navigated
    <2>1. nav \in Page!Urls /\ nav.filters.text \in SearchTexts
        BY <1>10 DEF Page!Navigated, Page!Urls, Page!Filters
    <2> QED BY <1>10, <2>1 DEF Page!Navigated
<1>11. CASE \/ Page!onTextInput \/ Page!onBulkReprocess \/ Page!NavigationFails
            \/ Page!Fetched \/ Page!BulkAnswered \/ UNCHANGED page
    BY <1>11 DEF Page!onTextInput, Page!onBulkReprocess, Page!NavigationFails,
                 Page!Fetched, Page!BulkAnswered, page
<1> QED BY <1>5, <1>6, <1>7, <1>8, <1>9, <1>10, <1>11 DEF Page!Next

-----------------------------------------------------------------------------
(***************************************************************************)
(* The throttle: a login that is let through counts before its failure     *)
(* does, so fewer failures than MaxFailures leave room for one of every    *)
(* other browser.                                                          *)
(***************************************************************************)
Hashing == {b \in Browsers : call[b] # Null /\ call[b].kind = "login" /\ call[b].at = "hashing"}

Within(n, S) == n + Cardinality(S) < MaxFailures + Cardinality(Browsers)

SessionTyped ==
    /\ failures \in Seq(Nat)
    /\ Within(Len(failures), Hashing)
    /\ user # Null => user.hash \in 1..(MaxChanges + 1)
    /\ me \in [Browsers -> BOOLEAN \cup {Null}]
    /\ view \in [Browsers -> {"login", "inside"}]

LEMMA BrowsersCounted ==
    /\ Cardinality(Browsers) \in Nat
    /\ \A S \in SUBSET Browsers : /\ Cardinality(S) \in Nat
                                  /\ Cardinality(S) <= Cardinality(Browsers)
    /\ \A S \in SUBSET Browsers, b \in Browsers :
            b \in S => Cardinality(S \ {b}) = Cardinality(S) - 1
    /\ Auth!Cardinality(Browsers) = Cardinality(Browsers)
<1>1. IsFiniteSet(Browsers)
    BY SessionAssumption
<1>2. \A S \in SUBSET Browsers : IsFiniteSet(S)
    BY <1>1, FS_Subset
<1>3. Auth!Cardinality(Browsers) = Cardinality(Browsers)
    BY DEF Auth!Cardinality, Cardinality
<1> QED BY <1>1, <1>2, <1>3, FS_Subset, FS_CardinalityType, FS_RemoveElement

LEMMA RecentOnes ==
    ASSUME failures \in Seq(Nat)
    PROVE  Auth!recent \in Seq(Nat) /\ Len(Auth!recent) <= Len(failures)
<1> DEFINE W == {at \in Auth!ToSet(failures) : ~(time - at < Window)}
<1>1. Auth!recent = Auth!Without(failures, W)
    BY DEF Auth!recent
<1> HIDE DEF W
<1>2. Auth!Without(failures, W) = Bin!Without(failures, W)
    BY DEF Auth!Without, Bin!Without
<1> QED BY <1>1, <1>2, WithoutKeepsTheRest

LEMMA SessionTypedInit == Auth!Init => SessionTyped
<1> SUFFICES ASSUME Auth!Init PROVE SessionTyped
    OBVIOUS
<1>1. Hashing = {} /\ failures = <<>> /\ user = Null
    BY DEF Auth!Init, Hashing
<1>2. Cardinality({}) = 0 /\ Len(<<>>) = 0 /\ <<>> \in Seq(Nat)
    BY FS_EmptySet
<1>3. Within(Len(failures), Hashing)
    BY <1>1, <1>2, BrowsersCounted, SessionAssumption DEF Within
<1> QED BY <1>1, <1>2, <1>3 DEF Auth!Init, SessionTyped

\* A step that lets no login through and records no failure.
LEMMA RoomKept ==
    ASSUME SessionTyped, failures' \in Seq(Nat), Len(failures') <= Len(failures), Hashing' \subseteq Hashing
    PROVE  Within(Len(failures), Hashing)'
<1>1. PICK n \in Nat, m \in Nat, S \in SUBSET Browsers, T \in SUBSET Browsers :
        /\ n = Len(failures) /\ m = Len(failures') /\ S = Hashing /\ T = Hashing'
        /\ T \subseteq S /\ m <= n
    <2>1. Len(failures) \in Nat /\ Len(failures') \in Nat
        BY DEF SessionTyped
    <2>2. Hashing \in SUBSET Browsers /\ Hashing' \in SUBSET Browsers
        BY DEF Hashing
    <2> QED BY <2>1, <2>2
<1>2. Cardinality(T) <= Cardinality(S) /\ Cardinality(T) \in Nat /\ Cardinality(S) \in Nat
    <2>1. IsFiniteSet(S)
        BY SessionAssumption, FS_Subset
    <2>2. T \in SUBSET S
        BY <1>1
    <2> QED BY <2>1, <2>2, FS_Subset, FS_CardinalityType
<1>3. Within(n, S)
    BY <1>1 DEF SessionTyped
<1>4. Within(m, T)
    BY <1>1, <1>2, <1>3, BrowsersCounted, SessionAssumption DEF Within
<1> QED BY <1>1, <1>4 DEF Within

\* A call that ends, or is not a login that is let through, counts no longer.
LEMMA NoLongerHashing ==
    ASSUME Sess!Inv, NEW b \in Browsers, NEW c, call' = [call EXCEPT ![b] = c],
           c = Null \/ c.kind = "change" \/ c.at # "hashing"
    PROVE  Hashing' = Hashing \ {b}
<1>1. \A x \in Browsers : call'[x] = IF x = b THEN c ELSE call[x]
    BY DEF Sess!Inv, Sess!Typed
<1>2. Hashing' = {x \in Browsers : call'[x] # Null /\ call'[x].kind = "login" /\ call'[x].at = "hashing"}
    BY DEF Hashing
<1> QED BY <1>1, <1>2 DEF Hashing

LEMMA SessionTypedNext == Sess!Inv /\ SessionTyped /\ [Auth!Next]_sessions => SessionTyped'
<1> SUFFICES ASSUME Sess!Inv, SessionTyped, [Auth!Next]_sessions PROVE SessionTyped'
    OBVIOUS
<1> DEFINE Row == [password : Passwords, hash : Nat]
           LoginCall == [kind : {"login"}, password : Passwords, hash : Nat \cup {Null},
                         at : {"throttled", "hashing", "refused", "done"}]
           ChangeCall == [kind : {"change"}, at : {"hashing", "done"}, password : Passwords]
           HashOK(r) == r # Null => r.hash \in 1..(MaxChanges + 1)
           PagesOK(m, v) == /\ m \in [Browsers -> BOOLEAN \cup {Null}]
                            /\ v \in [Browsers -> {"login", "inside"}]
<1>1. /\ failures \in Seq(Nat) /\ Auth!recent \in Seq(Nat) /\ Len(Auth!recent) <= Len(failures)
      /\ time \in Nat
      /\ HashOK(user) /\ PagesOK(me, view)
    BY RecentOnes DEF SessionTyped, Sess!Inv, Sess!Typed
<1>2. ASSUME UNCHANGED call PROVE Hashing' = Hashing
    BY <1>2 DEF Hashing
<1>3. ASSUME Hashing' \subseteq Hashing, UNCHANGED failures, HashOK(user'), PagesOK(me', view')
      PROVE  SessionTyped'
    <2>1. Len(failures') <= Len(failures) /\ failures' \in Seq(Nat)
        BY <1>1, <1>3
    <2>2. Within(Len(failures), Hashing)'
        BY <1>3, <2>1, RoomKept
    <2> QED BY <1>3, <2>1, <2>2 DEF SessionTyped
<1>4. CASE Auth!bootstrapUserIfEmpty
    <2>1. user'.hash = 1 /\ UNCHANGED <<failures, call, me, view>>
        BY <1>4 DEF Auth!bootstrapUserIfEmpty
    <2>2. 1 \in 1..(MaxChanges + 1)
        BY SessionAssumption
    <2> QED BY <1>1, <1>2, <1>3, <2>1, <2>2
<1>5. CASE Auth!Tick \/ UNCHANGED sessions
    <2>1. UNCHANGED <<user, failures, call, me, view>>
        BY <1>5 DEF Auth!Tick, sessions
    <2> QED BY <1>1, <1>2, <1>3, <2>1
<1>6. ASSUME NEW b \in Browsers, Auth!onSubmit(b) \/ Auth!changePassword(b) PROVE SessionTyped'
    <2>1. \E c : /\ call' = [call EXCEPT ![b] = c]
                 /\ c.kind = "change" \/ c.at # "hashing"
        <3>1. CASE Auth!onSubmit(b)
            <4>1. PICK p : call' = [call EXCEPT ![b] = [kind |-> "login", at |-> "sent", password |-> p]]
                BY <3>1 DEF Auth!onSubmit, Auth!Calls
            <4>2. [kind |-> "login", at |-> "sent", password |-> p].at # "hashing"
                OBVIOUS
            <4> QED BY <4>1, <4>2
        <3>2. CASE Auth!changePassword(b)
            <4>1. PICK p : call' = [call EXCEPT ![b] = [kind |-> "change", at |-> "hashing", password |-> p]]
                BY <3>2 DEF Auth!changePassword, Auth!Calls
            <4>2. [kind |-> "change", at |-> "hashing", password |-> p].kind = "change"
                OBVIOUS
            <4> QED BY <4>1, <4>2
        <3> QED BY <1>6, <3>1, <3>2
    <2>2. UNCHANGED <<user, failures, me, view>>
        BY <1>6 DEF Auth!onSubmit, Auth!changePassword
    <2> QED BY <1>1, <1>3, <2>1, <2>2, NoLongerHashing
<1>7. ASSUME NEW b \in Browsers, Auth!login(b) PROVE SessionTyped'
    <2>1. /\ failures' = Auth!recent
          /\ UNCHANGED <<user, me, view>>
        BY <1>7 DEF Auth!login
    <2>2. PICK c : /\ call' = [call EXCEPT ![b] = c]
                   /\ c.at = IF Auth!Throttled THEN "throttled" ELSE "hashing"
        <3>1. PICK h, at :
                /\ at = IF Auth!Throttled THEN "throttled" ELSE "hashing"
                /\ call' = [call EXCEPT ![b] = [kind |-> "login", password |-> call[b].password,
                                               hash |-> h, at |-> at]]
            BY <1>7 DEF Auth!login
        <3>2. [kind |-> "login", password |-> call[b].password, hash |-> h, at |-> at].at = at
            OBVIOUS
        <3> QED BY <3>1, <3>2
    <2>3. Within(Len(failures), Hashing)'
        <3>1. CASE Auth!Throttled
            <4>1. Hashing' \subseteq Hashing
                BY <2>2, <3>1, NoLongerHashing
            <4> QED BY <1>1, <2>1, <4>1, RoomKept
        <3>2. CASE ~Auth!Throttled
            <4>1. PICK n \in Nat, S \in SUBSET Browsers :
                    n = Len(failures') /\ S = Hashing' /\ n < MaxFailures
                <5>1. Hashing' \in SUBSET Browsers
                    BY DEF Hashing
                <5>2. Len(failures') \in Nat /\ Len(failures') < MaxFailures
                    BY <1>1, <2>1, <3>2, SessionAssumption DEF Auth!Throttled
                <5> QED BY <5>1, <5>2
            <4>2. Within(n, S)
                BY <4>1, BrowsersCounted, SessionAssumption DEF Within
            <4> QED BY <4>1, <4>2 DEF Within
        <3> QED BY <3>1, <3>2
    <2> QED BY <1>1, <2>1, <2>3 DEF SessionTyped
<1>8. ASSUME NEW b \in Browsers, Auth!LoginDecided(b) PROVE SessionTyped'
    <2>1. UNCHANGED <<user, me, view>> /\ b \in Hashing
        BY <1>8 DEF Auth!LoginDecided, Hashing
    <2>2. \/ call[b].hash = Null /\ failures' = Append(Auth!recent, time)
          \/ failures' = <<>>
        BY <1>8 DEF Auth!LoginDecided
    <2>3. Hashing' = Hashing \ {b}
        <3> DEFINE at == IF call[b].hash = Null THEN "refused" ELSE "done"
                   c == [call[b] EXCEPT !.at = at]
        <3>1. call[b] \in LoginCall
            BY <1>8 DEF Auth!LoginDecided, Sess!Inv, Sess!Typed, Sess!Call
        <3>2. call' = [call EXCEPT ![b] = c] /\ c.at # "hashing"
            BY <1>8, <3>1 DEF Auth!LoginDecided
        <3> HIDE DEF c
        <3> QED BY <3>2, NoLongerHashing
    <2>4. failures' \in Seq(Nat) /\ Len(failures') <= Len(failures) + 1
        <3>1. PICK r \in Seq(Nat) : r = Auth!recent /\ Len(r) <= Len(failures)
            BY <1>1
        <3>2. Append(r, time) \in Seq(Nat) /\ Len(Append(r, time)) = Len(r) + 1
            BY <1>1
        <3>3. Len(r) \in Nat /\ Len(failures) \in Nat /\ <<>> \in Seq(Nat) /\ Len(<<>>) = 0
            BY <1>1
        <3>4. CASE failures' = <<>>
            BY <3>3, <3>4
        <3>5. CASE failures' = Append(r, time)
            <4>1. PICK a \in Seq(Nat) : a = failures' /\ Len(a) = Len(r) + 1
                BY <3>2, <3>5
            <4> QED BY <3>1, <3>3, <4>1
        <3> QED BY <2>2, <3>1, <3>4, <3>5
    <2>5. PICK n \in Nat, m \in Nat, S \in SUBSET Browsers, T \in SUBSET Browsers :
            /\ n = Len(failures) /\ m = Len(failures') /\ S = Hashing /\ T = Hashing'
            /\ T = S \ {b} /\ b \in S /\ m <= n + 1
        <3>1. Len(failures) \in Nat /\ Len(failures') \in Nat
            BY <1>1, <2>4
        <3>2. Hashing \in SUBSET Browsers /\ Hashing' \in SUBSET Browsers
            BY DEF Hashing
        <3> QED BY <2>1, <2>3, <2>4, <3>1, <3>2
    <2>6. Within(n, S)
        BY <2>5 DEF SessionTyped
    <2>7. Cardinality(T) = Cardinality(S) - 1 /\ Cardinality(S) \in Nat /\ Cardinality(Browsers) \in Nat
        BY <2>5, BrowsersCounted
    <2>8. Within(m, T)
        BY <2>5, <2>6, <2>7, SessionAssumption DEF Within
    <2>9. Within(Len(failures), Hashing)'
        BY <2>5, <2>8 DEF Within
    <2> QED BY <1>1, <2>1, <2>4, <2>9 DEF SessionTyped
<1>9. ASSUME NEW b \in Browsers, Auth!LoginAnswered(b) PROVE SessionTyped'
    <2>1. call' = [call EXCEPT ![b] = Null] /\ UNCHANGED <<user, failures>>
        BY <1>9 DEF Auth!LoginAnswered
    <2>2. PagesOK(me', view')
        BY <1>1, <1>9 DEF Auth!LoginAnswered
    <2> QED BY <1>1, <1>3, <2>1, <2>2, NoLongerHashing
<1>10. ASSUME NEW b \in Browsers, Auth!PasswordSet(b) PROVE SessionTyped'
    <2>1. UNCHANGED <<failures, me, view>> /\ user'.hash = user.hash + 1 /\ user.hash <= MaxChanges
        BY <1>10 DEF Auth!PasswordSet
    <2>2. user \in Row
        BY <1>10 DEF Auth!PasswordSet, Sess!Inv, Sess!CallsSound, Sess!Row
    <2>3. user # Null
        BY <2>2, SessionAssumption
    <2>4. HashOK(user')
        BY <1>1, <2>1, <2>3, SessionAssumption
    <2>5. \E c : call' = [call EXCEPT ![b] = c] /\ c.at # "hashing"
        <3>1. call[b] \in ChangeCall
            BY <1>10 DEF Auth!PasswordSet, Sess!Inv, Sess!Typed, Sess!Call
        <3>2. call' = [call EXCEPT ![b] = [call[b] EXCEPT !.at = "done"]]
            BY <1>10 DEF Auth!PasswordSet
        <3>3. [call[b] EXCEPT !.at = "done"].at = "done"
            BY <3>1
        <3> QED BY <3>2, <3>3
    <2> QED BY <1>1, <1>3, <2>1, <2>4, <2>5, NoLongerHashing
<1>11. ASSUME NEW b \in Browsers, Auth!ChangeAnswered(b) PROVE SessionTyped'
    <2>1. /\ call' = [call EXCEPT ![b] = Null] /\ me' = [me EXCEPT ![b] = FALSE]
          /\ UNCHANGED <<user, failures, view>>
        BY <1>11 DEF Auth!ChangeAnswered
    <2> QED BY <1>1, <1>3, <2>1, NoLongerHashing
<1>12. ASSUME NEW b \in Browsers, Auth!logout(b) \/ Auth!FetchMe(b) \/ Auth!Navigates(b)
       PROVE  SessionTyped'
    <2>1. UNCHANGED <<user, failures, call>>
        BY <1>12 DEF Auth!logout, Auth!FetchMe, Auth!Navigates
    <2>2. PagesOK(me', view')
        <3>1. CASE Auth!logout(b)
            BY <1>1, <3>1 DEF Auth!logout
        <3>2. CASE Auth!FetchMe(b)
            <4>1. PICK known \in BOOLEAN : known = Auth!canActivate(b)
                BY DEF Auth!canActivate, Auth!verifySession
            <4>2. me' = [me EXCEPT ![b] = known] /\ view' = view
                BY <3>2, <4>1 DEF Auth!FetchMe
            <4> QED BY <1>1, <4>2
        <3>3. CASE Auth!Navigates(b)
            BY <1>1, <3>3 DEF Auth!Navigates
        <3> QED BY <1>12, <3>1, <3>2, <3>3
    <2> QED BY <1>1, <1>2, <1>3, <2>1, <2>2
<1> QED BY <1>4, <1>5, <1>6, <1>7, <1>8, <1>9, <1>10, <1>11, <1>12 DEF Auth!Next

LEMMA SessionTypeOK == Sess!Inv /\ SessionTyped => Auth!TypeOK
<1> SUFFICES ASSUME Sess!Inv, SessionTyped PROVE Auth!TypeOK
    OBVIOUS
<1>1. Len(failures) < MaxFailures + Auth!Cardinality(Browsers)
    <2>1. PICK n \in Nat, S \in SUBSET Browsers : n = Len(failures) /\ S = Hashing
        <3>1. Len(failures) \in Nat /\ Hashing \in SUBSET Browsers
            BY DEF SessionTyped, Hashing
        <3> QED BY <3>1
    <2>2. n + Cardinality(S) < MaxFailures + Cardinality(Browsers)
        BY <2>1 DEF SessionTyped, Within
    <2> QED BY <2>1, <2>2, BrowsersCounted, SessionAssumption
<1>2. user # Null => user.password \in Passwords /\ user.hash \in 1..(MaxChanges + 1)
    BY DEF Sess!Inv, Sess!Typed, Sess!Row, SessionTyped
<1> QED BY <1>1, <1>2 DEF SessionTyped, Auth!TypeOK

-----------------------------------------------------------------------------
TypesInv ==
    /\ TypeOK
    /\ UploadsInv /\ NamedInv
    /\ BinInv /\ TrashInv
    /\ ReviewInv
    /\ LibInv
    /\ PageTyped
    /\ SettingsInv
    /\ Sess!Inv /\ SessionTyped

\* The state of every part keeps its type: among others, an upload is followed only when its
\* file was accepted, a document is in the trash once and never in the library as well, the
\* URL keeps to filters and pages there are, and the throttle remembers at most MaxFailures
\* failures and one for every browser but one.
THEOREM DocumentsTypeCorrect == SumSpec => []PartsTypeOK
<1>1. SumInit => TypesInv
    <2> SUFFICES ASSUME SumInit PROVE TypesInv
        OBVIOUS
    <2>1. /\ TypeOK /\ UploadsInv /\ NamedInv /\ BinInv /\ TrashInv /\ ReviewInv /\ LibInv
          /\ PageTyped /\ SettingsInv /\ SessionTyped
        BY InitTyped, UploadsInit, NamedInit, BinInit, TrashInit, ReviewInit, LibInit,
           PageTypedInit, SettingsInit, SessionTypedInit DEF SumInit
    <2>2. Sess!Inv
        BY SessionConstants, SessionInit, Sess!InitInv
    <2> QED BY <2>1, <2>2 DEF TypesInv
<1>2. TypesInv /\ [SumNext]_sumVars => TypesInv'
    <2> SUFFICES ASSUME TypesInv, [SumNext]_sumVars PROVE TypesInv'
        OBVIOUS
    <2>1. /\ TypeOK' /\ UploadsInv' /\ NamedInv' /\ BinInv' /\ TrashInv' /\ ReviewInv' /\ LibInv'
          /\ PageTyped' /\ SettingsInv' /\ SessionTyped'
        BY PartsMove, NextTyped, UploadsNext, NamedNext, BinNext, TrashNext, ReviewNext, LibNext,
           PageTypedNext, SettingsNext, SessionTypedNext DEF TypesInv
    <2>2. Sess!Inv'
        BY SessionConstants, SessionMoves, Sess!NextInv DEF Sess!vars, sessions, TypesInv
    <2> QED BY <2>1, <2>2 DEF TypesInv
<1>3. TypesInv => PartsTypeOK
    BY UploadsTypeOK, TrashTypeOK, FormTypeOK, SettingsTypeOK, SessionTypeOK
       DEF TypesInv, LibInv, PageTyped, PartsTypeOK
<1> QED BY <1>1, <1>2, <1>3, PTL DEF SumSpec
=============================================================================
