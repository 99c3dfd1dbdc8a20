----------------------------- MODULE Arithmetic ------------------------------
(* Lemmas that the proofs share: quotients and remainders, which the solver  *)
(* does not know for a divisor that is not a number, and how many entries of *)
(* a log are of some kind.                                                   *)
EXTENDS Integers, Sequences, FiniteSets, SequenceTheorems, FiniteSetTheorems,
        TLAPS

\* Quotient and remainder rebuild the number they came from.
LEMMA Division ==
    ASSUME NEW x \in Int, NEW p \in Nat \ {0}
    PROVE  /\ x \div p \in Int
           /\ x = p * (x \div p) + (x % p)
           /\ x % p \in 0 .. p - 1
OBVIOUS

\* The only multiple of p strictly between -p and p is zero.
LEMMA SmallMultiple ==
    ASSUME NEW k \in Int, NEW p \in Nat \ {0}, p * k < p, -p < p * k
    PROVE  k = 0
<1>1. CASE k >= 1
  <2>1. p * k >= p
    BY <1>1
  <2> QED
    BY <2>1
<1>2. CASE k <= -1
  <2>1. p * k <= -p
    BY <1>2
  <2> QED
    BY <2>1
<1> QED
  BY <1>1, <1>2

\* Counting up by one completes a period or raises the remainder by one.
LEMMA ModStep ==
    ASSUME NEW x \in Int, NEW p \in Nat \ {0}, (x + 1) % p # 0
    PROVE  (x + 1) % p = (x % p) + 1
<1> DEFINE q == x \div p
           r == x % p
           qq == (x + 1) \div p
           rr == (x + 1) % p
<1>1. q \in Int /\ x = p * q + r /\ r \in 0 .. p - 1
  BY Division
<1>2. qq \in Int /\ x + 1 = p * qq + rr /\ rr \in 0 .. p - 1
  <2>1. x + 1 \in Int
    OBVIOUS
  <2> QED
    BY <2>1, Division
<1>3. rr # 0
  OBVIOUS
<1> HIDE DEF q, r, qq, rr
<1>4. p * (qq - q) = p * qq - p * q
  BY <1>1, <1>2
<1>5. p * (qq - q) = r + 1 - rr
  BY <1>1, <1>2, <1>4
<1>6. qq - q = 0
  BY <1>1, <1>2, <1>3, <1>5, SmallMultiple
<1>7. rr = r + 1
  BY <1>1, <1>2, <1>5, <1>6
<1> QED
  BY <1>7 DEF r, rr

\* A number is split into quotient and remainder in one way only.
LEMMA DivisionUnique ==
    ASSUME NEW p \in Nat \ {0}, NEW q \in Int, NEW r \in 0 .. p - 1
    PROVE  (p * q + r) \div p = q /\ (p * q + r) % p = r
<1> DEFINE x == p * q + r
           qq == x \div p
           rr == x % p
<1>1. x \in Int
  OBVIOUS
<1>2. qq \in Int /\ x = p * qq + rr /\ rr \in 0 .. p - 1
  BY <1>1, Division
<1>3. p * qq \in Int /\ p * q \in Int
  BY <1>2
<1>4. p * (qq - q) = p * qq - p * q
  BY <1>2
<1> HIDE DEF qq, rr
<1>5. p * (qq - q) = r - rr
  BY <1>1, <1>2, <1>3, <1>4
<1>6. qq - q = 0
  BY <1>2, <1>5, SmallMultiple
<1>7. qq = q /\ rr = r
  BY <1>2, <1>5, <1>6
<1> QED
  BY <1>7 DEF qq, rr

-----------------------------------------------------------------------------
(* Counting in a log.                                                       *)

\* Where the entries among e are.
Positions(s, e) == {k \in 1 .. Len(s) : s[k] \in e}

\* They can be counted.
LEMMA PositionsFinite ==
    ASSUME NEW S, NEW s \in Seq(S), NEW e
    PROVE  IsFiniteSet(Positions(s, e)) /\ Cardinality(Positions(s, e)) \in Nat
<1>1. IsFiniteSet(1 .. Len(s))
  BY LenProperties, FS_Interval
<1>2. Positions(s, e) \subseteq 1 .. Len(s)
  BY DEF Positions
<1>3. IsFiniteSet(Positions(s, e))
  BY <1>1, <1>2, FS_Subset
<1> QED BY <1>3, FS_CardinalityType

\* Fewer kinds, fewer entries.
LEMMA FewerPositions ==
    ASSUME NEW S, NEW s \in Seq(S), NEW e, NEW f, e \subseteq f
    PROVE  Cardinality(Positions(s, e)) <= Cardinality(Positions(s, f))
<1>1. Positions(s, e) \subseteq Positions(s, f)
  BY DEF Positions
<1> QED BY <1>1, PositionsFinite, FS_Subset

\* What Append does to the places of a sequence.
LEMMA Appending ==
    ASSUME NEW S, NEW s \in Seq(S), NEW x \in S
    PROVE  /\ Append(s, x) \in Seq(S) /\ Len(Append(s, x)) = Len(s) + 1
           /\ \A k \in 1 .. Len(s) : Append(s, x)[k] = s[k]
           /\ Append(s, x)[Len(s) + 1] = x
BY AppendProperties

\* One entry more is one more of its kind.
LEMMA OneMore ==
    ASSUME NEW S, NEW s \in Seq(S), NEW x \in S, NEW e
    PROVE  /\ x \in e => Cardinality(Positions(Append(s, x), e)) =
                             Cardinality(Positions(s, e)) + 1
           /\ x \notin e => Cardinality(Positions(Append(s, x), e)) =
                                Cardinality(Positions(s, e))
<1> DEFINE t == Append(s, x)
<1>1. /\ t \in Seq(S) /\ Len(t) = Len(s) + 1 /\ Len(s) \in Nat
      /\ \A k \in 1 .. Len(s) : t[k] = s[k]
      /\ t[Len(s) + 1] = x
  BY Appending, LenProperties
<1> HIDE DEF t
<1>2. ASSUME x \in e
      PROVE  Positions(t, e) = Positions(s, e) \cup {Len(s) + 1}
  BY <1>1, <1>2 DEF Positions
<1>3. ASSUME x \notin e
      PROVE  Positions(t, e) = Positions(s, e)
  BY <1>1, <1>3 DEF Positions
<1>4. Len(s) + 1 \notin Positions(s, e)
  BY <1>1 DEF Positions
<1>5. IsFiniteSet(Positions(s, e))
  BY PositionsFinite
<1>6. ASSUME x \in e
      PROVE  Cardinality(Positions(t, e)) = Cardinality(Positions(s, e)) + 1
  BY <1>2, <1>4, <1>5, <1>6, FS_AddElement
<1> QED BY <1>3, <1>6 DEF t

=============================================================================
