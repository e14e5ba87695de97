-------------------------- MODULE BlockParserProofs --------------------------
(***************************************************************************)
(* The parser for every set of blocks, whatever is damaged in them or      *)
(* follows them: what arrives whole is parsed into what was sent, and what *)
(* is parsed is whole.  The argument follows the cursor: in a message of   *)
(* which a piece, all or more arrived, what lies ahead of it is what the   *)
(* parser takes it to be (Tracks); and in whatever arrived, what lies      *)
(* behind it is the transactions read, end to end (Tiles).                 *)
(***************************************************************************)
EXTENDS BlockParser, SequenceTheorems, WellFoundedInduction, TLAPS

(* Induction over the naturals, for the functions that a sequence is walked with. *)
LEMMA LeastNumber ==
  ASSUME NEW T \in SUBSET Nat, T # {}
  PROVE  \E x \in T : \A y \in T : x <= y
  <1>1. \E x \in T : \A y \in T : ~ (<<y, x>> \in OpToRel(<, Nat))
    BY NatLessThanWellFounded, WFMin
  <1>2. PICK x \in T : \A y \in T : ~ (<<y, x>> \in OpToRel(<, Nat))
    BY <1>1
  <1>3. ASSUME NEW y \in T PROVE x <= y
    <2>1. x \in Nat /\ y \in Nat
      OBVIOUS
    <2>2. ~ (y < x)
      BY <1>2, <2>1 DEF OpToRel
    <2>3. QED
      BY <2>1, <2>2
  <1>4. QED
    BY <1>2, <1>3

LEMMA Counting ==
  ASSUME NEW T \in SUBSET Nat, 0 \in T, \A n \in T : n + 1 \in T
  PROVE  T = Nat
  <1> SUFFICES ASSUME T # Nat PROVE FALSE
    OBVIOUS
  <1>1. PICK x \in Nat \ T : \A y \in Nat \ T : x <= y
    BY LeastNumber
  <1>2. x - 1 \in Nat /\ x - 1 \in T /\ (x - 1) + 1 = x
    BY <1>1
  <1>3. QED
    BY <1>1, <1>2

-----------------------------------------------------------------------------
(* Sequences of sequences of bytes, one after the other. *)

Steps(s, f) == f = [i \in 1..Len(s) |-> IF i = 1 THEN s[i] ELSE f[i-1] \o s[i]]
Flattened(s) == CHOOSE f : Steps(s, f)
Runs(s, n, f) == \A i \in 1..n : f[i] = IF i = 1 THEN s[1] ELSE f[i-1] \o s[i]

LEMMA FlattenDef ==
  ASSUME NEW S, NEW s \in Seq(S), s # << >>
  PROVE  FlattenSeq(s) = Flattened(s)[Len(s)]
  <1>1. Len(s) # 0
    BY EmptySeq
  <1>2. QED
    BY <1>1 DEF FlattenSeq, Flattened, Steps

(* There is one such function, of sequences. *)
LEMMA FlattenExists ==
  ASSUME NEW S, NEW s \in Seq(Seq(S))
  PROVE  \E f \in [1..Len(s) -> Seq(S)] : Steps(s, f)
  <1> DEFINE Upto(n, f) == \A i \in 1..n : f[i] = IF i = 1 THEN s[1] ELSE f[i-1] \o s[i]
             Good(n) == n <= Len(s) => \E f \in [1..n -> Seq(S)] : Upto(n, f)
  <1>1. Good(0)
    <2>1. [i \in 1..0 |-> << >>] \in [1..0 -> Seq(S)]
      OBVIOUS
    <2>2. Upto(0, [i \in 1..0 |-> << >>])
      OBVIOUS
    <2>3. QED
      BY <2>1, <2>2
  <1>2. ASSUME NEW n \in Nat, Good(n) PROVE Good(n + 1)
    <2> SUFFICES ASSUME n + 1 <= Len(s)
                 PROVE  \E f \in [1..n+1 -> Seq(S)] : Upto(n + 1, f)
      OBVIOUS
    <2>1. n \in Nat /\ n <= Len(s)
      OBVIOUS
    <2>2. PICK f \in [1..n -> Seq(S)] : Upto(n, f)
      BY <1>2, <2>1
    <2> DEFINE last == IF n = 0 THEN s[1] ELSE f[n] \o s[n+1]
               g == [i \in 1..n+1 |-> IF i = n + 1 THEN last ELSE f[i]]
    <2>3. s[n+1] \in Seq(S)
      BY <2>1
    <2>4. last \in Seq(S)
      BY <2>1, <2>2, <2>3
    <2> HIDE DEF last
    <2>5. g \in [1..n+1 -> Seq(S)]
      BY <2>1, <2>2, <2>4
    <2>6. \A i \in 1..n : g[i] = f[i]
      BY <2>1
    <2>7. g[n+1] = last
      BY <2>1
    <2> HIDE DEF g
    <2>8. ASSUME NEW i \in 1..n+1 PROVE g[i] = IF i = 1 THEN s[1] ELSE g[i-1] \o s[i]
      <3>1. CASE i = n + 1 /\ n = 0
        BY <2>7, <3>1 DEF last
      <3>2. CASE i = n + 1 /\ n # 0
        <4>1. n \in 1..n /\ i - 1 = n /\ i # 1
          BY <2>1, <3>2
        <4>2. QED
          BY <2>6, <2>7, <3>2, <4>1 DEF last
      <3>3. CASE i # n + 1
        <4>1. i \in 1..n /\ (i # 1 => i - 1 \in 1..n)
          BY <2>1, <3>3
        <4>2. QED
          BY <2>2, <2>6, <4>1
      <3>4. QED
        BY <3>1, <3>2, <3>3
    <2>9. QED
      BY <2>5, <2>8
  <1> HIDE DEF Good
  <1>3. \A n \in Nat : Good(n)
    <2> DEFINE T == {n \in Nat : Good(n)}
    <2>1. T \in SUBSET Nat /\ 0 \in T /\ \A n \in T : n + 1 \in T
      BY <1>1, <1>2
    <2> HIDE DEF T
    <2>2. T = Nat
      BY <2>1, Counting
    <2>3. QED
      BY <2>2 DEF T
  <1>4. Len(s) \in Nat
    OBVIOUS
  <1>5. PICK f \in [1..Len(s) -> Seq(S)] : Upto(Len(s), f)
    <2>1. Good(Len(s))
      BY <1>3, <1>4
    <2>2. Len(s) <= Len(s)
      BY <1>4
    <2> HIDE DEF Upto
    <2>3. QED
      BY <2>1, <2>2 DEF Good
  <1>6. f = [i \in 1..Len(s) |-> f[i]]
    BY <1>5
  <1>7. \A i \in 1..Len(s) : f[i] = IF i = 1 THEN s[i] ELSE f[i-1] \o s[i]
    BY <1>5
  <1>8. [i \in 1..Len(s) |-> f[i]] = [i \in 1..Len(s) |-> IF i = 1 THEN s[i] ELSE f[i-1] \o s[i]]
    BY <1>7
  <1>9. QED
    BY <1>6, <1>8 DEF Steps

LEMMA FlattenUnique ==
  ASSUME NEW S, NEW s \in Seq(Seq(S)), NEW n \in Nat, n <= Len(s), NEW f, NEW g,
         Runs(s, n, f), Runs(s, n, g)
  PROVE  \A i \in 1..n : f[i] = g[i]
  <1> DEFINE T == {k \in Nat : k \in 1..n => f[k] = g[k]}
  <1>1. 0 \in T
    OBVIOUS
  <1>2. ASSUME NEW k \in T PROVE k + 1 \in T
    <2>1. k \in Nat
      OBVIOUS
    <2>2. CASE k = 0
      <3>1. 1 \in 1..n => f[1] = g[1]
        BY DEF Runs
      <3>2. QED
        BY <2>2, <3>1
    <2>3. CASE k # 0
      <3> SUFFICES ASSUME k + 1 \in 1..n PROVE f[k+1] = g[k+1]
        BY <2>1
      <3>1. k \in 1..n /\ (k + 1) - 1 = k /\ k + 1 # 1
        BY <2>1, <2>3
      <3>2. f[k] = g[k]
        BY <3>1
      <3> HIDE DEF T
      <3>3. f[k+1] = f[k] \o s[k+1]
        BY <3>1 DEF Runs
      <3>4. g[k+1] = g[k] \o s[k+1]
        BY <3>1 DEF Runs
      <3>5. QED
        BY <3>2, <3>3, <3>4
    <2>4. QED
      BY <2>2, <2>3
  <1>3. T \in SUBSET Nat
    OBVIOUS
  <1> HIDE DEF T
  <1>4. T = Nat
    BY <1>1, <1>2, <1>3, Counting
  <1>5. \A k \in Nat : k \in 1..n => f[k] = g[k]
    BY <1>4 DEF T
  <1>6. QED
    BY <1>5

LEMMA FlattenSteps ==
  ASSUME NEW S, NEW s \in Seq(Seq(S))
  PROVE  /\ Flattened(s) \in [1..Len(s) -> Seq(S)]
         /\ Runs(s, Len(s), Flattened(s))
  <1>1. PICK f \in [1..Len(s) -> Seq(S)] : Steps(s, f)
    BY FlattenExists
  <1>2. Steps(s, Flattened(s))
    BY <1>1 DEF Flattened
  <1> DEFINE g == Flattened(s)
  <1> HIDE DEF g
  <1>3. g = [i \in 1..Len(s) |-> IF i = 1 THEN s[i] ELSE g[i-1] \o s[i]]
    BY <1>2 DEF Steps, g
  <1>4. f = [i \in 1..Len(s) |-> IF i = 1 THEN s[i] ELSE f[i-1] \o s[i]]
    BY <1>1 DEF Steps
  <1>5. Runs(s, Len(s), g)
    BY <1>3 DEF Runs
  <1>6. Runs(s, Len(s), f)
    BY <1>4 DEF Runs
  <1>7. \A i \in 1..Len(s) : g[i] = f[i]
    <2> DEFINE n == Len(s)
    <2>1. n \in Nat /\ n <= Len(s)
      OBVIOUS
    <2>2. Runs(s, n, g) /\ Runs(s, n, f)
      BY <1>5, <1>6
    <2> HIDE DEF n
    <2>3. \A i \in 1..n : g[i] = f[i]
      BY <2>1, <2>2, FlattenUnique
    <2>4. QED
      BY <2>3 DEF n
  <1>8. g \in [1..Len(s) -> Seq(S)]
    <2>1. DOMAIN g = 1..Len(s) /\ g = [i \in 1..Len(s) |-> g[i]]
      BY <1>3
    <2>2. QED
      BY <1>7, <2>1
  <1>9. QED
    BY <1>5, <1>8 DEF g

LEMMA FlattenType ==
  ASSUME NEW S, NEW s \in Seq(Seq(S))
  PROVE  FlattenSeq(s) \in Seq(S)
  <1>1. CASE s = << >>
    BY <1>1 DEF FlattenSeq
  <1>2. CASE s # << >>
    <2>1. Len(s) \in 1..Len(s)
      BY <1>2, EmptySeq
    <2>2. QED
      BY <1>2, <2>1, FlattenDef, FlattenSteps
  <1>3. QED
    BY <1>1, <1>2

LEMMA FlattenAppend ==
  ASSUME NEW S, NEW s \in Seq(Seq(S)), NEW e \in Seq(S)
  PROVE  FlattenSeq(Append(s, e)) = FlattenSeq(s) \o e
  <1> DEFINE t == Append(s, e)
             h == Flattened(t)
             n == Len(s)
  <1>1. /\ n \in Nat /\ t \in Seq(Seq(S)) /\ t # << >> /\ Len(t) = n + 1 /\ t[n+1] = e
        /\ \A i \in 1..n : t[i] = s[i]
    <2>1. n \in Nat /\ t \in Seq(Seq(S)) /\ Len(t) = n + 1
      OBVIOUS
    <2>2. t[n+1] = e /\ \A i \in 1..n : t[i] = s[i]
      OBVIOUS
    <2>3. t # << >>
      BY <2>1, EmptySeq
    <2>4. QED
      BY <2>1, <2>2, <2>3
  <1> HIDE DEF t
  <1>2. FlattenSeq(t) = h[n+1]
    BY <1>1, FlattenDef
  <1>3. Runs(t, n + 1, h)
    BY <1>1, FlattenSteps
  <1> HIDE DEF h
  <1>4. CASE s = << >>
    <2>1. n = 0 /\ FlattenSeq(s) = << >>
      BY <1>4 DEF FlattenSeq
    <2>2. h[1] = e
      BY <1>1, <1>3, <2>1 DEF Runs
    <2>3. << >> \o e = e
      BY ConcatEmptySeq
    <2>4. QED
      BY <1>2, <2>1, <2>2, <2>3 DEF t
  <1>5. CASE s # << >>
    <2>1. n \in 1..n /\ n + 1 # 1 /\ (n + 1) - 1 = n /\ n + 1 \in 1..n+1
      BY <1>5, EmptySeq
    <2>2. Runs(s, n, h)
      <3>1. \A i \in 1..n : i \in 1..n+1 /\ 1 \in 1..n
        BY <1>1
      <3> HIDE DEF n
      <3>2. QED
        BY <1>1, <1>3, <3>1 DEF Runs
    <2>3. Runs(s, n, Flattened(s))
      BY FlattenSteps
    <2>4. n <= Len(s)
      BY <1>1
    <2>5. \A i \in 1..n : Flattened(s)[i] = h[i]
      <3> HIDE DEF n
      <3>1. QED
        BY <1>1, <2>2, <2>3, <2>4, FlattenUnique
    <2>6. FlattenSeq(s) = Flattened(s)[n]
      BY <1>5, FlattenDef
    <2> HIDE DEF n
    <2>7. h[n+1] = h[n] \o e
      BY <1>1, <1>3, <2>1 DEF Runs
    <2>8. QED
      BY <1>2, <2>1, <2>5, <2>6, <2>7 DEF t
  <1>6. QED
    BY <1>4, <1>5

IsFront(S, s, n, front) ==
  /\ front \in Seq(S) /\ Len(front) = n
  /\ s = Append(front, s[n+1]) /\ s[n+1] \in S
  /\ \A i \in 1..n : front[i] = s[i]

LEMMA SplitLast ==
  ASSUME NEW S, NEW s \in Seq(S), NEW n \in Nat, Len(s) = n + 1
  PROVE  \E front : IsFront(S, s, n, front)
  <1> DEFINE front == [i \in 1..n |-> s[i]]
  <1>1. n + 1 \in 1..Len(s) /\ \A i \in 1..n : i \in 1..Len(s)
    OBVIOUS
  <1>2. front \in Seq(S) /\ Len(front) = n /\ \A i \in 1..n : front[i] = s[i]
    BY <1>1
  <1> HIDE DEF front
  <1>3. s[n+1] \in S
    BY <1>1
  <1> DEFINE t == Append(front, s[n+1])
  <1>4. t \in Seq(S) /\ Len(t) = n + 1 /\ t[n+1] = s[n+1] /\ \A i \in 1..n : t[i] = front[i]
    <2>1. t \in Seq(S) /\ Len(t) = n + 1
      BY <1>2, <1>3
    <2>2. t[n+1] = s[n+1] /\ \A i \in 1..n : t[i] = front[i]
      BY <1>2, <1>3
    <2>3. QED
      BY <2>1, <2>2
  <1> HIDE DEF t
  <1>5. \A i \in 1..Len(s) : t[i] = s[i]
    <2>1. \A i \in 1..Len(s) : i \in 1..n \/ i = n + 1
      OBVIOUS
    <2>2. QED
      BY <1>2, <1>4, <2>1
  <1>6. Len(s) = Len(t)
    BY <1>4
  <1>7. s = t
    BY <1>4, <1>5, <1>6, SeqEqual
  <1>8. QED
    BY <1>2, <1>3, <1>7 DEF t, IsFront

LEMMA FlattenCons ==
  ASSUME NEW S, NEW s \in Seq(Seq(S)), NEW e \in Seq(S)
  PROVE  FlattenSeq(<<e>> \o s) = e \o FlattenSeq(s)
  <1> DEFINE Good(n) == \A q \in Seq(Seq(S)) :
                          Len(q) = n => FlattenSeq(<<e>> \o q) = e \o FlattenSeq(q)
  <1>1. <<e>> \in Seq(Seq(S))
    OBVIOUS
  <1>2. Good(0)
    <2> SUFFICES ASSUME NEW q \in Seq(Seq(S)), Len(q) = 0
                 PROVE  FlattenSeq(<<e>> \o q) = e \o FlattenSeq(q)
      OBVIOUS
    <2>1. q = << >> /\ FlattenSeq(q) = << >>
      BY EmptySeq DEF FlattenSeq
    <2>2. <<e>> \o q = Append(<< >>, e) /\ << >> \in Seq(Seq(S))
      BY <2>1
    <2>3. FlattenSeq(<<e>> \o q) = << >> \o e
      BY <2>1, <2>2, FlattenAppend
    <2>4. << >> \o e = e /\ e \o << >> = e
      BY ConcatEmptySeq
    <2>5. QED
      BY <2>1, <2>3, <2>4
  <1>3. ASSUME NEW n \in Nat, Good(n) PROVE Good(n + 1)
    <2> SUFFICES ASSUME NEW q \in Seq(Seq(S)), Len(q) = n + 1
                 PROVE  FlattenSeq(<<e>> \o q) = e \o FlattenSeq(q)
      OBVIOUS
    <2> HIDE DEF Good
    <2>1. PICK front : IsFront(Seq(S), q, n, front)
      BY SplitLast
    <2>2. /\ front \in Seq(Seq(S)) /\ Len(front) = n /\ q = Append(front, q[n+1])
          /\ q[n+1] \in Seq(S)
      BY <2>1 DEF IsFront
    <2> DEFINE last == q[n+1]
    <2> HIDE DEF last
    <2>3. q = Append(front, last) /\ last \in Seq(S)
      BY <2>2 DEF last
    <2>4. <<e>> \o q = Append(<<e>> \o front, last)
      <3>1. Append(front, last) = front \o <<last>> /\ <<last>> \in Seq(Seq(S))
        BY <2>3
      <3>2. Append(<<e>> \o front, last) = (<<e>> \o front) \o <<last>>
        BY <1>1, <2>3
      <3>3. (<<e>> \o front) \o <<last>> = <<e>> \o (front \o <<last>>)
        BY <1>1, <3>1, ConcatAssociative
      <3>4. QED
        BY <2>3, <3>1, <3>2, <3>3
    <2>5. FlattenSeq(<<e>> \o q) = FlattenSeq(<<e>> \o front) \o last
      <3>1. <<e>> \o front \in Seq(Seq(S))
        BY <1>1, <2>2
      <3>2. QED
        BY <2>3, <2>4, <3>1, FlattenAppend
    <2>6. FlattenSeq(<<e>> \o front) = e \o FlattenSeq(front)
      BY <1>3, <2>2 DEF Good
    <2>7. FlattenSeq(q) = FlattenSeq(front) \o last
      BY <2>3, FlattenAppend
    <2>8. (e \o FlattenSeq(front)) \o last = e \o (FlattenSeq(front) \o last)
      <3>1. FlattenSeq(front) \in Seq(S)
        BY <2>2, FlattenType
      <3>2. QED
        BY <2>3, <3>1, ConcatAssociative
    <2>9. QED
      BY <2>5, <2>6, <2>7, <2>8
  <1> HIDE DEF Good
  <1>4. \A n \in Nat : Good(n)
    <2> DEFINE T == {n \in Nat : Good(n)}
    <2>1. T \in SUBSET Nat /\ 0 \in T /\ \A n \in T : n + 1 \in T
      BY <1>2, <1>3
    <2> HIDE DEF T
    <2>2. T = Nat
      BY <2>1, Counting
    <2>3. QED
      BY <2>2 DEF T
  <1>5. Len(s) \in Nat
    OBVIOUS
  <1>6. QED
    BY <1>4, <1>5 DEF Good

(* Every part is at least as long as m. *)
LEMMA FlattenLength ==
  ASSUME NEW S, NEW s \in Seq(Seq(S)), NEW m \in {1, 9, 41, 60},
         \A i \in 1..Len(s) : Len(s[i]) >= m
  PROVE  Len(FlattenSeq(s)) >= Len(s) * m
  <1> DEFINE Good(n) == \A q \in Seq(Seq(S)) :
                          Len(q) = n /\ (\A i \in 1..n : Len(q[i]) >= m)
                            => Len(FlattenSeq(q)) >= n * m
  <1>1. Good(0)
    <2> SUFFICES ASSUME NEW q \in Seq(Seq(S)), Len(q) = 0
                 PROVE  Len(FlattenSeq(q)) >= 0 * m
      OBVIOUS
    <2>1. FlattenSeq(q) \in Seq(S)
      BY FlattenType
    <2>2. Len(FlattenSeq(q)) \in Nat /\ 0 * m = 0
      BY <2>1
    <2>3. QED
      BY <2>2
  <1>2. ASSUME NEW n \in Nat, Good(n) PROVE Good(n + 1)
    <2> SUFFICES ASSUME NEW q \in Seq(Seq(S)), Len(q) = n + 1,
                        \A i \in 1..n+1 : Len(q[i]) >= m
                 PROVE  Len(FlattenSeq(q)) >= (n + 1) * m
      OBVIOUS
    <2> HIDE DEF Good
    <2>1. PICK front : IsFront(Seq(S), q, n, front)
      BY SplitLast
    <2>2. /\ front \in Seq(Seq(S)) /\ Len(front) = n /\ q = Append(front, q[n+1])
          /\ q[n+1] \in Seq(S)
          /\ \A i \in 1..n : front[i] = q[i]
      BY <2>1 DEF IsFront
    <2>3. \A i \in 1..n : Len(front[i]) >= m
      BY <2>2
    <2>4. Len(FlattenSeq(front)) >= n * m
      BY <1>2, <2>2, <2>3 DEF Good
    <2>5. FlattenSeq(q) = FlattenSeq(front) \o q[n+1]
      <3> DEFINE last == q[n+1]
      <3> HIDE DEF last
      <3>1. q = Append(front, last) /\ last \in Seq(S)
        BY <2>2 DEF last
      <3>2. FlattenSeq(q) = FlattenSeq(front) \o last
        BY <2>2, <3>1, FlattenAppend
      <3>3. QED
        BY <3>2 DEF last
    <2>6. FlattenSeq(front) \in Seq(S)
      BY <2>2, FlattenType
    <2>7. Len(FlattenSeq(q)) = Len(FlattenSeq(front)) + Len(q[n+1])
      BY <2>2, <2>5, <2>6, ConcatProperties
    <2>8. Len(q[n+1]) >= m
      <3>1. n + 1 \in 1..n+1
        OBVIOUS
      <3>2. QED
        BY <3>1
    <2>9. /\ Len(FlattenSeq(front)) \in Nat /\ Len(q[n+1]) \in Nat
      BY <2>2, <2>6
    <2> DEFINE a == Len(FlattenSeq(front))
               b == Len(q[n+1])
    <2> HIDE DEF a, b
    <2>10. a \in Nat /\ b \in Nat /\ a >= n * m /\ b >= m => a + b >= (n + 1) * m
      <3>1. (n + 1) * m = n * m + m /\ n * m \in Nat
        OBVIOUS
      <3>2. QED
        BY <3>1
    <2>11. QED
      BY <2>4, <2>7, <2>8, <2>9, <2>10 DEF a, b
  <1> HIDE DEF Good
  <1>3. \A n \in Nat : Good(n)
    <2> DEFINE T == {n \in Nat : Good(n)}
    <2>1. T \in SUBSET Nat /\ 0 \in T /\ \A n \in T : n + 1 \in T
      BY <1>1, <1>2
    <2> HIDE DEF T
    <2>2. T = Nat
      BY <2>1, Counting
    <2>3. QED
      BY <2>2 DEF T
  <1>4. Len(s) \in Nat
    OBVIOUS
  <1>5. QED
    BY <1>3, <1>4 DEF Good

From(s, k) == FlattenSeq(SubSeq(s, k, Len(s)))

LEMMA FromStep ==
  ASSUME NEW S, NEW s \in Seq(Seq(S)), NEW k \in Nat \ {0}
  PROVE  /\ k <= Len(s) + 1 => From(s, k) \in Seq(S)
         /\ k <= Len(s) => From(s, k) = s[k] \o From(s, k + 1) /\ s[k] \in Seq(S)
         /\ k = Len(s) + 1 => From(s, k) = << >>
         /\ k = 1 => From(s, k) = FlattenSeq(s)
  <1> DEFINE n == Len(s)
             rest(i) == SubSeq(s, i, n)
  <1>1. n \in Nat
    OBVIOUS
  <1> HIDE DEF n
  <1>2. ASSUME NEW i \in Nat \ {0}, i <= n + 1
        PROVE  /\ rest(i) \in Seq(Seq(S)) /\ Len(rest(i)) = n - i + 1
               /\ \A j \in 1..n - i + 1 : rest(i)[j] = s[i + j - 1]
    <2>1. \A j \in i..n : s[j] \in Seq(S)
      BY <1>2 DEF n
    <2>2. i \in Int /\ n \in Int /\ (IF i <= n THEN n - i + 1 ELSE 0) = n - i + 1
      BY <1>1, <1>2
    <2>3. QED
      BY <2>1, <2>2, SubSeqProperties
  <1>3. From(s, k) = FlattenSeq(rest(k)) /\ From(s, k + 1) = FlattenSeq(rest(k + 1))
    BY DEF From, n
  <1> HIDE DEF rest
  <1>4. ASSUME k <= n + 1 PROVE From(s, k) \in Seq(S)
    BY <1>2, <1>3, <1>4, FlattenType
  <1>5. ASSUME k <= n PROVE From(s, k) = s[k] \o From(s, k + 1) /\ s[k] \in Seq(S)
    <2>1. s[k] \in Seq(S)
      BY <1>5 DEF n
    <2>2. /\ rest(k) \in Seq(Seq(S)) /\ Len(rest(k)) = n - k + 1
          /\ \A j \in 1..n - k + 1 : rest(k)[j] = s[k + j - 1]
      <3>1. k <= n + 1
        BY <1>1, <1>5
      <3>2. QED
        BY <1>2, <3>1
    <2>3. /\ rest(k+1) \in Seq(Seq(S)) /\ Len(rest(k+1)) = n - k
          /\ \A j \in 1..n - k : rest(k+1)[j] = s[k + j]
      <3>1. k + 1 \in Nat \ {0} /\ k + 1 <= n + 1 /\ n - (k + 1) + 1 = n - k
            /\ \A j \in 1..n - k : (k + 1) + j - 1 = k + j
        BY <1>1, <1>5
      <3>2. QED
        BY <1>2, <3>1
    <2> DEFINE t == <<s[k]>> \o rest(k+1)
    <2>4. t \in Seq(Seq(S)) /\ Len(t) = n - k + 1 /\ t[1] = s[k]
          /\ \A j \in 2..n - k + 1 : t[j] = rest(k+1)[j - 1]
      <3>1. <<s[k]>> \in Seq(Seq(S)) /\ Len(<<s[k]>>) = 1 /\ <<s[k]>>[1] = s[k]
        BY <2>1
      <3> DEFINE one == <<s[k]>>
      <3> HIDE DEF one
      <3>2. one \in Seq(Seq(S)) /\ Len(one) = 1 /\ one[1] = s[k]
        BY <3>1 DEF one
      <3>3. /\ one \o rest(k+1) \in Seq(Seq(S)) /\ Len(one \o rest(k+1)) = 1 + (n - k)
            /\ \A i \in 1..1 + (n - k) :
                 (one \o rest(k+1))[i] = IF i <= 1 THEN one[i] ELSE rest(k+1)[i - 1]
        <4> DEFINE r == rest(k+1)
        <4>1. r \in Seq(Seq(S)) /\ Len(r) = n - k
          BY <2>3
        <4> HIDE DEF r
        <4>2. /\ one \o r \in Seq(Seq(S)) /\ Len(one \o r) = Len(one) + Len(r)
              /\ \A i \in 1..Len(one) + Len(r) :
                   (one \o r)[i] = IF i <= Len(one) THEN one[i] ELSE r[i - Len(one)]
          BY <3>2, <4>1, ConcatProperties
        <4>3. QED
          BY <3>2, <4>1, <4>2 DEF r
      <3>4. t = one \o rest(k+1)
        BY DEF one
      <3>5. 1 + (n - k) = n - k + 1 /\ 1 \in 1..1 + (n - k)
            /\ \A j \in 2..n - k + 1 : j \in 1..1 + (n - k) /\ ~(j <= 1)
        BY <1>1, <1>5
      <3> HIDE DEF t
      <3>6. QED
        BY <3>2, <3>3, <3>4, <3>5, SMTT(30)
    <2> HIDE DEF t
    <2>5. \A j \in 1..n - k + 1 : rest(k)[j] = t[j]
      <3> SUFFICES ASSUME NEW j \in 1..n - k + 1 PROVE rest(k)[j] = t[j]
        OBVIOUS
      <3>1. CASE j = 1
        <4>1. k + j - 1 = k
          BY <3>1
        <4>2. QED
          BY <2>2, <2>4, <3>1, <4>1
      <3>2. CASE j # 1
        <4>1. j \in 2..n - k + 1 /\ j - 1 \in 1..n - k /\ k + (j - 1) = k + j - 1
          BY <1>1, <3>2
        <4>2. QED
          BY <2>2, <2>3, <2>4, <4>1
      <3>3. QED
        BY <3>1, <3>2
    <2>6. rest(k) = t
      <3>1. Len(rest(k)) = Len(t) /\ \A j \in 1..Len(rest(k)) : rest(k)[j] = t[j]
        BY <2>2, <2>4, <2>5
      <3>2. QED
        BY <2>2, <2>4, <3>1, SeqEqual
    <2>7. FlattenSeq(t) = s[k] \o FlattenSeq(rest(k+1))
      BY <2>1, <2>3, FlattenCons DEF t
    <2>8. QED
      BY <1>3, <2>1, <2>6, <2>7
  <1>6. ASSUME k = n + 1 PROVE From(s, k) = << >>
    <2>1. rest(k) \in Seq(Seq(S)) /\ Len(rest(k)) = 0
      BY <1>1, <1>2, <1>6
    <2>2. rest(k) = << >>
      BY <2>1, EmptySeq
    <2>3. QED
      BY <1>3, <2>2 DEF FlattenSeq
  <1>7. ASSUME k = 1 PROVE From(s, k) = FlattenSeq(s)
    <2>1. /\ rest(1) \in Seq(Seq(S)) /\ Len(rest(1)) = n /\ \A j \in 1..n : rest(1)[j] = s[j]
      <3>1. 1 <= n + 1 /\ n - 1 + 1 = n /\ \A j \in 1..n : 1 + j - 1 = j
        BY <1>1
      <3>2. QED
        BY <1>2, <3>1
    <2>2. Len(rest(1)) = Len(s) /\ \A j \in 1..Len(rest(1)) : rest(1)[j] = s[j]
      BY <2>1 DEF n
    <2>3. rest(1) = s
      BY <2>1, <2>2, SeqEqual
    <2>4. QED
      BY <1>3, <1>7, <2>3
  <1>8. QED
    BY <1>4, <1>5, <1>6, <1>7 DEF n

-----------------------------------------------------------------------------
(* Where the cursor is in a message that arrived whole, cut, or with more behind it: *)
(* Fits says that it did.                                                            *)

Whole == Message(topic, sent)
Fits == \A i \in 1..Len(raw) : i <= Len(Whole) => raw[i] = Whole[i]

(* The bytes of W from position p on. *)
Ahead(W, p, rest) ==
  /\ p \in Nat /\ Len(W) = p + Len(rest)
  /\ \A i \in 1..Len(rest) : W[p + i] = rest[i]

(* The bytes a stand in W at position p. *)
Here(W, p, a) == \A i \in 1..Len(a) : W[p + i] = a[i]

Inputs(t) == [i \in DOMAIN t.inputs |-> Input(t.inputs[i])]
Outputs(t) == [i \in DOMAIN t.outputs |-> Output(t.outputs[i])]
Items(stack) == [i \in DOMAIN stack |-> Item(stack[i])]
Stacks(t) == [i \in DOMAIN t.witness |-> Stack(t.witness[i])]
Wires(b) == [i \in DOMAIN b |-> Wire(b[i])]

(* The bytes of b from its k-th transaction on; and, inside of the k-th, from its *)
(* w-th stack on, from the i-th item of a stack, the o-th output, the i-th input. *)
AtTx(b, k) == From(Wires(b), k)
AtEnd(b, k) == Zeros(4) \o AtTx(b, k + 1)
AtStack(b, k, w) == From(Stacks(b[k]), w) \o AtEnd(b, k)
AtItem(b, k, w, i) == From(Items(b[k].witness[w]), i) \o AtStack(b, k, w + 1)
AtOutput(b, k, o) == From(Outputs(b[k]), o) \o AtStack(b, k, 1)
AtInput(b, k, i) ==
  From(Inputs(b[k]), i) \o (VarInt(Len(b[k].outputs)) \o AtOutput(b, k, 1))
AtBody(b, k) == VarInt(Len(b[k].inputs)) \o AtInput(b, k, 1)

IsCoinbase(t) == Len(t.inputs) = 1 /\ t.inputs[1].outpoint = Null
Outpoints(t) == [j \in DOMAIN t.inputs |-> t.inputs[j].outpoint]
Parsed(t) ==
  [txid |-> Legacy(t), outputs |-> t.outputs,
   inputs |-> IF IsCoinbase(t) THEN << >> ELSE Outpoints(t),
   is_coinbase |-> IsCoinbase(t), has_witness |-> t.witness # << >>]

(* The transaction in hand. *)
Number == Len(txs) + 1
InHand == sent[Number]
Opened == Len(InHand.witness) - tx.stacks

BeganTx ==
  /\ Number <= count
  /\ tx.has_witness = (InHand.witness # << >>)
  /\ tx.n_in = Len(InHand.inputs)
  /\ Ahead(Whole, tx.start, AtTx(sent, Number))
  /\ Ahead(Whole, IF tx.has_witness THEN tx.start + 6 ELSE tx.start + 4, AtBody(sent, Number))
  /\ Len(tx.inputs) <= tx.n_in
  /\ \A j \in 1..Len(tx.inputs) : tx.inputs[j] = InHand.inputs[j].outpoint
  /\ Len(tx.outputs) <= Len(InHand.outputs)
  /\ \A j \in 1..Len(tx.outputs) : tx.outputs[j] = InHand.outputs[j]

Done ==
  /\ count = Len(sent) /\ Len(txs) <= count
  /\ \A i \in 1..Len(txs) : txs[i] = Parsed(sent[i])
InInputs ==
  /\ BeganTx /\ Len(tx.inputs) < tx.n_in /\ tx.outputs = << >>
  /\ tx.stacks = 0 /\ tx.items = 0
  /\ Ahead(Whole, pos, AtInput(sent, Number, Len(tx.inputs) + 1))
InOutputs ==
  /\ BeganTx /\ Len(tx.inputs) = tx.n_in /\ tx.n_out = Len(InHand.outputs)
  /\ tx.stacks = 0 /\ tx.items = 0
  /\ Ahead(Whole, pos, AtOutput(sent, Number, Len(tx.outputs) + 1))
InWitness ==
  /\ BeganTx /\ Len(tx.inputs) = tx.n_in /\ Len(tx.outputs) = Len(InHand.outputs)
  /\ tx.stacks \in 0..Len(InHand.witness)
  /\ Ahead(Whole, tx.witness_start, AtStack(sent, Number, 1))
  /\ tx.items = 0 => Ahead(Whole, pos, AtStack(sent, Number, Opened + 1))
  /\ tx.items # 0 =>
       /\ Opened > 0 /\ tx.items \in 1..Len(InHand.witness[Opened])
       /\ Ahead(Whole, pos,
                AtItem(sent, Number, Opened, Len(InHand.witness[Opened]) - tx.items + 1))

Tracks ==
  /\ pc = "header" => topic = "rawblock" /\ txs = << >>
  /\ pc \in {"tx", "inputs", "outputs", "witness", "parsed"} => Done
  /\ pc = "tx" => Ahead(Whole, pos, AtTx(sent, Number))
  /\ pc = "inputs" => InInputs
  /\ pc = "outputs" => InOutputs
  /\ pc = "witness" => InWitness
  /\ pc = "parsed" => Len(txs) = Len(sent) /\ pos = Len(Whole)
  /\ raw = Whole => pc \notin {"malformed", "struct.error"}

(* Whatever arrived: what was read without a witness lies end to end. *)
Declared == IF topic = "rawtx" THEN [value |-> 1, next |-> 0] ELSE Varint(HEADER_SIZE)
Txids == [i \in DOMAIN txs |-> txs[i].txid]
Tiled(end) ==
  /\ count = Declared.value /\ Declared.next \in Nat /\ Declared.next <= end
  /\ (\A i \in DOMAIN txs : ~txs[i].has_witness) => FlattenSeq(Txids) = Slice(Declared.next, end)
Tiles ==
  /\ pc = "header" => topic = "rawblock" /\ txs = << >>
  /\ pc \in {"tx", "parsed"} => Tiled(pos)
  /\ pc = "tx" => Len(txs) <= count
  /\ pc \in {"inputs", "outputs", "witness"} =>
       Tiled(tx.start) /\ Len(txs) < count
  /\ pc = "parsed" => pos = Len(raw) /\ Len(txs) = count

-----------------------------------------------------------------------------
(* The wire format. *)

LEMMA VarIntBytes ==
  ASSUME NEW n \in Nat, n < TooLong
  PROVE  /\ VarInt(n) \in Seq(Byte) /\ Len(VarInt(n)) \in {1, 3, 5}
         /\ Len(VarInt(n)) = 1 => VarInt(n)[1] = n /\ n < 253
         /\ Len(VarInt(n)) = 3 => VarInt(n)[1] = 253 /\ VarInt(n)[2] + 256 * VarInt(n)[3] = n
         /\ Len(VarInt(n)) = 5 => /\ VarInt(n)[1] = 254 /\ VarInt(n)[5] = 0
                                  /\ VarInt(n)[2] + 256 * VarInt(n)[3] + 65536 * VarInt(n)[4] = n
         /\ n > 0 => VarInt(n)[1] # 0
  <1> DEFINE v == VarInt(n)
  <1>1. n \in Nat /\ n < 16777216
    BY SMT DEF TooLong
  <1>2. CASE n < 253
    <2>1. v = <<n>> /\ n \in Byte
      BY <1>1, <1>2, SMT DEF VarInt, Byte
    <2> HIDE DEF v
    <2>2. v \in Seq(Byte) /\ Len(v) = 1 /\ v[1] = n
      BY <2>1
    <2>3. QED
      BY <1>2, <2>2, SMT DEF v
  <1>3. CASE n >= 253 /\ n < 65536
    <2>1. n % 256 \in 0..255 /\ n \div 256 \in 0..255 /\ (n % 256) + 256 * (n \div 256) = n
      BY <1>1, <1>3, SMT
    <2>2. v = <<253, n % 256, n \div 256>>
      BY <1>1, <1>3, SMT DEF VarInt
    <2> DEFINE a == n % 256
               b == n \div 256
    <2>3. a \in Byte /\ b \in Byte /\ a + 256 * b = n
      BY <2>1, SMT DEF Byte
    <2>4. v = <<253, a, b>> /\ 253 \in Byte
      BY <2>2, SMT DEF Byte
    <2> HIDE DEF a, b, v
    <2>5. v \in Seq(Byte) /\ Len(v) = 3 /\ v[1] = 253 /\ v[2] = a /\ v[3] = b
      BY <2>3, <2>4, SMT
    <2>6. QED
      BY <1>3, <2>3, <2>5, SMT DEF v
  <1>4. CASE n >= 65536
    <2> DEFINE a == n % 256
               m == n \div 256
               b == m % 256
               c == n \div 65536
    <2>1. a \in 0..255 /\ m \in Nat /\ a + 256 * m = n
      BY <1>1, SMT
    <2>2. c \in 0..255 /\ b \in 0..255 /\ b + 256 * c = m
      BY <1>1, SMT
    <2>3. v = <<254, a, b, c, 0>>
      BY <1>1, <1>4, SMT DEF VarInt
    <2> HIDE DEF a, b, c, m, v
    <2>4. a + 256 * b + 65536 * c = n
      BY <2>1, <2>2, SMT
    <2>5. a \in Byte /\ b \in Byte /\ c \in Byte /\ 0 \in Byte /\ 254 \in Byte
      BY <2>1, <2>2, SMT DEF Byte
    <2>6. /\ v \in Seq(Byte) /\ Len(v) = 5
          /\ v[1] = 254 /\ v[2] = a /\ v[3] = b /\ v[4] = c /\ v[5] = 0
      BY <2>3, <2>5, SMT
    <2>7. QED
      BY <2>4, <2>6, SMT DEF v
  <1>5. QED
    BY <1>1, <1>2, <1>3, <1>4, SMT

LEMMA ItemBytes ==
  ASSUME NEW s \in Some(Byte)
  PROVE  /\ Item(s) \in Seq(Byte) /\ Len(Item(s)) = Len(VarInt(Len(s))) + Len(s)
         /\ s \in Seq(Byte) /\ Len(s) \in Nat /\ Len(s) < TooLong /\ Len(Item(s)) >= 1
  <1>1. s \in Seq(Byte) /\ Len(s) \in Nat /\ Len(s) < TooLong
    BY SMT DEF Some, TooLong
  <1>2. VarInt(Len(s)) \in Seq(Byte) /\ Len(VarInt(Len(s))) \in {1, 3, 5}
    BY <1>1, VarIntBytes
  <1>3. /\ VarInt(Len(s)) \o s \in Seq(Byte)
        /\ Len(VarInt(Len(s)) \o s) = Len(VarInt(Len(s))) + Len(s)
    BY <1>1, <1>2, ConcatProperties
  <1>4. QED
    BY <1>1, <1>2, <1>3 DEF Item

-----------------------------------------------------------------------------
(* Reading what is ahead. *)

LEMMA AheadStep ==
  ASSUME NEW W, NEW p, NEW a \in Seq(Byte), NEW b \in Seq(Byte), Ahead(W, p, a \o b)
  PROVE  /\ Ahead(W, p + Len(a), b)
         /\ p + Len(a) <= Len(W)
         /\ Here(W, p, a)
  <1> DEFINE c == a \o b
  <1>1. /\ c \in Seq(Byte) /\ Len(c) = Len(a) + Len(b) /\ Len(a) \in Nat /\ Len(b) \in Nat
        /\ \A i \in 1..Len(a) + Len(b) : c[i] = IF i <= Len(a) THEN a[i] ELSE b[i - Len(a)]
    BY ConcatProperties
  <1> HIDE DEF c
  <1>2. p \in Nat /\ Len(W) = p + Len(c) /\ \A i \in 1..Len(c) : W[p + i] = c[i]
    BY DEF Ahead, c
  <1>3. \A i \in 1..Len(a) : i \in 1..Len(c) /\ c[i] = a[i]
    BY <1>1
  <1>4. \A i \in 1..Len(b) : /\ Len(a) + i \in 1..Len(c) /\ c[Len(a) + i] = b[i]
                             /\ p + (Len(a) + i) = (p + Len(a)) + i
    <2> SUFFICES ASSUME NEW i \in 1..Len(b)
                 PROVE  /\ Len(a) + i \in 1..Len(c) /\ c[Len(a) + i] = b[i]
                        /\ p + (Len(a) + i) = (p + Len(a)) + i
      OBVIOUS
    <2> DEFINE m == Len(a)
               k == Len(b)
               j == m + i
    <2>1. m \in Nat /\ k \in Nat /\ i \in 1..k
      BY <1>1
    <2>2. j \in 1..m + k /\ ~(j <= m) /\ j - m = i
      <3> HIDE DEF m, k
      <3>1. QED
        BY <2>1
    <2>3. c[j] = b[i]
      <3>1. c[j] = IF j <= m THEN a[j] ELSE b[j - m]
        BY <1>1, <2>2
      <3> HIDE DEF j
      <3>2. QED
        BY <2>2, <3>1
    <2>4. Len(c) = m + k
      BY <1>1
    <2>5. p + j = (p + m) + i
      <3> HIDE DEF m, k
      <3>1. QED
        BY <1>2, <2>1
    <2>6. QED
      BY <2>2, <2>3, <2>4, <2>5
  <1>5. Len(W) = (p + Len(a)) + Len(b) /\ p + Len(a) \in Nat /\ p + Len(a) <= Len(W)
    BY <1>1, <1>2
  <1>6. \A i \in 1..Len(b) : W[(p + Len(a)) + i] = b[i]
    BY <1>2, <1>4
  <1>7. Ahead(W, p + Len(a), b)
    BY <1>5, <1>6 DEF Ahead
  <1>8. Here(W, p, a)
    BY <1>2, <1>3 DEF Here
  <1>9. QED
    BY <1>5, <1>7, <1>8

-----------------------------------------------------------------------------
(* The parts of a message. *)

LEMMA BytesJoin ==
  ASSUME NEW a \in Seq(Byte), NEW b \in Seq(Byte)
  PROVE  /\ a \o b \in Seq(Byte) /\ Len(a \o b) = Len(a) + Len(b)
         /\ Len(a) \in Nat /\ Len(b) \in Nat
  BY ConcatProperties

LEMMA BytesEmpty ==
  ASSUME NEW a \in Seq(Byte)
  PROVE  a \o << >> = a /\ << >> \o a = a /\ << >> \in Seq(Byte) /\ Len(a) \in Nat
  BY ConcatEmptySeq

LEMMA BytesAssoc ==
  ASSUME NEW a \in Seq(Byte), NEW b \in Seq(Byte), NEW c \in Seq(Byte)
  PROVE  (a \o b) \o c = a \o (b \o c)
  BY ConcatAssociative

Ins == {in \in [outpoint : Seq(Byte), script : Some(Byte)] : Len(in.outpoint) = 36}

LEMMA TxType ==
  ASSUME NEW t \in Transactions
  PROVE  /\ t.inputs \in Seq(Ins) /\ Len(t.inputs) \in Nat \ {0} /\ Len(t.inputs) < TooLong
         /\ t.outputs \in Seq(Some(Byte)) /\ Len(t.outputs) \in Nat \ {0} /\ Len(t.outputs) < TooLong
         /\ t.witness \in Seq(Some(Some(Byte)))
         /\ t.witness # << >> => Len(t.witness) = Len(t.inputs)
  <1>1. /\ t.inputs \in Seq([outpoint : Seq(Byte), script : Some(Byte)]) /\ Len(t.inputs) < TooLong
        /\ t.outputs \in Seq(Some(Byte)) /\ Len(t.outputs) < TooLong
        /\ t.witness \in Seq(Some(Some(Byte)))
    BY DEF Transactions, Some
  <1>2. /\ t.inputs # << >> /\ t.outputs # << >>
        /\ \A i \in DOMAIN t.inputs : Len(t.inputs[i].outpoint) = 36
        /\ t.witness = << >> \/ Len(t.witness) = Len(t.inputs)
    BY DEF Transactions
  <1>3. t.inputs \in Seq(Ins)
    <2> DEFINE q == t.inputs
               R == [outpoint : Seq(Byte), script : Some(Byte)]
    <2>1. q \in Seq(R) /\ \A i \in DOMAIN q : Len(q[i].outpoint) = 36
      BY <1>1, <1>2
    <2>2. \A i \in 1..Len(q) : q[i] \in {in \in R : Len(in.outpoint) = 36}
      <3> HIDE DEF q, R
      <3>1. QED
        BY <2>1
    <2>3. q \in Seq({in \in R : Len(in.outpoint) = 36})
      <3> HIDE DEF q, R
      <3>1. QED
        BY <2>1, <2>2
    <2>4. QED
      BY <2>3 DEF Ins
  <1>4. Len(t.inputs) \in Nat \ {0} /\ Len(t.outputs) \in Nat \ {0}
    BY <1>1, <1>2, EmptySeq
  <1>5. QED
    BY <1>1, <1>2, <1>3, <1>4

NSequence == <<253, 255, 255, 255>>

LEMMA InputBytes ==
  ASSUME NEW in \in Ins
  PROVE  /\ Input(in) = in.outpoint \o (Item(in.script) \o NSequence)
         /\ Input(in) \in Seq(Byte) /\ Len(Input(in)) >= 41
         /\ in.outpoint \in Seq(Byte) /\ Len(in.outpoint) = 36 /\ in.script \in Some(Byte)
  <1> DEFINE p == in.outpoint
             i == Item(in.script)
             f == NSequence
  <1>1. p \in Seq(Byte) /\ Len(p) = 36 /\ in.script \in Some(Byte)
    BY DEF Ins
  <1>2. i \in Seq(Byte) /\ Len(i) >= 1 /\ Len(i) \in Nat
    BY <1>1, ItemBytes
  <1>3. f \in Seq(Byte) /\ Len(f) = 4
    BY DEF Byte, NSequence
  <1>4. Input(in) = (p \o i) \o f
    BY DEF Input, NSequence
  <1> HIDE DEF p, i, f
  <1>5. (p \o i) \o f = p \o (i \o f)
    <2>1. p \in Seq(Byte) /\ i \in Seq(Byte) /\ f \in Seq(Byte)
      BY <1>1, <1>2, <1>3
    <2>2. QED
      BY <2>1, BytesAssoc
  <1>6. /\ p \o i \in Seq(Byte) /\ Len(p \o i) = Len(p) + Len(i)
    BY <1>1, <1>2, ConcatProperties
  <1>7. (p \o i) \o f \in Seq(Byte) /\ Len((p \o i) \o f) = Len(p \o i) + Len(f)
    BY <1>3, <1>6, ConcatProperties
  <1>8. Len((p \o i) \o f) >= 41
    BY <1>1, <1>2, <1>3, <1>6, <1>7
  <1>9. QED
    BY <1>1, <1>4, <1>5, <1>7, <1>8 DEF p, i, f

Amount == <<160, 134, 1, 0, 0, 0, 0, 0>>

LEMMA OutputBytes ==
  ASSUME NEW s \in Some(Byte)
  PROVE  /\ Output(s) = Amount \o Item(s) /\ Amount \in Seq(Byte) /\ Len(Amount) = 8
         /\ Output(s) \in Seq(Byte) /\ Len(Output(s)) >= 9
  <1>1. Amount \in Seq(Byte) /\ Len(Amount) = 8
    BY DEF Amount, Byte
  <1>2. Item(s) \in Seq(Byte) /\ Len(Item(s)) >= 1 /\ Len(Item(s)) \in Nat
    BY ItemBytes
  <1>3. Output(s) = Amount \o Item(s)
    BY DEF Output, Amount
  <1>4. Amount \o Item(s) \in Seq(Byte) /\ Len(Amount \o Item(s)) = Len(Amount) + Len(Item(s))
    BY <1>1, <1>2, ConcatProperties
  <1>5. QED
    BY <1>1, <1>2, <1>3, <1>4

Parts(q, m) == q \in Seq(Seq(Byte)) /\ \A i \in 1..Len(q) : Len(q[i]) >= m

LEMMA StackBytes ==
  ASSUME NEW stack \in Some(Some(Byte))
  PROVE  /\ Stack(stack) = VarInt(Len(stack)) \o FlattenSeq(Items(stack))
         /\ Parts(Items(stack), 1) /\ Len(Items(stack)) = Len(stack)
         /\ \A i \in 1..Len(stack) : Items(stack)[i] = Item(stack[i]) /\ stack[i] \in Some(Byte)
         /\ Len(stack) \in Nat /\ Len(stack) < TooLong
         /\ VarInt(Len(stack)) \in Seq(Byte) /\ Stack(stack) \in Seq(Byte)
  <1>1. stack \in Seq(Some(Byte)) /\ Len(stack) \in Nat /\ Len(stack) < TooLong
    BY DEF Some
  <1>2. \A i \in 1..Len(stack) : stack[i] \in Some(Byte)
    BY <1>1
  <1>3. \A i \in 1..Len(stack) : Item(stack[i]) \in Seq(Byte) /\ Len(Item(stack[i])) >= 1
    BY <1>2, ItemBytes
  <1>4. DOMAIN stack = 1..Len(stack)
    BY <1>1
  <1>5. Items(stack) = [i \in 1..Len(stack) |-> Item(stack[i])]
    BY <1>4 DEF Items
  <1>6. Items(stack) \in Seq(Seq(Byte)) /\ Len(Items(stack)) = Len(stack)
    BY <1>1, <1>3, <1>5
  <1>7. Parts(Items(stack), 1) /\ \A i \in 1..Len(stack) : Items(stack)[i] = Item(stack[i])
    BY <1>3, <1>5, <1>6 DEF Parts
  <1>8. Stack(stack) = VarInt(Len(stack)) \o FlattenSeq(Items(stack))
    BY DEF Stack, Items
  <1>9. VarInt(Len(stack)) \in Seq(Byte)
    BY <1>1, VarIntBytes
  <1>10. FlattenSeq(Items(stack)) \in Seq(Byte)
    BY <1>6, FlattenType
  <1>11. QED
    BY <1>1, <1>2, <1>6, <1>7, <1>8, <1>9, <1>10

LEMMA TxBytes ==
  ASSUME NEW t \in Transactions
  PROVE  /\ Parts(Inputs(t), 41) /\ Len(Inputs(t)) = Len(t.inputs)
         /\ \A i \in 1..Len(t.inputs) : Inputs(t)[i] = Input(t.inputs[i]) /\ t.inputs[i] \in Ins
         /\ Parts(Outputs(t), 9) /\ Len(Outputs(t)) = Len(t.outputs)
         /\ \A i \in 1..Len(t.outputs) : Outputs(t)[i] = Output(t.outputs[i]) /\ t.outputs[i] \in Some(Byte)
         /\ Stacks(t) \in Seq(Seq(Byte)) /\ Len(Stacks(t)) = Len(t.witness)
         /\ \A i \in 1..Len(t.witness) : Stacks(t)[i] = Stack(t.witness[i]) /\ t.witness[i] \in Some(Some(Byte))
  <1>1. t.inputs \in Seq(Ins) /\ t.outputs \in Seq(Some(Byte)) /\ t.witness \in Seq(Some(Some(Byte)))
    BY TxType
  <1>2. /\ Parts(Inputs(t), 41) /\ Len(Inputs(t)) = Len(t.inputs)
        /\ \A i \in 1..Len(t.inputs) : Inputs(t)[i] = Input(t.inputs[i]) /\ t.inputs[i] \in Ins
    <2> DEFINE q == t.inputs
    <2>1. q \in Seq(Ins) /\ Inputs(t) = [i \in DOMAIN q |-> Input(q[i])]
      BY <1>1 DEF Inputs
    <2> HIDE DEF q
    <2>2. \A i \in 1..Len(q) : q[i] \in Ins
      BY <2>1
    <2>3. \A i \in 1..Len(q) : Input(q[i]) \in Seq(Byte) /\ Len(Input(q[i])) >= 41
      BY <2>2, InputBytes
    <2>4. Inputs(t) \in Seq(Seq(Byte)) /\ Len(Inputs(t)) = Len(q)
      BY <2>1, <2>3
    <2>5. QED
      BY <2>1, <2>2, <2>3, <2>4 DEF Parts, q
  <1>3. /\ Parts(Outputs(t), 9) /\ Len(Outputs(t)) = Len(t.outputs)
        /\ \A i \in 1..Len(t.outputs) : Outputs(t)[i] = Output(t.outputs[i]) /\ t.outputs[i] \in Some(Byte)
    <2> DEFINE q == t.outputs
    <2>1. q \in Seq(Some(Byte)) /\ Outputs(t) = [i \in DOMAIN q |-> Output(q[i])]
      BY <1>1 DEF Outputs
    <2> HIDE DEF q
    <2>2. \A i \in 1..Len(q) : q[i] \in Some(Byte)
      BY <2>1
    <2>3. \A i \in 1..Len(q) : Output(q[i]) \in Seq(Byte) /\ Len(Output(q[i])) >= 9
      BY <2>2, OutputBytes
    <2>4. Outputs(t) \in Seq(Seq(Byte)) /\ Len(Outputs(t)) = Len(q)
      BY <2>1, <2>3
    <2>5. QED
      BY <2>1, <2>2, <2>3, <2>4 DEF Parts, q
  <1>4. /\ Stacks(t) \in Seq(Seq(Byte)) /\ Len(Stacks(t)) = Len(t.witness)
        /\ \A i \in 1..Len(t.witness) :
             Stacks(t)[i] = Stack(t.witness[i]) /\ t.witness[i] \in Some(Some(Byte))
    <2> DEFINE q == t.witness
    <2>1. q \in Seq(Some(Some(Byte))) /\ Stacks(t) = [i \in DOMAIN q |-> Stack(q[i])]
      BY <1>1 DEF Stacks
    <2> HIDE DEF q
    <2>2. \A i \in 1..Len(q) : q[i] \in Some(Some(Byte))
      BY <2>1
    <2>3. \A i \in 1..Len(q) : Stack(q[i]) \in Seq(Byte)
      BY <2>2, StackBytes
    <2>4. Stacks(t) \in Seq(Seq(Byte)) /\ Len(Stacks(t)) = Len(q)
      BY <2>1, <2>3
    <2>5. QED
      BY <2>1, <2>2, <2>3, <2>4 DEF q
  <1>5. QED
    BY <1>2, <1>3, <1>4

(* What a transaction is on the wire, its body and what is around it. *)
Marker(t) == IF t.witness = << >> THEN << >> ELSE <<0, 1>>

LEMMA WireBytes ==
  ASSUME NEW t \in Transactions
  PROVE  /\ Body(t) = VarInt(Len(t.inputs)) \o (FlattenSeq(Inputs(t))
                         \o (VarInt(Len(t.outputs)) \o FlattenSeq(Outputs(t))))
         /\ VarInt(Len(t.inputs)) \in Seq(Byte) /\ VarInt(Len(t.outputs)) \in Seq(Byte)
         /\ FlattenSeq(Inputs(t)) \in Seq(Byte) /\ FlattenSeq(Outputs(t)) \in Seq(Byte)
         /\ Body(t) \in Seq(Byte)
         /\ FlattenSeq(Stacks(t)) \in Seq(Byte)
         /\ t.witness = << >> => FlattenSeq(Stacks(t)) = << >>
         /\ Legacy(t) = <<2, 0, 0, 0>> \o (Body(t) \o Zeros(4)) /\ Legacy(t) \in Seq(Byte)
         /\ Wire(t) = (<<2, 0, 0, 0>> \o Marker(t)) \o (Body(t) \o (FlattenSeq(Stacks(t)) \o Zeros(4)))
         /\ Wire(t) \in Seq(Byte) /\ Len(Wire(t)) >= 60
         /\ <<2, 0, 0, 0>> \in Seq(Byte) /\ Marker(t) \in Seq(Byte)
         /\ Zeros(4) \in Seq(Byte) /\ Len(Zeros(4)) = 4
  <1> DEFINE ni == VarInt(Len(t.inputs))
             no == VarInt(Len(t.outputs))
             fi == FlattenSeq(Inputs(t))
             fo == FlattenSeq(Outputs(t))
             fs == FlattenSeq(Stacks(t))
             z == Zeros(4)
             v == <<2, 0, 0, 0>>
  <1>1. /\ ni \in Seq(Byte) /\ Len(ni) >= 1 /\ no \in Seq(Byte) /\ Len(no) >= 1
    BY TxType, VarIntBytes
  <1>2. /\ fi \in Seq(Byte) /\ Len(fi) >= 41
    <2> DEFINE q == Inputs(t)
    <2>1. q \in Seq(Seq(Byte)) /\ \A i \in 1..Len(q) : Len(q[i]) >= 41
      BY TxBytes DEF Parts
    <2>2. Len(q) >= 1 /\ Len(q) \in Nat
      BY TxBytes, TxType
    <2> HIDE DEF q
    <2>3. FlattenSeq(q) \in Seq(Byte)
      BY <2>1, FlattenType
    <2>4. Len(FlattenSeq(q)) >= Len(q) * 41
      <3>1. 41 \in {1, 9, 41, 60}
        OBVIOUS
      <3>2. QED
        BY <2>1, <3>1, FlattenLength
    <2>5. Len(FlattenSeq(q)) >= 41
      BY <2>2, <2>3, <2>4
    <2>6. QED
      BY <2>3, <2>5 DEF q
  <1>3. /\ fo \in Seq(Byte) /\ Len(fo) >= 9
    <2> DEFINE q == Outputs(t)
    <2>1. q \in Seq(Seq(Byte)) /\ \A i \in 1..Len(q) : Len(q[i]) >= 9
      BY TxBytes DEF Parts
    <2>2. Len(q) >= 1 /\ Len(q) \in Nat
      BY TxBytes, TxType
    <2> HIDE DEF q
    <2>3. FlattenSeq(q) \in Seq(Byte)
      BY <2>1, FlattenType
    <2>4. Len(FlattenSeq(q)) >= Len(q) * 9
      <3>1. 9 \in {1, 9, 41, 60}
        OBVIOUS
      <3>2. QED
        BY <2>1, <3>1, FlattenLength
    <2>5. Len(FlattenSeq(q)) >= 9
      BY <2>2, <2>3, <2>4
    <2>6. QED
      BY <2>3, <2>5 DEF q
  <1>4. fs \in Seq(Byte)
    BY TxBytes, FlattenType
  <1>5. t.witness = << >> => fs = << >>
    BY DEF Stacks, FlattenSeq
  <1>6. z \in Seq(Byte) /\ Len(z) = 4 /\ v \in Seq(Byte) /\ Len(v) = 4
    BY DEF Zeros, Byte
  <1>7. Marker(t) \in Seq(Byte)
    <2>1. << >> \in Seq(Byte) /\ <<0, 1>> \in Seq(Byte)
      BY DEF Byte
    <2>2. QED
      BY <2>1 DEF Marker
  <1>8. Body(t) = ((ni \o fi) \o no) \o fo
    BY DEF Body, Inputs, Outputs
  <1>9. Witness(t) = fs
    BY DEF Witness, Stacks
  <1>10. Legacy(t) = (v \o Body(t)) \o z
    BY DEF Legacy
  <1>11. Wire(t) = IF t.witness = << >> THEN Legacy(t)
                   ELSE (((v \o <<0, 1>>) \o Body(t)) \o fs) \o z
    BY <1>9 DEF Wire
  <1> HIDE DEF ni, no, fi, fo, fs, z, v
  <1>12. Body(t) = ni \o (fi \o (no \o fo))
    <2>1. ni \o fi \in Seq(Byte) /\ no \o fo \in Seq(Byte)
      BY <1>1, <1>2, <1>3, BytesJoin, BytesAssoc
    <2>2. ((ni \o fi) \o no) \o fo = (ni \o fi) \o (no \o fo)
      <3>1. ni \o fi \in Seq(Byte) /\ no \in Seq(Byte) /\ fo \in Seq(Byte)
        BY <1>1, <1>3, <2>1
      <3>2. QED
        BY <3>1, BytesAssoc
    <2>3. (ni \o fi) \o (no \o fo) = ni \o (fi \o (no \o fo))
      BY <1>1, <1>2, <2>1, BytesAssoc
    <2>4. QED
      BY <1>8, <2>2, <2>3
  <1>13. Body(t) \in Seq(Byte) /\ Len(Body(t)) >= 52
    <2> DEFINE x == no \o fo
               y == fi \o x
    <2>1. x \in Seq(Byte) /\ Len(x) = Len(no) + Len(fo)
      BY <1>1, <1>3, BytesJoin, BytesAssoc
    <2> HIDE DEF x
    <2>2. y \in Seq(Byte) /\ Len(y) = Len(fi) + Len(x)
      BY <1>2, <2>1, BytesJoin, BytesAssoc
    <2> HIDE DEF y
    <2>3. ni \o y \in Seq(Byte) /\ Len(ni \o y) = Len(ni) + Len(y)
      BY <1>1, <2>2, BytesJoin, BytesAssoc
    <2>4. /\ Len(ni) \in Nat /\ Len(no) \in Nat /\ Len(fi) \in Nat /\ Len(fo) \in Nat
      BY <1>1, <1>2, <1>3
    <2>5. Len(ni \o y) >= 52
      BY <1>1, <1>2, <1>3, <2>1, <2>2, <2>3, <2>4
    <2>6. QED
      BY <1>12, <2>3, <2>5 DEF x, y
  <1> DEFINE B == Body(t)
             m == Marker(t)
  <1> HIDE DEF B, m
  <1>14. B \in Seq(Byte) /\ Len(B) >= 52 /\ m \in Seq(Byte) /\ Len(B) \in Nat /\ Len(m) \in Nat
    BY <1>7, <1>13 DEF B, m
  <1>15. Legacy(t) = v \o (B \o z) /\ Legacy(t) \in Seq(Byte)
    <2>1. Legacy(t) = (v \o B) \o z
      BY <1>10 DEF B
    <2>2. (v \o B) \o z = v \o (B \o z) /\ B \o z \in Seq(Byte)
      BY <1>6, <1>14, BytesJoin, BytesAssoc
    <2>3. v \o (B \o z) \in Seq(Byte)
      BY <1>6, <2>2, BytesJoin, BytesAssoc
    <2>4. QED
      BY <2>1, <2>2, <2>3
  <1>16. Wire(t) = (v \o m) \o (B \o (fs \o z))
    <2>1. CASE t.witness = << >>
      <3>1. fs = << >> /\ m = << >> /\ Wire(t) = v \o (B \o z)
        BY <1>5, <1>11, <1>15, <2>1 DEF m, Marker
      <3>2. v \o << >> = v /\ << >> \o z = z
        BY <1>6, BytesEmpty
      <3>3. QED
        BY <3>1, <3>2
    <2>2. CASE t.witness # << >>
      <3> DEFINE u == v \o m
                 w == B \o fs
      <3>1. u = v \o <<0, 1>> /\ u \in Seq(Byte)
        <4>1. m = <<0, 1>>
          BY <2>2 DEF m, Marker
        <4>2. v \o m \in Seq(Byte)
          BY <1>6, <1>14, BytesJoin, BytesAssoc
        <4>3. QED
          BY <4>1, <4>2
      <3>2. Wire(t) = ((u \o B) \o fs) \o z
        BY <1>11, <2>2, <3>1 DEF B
      <3> HIDE DEF u
      <3>3. w \in Seq(Byte)
        BY <1>4, <1>14, BytesJoin
      <3>4. (u \o B) \o fs = u \o w
        BY <1>4, <1>14, <3>1, BytesAssoc
      <3>5. w \o z = B \o (fs \o z)
        <4>1. B \in Seq(Byte) /\ fs \in Seq(Byte) /\ z \in Seq(Byte)
          BY <1>4, <1>6, <1>14
        <4>2. QED
          BY <4>1, BytesAssoc
      <3> HIDE DEF w
      <3>6. (u \o w) \o z = u \o (w \o z)
        <4>1. u \in Seq(Byte) /\ w \in Seq(Byte) /\ z \in Seq(Byte)
          BY <1>6, <3>1, <3>3
        <4>2. QED
          BY <4>1, BytesAssoc
      <3>7. QED
        BY <3>2, <3>4, <3>5, <3>6 DEF u
    <2>3. QED
      BY <2>1, <2>2
  <1>17. Wire(t) \in Seq(Byte) /\ Len(Wire(t)) >= 60
    <2> DEFINE x == fs \o z
               y == B \o x
               u == v \o m
    <2>1. x \in Seq(Byte) /\ Len(x) = Len(fs) + Len(z) /\ Len(fs) \in Nat
      BY <1>4, <1>6, BytesJoin
    <2> HIDE DEF x
    <2>2. y \in Seq(Byte) /\ Len(y) = Len(B) + Len(x)
      BY <1>14, <2>1, BytesJoin
    <2> HIDE DEF y
    <2>3. u \in Seq(Byte) /\ Len(u) = Len(v) + Len(m)
      BY <1>6, <1>14, BytesJoin DEF m
    <2> HIDE DEF u
    <2>4. u \o y \in Seq(Byte) /\ Len(u \o y) = Len(u) + Len(y)
      BY <2>2, <2>3, BytesJoin
    <2>5. Len(u \o y) >= 60
      BY <1>6, <1>14, <2>1, <2>2, <2>3, <2>4
    <2>6. QED
      BY <1>16, <2>4, <2>5 DEF u, x, y
  <1>18. QED
    BY <1>1, <1>2, <1>3, <1>4, <1>5, <1>6, <1>7, <1>12, <1>13, <1>15, <1>16, <1>17
    DEF B, m, ni, no, fi, fo, fs, z, v

(* What the rest of a message begins with. *)
LEMMA PartAhead ==
  ASSUME NEW q \in Seq(Seq(Byte)), NEW k \in Nat \ {0}, NEW rest \in Seq(Byte)
  PROVE  /\ k <= Len(q) + 1 => From(q, k) \o rest \in Seq(Byte)
         /\ k <= Len(q) => /\ From(q, k) \o rest = q[k] \o (From(q, k + 1) \o rest)
                           /\ From(q, k + 1) \o rest \in Seq(Byte)
         /\ k = Len(q) + 1 => From(q, k) \o rest = rest
         /\ k = 1 => From(q, k) = FlattenSeq(q)
  <1>1. ASSUME k <= Len(q) + 1 PROVE From(q, k) \o rest \in Seq(Byte)
    BY <1>1, FromStep, BytesJoin
  <1>2. ASSUME k <= Len(q)
        PROVE  /\ From(q, k) \o rest = q[k] \o (From(q, k + 1) \o rest)
               /\ From(q, k + 1) \o rest \in Seq(Byte)
    <2>1. From(q, k) = q[k] \o From(q, k + 1) /\ q[k] \in Seq(Byte)
      BY <1>2, FromStep
    <2>2. From(q, k + 1) \in Seq(Byte)
      <3> DEFINE j == k + 1
      <3>1. j \in Nat \ {0} /\ j <= Len(q) + 1
        BY <1>2
      <3> HIDE DEF j
      <3>2. From(q, j) \in Seq(Byte)
        BY <3>1, FromStep
      <3>3. QED
        BY <3>2 DEF j
    <2>3. (q[k] \o From(q, k + 1)) \o rest = q[k] \o (From(q, k + 1) \o rest)
      BY <2>1, <2>2, BytesAssoc
    <2>4. From(q, k + 1) \o rest \in Seq(Byte)
      BY <2>2, BytesJoin
    <2>5. QED
      BY <2>1, <2>3, <2>4
  <1>3. ASSUME k = Len(q) + 1 PROVE From(q, k) \o rest = rest
    <2>1. From(q, k) = << >>
      BY <1>3, FromStep
    <2>2. QED
      BY <2>1, BytesEmpty
  <1>4. QED
    BY <1>1, <1>2, <1>3, FromStep

LEMMA TxAhead ==
  ASSUME NEW b \in Seq(Transactions)
  PROVE  /\ Len(b) \in Nat /\ Wires(b) \in Seq(Seq(Byte))
         /\ FlattenSeq(Wires(b)) = AtTx(b, 1) /\ Len(AtTx(b, 1)) >= Len(b) * 60
         /\ \A k \in 1..Len(b) + 1 : AtTx(b, k) \in Seq(Byte)
         /\ \A k \in 1..Len(b) : /\ b[k] \in Transactions
                                 /\ AtTx(b, k) = Wire(b[k]) \o AtTx(b, k + 1)
                                 /\ AtTx(b, k + 1) \in Seq(Byte)
         /\ AtTx(b, Len(b) + 1) = << >>
  <1>1. Len(b) \in Nat /\ \A k \in 1..Len(b) : b[k] \in Transactions
    OBVIOUS
  <1>2. \A k \in 1..Len(b) : Wire(b[k]) \in Seq(Byte) /\ Len(Wire(b[k])) >= 60
    BY <1>1, WireBytes
  <1> DEFINE q == Wires(b)
  <1>3. q = [i \in 1..Len(b) |-> Wire(b[i])]
    BY DEF Wires
  <1> HIDE DEF q
  <1>4. q \in Seq(Seq(Byte)) /\ Len(q) = Len(b) /\ \A k \in 1..Len(b) : q[k] = Wire(b[k])
    BY <1>1, <1>2, <1>3
  <1>5. FlattenSeq(q) = From(q, 1) /\ Len(FlattenSeq(q)) >= Len(b) * 60
    <2>1. 60 \in {1, 9, 41, 60} /\ 1 \in Nat \ {0} /\ \A k \in 1..Len(q) : Len(q[k]) >= 60
      BY <1>2, <1>4
    <2>2. Len(FlattenSeq(q)) >= Len(q) * 60
      BY <1>4, <2>1, FlattenLength
    <2>3. QED
      BY <1>4, <2>1, <2>2, FromStep
  <1>6. \A k \in 1..Len(b) + 1 : k \in Nat \ {0} /\ k <= Len(q) + 1
    BY <1>1, <1>4
  <1>7. \A k \in 1..Len(b) + 1 : From(q, k) \in Seq(Byte)
    BY <1>4, <1>6, FromStep
  <1>8. \A k \in 1..Len(b) : k \in 1..Len(b) + 1 /\ k + 1 \in 1..Len(b) + 1 /\ k <= Len(q)
    BY <1>1, <1>4
  <1>9. \A k \in 1..Len(b) : From(q, k) = q[k] \o From(q, k + 1)
    BY <1>4, <1>6, <1>8, FromStep
  <1>10. From(q, Len(b) + 1) = << >>
    <2>1. Len(b) + 1 \in 1..Len(b) + 1 /\ Len(b) + 1 = Len(q) + 1
      BY <1>1, <1>4
    <2>2. QED
      BY <1>4, <1>6, <2>1, FromStep
  <1>11. QED
    BY <1>1, <1>4, <1>5, <1>7, <1>8, <1>9, <1>10 DEF AtTx, q

LEMMA StackAhead ==
  ASSUME NEW b \in Seq(Transactions), NEW k \in 1..Len(b)
  PROVE  /\ AtEnd(b, k) = Zeros(4) \o AtTx(b, k + 1) /\ AtEnd(b, k) \in Seq(Byte)
         /\ \A w \in 1..Len(b[k].witness) + 1 : AtStack(b, k, w) \in Seq(Byte)
         /\ \A w \in 1..Len(b[k].witness) :
              /\ AtStack(b, k, w) = VarInt(Len(b[k].witness[w])) \o AtItem(b, k, w, 1)
              /\ AtItem(b, k, w, 1) \in Seq(Byte)
              /\ Len(AtItem(b, k, w, 1)) >= Len(b[k].witness[w])
         /\ AtStack(b, k, Len(b[k].witness) + 1) = AtEnd(b, k)
         /\ AtStack(b, k, 1) = FlattenSeq(Stacks(b[k])) \o AtEnd(b, k)
  <1> DEFINE t == b[k]
             s == t.witness
             n == Len(s)
             q == Stacks(t)
             e == AtEnd(b, k)
  <1>1. t \in Transactions /\ AtTx(b, k + 1) \in Seq(Byte)
    BY TxAhead
  <1>2. AtEnd(b, k) = Zeros(4) \o AtTx(b, k + 1) /\ e \in Seq(Byte)
    <2>1. Zeros(4) \in Seq(Byte)
      BY <1>1, WireBytes
    <2>2. QED
      BY <1>1, <2>1, BytesJoin DEF AtEnd
  <1>3. /\ q \in Seq(Seq(Byte)) /\ Len(q) = n /\ n \in Nat
        /\ \A w \in 1..n : q[w] = Stack(s[w]) /\ s[w] \in Some(Some(Byte))
    <2>1. /\ q \in Seq(Seq(Byte)) /\ Len(q) = n
          /\ \A w \in 1..n : q[w] = Stack(s[w]) /\ s[w] \in Some(Some(Byte))
      <3> HIDE DEF t
      <3>1. QED
        BY <1>1, TxBytes
    <2> HIDE DEF q
    <2>2. QED
      BY <2>1
  <1>4. \A w \in Nat : AtStack(b, k, w) = From(q, w) \o e
    BY DEF AtStack
  <1>5. \A w \in 1..n : \A i \in Nat : AtItem(b, k, w, i) = From(Items(s[w]), i) \o AtStack(b, k, w + 1)
    BY DEF AtItem
  <1> HIDE DEF t, s, q, n, e
  <1>6. \A w \in 1..n + 1 : w \in Nat \ {0} /\ w <= Len(q) + 1
    BY <1>3
  <1>7. ASSUME NEW w \in 1..n + 1 PROVE AtStack(b, k, w) \in Seq(Byte)
    <2>1. w \in Nat \ {0} /\ w <= Len(q) + 1 /\ w \in Nat
      BY <1>6
    <2>2. From(q, w) \o e \in Seq(Byte)
      BY <1>2, <1>3, <2>1, PartAhead
    <2>3. QED
      BY <1>4, <2>1, <2>2
  <1>8. \A w \in 1..n : w \in 1..n + 1 /\ w + 1 \in 1..n + 1 /\ w <= Len(q) /\ 1 \in Nat \ {0}
    BY <1>3
  <1>9. ASSUME NEW w \in 1..n
        PROVE  /\ AtStack(b, k, w) = VarInt(Len(s[w])) \o AtItem(b, k, w, 1)
               /\ AtItem(b, k, w, 1) \in Seq(Byte)
               /\ Len(AtItem(b, k, w, 1)) >= Len(s[w])
    <2> DEFINE rest == AtStack(b, k, w + 1)
               v == VarInt(Len(s[w]))
               p == Items(s[w])
               f == FlattenSeq(p)
    <2>1. rest \in Seq(Byte) /\ rest = From(q, w + 1) \o e /\ w \in Nat \ {0} /\ w + 1 \in Nat
      BY <1>4, <1>6, <1>7, <1>8
    <2>2. AtStack(b, k, w) = q[w] \o rest
      <3>1. w <= Len(q) /\ w \in Nat
        BY <1>8, <2>1
      <3>2. From(q, w) \o e = q[w] \o (From(q, w + 1) \o e)
        BY <1>2, <1>3, <2>1, <3>1, PartAhead
      <3>3. QED
        BY <1>4, <2>1, <3>1, <3>2
    <2>3. q[w] = v \o f /\ v \in Seq(Byte) /\ Parts(p, 1) /\ Len(p) = Len(s[w]) /\ Len(s[w]) \in Nat
      BY <1>3, StackBytes
    <2>4. p \in Seq(Seq(Byte)) /\ (\A i \in 1..Len(p) : Len(p[i]) >= 1) /\ 1 \in {1, 9, 41, 60}
      BY <2>3 DEF Parts
    <2>5. f \in Seq(Byte) /\ Len(f) >= Len(p) * 1 /\ From(p, 1) = f
      <3> HIDE DEF p
      <3>1. QED
        BY <1>8, <2>4, FlattenType, FlattenLength, FromStep
    <2>6. AtItem(b, k, w, 1) = f \o rest
      BY <1>5, <1>8, <2>5
    <2> HIDE DEF rest, v, p, f
    <2>7. (v \o f) \o rest = v \o (f \o rest)
      <3>1. v \in Seq(Byte) /\ f \in Seq(Byte) /\ rest \in Seq(Byte)
        BY <2>1, <2>3, <2>5
      <3>2. QED
        BY <3>1, BytesAssoc
    <2>8. f \o rest \in Seq(Byte) /\ Len(f \o rest) = Len(f) + Len(rest) /\ Len(f) \in Nat /\ Len(rest) \in Nat
      BY <2>1, <2>5, BytesJoin
    <2>9. Len(f \o rest) >= Len(s[w])
      BY <2>3, <2>5, <2>8
    <2>10. QED
      BY <2>2, <2>3, <2>6, <2>7, <2>8, <2>9 DEF v
  <1>10. AtStack(b, k, n + 1) = e
    <2> DEFINE j == n + 1
    <2>1. j \in 1..n + 1 /\ j \in Nat \ {0} /\ j = Len(q) + 1
      BY <1>3
    <2> HIDE DEF j
    <2>2. From(q, j) \o e = e
      BY <1>2, <1>3, <2>1, PartAhead
    <2>3. AtStack(b, k, j) = From(q, j) \o e
      BY <1>4, <2>1
    <2>4. QED
      BY <2>2, <2>3 DEF j
  <1>11. AtStack(b, k, 1) = FlattenSeq(q) \o e
    <2>1. 1 \in Nat \ {0} /\ 1 \in Nat
      OBVIOUS
    <2>2. From(q, 1) = FlattenSeq(q)
      BY <1>3, <2>1, FromStep
    <2>3. QED
      BY <1>4, <2>1, <2>2
  <1>12. QED
    BY <1>2, <1>7, <1>9, <1>10, <1>11 DEF t, s, n, q, e

LEMMA ItemAhead ==
  ASSUME NEW b \in Seq(Transactions), NEW k \in 1..Len(b), NEW w \in 1..Len(b[k].witness)
  PROVE  /\ \A i \in 1..Len(b[k].witness[w]) :
              /\ b[k].witness[w][i] \in Some(Byte)
              /\ AtItem(b, k, w, i) = Item(b[k].witness[w][i]) \o AtItem(b, k, w, i + 1)
              /\ AtItem(b, k, w, i + 1) \in Seq(Byte)
         /\ AtItem(b, k, w, Len(b[k].witness[w]) + 1) = AtStack(b, k, w + 1)
         /\ Len(b[k].witness[w]) \in Nat /\ Len(b[k].witness[w]) < TooLong
  <1> DEFINE t == b[k]
             s == t.witness[w]
             n == Len(s)
             q == Items(s)
             e == AtStack(b, k, w + 1)
  <1>1. t \in Transactions
    BY TxAhead
  <1>2. s \in Some(Some(Byte))
    <2>1. w \in 1..Len(t.witness)
      OBVIOUS
    <2> HIDE DEF t
    <2>2. QED
      BY <1>1, <2>1, TxBytes
  <1>3. e \in Seq(Byte)
    <2>1. t.witness \in Seq(Some(Some(Byte))) /\ w \in 1..Len(t.witness)
      BY <1>1, TxType
    <2>2. w + 1 \in 1..Len(t.witness) + 1
      <3> HIDE DEF t
      <3>1. QED
        BY <2>1
    <2>3. QED
      BY <2>2, StackAhead
  <1>4. \A i \in Nat : AtItem(b, k, w, i) = From(q, i) \o e
    BY DEF AtItem
  <1> HIDE DEF t, s, n, q, e
  <1>5. /\ q \in Seq(Seq(Byte)) /\ Len(q) = n /\ n \in Nat /\ n < TooLong
        /\ \A i \in 1..n : q[i] = Item(s[i]) /\ s[i] \in Some(Byte)
    BY <1>2, StackBytes DEF q, n, Parts
  <1>6. ASSUME NEW i \in 1..n
        PROVE  /\ AtItem(b, k, w, i) = Item(s[i]) \o AtItem(b, k, w, i + 1)
               /\ AtItem(b, k, w, i + 1) \in Seq(Byte)
    <2>1. i \in Nat \ {0} /\ i \in Nat /\ i + 1 \in Nat /\ i <= Len(q)
      BY <1>5
    <2>2. From(q, i) \o e = q[i] \o (From(q, i + 1) \o e) /\ From(q, i + 1) \o e \in Seq(Byte)
      BY <1>3, <1>5, <2>1, PartAhead
    <2>3. QED
      BY <1>4, <1>5, <2>1, <2>2
  <1>7. AtItem(b, k, w, n + 1) = e
    <2> DEFINE j == n + 1
    <2>1. j \in Nat \ {0} /\ j \in Nat /\ j = Len(q) + 1
      BY <1>5
    <2> HIDE DEF j
    <2>2. From(q, j) \o e = e
      BY <1>3, <1>5, <2>1, PartAhead
    <2>3. QED
      BY <1>4, <2>1, <2>2 DEF j
  <1>8. QED
    BY <1>5, <1>6, <1>7 DEF t, s, n, e

LEMMA OutputAhead ==
  ASSUME NEW b \in Seq(Transactions), NEW k \in 1..Len(b)
  PROVE  /\ \A o \in 1..Len(b[k].outputs) :
              /\ b[k].outputs[o] \in Some(Byte)
              /\ AtOutput(b, k, o) = Amount \o (Item(b[k].outputs[o]) \o AtOutput(b, k, o + 1))
              /\ AtOutput(b, k, o + 1) \in Seq(Byte)
         /\ AtOutput(b, k, Len(b[k].outputs) + 1) = AtStack(b, k, 1)
         /\ AtOutput(b, k, 1) \in Seq(Byte) /\ Len(AtOutput(b, k, 1)) >= Len(b[k].outputs) * 9
         /\ AtOutput(b, k, 1) = FlattenSeq(Outputs(b[k])) \o AtStack(b, k, 1)
  <1> DEFINE t == b[k]
             s == t.outputs
             n == Len(s)
             q == Outputs(t)
             e == AtStack(b, k, 1)
  <1>1. t \in Transactions
    BY TxAhead
  <1>2. /\ q \in Seq(Seq(Byte)) /\ Len(q) = n /\ \A i \in 1..Len(q) : Len(q[i]) >= 9
        /\ \A o \in 1..n : q[o] = Output(s[o]) /\ s[o] \in Some(Byte)
    <2> HIDE DEF t
    <2>1. QED
      BY <1>1, TxBytes DEF Parts
  <1>3. e \in Seq(Byte)
    <2>1. t.witness \in Seq(Some(Some(Byte)))
      BY <1>1, TxType
    <2>2. 1 \in 1..Len(t.witness) + 1
      <3> HIDE DEF t
      <3>1. QED
        BY <2>1
    <2>3. QED
      BY <2>2, StackAhead
  <1>4. \A o \in Nat : AtOutput(b, k, o) = From(q, o) \o e
    BY DEF AtOutput
  <1> HIDE DEF t, s, n, q, e
  <1>5. n \in Nat
    BY <1>2
  <1>6. ASSUME NEW o \in 1..n
        PROVE  /\ AtOutput(b, k, o) = Amount \o (Item(s[o]) \o AtOutput(b, k, o + 1))
               /\ AtOutput(b, k, o + 1) \in Seq(Byte)
    <2> DEFINE rest == From(q, o + 1) \o e
    <2>1. o \in Nat \ {0} /\ o \in Nat /\ o + 1 \in Nat /\ o <= Len(q)
      BY <1>2, <1>5
    <2>2. From(q, o) \o e = q[o] \o rest /\ rest \in Seq(Byte)
      BY <1>2, <1>3, <2>1, PartAhead
    <2>3. AtOutput(b, k, o) = q[o] \o rest /\ AtOutput(b, k, o + 1) = rest
      BY <1>4, <2>1, <2>2
    <2>4. q[o] = Amount \o Item(s[o]) /\ Amount \in Seq(Byte) /\ Item(s[o]) \in Seq(Byte)
      BY <1>2, OutputBytes, ItemBytes
    <2> HIDE DEF rest
    <2>5. (Amount \o Item(s[o])) \o rest = Amount \o (Item(s[o]) \o rest)
      BY <2>2, <2>4, BytesAssoc
    <2>6. QED
      BY <2>2, <2>3, <2>4, <2>5
  <1>7. AtOutput(b, k, n + 1) = e
    <2> DEFINE j == n + 1
    <2>1. j \in Nat \ {0} /\ j \in Nat /\ j = Len(q) + 1
      BY <1>2, <1>5
    <2> HIDE DEF j
    <2>2. From(q, j) \o e = e
      BY <1>2, <1>3, <2>1, PartAhead
    <2>3. QED
      BY <1>4, <2>1, <2>2 DEF j
  <1>8. /\ AtOutput(b, k, 1) \in Seq(Byte) /\ Len(AtOutput(b, k, 1)) >= n * 9
        /\ AtOutput(b, k, 1) = FlattenSeq(q) \o e
    <2>1. 9 \in {1, 9, 41, 60} /\ 1 \in Nat \ {0} /\ 1 \in Nat
      OBVIOUS
    <2>2. From(q, 1) = FlattenSeq(q) /\ FlattenSeq(q) \in Seq(Byte) /\ Len(FlattenSeq(q)) >= Len(q) * 9
      BY <1>2, <2>1, FromStep, FlattenType, FlattenLength
    <2> DEFINE f == FlattenSeq(q)
    <2>3. AtOutput(b, k, 1) = f \o e /\ f \in Seq(Byte) /\ Len(f) >= n * 9
      BY <1>2, <1>4, <2>1, <2>2
    <2> HIDE DEF f
    <2>4. f \o e \in Seq(Byte) /\ Len(f \o e) = Len(f) + Len(e) /\ Len(f) \in Nat /\ Len(e) \in Nat
      BY <1>3, <2>3, BytesJoin
    <2>5. Len(f \o e) >= n * 9
      BY <1>5, <2>3, <2>4, SMTT(30)
    <2>6. QED
      BY <2>3, <2>4, <2>5 DEF f
  <1>9. QED
    BY <1>2, <1>6, <1>7, <1>8 DEF t, s, n, q, e

LEMMA InputAhead ==
  ASSUME NEW b \in Seq(Transactions), NEW k \in 1..Len(b)
  PROVE  /\ \A i \in 1..Len(b[k].inputs) :
              /\ b[k].inputs[i] \in Ins
              /\ AtInput(b, k, i) = b[k].inputs[i].outpoint \o (Item(b[k].inputs[i].script)
                                      \o (NSequence \o AtInput(b, k, i + 1)))
              /\ AtInput(b, k, i + 1) \in Seq(Byte)
         /\ AtInput(b, k, Len(b[k].inputs) + 1) = VarInt(Len(b[k].outputs)) \o AtOutput(b, k, 1)
         /\ AtInput(b, k, 1) \in Seq(Byte) /\ Len(AtInput(b, k, 1)) >= Len(b[k].inputs) * 41
         /\ AtInput(b, k, 1) = FlattenSeq(Inputs(b[k])) \o (VarInt(Len(b[k].outputs)) \o AtOutput(b, k, 1))
  <1> DEFINE t == b[k]
             s == t.inputs
             n == Len(s)
             q == Inputs(t)
             e == VarInt(Len(t.outputs)) \o AtOutput(b, k, 1)
             z == NSequence
  <1>1. t \in Transactions
    BY TxAhead
  <1>2. /\ q \in Seq(Seq(Byte)) /\ Len(q) = n /\ \A i \in 1..Len(q) : Len(q[i]) >= 41
        /\ \A i \in 1..n : q[i] = Input(s[i]) /\ s[i] \in Ins
    <2> HIDE DEF t
    <2>1. QED
      BY <1>1, TxBytes DEF Parts
  <1>3. e \in Seq(Byte)
    <2>1. AtOutput(b, k, 1) \in Seq(Byte)
      BY OutputAhead
    <2>2. VarInt(Len(t.outputs)) \in Seq(Byte)
      <3> HIDE DEF t
      <3>1. QED
        BY <1>1, WireBytes
    <2>3. QED
      BY <2>1, <2>2, BytesJoin
  <1>4. \A i \in Nat : AtInput(b, k, i) = From(q, i) \o e
    BY DEF AtInput
  <1>5. z \in Seq(Byte)
    BY DEF Byte, NSequence
  <1> HIDE DEF t, s, n, q, e, z
  <1>6. n \in Nat
    BY <1>2
  <1>7. ASSUME NEW i \in 1..n
        PROVE  /\ AtInput(b, k, i) = s[i].outpoint \o (Item(s[i].script) \o (z \o AtInput(b, k, i + 1)))
               /\ AtInput(b, k, i + 1) \in Seq(Byte)
    <2> DEFINE rest == From(q, i + 1) \o e
               p == s[i].outpoint
               m == Item(s[i].script)
    <2>1. i \in Nat \ {0} /\ i \in Nat /\ i + 1 \in Nat /\ i <= Len(q)
      BY <1>2, <1>6
    <2>2. From(q, i) \o e = q[i] \o rest /\ rest \in Seq(Byte)
      BY <1>2, <1>3, <2>1, PartAhead
    <2>3. AtInput(b, k, i) = q[i] \o rest /\ AtInput(b, k, i + 1) = rest
      BY <1>4, <2>1, <2>2
    <2>4. q[i] = p \o (m \o z) /\ p \in Seq(Byte) /\ s[i].script \in Some(Byte)
      <3> DEFINE in == s[i]
      <3>1. in \in Ins /\ q[i] = Input(in)
        BY <1>2
      <3> HIDE DEF in, p, m
      <3>2. /\ Input(in) = in.outpoint \o (Item(in.script) \o NSequence)
            /\ in.outpoint \in Seq(Byte) /\ in.script \in Some(Byte)
        BY <3>1, InputBytes
      <3>3. QED
        BY <3>1, <3>2 DEF in, z, p, m
    <2>5. m \in Seq(Byte)
      BY <2>4, ItemBytes
    <2> HIDE DEF rest, p, m
    <2>6. m \o z \in Seq(Byte)
      BY <1>5, <2>5, BytesJoin
    <2> DEFINE y == m \o z
    <2>7. y \o rest = m \o (z \o rest)
      BY <1>5, <2>2, <2>5, BytesAssoc
    <2> HIDE DEF y
    <2>8. (p \o y) \o rest = p \o (y \o rest)
      BY <2>2, <2>4, <2>6, BytesAssoc DEF y
    <2>9. AtInput(b, k, i) = p \o (m \o (z \o rest))
      BY <2>3, <2>4, <2>7, <2>8 DEF y
    <2>10. QED
      BY <2>2, <2>3, <2>9 DEF p, m
  <1>8. AtInput(b, k, n + 1) = e
    <2> DEFINE j == n + 1
    <2>1. j \in Nat \ {0} /\ j \in Nat /\ j = Len(q) + 1
      BY <1>2, <1>6
    <2> HIDE DEF j
    <2>2. From(q, j) \o e = e
      BY <1>2, <1>3, <2>1, PartAhead
    <2>3. QED
      BY <1>4, <2>1, <2>2 DEF j
  <1>9. /\ AtInput(b, k, 1) \in Seq(Byte) /\ Len(AtInput(b, k, 1)) >= n * 41
        /\ AtInput(b, k, 1) = FlattenSeq(q) \o e
    <2>1. 41 \in {1, 9, 41, 60} /\ 1 \in Nat \ {0} /\ 1 \in Nat
      OBVIOUS
    <2>2. From(q, 1) = FlattenSeq(q) /\ FlattenSeq(q) \in Seq(Byte) /\ Len(FlattenSeq(q)) >= Len(q) * 41
      BY <1>2, <2>1, FromStep, FlattenType, FlattenLength
    <2> DEFINE f == FlattenSeq(q)
    <2>3. AtInput(b, k, 1) = f \o e /\ f \in Seq(Byte) /\ Len(f) >= n * 41
      BY <1>2, <1>4, <2>1, <2>2
    <2> HIDE DEF f
    <2>4. f \o e \in Seq(Byte) /\ Len(f \o e) = Len(f) + Len(e) /\ Len(f) \in Nat /\ Len(e) \in Nat
      BY <1>3, <2>3, BytesJoin
    <2>5. Len(f \o e) >= n * 41
      BY <1>6, <2>3, <2>4
    <2>6. QED
      BY <2>3, <2>4, <2>5 DEF f
  <1>10. QED
    BY <1>2, <1>7, <1>8, <1>9 DEF t, s, n, q, e, z

LEMMA BodyAhead ==
  ASSUME NEW b \in Seq(Transactions), NEW k \in 1..Len(b)
  PROVE  /\ AtBody(b, k) \in Seq(Byte)
         /\ AtBody(b, k) = Body(b[k]) \o AtStack(b, k, 1)
         /\ AtTx(b, k) = <<2, 0, 0, 0>> \o (Marker(b[k]) \o AtBody(b, k))
         /\ AtStack(b, k, 1) \in Seq(Byte)
  <1> DEFINE t == b[k]
             ni == VarInt(Len(t.inputs))
             no == VarInt(Len(t.outputs))
             fi == FlattenSeq(Inputs(t))
             fo == FlattenSeq(Outputs(t))
             fs == FlattenSeq(Stacks(t))
             e == AtStack(b, k, 1)
             z == Zeros(4)
             v == <<2, 0, 0, 0>>
             m == Marker(t)
             B == Body(t)
             r == AtTx(b, k + 1)
  <1>1. t \in Transactions /\ AtTx(b, k) = Wire(t) \o r /\ r \in Seq(Byte)
    BY TxAhead
  <1>2. r \in Seq(Byte)
    BY <1>1
  <1>3. /\ ni \in Seq(Byte) /\ no \in Seq(Byte) /\ fi \in Seq(Byte) /\ fo \in Seq(Byte)
        /\ fs \in Seq(Byte) /\ B \in Seq(Byte) /\ z \in Seq(Byte) /\ v \in Seq(Byte) /\ m \in Seq(Byte)
    <2> HIDE DEF t
    <2>1. QED
      BY <1>1, WireBytes
  <1>4. B = ni \o (fi \o (no \o fo)) /\ Wire(t) = (v \o m) \o (B \o (fs \o z))
    <2> HIDE DEF t
    <2>1. QED
      BY <1>1, WireBytes
  <1>5. /\ AtBody(b, k) = ni \o (fi \o (no \o (fo \o e))) /\ e = fs \o (z \o r)
    <2>1. AtBody(b, k) = ni \o AtInput(b, k, 1)
      BY DEF AtBody
    <2>2. AtInput(b, k, 1) = fi \o (no \o AtOutput(b, k, 1))
      BY InputAhead
    <2>3. AtOutput(b, k, 1) = fo \o e
      BY OutputAhead
    <2>4. e = fs \o AtEnd(b, k) /\ AtEnd(b, k) = z \o r
      BY StackAhead
    <2>5. QED
      BY <2>1, <2>2, <2>3, <2>4
  <1> HIDE DEF t, ni, no, fi, fo, fs, e, z, v, m, B, r
  <1>6. z \o r \in Seq(Byte) /\ e \in Seq(Byte)
    <2>1. z \o r \in Seq(Byte)
      BY <1>2, <1>3, BytesJoin
    <2>2. fs \o (z \o r) \in Seq(Byte)
      BY <1>3, <2>1, BytesJoin
    <2>3. QED
      BY <1>5, <2>1, <2>2
  <1>7. AtBody(b, k) = B \o e /\ B \o e \in Seq(Byte)
    <2> DEFINE x == no \o fo
               y == fi \o x
    <2>1. x \in Seq(Byte)
      BY <1>3, BytesJoin
    <2>2. x \o e = no \o (fo \o e)
      <3>1. no \in Seq(Byte) /\ fo \in Seq(Byte) /\ e \in Seq(Byte)
        BY <1>3, <1>6
      <3>2. QED
        BY <3>1, BytesAssoc
    <2> HIDE DEF x
    <2>3. y \in Seq(Byte)
      BY <1>3, <2>1, BytesJoin
    <2>4. y \o e = fi \o (x \o e)
      <3>1. fi \in Seq(Byte) /\ x \in Seq(Byte) /\ e \in Seq(Byte)
        BY <1>3, <1>6, <2>1
      <3>2. QED
        BY <3>1, BytesAssoc
    <2> HIDE DEF y
    <2>5. (ni \o y) \o e = ni \o (y \o e)
      <3>1. ni \in Seq(Byte) /\ y \in Seq(Byte) /\ e \in Seq(Byte)
        BY <1>3, <1>6, <2>3
      <3>2. QED
        BY <3>1, BytesAssoc
    <2>6. B = ni \o y
      BY <1>4 DEF x, y
    <2>7. B \o e \in Seq(Byte)
      BY <1>3, <1>6, BytesJoin
    <2>8. QED
      BY <1>5, <2>2, <2>4, <2>5, <2>6, <2>7
  <1>8. AtTx(b, k) = v \o (m \o (B \o e))
    <2> DEFINE x == fs \o z
               y == B \o x
               u == v \o m
    <2>1. x \in Seq(Byte) /\ u \in Seq(Byte)
      BY <1>3, BytesJoin
    <2>2. x \o r = fs \o (z \o r)
      <3>1. fs \in Seq(Byte) /\ z \in Seq(Byte) /\ r \in Seq(Byte)
        BY <1>2, <1>3
      <3>2. QED
        BY <3>1, BytesAssoc
    <2> HIDE DEF x
    <2>3. y \in Seq(Byte)
      BY <1>3, <2>1, BytesJoin
    <2>4. y \o r = B \o (x \o r)
      <3>1. B \in Seq(Byte) /\ x \in Seq(Byte) /\ r \in Seq(Byte)
        BY <1>2, <1>3, <2>1
      <3>2. QED
        BY <3>1, BytesAssoc
    <2>5. Wire(t) = u \o y
      BY <1>4 DEF x
    <2> HIDE DEF y
    <2>6. (u \o y) \o r = u \o (y \o r)
      <3>1. u \in Seq(Byte) /\ y \in Seq(Byte) /\ r \in Seq(Byte)
        BY <1>2, <2>1, <2>3
      <3>2. QED
        BY <3>1, BytesAssoc
    <2>7. B \o e \in Seq(Byte)
      BY <1>7
    <2> DEFINE c == B \o e
    <2> HIDE DEF c
    <2>8. u \o c = v \o (m \o c)
      <3>1. v \in Seq(Byte) /\ m \in Seq(Byte) /\ c \in Seq(Byte)
        BY <1>3, <2>7 DEF c
      <3>2. QED
        BY <3>1, BytesAssoc
    <2>9. QED
      BY <1>1, <1>5, <2>2, <2>4, <2>5, <2>6, <2>8 DEF c
  <1>9. QED
    BY <1>6, <1>7, <1>8 DEF t, v, m, B, e

-----------------------------------------------------------------------------
(* Reading a message that arrived whole, cut, or with more behind it. *)

LEMMA ByteFits ==
  ASSUME raw \in Seq(Byte), Fits, NEW p, NEW a \in Seq(Byte), NEW b \in Seq(Byte),
         Ahead(Whole, p, a \o b)
  PROVE  /\ p \in Nat /\ Len(a) \in Nat
         /\ \A i \in 1..Len(a) : p + i <= Len(raw) => At(p + i - 1) = a[i]
         /\ raw = Whole => p + Len(a) <= Len(raw)
         /\ Ahead(Whole, p + Len(a), b)
  <1>1. /\ Ahead(Whole, p + Len(a), b) /\ p + Len(a) <= Len(Whole)
        /\ \A i \in 1..Len(a) : Whole[p + i] = a[i]
    <2> DEFINE w == Whole
    <2>1. Ahead(w, p, a \o b)
      OBVIOUS
    <2> HIDE DEF w
    <2>2. Ahead(w, p + Len(a), b)
      BY <2>1, AheadStep
    <2>3. p + Len(a) <= Len(w)
      BY <2>1, AheadStep
    <2>4. Here(w, p, a)
      BY <2>1, AheadStep
    <2>5. QED
      BY <2>2, <2>3, <2>4 DEF w, Here
  <1>2. p \in Nat /\ Len(a) \in Nat /\ Len(raw) \in Nat
    BY DEF Ahead
  <1>3. Len(Whole) \in Nat
    <2>1. Len(Whole) = p + Len(a \o b) /\ Len(a \o b) \in Nat
      BY BytesJoin DEF Ahead
    <2>2. QED
      BY <1>2, <2>1
  <1> DEFINE W == Whole
  <1> HIDE DEF W
  <1>4. ASSUME NEW i \in 1..Len(a), p + i <= Len(raw) PROVE At(p + i - 1) = a[i]
    <2> DEFINE j == p + i
    <2>1. j \in 1..Len(raw) /\ j <= Len(W) /\ (j - 1) + 1 = j
      BY <1>1, <1>2, <1>3, <1>4 DEF W
    <2>2. W[j] = a[i]
      BY <1>1 DEF W
    <2> HIDE DEF j
    <2>3. raw[j] = W[j]
      BY <2>1 DEF Fits, W
    <2>4. At(j - 1) = raw[j]
      BY <2>1 DEF At
    <2>5. At(j - 1) = a[i]
      BY <2>2, <2>3, <2>4
    <2>6. (p + i) - 1 = p + i - 1
      BY <1>2
    <2>7. QED
      BY <2>5, <2>6 DEF j
  <1>5. QED
    BY <1>1, <1>2, <1>3, <1>4 DEF W

LEMMA SpanFits ==
  ASSUME raw \in Seq(Byte), Fits, NEW p, NEW a \in Seq(Byte), NEW b \in Seq(Byte),
         Ahead(Whole, p, a \o b), NEW q, Ahead(Whole, q, b), q <= Len(raw)
  PROVE  q = p + Len(a) /\ Slice(p, q) = a
  <1>1. /\ p \in Nat /\ Len(a) \in Nat
        /\ \A i \in 1..Len(a) : p + i <= Len(raw) => At(p + i - 1) = a[i]
        /\ Ahead(Whole, p + Len(a), b)
    BY ByteFits
  <1>2. q = p + Len(a)
    <2>1. Len(Whole) = q + Len(b) /\ Len(Whole) = (p + Len(a)) + Len(b) /\ q \in Nat
      BY <1>1 DEF Ahead
    <2>2. Len(b) \in Nat
      OBVIOUS
    <2> DEFINE m == Len(Whole)
               n == Len(a)
               k == Len(b)
    <2>3. m = q + k /\ m = (p + n) + k /\ q \in Nat /\ k \in Nat /\ n \in Nat /\ p \in Nat
      BY <1>1, <2>1, <2>2
    <2> HIDE DEF m, n, k
    <2>4. q = p + n
      BY <2>3
    <2>5. QED
      BY <2>4 DEF n
  <1> DEFINE n == Len(a)
             s == SubSeq(raw, p + 1, p + n)
  <1>3. Slice(p, q) = s
    BY <1>2 DEF Slice
  <1>4. n \in Nat /\ Len(raw) \in Nat /\ p + n <= Len(raw)
    BY <1>1, <1>2
  <1> HIDE DEF n
  <1>5. s \in Seq(Byte) /\ Len(s) = n /\ \A i \in 1..n : s[i] = raw[p + i]
    <2>1. p + 1 \in Int /\ p + n \in Int
      BY <1>1, <1>4
    <2>2. \A i \in (p + 1)..(p + n) : raw[i] \in Byte
      BY <1>1, <1>4
    <2>3. (IF p + 1 <= p + n THEN (p + n) - (p + 1) + 1 ELSE 0) = n
      BY <1>1, <1>4
    <2>4. /\ s \in Seq(Byte)
          /\ Len(s) = (IF p + 1 <= p + n THEN (p + n) - (p + 1) + 1 ELSE 0)
          /\ \A i \in 1..(p + n) - (p + 1) + 1 : s[i] = raw[(p + 1) + i - 1]
      BY <2>1, <2>2, SubSeqProperties
    <2>5. (p + n) - (p + 1) + 1 = n /\ \A i \in 1..n : (p + 1) + i - 1 = p + i
      BY <1>1, <1>4
    <2> HIDE DEF s
    <2>6. QED
      BY <2>3, <2>4, <2>5
  <1> HIDE DEF s
  <1>6. \A i \in 1..n : s[i] = a[i]
    <2> SUFFICES ASSUME NEW i \in 1..n PROVE s[i] = a[i]
      OBVIOUS
    <2>1. p + i <= Len(raw) /\ (p + i - 1) + 1 = p + i
      BY <1>1, <1>4
    <2>2. At(p + i - 1) = raw[p + i]
      BY <2>1 DEF At
    <2>3. QED
      BY <1>1, <1>5, <2>1, <2>2 DEF n
  <1>7. s = a
    BY <1>5, <1>6, SeqEqual DEF n
  <1>8. QED
    BY <1>2, <1>3, <1>7

LEMMA VarintFits ==
  ASSUME raw \in Seq(Byte), Fits, NEW p, NEW n \in Nat, n < TooLong, NEW rest \in Seq(Byte),
         Ahead(Whole, p, VarInt(n) \o rest)
  PROVE  /\ raw = Whole => HasVarint(p)
         /\ HasVarint(p) => /\ Varint(p).value = n /\ Varint(p).next = p + Len(VarInt(n))
                            /\ Ahead(Whole, Varint(p).next, rest) /\ Varint(p).next <= Len(raw)
  <1> DEFINE v == VarInt(n)
  <1>1. /\ v \in Seq(Byte) /\ Len(v) \in {1, 3, 5}
        /\ Len(v) = 1 => v[1] = n /\ n < 253
        /\ Len(v) = 3 => v[1] = 253 /\ v[2] + 256 * v[3] = n
        /\ Len(v) = 5 => v[1] = 254 /\ v[5] = 0 /\ v[2] + 256 * v[3] + 65536 * v[4] = n
    BY VarIntBytes
  <1>2. Ahead(Whole, p, v \o rest)
    OBVIOUS
  <1> HIDE DEF v
  <1>3. /\ p \in Nat /\ Len(v) \in Nat
        /\ \A i \in 1..Len(v) : p + i <= Len(raw) => At(p + i - 1) = v[i]
        /\ raw = Whole => p + Len(v) <= Len(raw)
        /\ Ahead(Whole, p + Len(v), rest)
    BY <1>1, <1>2, ByteFits
  <1>4. Len(raw) \in Nat
    OBVIOUS
  <1>5. ASSUME p + 1 <= Len(raw) PROVE At(p) = v[1] /\ 1 + Extra(At(p)) = Len(v)
    <2>1. 1 \in 1..Len(v) /\ p + 1 - 1 = p
      BY <1>1, <1>3
    <2>2. At(p) = v[1]
      BY <1>3, <1>5, <2>1
    <2>3. CASE Len(v) = 1
      BY <1>1, <2>2, <2>3 DEF Extra
    <2>4. CASE Len(v) = 3
      BY <1>1, <2>2, <2>4 DEF Extra
    <2>5. CASE Len(v) = 5
      BY <1>1, <2>2, <2>5 DEF Extra
    <2>6. QED
      BY <1>1, <2>2, <2>3, <2>4, <2>5
  <1>6. ASSUME raw = Whole PROVE HasVarint(p)
    <2>1. p + Len(v) <= Len(raw) /\ p + 1 <= Len(raw) /\ p < Len(raw) /\ p # Bad
      BY <1>1, <1>3, <1>4, <1>6 DEF Bad
    <2>2. Extra(At(p)) = Len(v) - 1
      BY <1>1, <1>5, <2>1 DEF Extra
    <2>3. QED
      BY <1>3, <2>1, <2>2 DEF HasVarint
  <1>7. ASSUME HasVarint(p)
        PROVE  /\ Varint(p).value = n /\ Varint(p).next = p + Len(v)
               /\ Ahead(Whole, Varint(p).next, rest) /\ Varint(p).next <= Len(raw)
    <2>1. p + 1 <= Len(raw)
      BY <1>3, <1>4, <1>7 DEF HasVarint
    <2>2. At(p) = v[1] /\ 1 + Extra(At(p)) = Len(v) /\ Extra(At(p)) = Len(v) - 1
      BY <1>1, <1>5, <2>1 DEF Extra
    <2>3. p + 1 + Extra(At(p)) = p + Len(v) /\ p + Len(v) <= Len(raw)
      BY <1>3, <1>7, <2>2 DEF HasVarint
    <2> DEFINE s == Slice(p + 1, p + Len(v))
    <2>4. Varint(p).next = p + Len(v) /\ Varint(p).value = IF At(p) < 253 THEN At(p) ELSE Value(s)
      BY <2>3 DEF Varint
    <2>5. Varint(p).value = n
      <3>1. CASE Len(v) = 1
        BY <1>1, <2>2, <2>4, <3>1
      <3>2. ASSUME Len(v) \in {3, 5}
            PROVE  Len(s) = Len(v) - 1 /\ \A i \in 1..Len(v) - 1 : s[i] = v[i + 1]
        <4> DEFINE m == Len(v)
                   l == p + 2
                   h == p + m
        <4>1. m \in {3, 5} /\ l \in Int /\ h \in Int /\ l <= h /\ h - l + 1 = m - 1
              /\ (p + 1) + 1 = l
          <5>1. m \in {3, 5} /\ p \in Nat
            BY <1>3, <3>2
          <5> HIDE DEF m
          <5>2. QED
            BY <5>1
        <4>2. \A i \in l..h : raw[i] \in Byte
          BY <1>3, <1>4, <2>3, <4>1
        <4>3. s = SubSeq(raw, l, h)
          BY <4>1 DEF Slice
        <4> HIDE DEF l, h, s
        <4>4. Len(s) = h - l + 1 /\ \A i \in 1..h - l + 1 : s[i] = raw[l + i - 1]
          BY <4>1, <4>2, <4>3, SubSeqProperties
        <4>5. ASSUME NEW i \in 1..m - 1 PROVE s[i] = v[i + 1]
          <5>1. l + i - 1 = p + (i + 1) /\ i + 1 \in 1..m /\ p + (i + 1) <= Len(raw)
                /\ (p + (i + 1) - 1) + 1 = p + (i + 1)
            BY <1>3, <1>4, <2>3, <4>1 DEF l
          <5>2. At(p + (i + 1) - 1) = v[i + 1]
            BY <1>3, <5>1
          <5>3. At(p + (i + 1) - 1) = raw[p + (i + 1)]
            BY <5>1 DEF At
          <5>4. s[i] = raw[l + i - 1]
            BY <4>1, <4>4
          <5>5. QED
            BY <5>1, <5>2, <5>3, <5>4
        <4>6. QED
          BY <4>1, <4>4, <4>5
      <3> HIDE DEF s
      <3>3. CASE Len(v) = 3
        <4>1. Len(s) = 2 /\ s[1] = v[2] /\ s[2] = v[3]
          BY <3>2, <3>3
        <4>2. Value(s) = n
          BY <1>1, <3>3, <4>1 DEF Value
        <4>3. QED
          BY <1>1, <2>2, <2>4, <3>3, <4>2
      <3>4. CASE Len(v) = 5
        <4>1. Len(s) = 4 /\ s[1] = v[2] /\ s[2] = v[3] /\ s[3] = v[4] /\ s[4] = v[5]
          BY <3>2, <3>4
        <4>2. v[5] = 0 /\ \A i \in 4..4 : i = 4
          BY <1>1, <3>4
        <4>3. Value(s) = n
          BY <1>1, <3>4, <4>1, <4>2, SMT DEF Value
        <4>4. QED
          BY <1>1, <2>2, <2>4, <3>4, <4>3
      <3>5. QED
        BY <1>1, <3>1, <3>3, <3>4
    <2>6. QED
      BY <1>3, <2>3, <2>4, <2>5
  <1>8. QED
    BY <1>6, <1>7 DEF v

LEMMA TakeFits ==
  ASSUME raw \in Seq(Byte), Fits, NEW p, NEW a \in Seq(Byte), NEW rest \in Seq(Byte),
         Ahead(Whole, p, a \o rest), NEW n, n = Len(a)
  PROVE  /\ raw = Whole => Take(p, n) # Bad
         /\ Take(p, n) # Bad => /\ Take(p, n) = p + n /\ Take(p, n) <= Len(raw)
                                /\ Ahead(Whole, Take(p, n), rest) /\ Slice(p, Take(p, n)) = a
  <1>1. p \in Nat /\ n \in Nat
    BY ByteFits
  <1>2. p # Bad /\ p \in Nat /\ n \in Nat /\ Len(raw) \in Nat
    BY <1>1 DEF Bad
  <1>3. ASSUME raw = Whole PROVE Take(p, n) # Bad
    <2>1. p + n <= Len(raw)
      BY <1>3, ByteFits
    <2>2. Take(p, n) = p + n /\ p + n # Bad
      BY <1>2, <2>1 DEF Take, Bad
    <2>3. QED
      BY <2>2
  <1>4. ASSUME Take(p, n) # Bad
        PROVE  /\ Take(p, n) = p + n /\ Take(p, n) <= Len(raw)
               /\ Ahead(Whole, Take(p, n), rest) /\ Slice(p, Take(p, n)) = a
    <2>1. Take(p, n) = p + n /\ Take(p, n) <= Len(raw)
      BY <1>2, <1>4 DEF Take
    <2>2. Ahead(Whole, Take(p, n), rest)
      BY <2>1, ByteFits
    <2>3. QED
      BY <2>1, <2>2, SpanFits
  <1>5. QED
    BY <1>3, <1>4

LEMMA CountFits ==
  ASSUME raw \in Seq(Byte), Fits, NEW p, NEW n \in Nat, n < TooLong, NEW rest \in Seq(Byte),
         Ahead(Whole, p, VarInt(n) \o rest), NEW m \in {1, 9, 41}
  PROVE  /\ raw = Whole /\ n * m <= Len(rest) => Count(p, m).next # Bad
         /\ Count(p, m).next # Bad => /\ Count(p, m).value = n /\ Count(p, m) = Varint(p)
                                      /\ Count(p, m).next = p + Len(VarInt(n))
                                      /\ Count(p, m).next <= Len(raw)
                                      /\ Ahead(Whole, Count(p, m).next, rest)
  <1>1. /\ raw = Whole => HasVarint(p)
        /\ HasVarint(p) => /\ Varint(p).value = n /\ Varint(p).next = p + Len(VarInt(n))
                           /\ Ahead(Whole, Varint(p).next, rest) /\ Varint(p).next <= Len(raw)
    BY VarintFits
  <1>2. ASSUME raw = Whole, n * m <= Len(rest) PROVE Count(p, m).next # Bad
    <2> DEFINE q == Varint(p).next
               k == Len(rest)
    <2>1. HasVarint(p) /\ Varint(p).value = n /\ Ahead(Whole, q, rest)
      BY <1>1, <1>2
    <2>2. q \in Nat /\ Len(raw) = q + k /\ k \in Nat
      BY <1>2, <2>1 DEF Ahead
    <2> HIDE DEF q, k
    <2>3. Len(raw) - q = k
      BY <2>2
    <2>4. n * m <= k
      BY <1>2 DEF k
    <2>5. Count(p, m) = Varint(p)
      BY <2>1, <2>3, <2>4 DEF Count, q
    <2>6. QED
      BY <2>2, <2>5 DEF q, Bad
  <1>3. ASSUME Count(p, m).next # Bad PROVE HasVarint(p) /\ Count(p, m) = Varint(p)
    BY <1>3 DEF Count
  <1>4. QED
    BY <1>1, <1>2, <1>3

LEMMA ItemFits ==
  ASSUME raw \in Seq(Byte), Fits, NEW p, NEW s \in Some(Byte), NEW rest \in Seq(Byte),
         Ahead(Whole, p, Item(s) \o rest)
  PROVE  /\ raw = Whole => ItemEnd(p) # Bad
         /\ ItemEnd(p) # Bad => /\ Ahead(Whole, ItemEnd(p), rest) /\ ItemEnd(p) <= Len(raw)
                                /\ Slice(Varint(p).next, ItemEnd(p)) = s
  <1> DEFINE n == Len(s)
             v == VarInt(n)
             c == Count(p, 1)
  <1>1. s \in Seq(Byte) /\ n \in Nat /\ n < TooLong /\ v \in Seq(Byte)
    BY ItemBytes, VarIntBytes
  <1>2. Item(s) \o rest = v \o (s \o rest)
    <2>1. Item(s) = v \o s
      BY DEF Item
    <2> HIDE DEF v
    <2>2. (v \o s) \o rest = v \o (s \o rest)
      BY <1>1, BytesAssoc
    <2>3. QED
      BY <2>1, <2>2
  <1>3. s \o rest \in Seq(Byte) /\ Len(s \o rest) = n + Len(rest) /\ Len(rest) \in Nat
    BY <1>1, BytesJoin
  <1>4. n * 1 <= Len(s \o rest)
    <2> HIDE DEF n
    <2>1. QED
      BY <1>1, <1>3
  <1>5. Ahead(Whole, p, VarInt(n) \o (s \o rest))
    BY <1>2
  <1>6. /\ raw = Whole => c.next # Bad
        /\ c.next # Bad => c.value = n /\ c = Varint(p) /\ Ahead(Whole, c.next, s \o rest)
    <2> DEFINE r == s \o rest
    <2>1. r \in Seq(Byte) /\ n * 1 <= Len(r) /\ Ahead(Whole, p, VarInt(n) \o r)
      BY <1>3, <1>4, <1>5
    <2> HIDE DEF r, n
    <2>2. 1 \in {1, 9, 41}
      OBVIOUS
    <2>3. QED
      BY <1>1, <2>1, <2>2, CountFits DEF r
  <1>7. ItemEnd(p) = IF c.next = Bad THEN Bad ELSE Take(c.next, c.value)
    BY DEF ItemEnd
  <1> HIDE DEF c
  <1>8. ASSUME c.next # Bad
        PROVE  /\ raw = Whole => Take(c.next, n) # Bad
               /\ Take(c.next, n) # Bad => /\ Take(c.next, n) <= Len(raw)
                                           /\ Ahead(Whole, Take(c.next, n), rest)
                                           /\ Slice(c.next, Take(c.next, n)) = s
    <2>1. Ahead(Whole, c.next, s \o rest)
      BY <1>6, <1>8
    <2>2. QED
      BY <1>1, <2>1, TakeFits
  <1>9. QED
    BY <1>6, <1>7, <1>8

-----------------------------------------------------------------------------
(* Reading whatever arrived: the cursor goes forward, within the buffer. *)

LEMMA SliceType ==
  ASSUME raw \in Seq(Byte), NEW p \in Nat, NEW q \in Nat, q <= Len(raw)
  PROVE  /\ Slice(p, q) \in Seq(Byte)
         /\ Len(Slice(p, q)) = IF p <= q THEN q - p ELSE 0
         /\ \A i \in 1..q - p : Slice(p, q)[i] = raw[p + i]
  <1>1. p + 1 \in Int /\ q \in Int /\ Len(raw) \in Nat
    OBVIOUS
  <1>2. \A i \in p + 1..q : raw[i] \in Byte
    BY <1>1
  <1> DEFINE l == p + 1
             s == SubSeq(raw, l, q)
  <1>3. l \in Int /\ \A i \in l..q : raw[i] \in Byte
    BY <1>1, <1>2
  <1> HIDE DEF l
  <1>4. /\ s \in Seq(Byte) /\ Len(s) = (IF l <= q THEN q - l + 1 ELSE 0)
        /\ \A i \in 1..q - l + 1 : s[i] = raw[l + i - 1]
    BY <1>1, <1>3, SubSeqProperties
  <1>5. /\ q - l + 1 = q - p /\ (l <= q => p <= q) /\ (p <= q /\ ~(l <= q) => q - p = 0)
        /\ \A i \in 1..q - p : l + i - 1 = p + i
    BY DEF l
  <1>6. Slice(p, q) = s
    BY DEF Slice, l
  <1> HIDE DEF s
  <1>7. QED
    BY <1>4, <1>5, <1>6

LEMMA TakeForward ==
  ASSUME raw \in Seq(Byte), NEW p \in Nat \cup {Bad}, NEW n \in Nat, Take(p, n) # Bad
  PROVE  p \in Nat /\ Take(p, n) = p + n /\ Take(p, n) \in Nat /\ Take(p, n) <= Len(raw)
  BY DEF Take, Bad

LEMMA VarintForward ==
  ASSUME raw \in Seq(Byte), NEW p \in Nat \cup {Bad}, HasVarint(p)
  PROVE  /\ p \in Nat /\ Varint(p).value \in Nat /\ Varint(p).next \in Nat
         /\ p < Varint(p).next /\ Varint(p).next <= Len(raw)
  <1>1. p \in Nat /\ p < Len(raw) /\ p + 1 + Extra(At(p)) <= Len(raw) /\ Len(raw) \in Nat
    BY DEF HasVarint, Bad
  <1>2. At(p) \in Byte
    <2>1. p + 1 \in 1..Len(raw)
      BY <1>1
    <2>2. QED
      BY <2>1 DEF At
  <1>3. At(p) \in Nat
    <2> DEFINE a == At(p)
    <2> HIDE DEF a
    <2>1. a \in Byte
      BY <1>2 DEF a
    <2>2. a \in Nat
      BY <2>1 DEF Byte
    <2>3. QED
      BY <2>2 DEF a
  <1>4. Extra(At(p)) \in {0, 2, 4, 8} /\ (Extra(At(p)) = 0 => At(p) < 253)
    BY <1>3 DEF Extra
  <1> DEFINE next == p + 1 + Extra(At(p))
             s == Slice(p + 1, next)
             x == Extra(At(p))
  <1>5. next \in Nat /\ p < next /\ next <= Len(raw)
    BY <1>1, <1>4
  <1>6. Varint(p).next = next /\ Varint(p).value = IF At(p) < 253 THEN At(p) ELSE Value(s)
    BY DEF Varint
  <1>7. ASSUME ~(At(p) < 253) PROVE Value(s) \in Nat
    <2>1. x \in {2, 4, 8} /\ p + 1 \in Nat /\ p + 1 <= next /\ next - (p + 1) = x
      BY <1>1, <1>4, <1>7
    <2> HIDE DEF next, x
    <2>2. s \in Seq(Byte) /\ Len(s) = next - (p + 1)
      BY <1>5, <2>1, SliceType
    <2> HIDE DEF s
    <2>3. Len(s) \in {2, 4, 8} /\ \A i \in 1..Len(s) : s[i] \in Nat
      <3>1. \A i \in 1..Len(s) : s[i] \in Byte
        BY <2>2
      <3>2. \A i \in 1..Len(s) : s[i] \in Nat
        <4>1. Byte \subseteq Nat
          BY DEF Byte
        <4>2. QED
          BY <3>1, <4>1
      <3>3. QED
        BY <2>1, <2>2, <3>2
    <2>4. s[1] \in Nat /\ s[2] \in Nat /\ (Len(s) # 2 => s[3] \in Nat)
      BY <2>3
    <2>5. TooLong \in Nat
      BY SMT DEF TooLong
    <2>6. QED
      BY <2>3, <2>4, <2>5 DEF Value
  <1>8. QED
    BY <1>1, <1>3, <1>5, <1>6, <1>7

LEMMA CountForward ==
  ASSUME raw \in Seq(Byte), NEW p \in Nat \cup {Bad}, NEW m, Count(p, m).next # Bad
  PROVE  /\ p \in Nat /\ Count(p, m) = Varint(p)
         /\ Count(p, m).value \in Nat /\ Count(p, m).next \in Nat
         /\ p < Count(p, m).next /\ Count(p, m).next <= Len(raw)
  <1>1. HasVarint(p) /\ Count(p, m) = Varint(p)
    BY DEF Count
  <1>2. QED
    BY <1>1, VarintForward

LEMMA ItemForward ==
  ASSUME raw \in Seq(Byte), NEW p \in Nat \cup {Bad}, ItemEnd(p) # Bad
  PROVE  /\ p \in Nat /\ ItemEnd(p) \in Nat /\ Varint(p).next \in Nat
         /\ p < Varint(p).next /\ Varint(p).next <= ItemEnd(p) /\ ItemEnd(p) <= Len(raw)
  <1> DEFINE c == Count(p, 1)
  <1>1. c.next # Bad /\ Take(c.next, c.value) # Bad /\ ItemEnd(p) = Take(c.next, c.value)
    BY DEF ItemEnd
  <1>2. /\ p \in Nat /\ c = Varint(p) /\ c.value \in Nat /\ c.next \in Nat /\ p < c.next
    BY <1>1, CountForward
  <1>3. ItemEnd(p) = c.next + c.value /\ ItemEnd(p) <= Len(raw)
    <2> HIDE DEF c
    <2>1. QED
      BY <1>1, <1>2, TakeForward
  <1> HIDE DEF c
  <1>4. QED
    BY <1>2, <1>3

-----------------------------------------------------------------------------
(* What is sent, and what arrives of it. *)

Record ==
  [start : Nat, has_witness : BOOLEAN, n_in : Nat, n_out : Nat, inputs : Seq(Seq(Byte)),
   outputs : Seq(Seq(Byte)), witness_start : Nat, stacks : Nat, items : Nat]
Result ==
  [txid : Seq(Byte), inputs : Seq(Seq(Byte)), outputs : Seq(Seq(Byte)),
   is_coinbase : BOOLEAN, has_witness : BOOLEAN]
Reading == {"inputs", "outputs", "witness"}

Sending ==
  /\ topic \in {"rawblock", "rawtx"} /\ sent \in Seq(Transactions)
  /\ Len(sent) \in Nat \ {0} /\ Len(sent) < TooLong /\ (topic = "rawtx" => Len(sent) = 1)

Shape ==
  /\ Sending
  /\ raw \in Seq(Byte)
  /\ pc \in {"header", "tx"} \cup Reading \cup Ends
  /\ pos \in Nat /\ pos <= Len(raw)
  /\ count \in Nat
  /\ txs \in Seq(Result)
  /\ pc \in Reading => tx \in Record /\ tx.start <= pos
  /\ pc = "witness" => tx.witness_start <= pos

LEMMA HeaderBytes == Zeros(HEADER_SIZE) \in Seq(Byte) /\ Len(Zeros(HEADER_SIZE)) = 80 /\ HEADER_SIZE = 80
  <1>1. HEADER_SIZE = 80
    BY DEF HEADER_SIZE
  <1>2. Zeros(80) \in Seq(Byte) /\ Len(Zeros(80)) = 80
    <2>1. Zeros(80) = [i \in 1..80 |-> 0]
      BY DEF Zeros
    <2>2. 0 \in Byte
      BY DEF Byte
    <2> DEFINE n == 80
               f == [i \in 1..n |-> 0]
    <2>3. Zeros(80) = f /\ n \in Nat /\ n = 80
      BY <2>1
    <2> HIDE DEF n
    <2>4. f \in Seq(Byte) /\ Len(f) = n
      BY <2>2, <2>3
    <2> HIDE DEF f
    <2>5. QED
      BY <2>3, <2>4
  <1>3. QED
    BY <1>1, <1>2

LEMMA AheadAll ==
  ASSUME NEW W \in Seq(Byte)
  PROVE  Ahead(W, 0, W)
  BY DEF Ahead

LEMMA MessageAhead ==
  ASSUME Sending
  PROVE  /\ Whole \in Seq(Byte)
         /\ topic = "rawtx" => Ahead(Whole, 0, AtTx(sent, 1))
         /\ topic = "rawblock" => Ahead(Whole, HEADER_SIZE, VarInt(Len(sent)) \o AtTx(sent, 1))
  <1>1. /\ sent \in Seq(Transactions) /\ Len(sent) \in Nat \ {0} /\ Len(sent) < TooLong
        /\ topic \in {"rawblock", "rawtx"} /\ (topic = "rawtx" => Len(sent) = 1)
    BY DEF Sending
  <1>2. FlattenSeq(Wires(sent)) = AtTx(sent, 1) /\ AtTx(sent, 1) \in Seq(Byte)
    <2>1. 1 \in 1..Len(sent) + 1
      BY <1>1
    <2>2. QED
      BY <1>1, <2>1, TxAhead
  <1>3. CASE topic = "rawtx"
    <2>1. Whole = Wire(sent[1])
      BY <1>3 DEF Whole, Message
    <2>2. 1 \in 1..Len(sent) /\ AtTx(sent, 2) = << >>
      <3>1. Len(sent) = 1
        BY <1>1, <1>3
      <3>2. 1 \in 1..Len(sent) /\ Len(sent) + 1 = 2
        BY <3>1
      <3>3. AtTx(sent, Len(sent) + 1) = << >>
        BY <1>1, TxAhead
      <3>4. QED
        BY <3>2, <3>3
    <2>3. AtTx(sent, 1) = Wire(sent[1]) \o AtTx(sent, 1 + 1) /\ sent[1] \in Transactions
      BY <1>1, <2>2, TxAhead
    <2>4. Wire(sent[1]) \in Seq(Byte)
      BY <2>3, WireBytes
    <2>5. AtTx(sent, 1) = Wire(sent[1])
      BY <2>2, <2>3, <2>4, BytesEmpty
    <2>6. QED
      BY <1>3, <2>1, <2>4, <2>5, AheadAll
  <1>4. CASE topic = "rawblock"
    <2> DEFINE h == Zeros(HEADER_SIZE)
               v == VarInt(Len(sent))
               r == AtTx(sent, 1)
    <2>1. Whole = (h \o v) \o FlattenSeq(Wires(sent))
      <3>1. Whole = Serialised(sent)
        BY <1>4 DEF Whole, Message
      <3>2. Serialised(sent) = (h \o v) \o FlattenSeq(Wires(sent))
        BY DEF Serialised, Wires
      <3>3. QED
        BY <3>1, <3>2
    <2>2. h \in Seq(Byte) /\ Len(h) = HEADER_SIZE /\ v \in Seq(Byte) /\ r \in Seq(Byte)
      <3>1. v \in Seq(Byte)
        <4> DEFINE n == Len(sent)
        <4>1. n \in Nat /\ n < TooLong
          BY <1>1
        <4> HIDE DEF n
        <4>2. VarInt(n) \in Seq(Byte)
          BY <4>1, VarIntBytes
        <4>3. QED
          BY <4>2 DEF n
      <3>2. QED
        BY <1>2, <3>1, HeaderBytes
    <2>3. Whole = (h \o v) \o r
      BY <1>2, <2>1
    <2> HIDE DEF h, v, r
    <2>4. (h \o v) \o r = h \o (v \o r)
      BY <2>2, BytesAssoc
    <2>5. v \o r \in Seq(Byte)
      BY <2>2, BytesJoin
    <2> DEFINE x == v \o r
    <2> HIDE DEF x
    <2>6. h \o x \in Seq(Byte) /\ x \in Seq(Byte)
      BY <2>2, <2>5, BytesJoin DEF x
    <2>7. Ahead(h \o x, 0, h \o x)
      BY <2>6, AheadAll
    <2>8. Ahead(h \o x, 0 + Len(h), x)
      BY <2>2, <2>6, <2>7, AheadStep
    <2>9. 0 + Len(h) = HEADER_SIZE
      BY <2>2, HeaderBytes
    <2>10. QED
      BY <1>4, <2>3, <2>4, <2>6, <2>8, <2>9 DEF x, v, r
  <1>5. QED
    BY <1>1, <1>3, <1>4

LEMMA SentByInit == ASSUME Init PROVE Sending
  <1>1. \A b \in Blocks : /\ b \in Seq(Transactions) /\ Len(b) < TooLong /\ Len(b) \in Nat \ {0}
    <2> SUFFICES ASSUME NEW b \in Blocks
                 PROVE  b \in Seq(Transactions) /\ Len(b) < TooLong /\ Len(b) \in Nat \ {0}
      OBVIOUS
    <2>1. b \in Some(Transactions) /\ b # << >>
      BY ParserAssumption
    <2>2. b \in Seq(Transactions) /\ Len(b) < TooLong
      BY <2>1 DEF Some
    <2>3. QED
      BY <2>1, <2>2, EmptySeq
  <1>2. CASE topic = "rawblock" /\ sent \in Blocks
    BY <1>1, <1>2 DEF Sending
  <1>3. CASE topic = "rawtx" /\ sent \in {<<t>> : t \in UNION {ToSet(b) : b \in Blocks}}
    <2>1. PICK b \in Blocks : \E t \in ToSet(b) : sent = <<t>>
      BY <1>3
    <2>2. PICK t \in ToSet(b) : sent = <<t>>
      BY <2>1
    <2>3. t \in Transactions
      BY <1>1 DEF ToSet
    <2>4. sent \in Seq(Transactions) /\ Len(sent) = 1
      BY <2>2, <2>3
    <2>5. 1 < TooLong
      BY SMT DEF TooLong
    <2>6. QED
      BY <1>3, <2>4, <2>5 DEF Sending
  <1>4. QED
    BY <1>2, <1>3 DEF Init

LEMMA ReceivedBytes ==
  ASSUME Sending, raw \in Received(topic, sent)
  PROVE  raw \in Seq(Byte)
  <1> DEFINE W == Message(topic, sent)
  <1>1. W \in Seq(Byte)
    BY MessageAhead DEF Whole
  <1>2. \/ raw = W \/ raw \in Cut(W) \/ raw \in Followed(W) \/ raw \in Damaged(topic, W)
        \/ \E n \in LongCounts : raw \in LongStart(n)
    BY DEF Received
  <1> HIDE DEF W
  <1>3. CASE raw \in Cut(W)
    BY <1>1, <1>3 DEF Cut
  <1>4. CASE raw \in Followed(W)
    <2>1. PICK more \in Trailing : raw = W \o more
      BY <1>4 DEF Followed
    <2>2. more \in Seq(Byte)
      BY ParserAssumption
    <2>3. QED
      BY <1>1, <2>1, <2>2
  <1>5. CASE raw \in Damaged(topic, W)
    <2> DEFINE at == IF topic = "rawtx" THEN 1..Len(W) ELSE HEADER_SIZE + 1..Len(W)
    <2>1. at \subseteq 1..Len(W)
      BY <1>1, HeaderBytes
    <2> HIDE DEF at
    <2>2. raw \in {[W EXCEPT ![i] = v] : i \in at, v \in Overwrites}
      BY <1>5 DEF Damaged, at
    <2>3. PICK i \in at : \E v \in Overwrites : raw = [W EXCEPT ![i] = v]
      BY <2>2
    <2>4. PICK v \in Overwrites : raw = [W EXCEPT ![i] = v]
      BY <2>3
    <2>5. v \in Byte /\ i \in 1..Len(W)
      BY <2>1, ParserAssumption
    <2>6. QED
      BY <1>1, <2>4, <2>5
  <1>6. CASE \E n \in LongCounts : raw \in LongStart(n)
    <2>1. PICK n \in LongCounts : raw \in LongStart(n)
      BY <1>6
    <2>2. PICK k \in HEADER_SIZE + 1..HEADER_SIZE + Len(VarInt(n)) :
                 raw = SubSeq(Zeros(HEADER_SIZE) \o VarInt(n), 1, k)
      BY <2>1 DEF LongStart
    <2>3. n \in Nat /\ n < TooLong
      BY ParserAssumption
    <2>4. VarInt(n) \in Seq(Byte)
      BY <2>3, VarIntBytes
    <2> DEFINE h == Zeros(HEADER_SIZE)
               v == VarInt(n)
               x == h \o v
    <2>5. x \in Seq(Byte) /\ Len(x) = HEADER_SIZE + Len(v)
      <3>1. h \in Seq(Byte) /\ Len(h) = HEADER_SIZE
        BY HeaderBytes
      <3> HIDE DEF h, v
      <3>2. h \o v \in Seq(Byte) /\ Len(h \o v) = Len(h) + Len(v)
        BY <2>4, <3>1, BytesJoin DEF v
      <3>3. QED
        BY <3>1, <3>2
    <2> HIDE DEF x, v
    <2>6. k \in 1..Len(x) /\ raw = SubSeq(x, 1, k)
      BY <2>2, <2>5, HeaderBytes DEF x, v
    <2>7. QED
      BY <2>5, <2>6
  <1>7. QED
    BY <1>1, <1>2, <1>3, <1>4, <1>5, <1>6

LEMMA InitShape == ASSUME Init PROVE Shape
  <1>1. Sending /\ raw \in Seq(Byte)
    BY SentByInit, ReceivedBytes DEF Init
  <1>2. pos = 0 /\ txs = << >> /\ pc \in {"header", "tx"} /\ count \in {0, 1}
    BY DEF Init
  <1>3. Len(raw) \in Nat
    BY <1>1
  <1>4. QED
    BY <1>1, <1>2, <1>3 DEF Shape, Reading

LEMMA InitTracks == ASSUME Init PROVE Tracks
  <1>1. Sending
    BY SentByInit
  <1>2. /\ pos = 0 /\ txs = << >>
        /\ \/ topic = "rawblock" /\ pc = "header" /\ count = 0
           \/ topic = "rawtx" /\ pc = "tx" /\ count = 1
    BY DEF Init
  <1>3. topic = "rawtx" => Ahead(Whole, 0, AtTx(sent, 1)) /\ Len(sent) = 1
    BY <1>1, MessageAhead DEF Sending
  <1>4. CASE topic = "rawblock" /\ pc = "header"
    BY <1>2, <1>4 DEF Tracks
  <1>5. CASE topic = "rawtx" /\ pc = "tx" /\ count = 1
    <2>1. Number = 1
      BY <1>2 DEF Number
    <2>2. Ahead(Whole, pos, AtTx(sent, Number))
      BY <1>2, <1>3, <1>5, <2>1
    <2>3. Done
      BY <1>2, <1>3, <1>5 DEF Done
    <2>4. QED
      BY <1>5, <2>2, <2>3 DEF Tracks
  <1>6. QED
    BY <1>2, <1>4, <1>5

LEMMA InitTiles == ASSUME Init PROVE Tiles
  <1>1. raw \in Seq(Byte) /\ Len(raw) \in Nat
    BY SentByInit, ReceivedBytes DEF Init
  <1>2. /\ pos = 0 /\ txs = << >>
        /\ \/ topic = "rawblock" /\ pc = "header" /\ count = 0
           \/ topic = "rawtx" /\ pc = "tx" /\ count = 1
    BY DEF Init
  <1>3. CASE pc = "header"
    BY <1>1, <1>2, <1>3 DEF Tiles
  <1>4. CASE topic = "rawtx" /\ pc = "tx" /\ count = 1
    <2>1. Declared = [value |-> 1, next |-> 0]
      BY <1>4 DEF Declared
    <2>2. Slice(0, 0) = << >>
      <3>1. Slice(0, 0) \in Seq(Byte) /\ Len(Slice(0, 0)) = 0
        BY <1>1, SliceType
      <3>2. QED
        BY <3>1, EmptySeq
    <2>3. FlattenSeq(Txids) = << >>
      <3>1. Txids = << >>
        BY <1>2 DEF Txids
      <3>2. QED
        BY <3>1 DEF FlattenSeq
    <2>4. Tiled(pos)
      BY <1>2, <1>4, <2>1, <2>2, <2>3 DEF Tiled
    <2>5. Len(txs) <= count
      BY <1>2, <1>4
    <2>6. QED
      BY <1>1, <1>2, <1>4, <2>4, <2>5 DEF Tiles
  <1>5. QED
    BY <1>2, <1>3, <1>4

-----------------------------------------------------------------------------
(* What holds whatever arrived: the shape of the state, and that what was read *)
(* lies end to end.                                                            *)

Still == UNCHANGED <<topic, sent, raw>>

LEMMA StillHolds ==
  ASSUME Still
  PROVE  /\ Declared' = Declared /\ Whole' = Whole /\ (Fits' <=> Fits) /\ (Sending' <=> Sending)
         /\ topic' = topic /\ sent' = sent /\ raw' = raw
         /\ \A p, q : Slice(p, q)' = Slice(p, q)
  <1>1. topic' = topic /\ sent' = sent /\ raw' = raw
    BY DEF Still
  <1>2. Declared' = Declared
    BY <1>1 DEF Declared, Varint, At, Slice
  <1>3. Whole' = Whole
    BY <1>1 DEF Whole
  <1>4. Fits' <=> Fits
    BY <1>1, <1>3 DEF Fits
  <1>5. Sending' <=> Sending
    BY <1>1 DEF Sending
  <1>6. \A p, q : Slice(p, q)' = Slice(p, q)
    BY <1>1 DEF Slice
  <1>7. QED
    BY <1>1, <1>2, <1>3, <1>4, <1>5, <1>6

LEMMA MalformedSafe ==
  ASSUME Shape, Tiles, pc' \in {"malformed", "struct.error"}, UNCHANGED <<pos, count, tx, txs>>, Still
  PROVE  Shape' /\ Tiles'
  <1>1. Shape'
    BY StillHolds DEF Shape, Reading, Ends
  <1>2. Tiles'
    BY DEF Tiles
  <1>3. QED
    BY <1>1, <1>2

LEMMA ReadHeaderSafe == ASSUME Shape, Tiles, ReadHeader, Still PROVE Shape' /\ Tiles'
  <1> DEFINE n == Varint(HEADER_SIZE)
  <1>1. CASE Malformed \/ (pc' = "struct.error" /\ UNCHANGED <<pos, count, tx, txs>>)
    BY <1>1, MalformedSafe DEF Malformed
  <1>2. CASE /\ HasVarint(HEADER_SIZE)
             /\ count' = n.value /\ pos' = n.next /\ pc' = "tx" /\ UNCHANGED <<tx, txs>>
    <2>1. raw \in Seq(Byte) /\ HEADER_SIZE \in Nat \cup {Bad}
      BY HeaderBytes DEF Shape
    <2>2. n.value \in Nat /\ n.next \in Nat /\ n.next <= Len(raw)
      BY <1>2, <2>1, VarintForward
    <2>3. topic = "rawblock" /\ txs = << >>
      BY DEF Tiles, ReadHeader
    <2>4. Declared = n
      BY <2>3 DEF Declared
    <2> HIDE DEF n
    <2>5. Shape'
      BY <1>2, <2>2, StillHolds DEF Shape, Reading
    <2>6. SubSeq(raw, n.next + 1, n.next) = << >>
      <3> DEFINE q == n.next
      <3>1. q \in Nat /\ q <= Len(raw) /\ q <= q /\ q - q = 0
        BY <2>2
      <3> HIDE DEF q
      <3>2. Slice(q, q) \in Seq(Byte) /\ Len(Slice(q, q)) = 0
        BY <2>1, <3>1, SliceType
      <3>3. Slice(q, q) = << >>
        BY <3>2, EmptySeq
      <3>4. QED
        BY <3>3 DEF Slice, q
    <2>7. FlattenSeq(Txids') = << >>
      <3>1. Txids' = << >>
        BY <1>2, <2>3 DEF Txids
      <3>2. QED
        BY <3>1 DEF FlattenSeq
    <2>8. Tiled(pos)'
      <3>1. Declared' = n /\ raw' = raw
        BY <2>4, StillHolds
      <3>2. /\ count' = Declared'.value /\ pos' = Declared'.next /\ Declared'.next <= pos'
            /\ Declared'.next \in Nat
        BY <1>2, <2>2, <3>1
      <3>3. Slice(Declared.next, pos)' = << >>
        BY <1>2, <2>6, <3>1 DEF Slice
      <3>4. QED
        BY <2>7, <3>2, <3>3 DEF Tiled
    <2>9. Len(txs') <= count'
      BY <1>2, <2>2, <2>3
    <2>10. Tiles'
      BY <1>2, <2>8, <2>9 DEF Tiles
    <2>11. QED
      BY <2>5, <2>10
  <1>3. QED
    BY <1>1, <1>2 DEF ReadHeader

TiledNext(e) ==
  /\ count' = Declared'.value /\ Declared'.next \in Nat /\ Declared'.next <= e
  /\ (\A i \in DOMAIN txs' : ~txs'[i].has_witness) => FlattenSeq(Txids') = SubSeq(raw', Declared'.next + 1, e)

LEMMA Carried ==
  ASSUME Still, UNCHANGED <<count, txs>>, NEW e, Tiled(e)
  PROVE  TiledNext(e)
  <1>1. Declared' = Declared /\ raw' = raw /\ txs' = txs /\ count' = count
    BY StillHolds
  <1>2. Txids' = Txids
    BY <1>1 DEF Txids
  <1>3. QED
    BY <1>1, <1>2 DEF Tiled, TiledNext, Slice

(* A step inside of a transaction. *)
LEMMA InsideSafe ==
  ASSUME Shape, Tiles, Still, UNCHANGED <<count, txs>>, pc \in Reading, pc' \in Reading,
         tx' \in Record, tx'.start = tx.start, pos' \in Nat, pos <= pos', pos' <= Len(raw),
         pc' = "witness" => tx'.witness_start <= pos'
  PROVE  Shape' /\ Tiles'
  <1>1. tx.start <= pos /\ tx \in Record /\ pos \in Nat /\ tx.start \in Nat
    BY DEF Shape, Record
  <1>2. Shape'
    <2>1. tx'.start <= pos'
      BY <1>1
    <2>2. Sending' /\ raw' = raw
      BY StillHolds DEF Shape
    <2>3. QED
      BY <2>1, <2>2 DEF Shape, Reading
  <1>3. TiledNext(tx.start) /\ Len(txs) < count
    <2>1. Tiled(tx.start) /\ Len(txs) < count
      BY DEF Tiles, Reading
    <2>2. QED
      BY <2>1, Carried
  <1>4. Tiled(tx.start)'
    BY <1>3 DEF Tiled, TiledNext, Slice
  <1>5. QED
    BY <1>2, <1>3, <1>4 DEF Tiles, Reading

LEMMA BeginTxSafe == ASSUME Shape, Tiles, BeginTx, Still PROVE Shape' /\ Tiles'
  <1> DEFINE marked == Len(raw) >= pos + 6 /\ At(pos + 4) = 0
             from == Take(Take(pos, 4), IF marked THEN 2 ELSE 0)
             n == Count(from, 41)
  <1>1. CASE Malformed
    BY <1>1, MalformedSafe DEF Malformed
  <1>2. CASE /\ n.next # Bad
             /\ tx' = [start |-> pos, has_witness |-> marked, n_in |-> n.value, n_out |-> 0,
                       inputs |-> << >>, outputs |-> << >>, witness_start |-> 0,
                       stacks |-> 0, items |-> 0]
             /\ pos' = n.next /\ pc' = "inputs" /\ UNCHANGED <<count, txs>>
    <2>1. raw \in Seq(Byte) /\ pos \in Nat /\ pos <= Len(raw) /\ pc = "tx" /\ Len(txs) < count
      BY DEF Shape, BeginTx
    <2>2. Take(pos, 4) \in Nat \cup {Bad} /\ (Take(pos, 4) # Bad => pos <= Take(pos, 4))
      BY <2>1 DEF Take
    <2>3. from \in Nat \cup {Bad} /\ (from # Bad => Take(pos, 4) # Bad /\ Take(pos, 4) <= from)
      <3> HIDE DEF marked
      <3>1. (IF marked THEN 2 ELSE 0) \in Nat
        OBVIOUS
      <3>2. QED
        BY <2>2, <3>1 DEF Take, Bad
    <2>4. marked \in BOOLEAN
      OBVIOUS
    <2> HIDE DEF marked, from
    <2>5. n.value \in Nat /\ n.next \in Nat /\ from \in Nat /\ from < n.next /\ n.next <= Len(raw)
      BY <1>2, <2>1, <2>3, CountForward
    <2>6. pos <= n.next
      BY <2>1, <2>2, <2>3, <2>5 DEF Bad
    <2> HIDE DEF n
    <2>7. tx' \in Record /\ tx'.start = pos
      BY <1>2, <2>1, <2>4, <2>5 DEF Record
    <2>8. Shape'
      <3>1. Sending' /\ raw' = raw
        BY StillHolds DEF Shape
      <3>2. tx'.start <= pos' /\ pos' \in Nat /\ pos' <= Len(raw)
        BY <1>2, <2>5, <2>6, <2>7
      <3>3. QED
        BY <1>2, <2>7, <3>1, <3>2 DEF Shape, Reading
    <2>9. Tiled(tx.start)'
      <3>1. Tiled(pos)
        BY <2>1 DEF Tiles
      <3>2. TiledNext(pos)
        BY <1>2, <3>1, Carried
      <3>3. QED
        BY <2>7, <3>2 DEF Tiled, TiledNext, Slice
    <2>10. Tiles'
      BY <1>2, <2>1, <2>9 DEF Tiles
    <2>11. QED
      BY <2>8, <2>10
  <1>3. QED
    BY <1>1, <1>2 DEF BeginTx

LEMMA ReadInputSafe == ASSUME Shape, Tiles, ReadInput, Still PROVE Shape' /\ Tiles'
  <1> DEFINE at == Take(pos, 36)
             script == ItemEnd(at)
             end == Take(script, 4)
             last == Len(tx.inputs) + 1 = tx.n_in
             n == Count(end, 9)
             outpoint == Slice(pos, pos + 36)
  <1>1. CASE Malformed
    BY <1>1, MalformedSafe DEF Malformed
  <1>2. CASE /\ end # Bad /\ (last => n.next # Bad)
             /\ tx' = [tx EXCEPT !.inputs = Append(@, outpoint), !.n_out = IF last THEN n.value ELSE 0]
             /\ pos' = (IF last THEN n.next ELSE end)
             /\ pc' = (IF last THEN "outputs" ELSE "inputs") /\ UNCHANGED <<count, txs>>
    <2>1. raw \in Seq(Byte) /\ pos \in Nat /\ pos <= Len(raw) /\ pc = "inputs" /\ tx \in Record
      BY DEF Shape, ReadInput, Reading
    <2>2. at \in Nat \cup {Bad} /\ (at # Bad => at = pos + 36 /\ at <= Len(raw))
      BY <2>1 DEF Take
    <2> HIDE DEF at
    <2>3. script \in Nat \cup {Bad} /\ (script # Bad => at \in Nat /\ at < script)
      BY <2>1, <2>2, ItemForward
    <2> HIDE DEF script
    <2>4. script \in Nat /\ script # Bad /\ end = script + 4 /\ end \in Nat /\ end <= Len(raw)
      <3>1. Take(script, 4) # Bad
        BY <1>2
      <3>2. script \in Nat /\ end = script + 4 /\ end \in Nat /\ end <= Len(raw)
        BY <2>1, <2>3, <3>1, TakeForward
      <3>3. QED
        BY <3>2 DEF Bad
    <2>5. at # Bad /\ pos < end /\ pos + 36 <= Len(raw) /\ pos + 36 \in Nat
      BY <2>1, <2>2, <2>3, <2>4 DEF Bad
    <2> HIDE DEF end
    <2>6. last => n.value \in Nat /\ n.next \in Nat /\ end < n.next /\ n.next <= Len(raw)
      BY <1>2, <2>1, <2>4, CountForward
    <2>7. outpoint \in Seq(Byte)
      BY <2>1, <2>5, SliceType
    <2> HIDE DEF n, last, outpoint
    <2>8. pos' \in Nat /\ pos <= pos' /\ pos' <= Len(raw)
      BY <1>2, <2>1, <2>4, <2>5, <2>6
    <2>9. tx' \in Record /\ tx'.start = tx.start
      <3>1. (IF last THEN n.value ELSE 0) \in Nat
        BY <2>6
      <3>2. Append(tx.inputs, outpoint) \in Seq(Seq(Byte))
        BY <2>1, <2>7 DEF Record
      <3>3. QED
        BY <1>2, <2>1, <3>1, <3>2 DEF Record
    <2>10. pc \in Reading /\ pc' \in Reading /\ pc' # "witness"
      BY <1>2, <2>1 DEF Reading
    <2>11. QED
      BY <1>2, <2>8, <2>9, <2>10, InsideSafe
  <1>3. QED
    BY <1>1, <1>2 DEF ReadInput

LEMMA ReadOutputSafe == ASSUME Shape, Tiles, ReadOutput, Still PROVE Shape' /\ Tiles'
  <1> DEFINE at == Take(pos, 8)
             end == ItemEnd(at)
             script == Slice(Varint(pos + 8).next, end)
  <1>1. CASE Malformed
    BY <1>1, MalformedSafe DEF Malformed
  <1>2. CASE /\ end # Bad /\ tx' = [tx EXCEPT !.outputs = Append(@, script)]
             /\ pos' = end /\ UNCHANGED <<pc, count, txs>>
    <2>1. raw \in Seq(Byte) /\ pos \in Nat /\ pos <= Len(raw) /\ pc = "outputs" /\ tx \in Record
      BY DEF Shape, ReadOutput, Reading
    <2>2. at \in Nat \cup {Bad} /\ (at # Bad => at = pos + 8)
      BY <2>1 DEF Take
    <2> HIDE DEF at
    <2>3. at \in Nat /\ end \in Nat /\ Varint(at).next \in Nat /\ at < end /\ end <= Len(raw)
      <3>1. /\ at \in Nat /\ end \in Nat /\ Varint(at).next \in Nat
            /\ at < Varint(at).next /\ Varint(at).next <= end /\ end <= Len(raw)
        BY <1>2, <2>1, <2>2, ItemForward
      <3>2. QED
        BY <3>1
    <2>4. at = pos + 8
      BY <2>2, <2>3 DEF Bad
    <2> HIDE DEF end
    <2>5. script \in Seq(Byte)
      BY <2>1, <2>3, <2>4, SliceType
    <2> HIDE DEF script
    <2>6. tx' \in Record /\ tx'.start = tx.start
      <3>1. Append(tx.outputs, script) \in Seq(Seq(Byte))
        BY <2>1, <2>5 DEF Record
      <3>2. QED
        BY <1>2, <2>1, <3>1 DEF Record
    <2>7. pos' \in Nat /\ pos <= pos' /\ pos' <= Len(raw)
      BY <1>2, <2>1, <2>3, <2>4
    <2>8. pc \in Reading /\ pc' \in Reading /\ pc' # "witness"
      BY <1>2, <2>1 DEF Reading
    <2>9. QED
      BY <1>2, <2>6, <2>7, <2>8, InsideSafe
  <1>3. QED
    BY <1>1, <1>2 DEF ReadOutput

LEMMA EndOutputsSafe == ASSUME Shape, Tiles, EndOutputs, Still PROVE Shape' /\ Tiles'
  <1>1. /\ pos \in Nat /\ pos <= Len(raw) /\ pc = "outputs" /\ tx \in Record
        /\ tx' = [tx EXCEPT !.witness_start = pos, !.stacks = IF tx.has_witness THEN tx.n_in ELSE 0]
        /\ pc' = "witness" /\ UNCHANGED <<pos, count, txs>>
    BY DEF Shape, EndOutputs, Reading
  <1>2. tx' \in Record /\ tx'.start = tx.start /\ tx'.witness_start = pos
    <2>1. (IF tx.has_witness THEN tx.n_in ELSE 0) \in Nat
      BY <1>1 DEF Record
    <2>2. QED
      BY <1>1, <2>1 DEF Record
  <1>3. pc \in Reading /\ pc' \in Reading /\ pos' \in Nat /\ pos <= pos' /\ pos' <= Len(raw)
        /\ tx'.witness_start <= pos'
    BY <1>1, <1>2 DEF Reading
  <1>4. QED
    BY <1>1, <1>2, <1>3, InsideSafe

LEMMA ReadWitnessSafe == ASSUME Shape, Tiles, ReadWitness, Still PROVE Shape' /\ Tiles'
  <1> DEFINE n == Count(pos, 1)
             end == IF tx.items > 0 THEN ItemEnd(pos) ELSE n.next
  <1>1. CASE Malformed
    BY <1>1, MalformedSafe DEF Malformed
  <1>2. CASE /\ end # Bad
             /\ tx' = (IF tx.items > 0 THEN [tx EXCEPT !.items = @ - 1]
                       ELSE [tx EXCEPT !.stacks = @ - 1, !.items = n.value])
             /\ pos' = end /\ UNCHANGED <<pc, count, txs>>
    <2>1. raw \in Seq(Byte) /\ pos \in Nat /\ pos <= Len(raw) /\ pc = "witness" /\ tx \in Record
          /\ tx.items \in Nat /\ tx.stacks \in Nat /\ (tx.items > 0 \/ tx.stacks > 0)
          /\ tx.witness_start \in Nat /\ tx.witness_start <= pos
      BY DEF Shape, ReadWitness, Reading, Record
    <2>2. CASE tx.items > 0
      <3>1. end = ItemEnd(pos) /\ end \in Nat /\ pos < end /\ end <= Len(raw)
        <4>1. ItemEnd(pos) # Bad
          BY <1>2, <2>2
        <4> DEFINE e == ItemEnd(pos)
                   d == Varint(pos).next
        <4>2. pos < d /\ d <= e /\ d \in Nat /\ e \in Nat /\ e <= Len(raw)
          BY <2>1, <4>1, ItemForward
        <4> HIDE DEF e, d
        <4>3. pos < e
          BY <2>1, <4>2
        <4>4. QED
          BY <2>2, <4>2, <4>3 DEF e
      <3> HIDE DEF end
      <3>2. tx' = [tx EXCEPT !.items = @ - 1] /\ tx.items - 1 \in Nat
        BY <1>2, <2>1, <2>2
      <3>3. tx' \in Record /\ tx'.start = tx.start /\ tx'.witness_start = tx.witness_start
        BY <2>1, <3>2 DEF Record
      <3>4. pc \in Reading /\ pc' \in Reading /\ pos' \in Nat /\ pos <= pos' /\ pos' <= Len(raw)
            /\ tx'.witness_start <= pos'
        BY <1>2, <2>1, <3>1, <3>3 DEF Reading
      <3>5. QED
        BY <1>2, <3>3, <3>4, InsideSafe
    <2>3. CASE ~(tx.items > 0)
      <3>1. end = n.next /\ n.value \in Nat /\ end \in Nat /\ pos < end /\ end <= Len(raw)
        <4>1. Count(pos, 1).next # Bad
          BY <1>2, <2>3
        <4>2. QED
          BY <2>1, <2>3, <4>1, CountForward
      <3> HIDE DEF end, n
      <3>2. tx' = [tx EXCEPT !.stacks = @ - 1, !.items = n.value] /\ tx.stacks - 1 \in Nat
        BY <1>2, <2>1, <2>3
      <3>3. tx' \in Record /\ tx'.start = tx.start /\ tx'.witness_start = tx.witness_start
        BY <2>1, <3>1, <3>2 DEF Record
      <3>4. pc \in Reading /\ pc' \in Reading /\ pos' \in Nat /\ pos <= pos' /\ pos' <= Len(raw)
            /\ tx'.witness_start <= pos'
        BY <1>2, <2>1, <3>1, <3>3 DEF Reading
      <3>5. QED
        BY <1>2, <3>3, <3>4, InsideSafe
    <2>4. QED
      BY <2>2, <2>3
  <1>3. QED
    BY <1>1, <1>2 DEF ReadWitness

LEMMA SliceJoin ==
  ASSUME raw \in Seq(Byte), NEW d \in Nat, NEW s \in Nat, NEW e \in Nat, d <= s, s <= e, e <= Len(raw)
  PROVE  Slice(d, s) \o Slice(s, e) = Slice(d, e)
  <1> DEFINE a == Slice(d, s)
             b == Slice(s, e)
             c == Slice(d, e)
  <1>1. Len(raw) \in Nat /\ s <= Len(raw) /\ d <= e
    OBVIOUS
  <1>2. a \in Seq(Byte) /\ Len(a) = s - d /\ \A i \in 1..s - d : a[i] = raw[d + i]
    BY <1>1, SliceType
  <1>3. b \in Seq(Byte) /\ Len(b) = e - s /\ \A i \in 1..e - s : b[i] = raw[s + i]
    BY <1>1, SliceType
  <1>4. c \in Seq(Byte) /\ Len(c) = e - d /\ \A i \in 1..e - d : c[i] = raw[d + i]
    BY <1>1, SliceType
  <1> HIDE DEF a, b, c
  <1> DEFINE j == a \o b
  <1>5. /\ j \in Seq(Byte) /\ Len(j) = Len(a) + Len(b)
        /\ \A i \in 1..Len(a) + Len(b) : j[i] = IF i <= Len(a) THEN a[i] ELSE b[i - Len(a)]
    BY <1>2, <1>3, ConcatProperties
  <1> HIDE DEF j
  <1>6. Len(a) + Len(b) = e - d
    BY <1>2, <1>3
  <1>7. \A i \in 1..e - d : j[i] = IF i <= s - d THEN a[i] ELSE b[i - (s - d)]
    BY <1>2, <1>5, <1>6
  <1>8. ASSUME NEW i \in 1..e - d PROVE j[i] = c[i]
    <2>1. CASE i <= s - d
      BY <1>2, <1>4, <1>7, <2>1
    <2>2. CASE ~(i <= s - d)
      <3>1. i - (s - d) \in 1..e - s /\ s + (i - (s - d)) = d + i
        BY <2>2
      <3>2. b[i - (s - d)] = raw[d + i]
        BY <1>3, <3>1
      <3>3. QED
        BY <1>4, <1>7, <2>2, <3>2
    <2>3. QED
      BY <2>1, <2>2
  <1>9. j = c
    BY <1>4, <1>5, <1>6, <1>8, SeqEqual
  <1>10. QED
    BY <1>9 DEF j, a, b, c

LEMMA PreimageType ==
  ASSUME Shape, pc = "witness", NEW end \in Nat, pos <= end, tx.start + 4 <= end, end <= Len(raw)
  PROVE  Preimage(end) \in Seq(Byte) /\ Completed(end) \in Result
  <1>1. /\ raw \in Seq(Byte) /\ pos \in Nat /\ Len(raw) \in Nat /\ tx \in Record
        /\ tx.start \in Nat /\ tx.start <= pos /\ tx.witness_start \in Nat /\ tx.witness_start <= pos
    BY DEF Shape, Reading, Record
  <1> DEFINE s == tx.start
             w == tx.witness_start
  <1>2. s \in Nat /\ w \in Nat /\ s + 4 \in Nat /\ s + 6 \in Nat
        /\ s + 4 <= Len(raw) /\ w <= Len(raw) /\ s <= Len(raw)
    BY <1>1
  <1> HIDE DEF s, w
  <1>3. /\ Slice(s, end) \in Seq(Byte) /\ Slice(s, s + 4) \in Seq(Byte)
        /\ Slice(s + 6, w) \in Seq(Byte) /\ Slice(pos, end) \in Seq(Byte)
    BY <1>1, <1>2, SliceType
  <1>4. (Slice(s, s + 4) \o Slice(s + 6, w)) \o Slice(pos, end) \in Seq(Byte)
    <2>1. Slice(s, s + 4) \o Slice(s + 6, w) \in Seq(Byte)
      BY <1>3, BytesJoin
    <2>2. QED
      BY <1>3, <2>1, BytesJoin
  <1>5. Preimage(end) \in Seq(Byte)
    BY <1>3, <1>4 DEF Preimage, s, w
  <1>6. Completed(end) \in Result
    <2>1. << >> \in Seq(Seq(Byte)) /\ tx.inputs \in Seq(Seq(Byte)) /\ tx.outputs \in Seq(Seq(Byte))
          /\ tx.has_witness \in BOOLEAN
      BY <1>1 DEF Record
    <2> DEFINE is_coinbase == tx.inputs = <<Null>>
               ins == IF is_coinbase THEN << >> ELSE tx.inputs
    <2>2. ins \in Seq(Seq(Byte)) /\ is_coinbase \in BOOLEAN
      BY <2>1
    <2>3. Completed(end) = [txid |-> Preimage(end), inputs |-> ins, outputs |-> tx.outputs,
                            is_coinbase |-> is_coinbase, has_witness |-> tx.has_witness]
      BY DEF Completed
    <2> HIDE DEF is_coinbase, ins
    <2>4. QED
      BY <1>5, <2>1, <2>2, <2>3 DEF Result
  <1>7. QED
    BY <1>5, <1>6

(* Only a transaction that ends after it began, and it began by four bytes of version. *)
LEMMA EndTxSafe == ASSUME Shape, Tiles, EndTx, Still PROVE Shape' /\ Tiles'
  <1> DEFINE end == Take(pos, 4)
             r == Completed(end)
  <1>1. CASE Malformed
    BY <1>1, MalformedSafe DEF Malformed
  <1>2. CASE /\ end # Bad /\ txs' = Append(txs, r) /\ pos' = end /\ pc' = "tx" /\ tx' = << >>
             /\ UNCHANGED count
    <2>1. raw \in Seq(Byte) /\ pos \in Nat /\ pos <= Len(raw) /\ pc = "witness" /\ tx \in Record
          /\ txs \in Seq(Result) /\ tx.start \in Nat /\ tx.start <= pos
      BY DEF Shape, EndTx, Reading, Record
    <2>2. end = pos + 4 /\ end \in Nat /\ end <= Len(raw)
      BY <1>2, <2>1, TakeForward
    <2> HIDE DEF end
    <2>3. pos <= end /\ tx.start + 4 <= end /\ tx.start <= end
      BY <2>1, <2>2
    <2>4. r \in Result /\ Preimage(end) \in Seq(Byte)
      BY <2>1, <2>2, <2>3, PreimageType
    <2>5. r.txid = Preimage(end) /\ r.has_witness = tx.has_witness
      BY DEF Completed
    <2> HIDE DEF r
    <2>6. Shape'
      <3>1. Sending' /\ raw' = raw
        BY StillHolds DEF Shape
      <3>2. txs' \in Seq(Result)
        BY <1>2, <2>1, <2>4
      <3>3. QED
        BY <1>2, <2>2, <3>1, <3>2 DEF Shape, Reading
    <2>7. Tiled(tx.start) /\ Len(txs) < count
      BY <2>1 DEF Tiles, Reading
    <2> DEFINE n == Len(txs)
               d == Declared.next
               s == tx.start
    <2>8. n \in Nat /\ txs' \in Seq(Result) /\ Len(txs') = n + 1 /\ txs'[n+1] = r
          /\ \A i \in 1..n : txs'[i] = txs[i]
      <3>1. n \in Nat
        BY <2>1
      <3>2. txs' \in Seq(Result) /\ Len(txs') = n + 1 /\ txs'[n+1] = r
        BY <1>2, <2>1, <2>4
      <3>3. \A i \in 1..n : txs'[i] = txs[i]
        BY <1>2, <2>1, <2>4
      <3>4. QED
        BY <3>1, <3>2, <3>3
    <2>9. Txids' = Append(Txids, r.txid) /\ Txids \in Seq(Seq(Byte))
      <3>1. Txids = [i \in 1..n |-> txs[i].txid] /\ Txids' = [i \in 1..n+1 |-> txs'[i].txid]
        BY <2>1, <2>8 DEF Txids
      <3>2. \A i \in 1..n : txs[i].txid \in Seq(Byte)
        <4>1. \A i \in 1..n : txs[i] \in Result
          BY <2>1
        <4> HIDE DEF n
        <4>2. QED
          BY <4>1 DEF Result
      <3>3. r.txid \in Seq(Byte)
        BY <2>4 DEF Result
      <3> HIDE DEF n
      <3>4. Txids \in Seq(Seq(Byte)) /\ Len(Txids) = n
        BY <2>8, <3>1, <3>2
      <3> DEFINE q == Append(Txids, r.txid)
                 t == Txids'
      <3>5. q \in Seq(Seq(Byte)) /\ Len(q) = n + 1 /\ q[n+1] = r.txid
            /\ \A i \in 1..n : q[i] = txs[i].txid
        BY <3>1, <3>3, <3>4, <2>8
      <3> HIDE DEF q
      <3>6. \A i \in 1..n+1 : t[i] = q[i]
        <4> SUFFICES ASSUME NEW i \in 1..n+1 PROVE t[i] = q[i]
          OBVIOUS
        <4>1. CASE i \in 1..n
          BY <2>8, <3>1, <3>5, <4>1
        <4>2. CASE i = n + 1
          BY <2>8, <3>1, <3>5, <4>2
        <4>3. QED
          BY <2>8, <4>1, <4>2
      <3>7. t \in Seq(Seq(Byte)) /\ Len(t) = n + 1
        <4>1. t = [i \in 1..n+1 |-> txs'[i].txid]
          BY <3>1
        <4>2. \A i \in 1..n+1 : t[i] \in Seq(Byte)
          BY <2>8, <3>5, <3>6
        <4> HIDE DEF t
        <4>3. t = [i \in 1..n+1 |-> t[i]] /\ n + 1 \in Nat
          BY <2>8, <4>1
        <4>4. QED
          BY <4>2, <4>3
      <3> HIDE DEF t
      <3>8. t = q
        BY <3>5, <3>6, <3>7, SeqEqual
      <3>9. QED
        BY <3>4, <3>8 DEF t, q
    <2>10. ASSUME \A i \in DOMAIN txs' : ~txs'[i].has_witness
           PROVE  FlattenSeq(Txids') = Slice(d, end)
      <3>1. DOMAIN txs' = 1..n+1 /\ DOMAIN txs = 1..n
        BY <2>1, <2>8
      <3>2. ~tx.has_witness
        <4>1. n + 1 \in DOMAIN txs'
          BY <2>8, <3>1
        <4>2. QED
          BY <2>5, <2>8, <2>10, <4>1
      <3>3. \A i \in DOMAIN txs : ~txs[i].has_witness
        <4>1. \A i \in 1..n : i \in 1..n+1
          BY <2>8
        <4>2. QED
          BY <2>8, <2>10, <3>1, <4>1
      <3>4. FlattenSeq(Txids) = Slice(d, s) /\ d <= s
        BY <2>7, <3>3 DEF Tiled
      <3>5. r.txid = Slice(s, end) /\ r.txid \in Seq(Byte)
        BY <2>4, <2>5, <3>2 DEF Preimage
      <3>6. d \in Nat
        BY <2>7 DEF Tiled
      <3>7. FlattenSeq(Txids') = FlattenSeq(Txids) \o r.txid
        BY <2>9, <3>5, FlattenAppend
      <3>8. Slice(d, s) \o Slice(s, end) = Slice(d, end)
        <4> HIDE DEF d, s
        <4>1. s \in Nat /\ s <= end
          BY <2>1, <2>3 DEF s
        <4>2. QED
          BY <2>1, <2>2, <3>4, <3>6, <4>1, SliceJoin
      <3>9. QED
        BY <3>4, <3>5, <3>7, <3>8
    <2>11. Tiled(pos)'
      <3>1. Declared' = Declared /\ raw' = raw
        BY StillHolds
      <3>2. count' = Declared.value /\ Declared.next \in Nat /\ Declared.next <= end
        <4>1. count = Declared.value /\ d <= s /\ d \in Nat
          BY <2>7 DEF Tiled
        <4>2. QED
          BY <1>2, <2>1, <2>2, <2>3, <4>1
      <3>3. QED
        BY <1>2, <2>10, <3>1, <3>2 DEF Tiled, Slice
    <2>12. Len(txs') <= count'
      BY <1>2, <2>7, <2>8 DEF Shape
    <2>13. Tiles'
      BY <1>2, <2>11, <2>12 DEF Tiles
    <2>14. QED
      BY <2>6, <2>13
  <1>3. QED
    BY <1>1, <1>2 DEF EndTx

LEMMA EndSafe == ASSUME Shape, Tiles, End, Still PROVE Shape' /\ Tiles'
  <1>1. CASE Malformed
    BY <1>1, MalformedSafe DEF Malformed
  <1>2. CASE pos = Len(raw) /\ pc' = "parsed" /\ UNCHANGED <<pos, count, tx, txs>>
    <2>1. pc = "tx" /\ Len(txs) = count
      BY DEF End
    <2>2. Shape'
      BY <1>2, StillHolds DEF Shape, Reading, Ends
    <2>3. TiledNext(pos)
      <3>1. Tiled(pos)
        BY <2>1 DEF Tiles
      <3>2. QED
        BY <1>2, <3>1, Carried
    <2>4. Tiled(pos)'
      BY <1>2, <2>3 DEF Tiled, TiledNext, Slice
    <2>5. raw' = raw
      BY StillHolds
    <2>6. QED
      BY <1>2, <2>1, <2>2, <2>4, <2>5 DEF Tiles
  <1>3. QED
    BY <1>1, <1>2 DEF End

-----------------------------------------------------------------------------
(* What holds when what arrived is the message, a piece of it, or more than it. *)

LEMMA MalformedTracks ==
  ASSUME pc' \in {"malformed", "struct.error"}, raw # Whole, Still
  PROVE  Tracks'
  <1>1. raw' # Whole'
    BY StillHolds
  <1>2. QED
    BY <1>1 DEF Tracks

LEMMA ReadHeaderTracks == ASSUME Shape, Fits, Tracks, ReadHeader, Still PROVE Tracks'
  <1> DEFINE n == Varint(HEADER_SIZE)
             L == Len(sent)
             rest == AtTx(sent, 1)
  <1>1. /\ raw \in Seq(Byte) /\ Sending /\ topic = "rawblock" /\ txs = << >> /\ sent \in Seq(Transactions)
        /\ L \in Nat /\ L # 0 /\ L < TooLong
    BY DEF Shape, Tracks, ReadHeader, Sending
  <1>2. Ahead(Whole, HEADER_SIZE, VarInt(L) \o rest)
    BY <1>1, MessageAhead
  <1>3. rest \in Seq(Byte) /\ Len(rest) >= L * 60
    <2>1. 1 \in 1..L + 1
      BY <1>1
    <2>2. QED
      BY <1>1, <2>1, TxAhead
  <1> HIDE DEF L, rest
  <1>4. /\ raw = Whole => HasVarint(HEADER_SIZE)
        /\ HasVarint(HEADER_SIZE) => n.value = L /\ Ahead(Whole, n.next, rest) /\ n.next <= Len(raw)
    BY <1>1, <1>2, <1>3, VarintFits
  <1>5. ASSUME raw = Whole
        PROVE  /\ ~(Len(raw) < HEADER_SIZE + 1) /\ HasVarint(HEADER_SIZE)
               /\ ~(n.value = 0 \/ n.value * 60 > Len(raw) - n.next)
    <2>1. HasVarint(HEADER_SIZE) /\ n.value = L /\ Ahead(Whole, n.next, rest)
      BY <1>4, <1>5
    <2>2. HEADER_SIZE < Len(raw) /\ Len(raw) \in Nat
      BY <1>1, <2>1 DEF HasVarint
    <2> DEFINE k == Len(rest)
               q == n.next
    <2>3. Len(raw) = q + k /\ q \in Nat /\ k \in Nat /\ k >= L * 60
      BY <1>3, <1>5, <2>1 DEF Ahead
    <2> HIDE DEF k, q
    <2>4. L * 60 \in Nat /\ ~(L * 60 > Len(raw) - q)
      BY <1>1, <2>3
    <2>5. ~(Len(raw) < HEADER_SIZE + 1)
      BY <2>2, HeaderBytes
    <2>6. QED
      BY <1>1, <2>1, <2>4, <2>5 DEF q
  <1>6. CASE Malformed \/ (pc' = "struct.error" /\ UNCHANGED <<pos, count, tx, txs>>)
    <2>1. pc' \in {"malformed", "struct.error"}
      BY <1>6 DEF Malformed
    <2>2. ~(pc' = "tx")
      BY <2>1
    <2>3. raw # Whole
      BY <1>5, <2>2 DEF ReadHeader
    <2>4. QED
      BY <2>1, <2>3, MalformedTracks
  <1>7. CASE /\ HasVarint(HEADER_SIZE)
             /\ count' = n.value /\ pos' = n.next /\ pc' = "tx" /\ UNCHANGED <<tx, txs>>
    <2>1. n.value = L /\ Ahead(Whole, n.next, rest)
      BY <1>4, <1>7
    <2>2. Number' = 1 /\ txs' = << >>
      BY <1>1, <1>7 DEF Number
    <2>3. Done'
      BY <1>1, <1>7, <2>1, <2>2, StillHolds DEF Done, L
    <2>4. Ahead(Whole, pos, AtTx(sent, Number))'
      BY <1>7, <2>1, <2>2, StillHolds DEF rest
    <2>5. QED
      BY <1>7, <2>3, <2>4 DEF Tracks
  <1>8. QED
    BY <1>6, <1>7 DEF ReadHeader

(* The transaction in hand is one of those sent. *)
LEMMA Hand ==
  ASSUME Shape, Tracks, pc \in Reading \/ (pc = "tx" /\ Len(txs) < count)
  PROVE  /\ sent \in Seq(Transactions) /\ Number \in 1..Len(sent) /\ Number \in Nat /\ Number <= count
         /\ InHand = sent[Number] /\ InHand \in Transactions /\ Done
         /\ raw \in Seq(Byte) /\ pos \in Nat
  <1>1. sent \in Seq(Transactions) /\ raw \in Seq(Byte) /\ pos \in Nat /\ txs \in Seq(Result) /\ count \in Nat
    BY DEF Shape, Sending
  <1>2. Done /\ (pc \in Reading => BeganTx)
    BY DEF Tracks, Reading, InInputs, InOutputs, InWitness
  <1>3. count = Len(sent)
    BY <1>2 DEF Done
  <1>4. Len(txs) \in Nat
    BY <1>1
  <1>5. Number \in Nat /\ Number >= 1 /\ Number <= count
    <2>1. CASE pc \in Reading
      BY <1>2, <1>4, <2>1 DEF BeganTx, Number
    <2>2. CASE pc = "tx" /\ Len(txs) < count
      BY <1>1, <1>4, <2>2 DEF Number
    <2>3. QED
      BY <2>1, <2>2
  <1>6. Number \in 1..Len(sent)
    BY <1>1, <1>3, <1>5
  <1>7. QED
    BY <1>1, <1>2, <1>5, <1>6 DEF InHand

LEMMA SameHand ==
  ASSUME Still, txs' = txs
  PROVE  Number' = Number /\ InHand' = InHand /\ Whole' = Whole /\ sent' = sent
         /\ (count' = count /\ Done => Done')
  <1>1. Whole' = Whole /\ sent' = sent
    BY StillHolds
  <1>2. Number' = Number
    BY DEF Number
  <1>3. InHand' = InHand
    BY <1>1, <1>2 DEF InHand
  <1>4. count' = count /\ Done => Done'
    BY <1>1 DEF Done
  <1>5. QED
    BY <1>1, <1>2, <1>3, <1>4

LEMMA MarkerBytes ==
  ASSUME NEW t \in Transactions
  PROVE  /\ <<2, 0, 0, 0>> \in Seq(Byte) /\ Len(<<2, 0, 0, 0>>) = 4 /\ Marker(t) \in Seq(Byte)
         /\ t.witness = << >> => Marker(t) = << >> /\ Len(Marker(t)) = 0
         /\ t.witness # << >> => Len(Marker(t)) = 2 /\ Marker(t)[1] = 0 /\ Marker(t)[2] = 1
  <1>1. <<2, 0, 0, 0>> \in Seq(Byte) /\ Len(<<2, 0, 0, 0>>) = 4
    BY DEF Byte
  <1>2. Marker(t) \in Seq(Byte)
    BY WireBytes
  <1>3. CASE t.witness = << >>
    BY <1>1, <1>2, <1>3 DEF Marker
  <1>4. CASE t.witness # << >>
    BY <1>1, <1>2, <1>4 DEF Marker
  <1>5. QED
    BY <1>3, <1>4

MarkerSeen(p, t, rest, w, from) ==
  /\ w = 2 <=> t.witness # << >>
  /\ w = 2 => At(p + 5) # 0
  /\ from = p + 4 + Len(Marker(t))
  /\ Ahead(Whole, from, VarInt(Len(t.inputs)) \o rest)

(* The marker is seen when there is one, and never taken for the number of inputs, *)
(* which is not zero.                                                              *)
LEMMA MarkerRead ==
  ASSUME raw \in Seq(Byte), Fits, NEW p, NEW t \in Transactions, NEW rest \in Seq(Byte),
         Ahead(Whole, p, <<2, 0, 0, 0>> \o (Marker(t) \o (VarInt(Len(t.inputs)) \o rest))),
         NEW w \in {0, 2}, w = 2 <=> (Len(raw) >= p + 6 /\ At(p + 4) = 0),
         NEW from, from = Take(Take(p, 4), w), NEW n, n = Count(from, 41)
  PROVE  /\ n.next # Bad /\ n.value # 0 => MarkerSeen(p, t, rest, w, from)
         /\ raw = Whole => MarkerSeen(p, t, rest, w, from)
  <1> DEFINE marked == w = 2
             v == <<2, 0, 0, 0>>
             m == Marker(t)
             c == VarInt(Len(t.inputs))
             body == c \o rest
             k == Len(raw)
  <1>1. v \in Seq(Byte) /\ Len(v) = 4 /\ m \in Seq(Byte) /\ Len(m) \in Nat
    BY MarkerBytes
  <1>2. c \in Seq(Byte) /\ Len(c) >= 1 /\ c[1] # 0
    <2> DEFINE l == Len(t.inputs)
    <2>1. l \in Nat /\ l > 0 /\ l < TooLong
      BY TxType
    <2> HIDE DEF l
    <2>2. VarInt(l) \in Seq(Byte) /\ Len(VarInt(l)) >= 1 /\ VarInt(l)[1] # 0
      BY <2>1, VarIntBytes
    <2>3. QED
      BY <2>2 DEF l
  <1>3. body \in Seq(Byte) /\ k \in Nat
    BY <1>2, BytesJoin
  <1>4. m \o body \in Seq(Byte)
    BY <1>1, <1>3, BytesJoin
  <1>5. Ahead(Whole, p, v \o (m \o body))
    OBVIOUS
  <1> HIDE DEF v, m, body
  <1>6. /\ p \in Nat /\ Ahead(Whole, p + 4, m \o body) /\ (raw = Whole => p + 4 <= k)
    <2>1. p \in Nat /\ Ahead(Whole, p + Len(v), m \o body) /\ (raw = Whole => p + Len(v) <= Len(raw))
      BY <1>1, <1>4, <1>5, ByteFits
    <2>2. QED
      BY <1>1, <2>1
  <1> DEFINE q == p + 4
  <1>7. /\ q \in Nat /\ \A i \in 1..Len(m) : q + i <= Len(raw) => At(q + i - 1) = m[i]
        /\ raw = Whole => q + Len(m) <= Len(raw)
        /\ Ahead(Whole, q + Len(m), body)
    BY <1>1, <1>3, <1>6, ByteFits
  <1>8. ASSUME t.witness # << >>
        PROVE  /\ p + 5 <= k => At(p + 4) = 0
               /\ p + 6 <= k => At(p + 5) = 1
               /\ raw = Whole => p + 6 <= k
               /\ Ahead(Whole, p + 6, body)
    <2>1. Len(m) = 2 /\ m[1] = 0 /\ m[2] = 1
      BY <1>8, MarkerBytes DEF m
    <2>2. /\ 1 \in 1..Len(m) /\ 2 \in 1..Len(m) /\ q + 1 = p + 5 /\ q + 2 = p + 6
          /\ q + 1 - 1 = p + 4 /\ q + 2 - 1 = p + 5
      BY <1>6, <2>1
    <2>3. p + 5 <= k => At(p + 4) = 0
      BY <1>7, <2>1, <2>2
    <2>4. p + 6 <= k => At(p + 5) = 1
      BY <1>7, <2>1, <2>2
    <2>5. QED
      BY <1>7, <2>1, <2>2, <2>3, <2>4
  <1>9. ASSUME t.witness = << >>
        PROVE  /\ p + 5 <= k => At(p + 4) # 0
               /\ Ahead(Whole, p + 4, body)
    <2>1. Len(m) = 0
      BY <1>9, MarkerBytes DEF m
    <2>2. Ahead(Whole, p + 4, body)
      BY <1>6, <1>7, <2>1
    <2>3. \A i \in 1..Len(c) : q + i <= Len(raw) => At(q + i - 1) = c[i]
      BY <1>2, <2>2, ByteFits DEF body
    <2>4. 1 \in 1..Len(c) /\ q + 1 = p + 5 /\ q + 1 - 1 = p + 4
      BY <1>2, <1>6
    <2>5. p + 5 <= k => At(p + 4) = c[1]
      BY <2>3, <2>4
    <2>6. QED
      BY <1>2, <2>2, <2>5
  <1> HIDE DEF q, k, c
  <1>10. k = Len(raw)
    BY DEF k
  <1>11. Len(m) = IF t.witness # << >> THEN 2 ELSE 0
    BY MarkerBytes DEF m
  <1>12. CASE t.witness # << >> /\ p + 6 <= k
    <2>1. p + 5 <= k /\ p + 4 <= k
      BY <1>3, <1>6, <1>12
    <2>2. marked /\ At(p + 5) = 1
      BY <1>8, <1>10, <1>12, <2>1
    <2>3. from = p + 6
      <3>1. Take(p, 4) = p + 4
        BY <1>6, <1>10, <2>1 DEF Take, Bad
      <3>2. Take(p + 4, 2) = p + 6
        BY <1>6, <1>10, <1>12 DEF Take, Bad
      <3>3. QED
        BY <2>2, <3>1, <3>2
    <2>4. QED
      BY <1>6, <1>8, <1>11, <1>12, <2>2, <2>3 DEF body, c, m, MarkerSeen
  <1>13. CASE t.witness # << >> /\ ~(p + 6 <= k)
    <2>1. ~marked /\ raw # Whole
      BY <1>3, <1>6, <1>8, <1>10, <1>13
    <2>2. from = Take(Take(p, 4), 0)
      BY <2>1
    <2>3. from = Bad \/ (from = p + 4 /\ p + 4 <= k)
      BY <1>3, <1>6, <1>10, <2>2 DEF Take, Bad
    <2>4. ASSUME n.next # Bad PROVE n.value = 0
      <3>1. HasVarint(from) /\ n = Varint(from)
        BY <2>4 DEF Count
      <3>2. from = p + 4 /\ p + 4 < k
        BY <1>10, <2>3, <3>1 DEF HasVarint
      <3>3. At(from) = 0
        BY <1>3, <1>6, <1>8, <1>13, <3>2
      <3>4. Varint(from).value = 0
        BY <3>3 DEF Varint
      <3>5. QED
        BY <3>1, <3>4
    <2>5. QED
      BY <2>1, <2>4
  <1>14. CASE t.witness = << >>
    <2>1. ~marked
      <3>1. p + 6 <= k => p + 5 <= k
        BY <1>3, <1>6
      <3>2. QED
        BY <1>3, <1>6, <1>9, <1>10, <1>14, <3>1
    <2>2. from = Take(Take(p, 4), 0)
      BY <2>1
    <2>3. p + 4 <= k => from = p + 4
      BY <1>3, <1>6, <1>10, <2>2 DEF Take, Bad
    <2>4. ~(p + 4 <= k) => from = Bad
      BY <1>3, <1>6, <1>10, <2>2 DEF Take, Bad
    <2>5. from = Bad => n.next = Bad
      BY DEF Count, HasVarint
    <2>6. p + 4 + Len(m) = p + 4
      BY <1>6, <1>11, <1>14
    <2>7. Ahead(Whole, p + 4, body)
      BY <1>9, <1>14
    <2>8. raw = Whole => from = p + 4
      BY <1>6, <2>3
    <2>9. n.next # Bad => from = p + 4
      BY <2>3, <2>4, <2>5
    <2>10. QED
      BY <1>14, <2>1, <2>6, <2>7, <2>8, <2>9 DEF body, c, m, MarkerSeen
  <1>15. QED
    BY <1>12, <1>13, <1>14

LEMMA BeginTxTracks == ASSUME Shape, Fits, Tracks, BeginTx, Still PROVE Tracks'
  <1> DEFINE marked == Len(raw) >= pos + 6 /\ At(pos + 4) = 0
             from == Take(Take(pos, 4), IF marked THEN 2 ELSE 0)
             n == Count(from, 41)
             k == Number
             t == InHand
             l == Len(t.inputs)
             rest == AtInput(sent, k, 1)
  <1>1. /\ pc = "tx" /\ Len(txs) < count /\ sent \in Seq(Transactions) /\ k \in 1..Len(sent) /\ k \in Nat
        /\ k <= count /\ t = sent[k] /\ t \in Transactions /\ Done /\ raw \in Seq(Byte)
    BY Hand DEF BeginTx
  <1>2. Ahead(Whole, pos, AtTx(sent, k))
    BY <1>1 DEF Tracks
  <1>3. AtTx(sent, k) = <<2, 0, 0, 0>> \o (Marker(t) \o AtBody(sent, k)) /\ AtBody(sent, k) = VarInt(l) \o rest
    BY <1>1, BodyAhead DEF AtBody
  <1>4. rest \in Seq(Byte) /\ Len(rest) >= l * 41
    BY <1>1, InputAhead
  <1>5. l \in Nat /\ l # 0 /\ l < TooLong /\ (t.witness # << >> => Len(t.witness) = l)
        /\ t.outputs \in Seq(Some(Byte)) /\ Len(t.outputs) \in Nat
    BY <1>1, TxType
  <1>6. marked \in BOOLEAN
    OBVIOUS
  <1>7. /\ n.next # Bad /\ n.value # 0 =>
             /\ marked <=> t.witness # << >>
             /\ marked => At(pos + 5) # 0
             /\ from = pos + 4 + Len(Marker(t))
             /\ Ahead(Whole, from, VarInt(l) \o rest)
        /\ raw = Whole => /\ marked <=> t.witness # << >>
                          /\ marked => At(pos + 5) # 0
                          /\ from = pos + 4 + Len(Marker(t))
                          /\ Ahead(Whole, from, VarInt(l) \o rest)
    <2> DEFINE w == IF marked THEN 2 ELSE 0
               fr == from
               nn == n
    <2>1. Ahead(Whole, pos, <<2, 0, 0, 0>> \o (Marker(t) \o (VarInt(Len(t.inputs)) \o rest)))
      BY <1>2, <1>3
    <2>2. w \in {0, 2} /\ (w = 2 <=> (Len(raw) >= pos + 6 /\ At(pos + 4) = 0))
      OBVIOUS
    <2>3. fr = Take(Take(pos, 4), w) /\ nn = Count(fr, 41)
      OBVIOUS
    <2>4. (marked <=> w = 2) /\ fr = from /\ nn = n
      OBVIOUS
    <2> HIDE DEF w, fr, nn, rest, t, k, marked
    <2>5. /\ nn.next # Bad /\ nn.value # 0 => MarkerSeen(pos, t, rest, w, fr)
          /\ raw = Whole => MarkerSeen(pos, t, rest, w, fr)
      BY <1>1, <1>4, <2>1, <2>2, <2>3, MarkerRead
    <2> HIDE DEF from, n
    <2>6. QED
      BY <2>4, <2>5 DEF MarkerSeen, l
  <1> HIDE DEF marked, from, n, k, t, rest
  <1>8. ASSUME Ahead(Whole, from, VarInt(l) \o rest)
        PROVE  /\ raw = Whole => n.next # Bad
               /\ n.next # Bad => n.value = l /\ Ahead(Whole, n.next, rest)
    <2> HIDE DEF l
    <2>1. 41 \in {1, 9, 41} /\ l * 41 <= Len(rest)
      BY <1>4, <1>5
    <2>2. QED
      BY <1>1, <1>4, <1>5, <1>8, <2>1, CountFits DEF n
  <1>9. ASSUME raw = Whole PROVE ~((marked /\ At(pos + 5) = 0) \/ n.next = Bad \/ n.value = 0)
    BY <1>5, <1>7, <1>8, <1>9
  <1>10. CASE Malformed /\ ((marked /\ At(pos + 5) = 0) \/ n.next = Bad \/ n.value = 0)
    BY <1>9, <1>10, MalformedTracks DEF Malformed
  <1>11. CASE /\ n.next # Bad /\ n.value # 0
              /\ tx' = [start |-> pos, has_witness |-> marked, n_in |-> n.value, n_out |-> 0,
                        inputs |-> << >>, outputs |-> << >>, witness_start |-> 0,
                        stacks |-> 0, items |-> 0]
              /\ pos' = n.next /\ pc' = "inputs" /\ UNCHANGED <<count, txs>>
    <2>1. n.value = l /\ Ahead(Whole, n.next, rest) /\ (marked <=> t.witness # << >>)
          /\ from = pos + 4 + Len(Marker(t)) /\ Ahead(Whole, from, AtBody(sent, k))
      BY <1>3, <1>7, <1>8, <1>11
    <2>2. Number' = k /\ InHand' = t /\ Whole' = Whole /\ sent' = sent /\ Done' /\ count' = count
      BY <1>1, <1>11, SameHand DEF k, t
    <2>3. from = IF marked THEN pos + 6 ELSE pos + 4
      <3>1. pos \in Nat
        BY DEF Shape
      <3>2. Len(Marker(t)) = IF marked THEN 2 ELSE 0
        BY <1>1, <2>1, MarkerBytes
      <3>3. QED
        BY <2>1, <3>1, <3>2
    <2>4. BeganTx'
      <3>1. /\ tx'.has_witness = marked /\ tx'.n_in = l /\ tx'.start = pos
            /\ tx'.inputs = << >> /\ tx'.outputs = << >>
        BY <1>11, <2>1
      <3>2. Ahead(Whole, IF marked THEN pos + 6 ELSE pos + 4, AtBody(sent, k))
        BY <2>1, <2>3
      <3>3. (tx'.has_witness = (t.witness # << >>))
        <4>1. CASE marked
          BY <1>6, <2>1, <3>1, <4>1
        <4>2. CASE ~marked
          BY <1>6, <2>1, <3>1, <4>2
        <4>3. QED
          BY <4>1, <4>2
      <3>4. Len(tx'.inputs) <= tx'.n_in /\ Len(tx'.outputs) <= Len(t.outputs)
            /\ (\A j \in 1..Len(tx'.inputs) : FALSE) /\ \A j \in 1..Len(tx'.outputs) : FALSE
        BY <1>5, <3>1
      <3>5. Ahead(Whole', tx'.start, AtTx(sent', Number'))
        BY <1>2, <2>2, <3>1
      <3>6. Ahead(Whole', IF tx'.has_witness THEN tx'.start + 6 ELSE tx'.start + 4, AtBody(sent', Number'))
        BY <2>2, <3>1, <3>2
      <3>7. Number' <= count' /\ tx'.n_in = Len(t.inputs)
        BY <1>1, <2>2, <3>1 DEF l
      <3>8. QED
        BY <2>2, <3>3, <3>4, <3>5, <3>6, <3>7 DEF BeganTx
    <2>5. InInputs'
      <3>1. Len(tx'.inputs) = 0 /\ tx'.n_in = l /\ tx'.outputs = << >> /\ tx'.stacks = 0 /\ tx'.items = 0
        BY <1>11, <2>1
      <3>2. Len(tx'.inputs) < tx'.n_in /\ Len(tx'.inputs) + 1 = 1
        BY <1>5, <3>1
      <3>3. Ahead(Whole', pos', AtInput(sent', Number', Len(tx'.inputs) + 1))
        BY <1>11, <2>1, <2>2, <3>2 DEF rest
      <3>4. QED
        BY <2>4, <3>1, <3>2, <3>3 DEF InInputs
    <2>6. QED
      BY <1>11, <2>2, <2>5 DEF Tracks
  <1>12. QED
    BY <1>10, <1>11 DEF BeginTx, n, from, marked

(* What is known of the transaction since it began stays so. *)
LEMMA StillBegan ==
  ASSUME BeganTx, Still, UNCHANGED <<count, txs>>,
         tx'.start = tx.start, tx'.has_witness = tx.has_witness, tx'.n_in = tx.n_in,
         Len(tx'.inputs) <= tx.n_in,
         \A j \in 1..Len(tx'.inputs) : tx'.inputs[j] = InHand.inputs[j].outpoint,
         Len(tx'.outputs) <= Len(InHand.outputs),
         \A j \in 1..Len(tx'.outputs) : tx'.outputs[j] = InHand.outputs[j]
  PROVE  BeganTx'
  <1>1. Number' = Number /\ InHand' = InHand /\ Whole' = Whole /\ sent' = sent /\ count' = count
    BY SameHand
  <1>2. /\ Number' <= count' /\ tx'.n_in = Len(InHand'.inputs)
        /\ tx'.has_witness = (InHand'.witness # << >>)
    BY <1>1 DEF BeganTx
  <1>3. Ahead(Whole', tx'.start, AtTx(sent', Number'))
    BY <1>1 DEF BeganTx
  <1>4. Ahead(Whole', IF tx'.has_witness THEN tx'.start + 6 ELSE tx'.start + 4, AtBody(sent', Number'))
    BY <1>1 DEF BeganTx
  <1>5. QED
    BY <1>1, <1>2, <1>3, <1>4 DEF BeganTx

LEMMA ReadInputTracks == ASSUME Shape, Fits, Tracks, ReadInput, Still PROVE Tracks'
  <1> DEFINE at == Take(pos, 36)
             script == ItemEnd(at)
             end == Take(script, 4)
             last == Len(tx.inputs) + 1 = tx.n_in
             n == Count(end, 9)
             outpoint == Slice(pos, pos + 36)
             k == Number
             t == InHand
             i == Len(tx.inputs) + 1
             in == t.inputs[i]
             z == NSequence
             r3 == AtInput(sent, k, i + 1)
             r2 == z \o r3
             r1 == Item(in.script) \o r2
             l == Len(t.outputs)
             outs == AtOutput(sent, k, 1)
  <1>1. /\ pc = "inputs" /\ sent \in Seq(Transactions) /\ k \in 1..Len(sent) /\ k \in Nat
        /\ t = sent[k] /\ t \in Transactions /\ Done /\ raw \in Seq(Byte) /\ pos \in Nat
    BY Hand DEF ReadInput, Reading
  <1>2. /\ InInputs /\ BeganTx /\ tx \in Record
    BY <1>1 DEF Tracks, InInputs, Shape, Reading
  <1>3. /\ Len(tx.inputs) \in Nat /\ i \in Nat /\ Len(t.inputs) \in Nat
        /\ i \in 1..Len(t.inputs) /\ tx.n_in = Len(t.inputs)
    <2>1. tx.n_in = Len(t.inputs) /\ Len(tx.inputs) < tx.n_in
      BY <1>2 DEF InInputs, BeganTx
    <2>2. Len(tx.inputs) \in Nat /\ Len(t.inputs) \in Nat
      BY <1>1, <1>2, TxType DEF Record
    <2>3. QED
      BY <2>1, <2>2
  <1>4. /\ in \in Ins /\ AtInput(sent, k, i) = in.outpoint \o r1 /\ r3 \in Seq(Byte)
    <2> HIDE DEF k, t, i, in, r1, r2, r3
    <2>1. \A j \in 1..Len(sent[k].inputs) :
            /\ sent[k].inputs[j] \in Ins
            /\ AtInput(sent, k, j) = sent[k].inputs[j].outpoint \o (Item(sent[k].inputs[j].script)
                                        \o (z \o AtInput(sent, k, j + 1)))
            /\ AtInput(sent, k, j + 1) \in Seq(Byte)
      BY <1>1, InputAhead
    <2> HIDE DEF z
    <2>2. QED
      BY <1>1, <1>3, <2>1 DEF in, r1, r2, r3
  <1>5. in.outpoint \in Seq(Byte) /\ Len(in.outpoint) = 36 /\ in.script \in Some(Byte)
    BY <1>4, InputBytes
  <1>6. z \in Seq(Byte) /\ Len(z) = 4
    BY DEF Byte, NSequence
  <1>7. Ahead(Whole, pos, AtInput(sent, k, i))
    BY <1>2 DEF InInputs
  <1>8. last => /\ r3 = VarInt(l) \o outs /\ outs \in Seq(Byte) /\ Len(outs) >= l * 9
                /\ l \in Nat /\ l < TooLong
    <2>1. AtInput(sent, k, Len(t.inputs) + 1) = VarInt(l) \o outs /\ outs \in Seq(Byte) /\ Len(outs) >= l * 9
      BY <1>1, InputAhead, OutputAhead
    <2>2. l \in Nat /\ l < TooLong
      BY <1>1, TxType
    <2>3. last => i + 1 = Len(t.inputs) + 1
      BY <1>3
    <2>4. QED
      BY <2>1, <2>2, <2>3
  <1> HIDE DEF in, t, k, i, z, r3, l, outs
  <1>9. r2 \in Seq(Byte) /\ Item(in.script) \in Seq(Byte)
    BY <1>4, <1>5, <1>6, BytesJoin, ItemBytes
  <1>10. r1 \in Seq(Byte)
    BY <1>9, BytesJoin
  <1>11. /\ raw = Whole => at # Bad
         /\ at # Bad => at = pos + 36 /\ Ahead(Whole, at, r1) /\ Slice(pos, at) = in.outpoint
    <2> HIDE DEF r1
    <2>1. Ahead(Whole, pos, in.outpoint \o r1)
      BY <1>4, <1>7
    <2> DEFINE o == in.outpoint
    <2>2. o \in Seq(Byte) /\ 36 = Len(o) /\ r1 \in Seq(Byte) /\ raw \in Seq(Byte) /\ Fits
      BY <1>1, <1>5, <1>10
    <2>3. Ahead(Whole, pos, o \o r1)
      BY <2>1
    <2> HIDE DEF o
    <2>4. /\ raw = Whole => Take(pos, 36) # Bad
          /\ Take(pos, 36) # Bad => /\ Take(pos, 36) = pos + 36
                                   /\ Ahead(Whole, Take(pos, 36), r1)
                                   /\ Slice(pos, Take(pos, 36)) = o
      BY <2>2, <2>3, TakeFits
    <2>5. QED
      BY <2>4 DEF o
  <1>12. at = Bad => script = Bad
    BY DEF ItemEnd, Count, HasVarint
  <1> HIDE DEF at
  <1>13. at # Bad => /\ raw = Whole => script # Bad
                     /\ script # Bad => Ahead(Whole, script, r2)
    <2> HIDE DEF r2
    <2>1. at # Bad => Ahead(Whole, at, Item(in.script) \o r2)
      BY <1>11 DEF r1
    <2>2. QED
      BY <1>1, <1>5, <1>9, <2>1, ItemFits
  <1>14. script = Bad => end = Bad
    BY DEF Take
  <1> HIDE DEF script, r1
  <1>15. script # Bad /\ at # Bad => /\ raw = Whole => end # Bad
                                     /\ end # Bad => Ahead(Whole, end, r3)
    <2>1. script # Bad /\ at # Bad => Ahead(Whole, script, z \o r3)
      BY <1>13
    <2>2. 4 = Len(z)
      BY <1>6
    <2>3. QED
      BY <1>1, <1>4, <1>6, <2>1, <2>2, TakeFits
  <1> HIDE DEF end, r2
  <1>16. /\ raw = Whole => end # Bad
         /\ end # Bad => at = pos + 36 /\ Slice(pos, at) = in.outpoint /\ Ahead(Whole, end, r3)
    BY <1>11, <1>12, <1>13, <1>14, <1>15
  <1>17. last /\ end # Bad => /\ raw = Whole => n.next # Bad
                              /\ n.next # Bad => n.value = l /\ Ahead(Whole, n.next, outs)
    <2>1. last /\ end # Bad => Ahead(Whole, end, VarInt(l) \o outs)
      BY <1>8, <1>16
    <2>2. 9 \in {1, 9, 41} /\ (last => l * 9 <= Len(outs))
      BY <1>8
    <2>3. QED
      BY <1>1, <1>8, <2>1, <2>2, CountFits
  <1> HIDE DEF n, last
  <1>18. CASE Malformed /\ (end = Bad \/ (last /\ n.next = Bad))
    <2>1. raw # Whole
      BY <1>16, <1>17, <1>18
    <2>2. QED
      BY <1>18, <2>1, MalformedTracks DEF Malformed
  <1>19. CASE /\ end # Bad /\ (last => n.next # Bad)
              /\ tx' = [tx EXCEPT !.inputs = Append(@, outpoint), !.n_out = IF last THEN n.value ELSE 0]
              /\ pos' = (IF last THEN n.next ELSE end)
              /\ pc' = (IF last THEN "outputs" ELSE "inputs") /\ UNCHANGED <<count, txs>>
    <2>1. outpoint = in.outpoint /\ outpoint \in Seq(Byte)
      BY <1>5, <1>16, <1>19
    <2> HIDE DEF outpoint
    <2>2. /\ tx'.start = tx.start /\ tx'.has_witness = tx.has_witness /\ tx'.n_in = tx.n_in
          /\ tx'.inputs = Append(tx.inputs, outpoint) /\ tx'.outputs = tx.outputs
          /\ tx'.stacks = tx.stacks /\ tx'.items = tx.items
          /\ tx'.n_out = (IF last THEN n.value ELSE 0)
      BY <1>2, <1>19 DEF Record
    <2>3. /\ Len(tx'.inputs) = i
          /\ \A j \in 1..i : tx'.inputs[j] = t.inputs[j].outpoint
      <3> DEFINE q == tx.inputs
                 m == Len(q)
      <3>1. q \in Seq(Seq(Byte)) /\ m \in Nat /\ i = m + 1
        BY <1>2, <1>3 DEF Record, i
      <3>2. \A j \in 1..m : q[j] = t.inputs[j].outpoint
        BY <1>2 DEF BeganTx, t
      <3> HIDE DEF q
      <3>3. /\ Len(Append(q, outpoint)) = m + 1 /\ Append(q, outpoint)[m + 1] = outpoint
            /\ \A j \in 1..m : Append(q, outpoint)[j] = q[j]
        BY <2>1, <3>1
      <3>4. tx'.inputs = Append(q, outpoint)
        BY <2>2 DEF q
      <3> DEFINE a == Append(q, outpoint)
      <3> HIDE DEF m, a
      <3>5. ASSUME NEW j \in 1..i PROVE a[j] = t.inputs[j].outpoint
        <4>1. CASE j \in 1..m
          BY <3>2, <3>3, <4>1 DEF a
        <4>2. CASE j = i
          BY <2>1, <3>1, <3>3, <4>2 DEF a, in
        <4>3. QED
          BY <3>1, <4>1, <4>2
      <3>6. QED
        BY <3>1, <3>3, <3>4, <3>5 DEF a
    <2>4. BeganTx'
      <3>1. Len(tx'.inputs) <= tx.n_in
        BY <1>3, <2>3
      <3>2. Len(tx'.outputs) <= Len(InHand.outputs)
            /\ \A j \in 1..Len(tx'.outputs) : tx'.outputs[j] = InHand.outputs[j]
        BY <1>2, <2>2 DEF BeganTx
      <3>3. \A j \in 1..Len(tx'.inputs) : tx'.inputs[j] = InHand.inputs[j].outpoint
        BY <2>3 DEF t
      <3>4. QED
        BY <1>2, <1>19, <2>2, <3>1, <3>2, <3>3, StillBegan
    <2>5. Number' = k /\ InHand' = t /\ Whole' = Whole /\ sent' = sent /\ Done'
      BY <1>1, <1>19, SameHand DEF k, t
    <2>6. tx.outputs = << >> /\ tx.stacks = 0 /\ tx.items = 0
      BY <1>2 DEF InInputs
    <2>7. CASE last
      <3>1. i = tx'.n_in /\ pos' = n.next /\ n.value = l /\ Ahead(Whole, n.next, outs) /\ tx'.n_out = l
        BY <1>16, <1>17, <1>19, <2>2, <2>7 DEF last, i
      <3>2. Len(tx'.outputs) + 1 = 1
        BY <2>2, <2>6
      <3>3. Ahead(Whole', pos', AtOutput(sent', Number', Len(tx'.outputs) + 1))
        BY <2>5, <3>1, <3>2 DEF outs
      <3>4. InOutputs'
        BY <2>2, <2>3, <2>4, <2>5, <2>6, <3>1, <3>3 DEF InOutputs, l
      <3>5. QED
        BY <1>19, <2>5, <2>7, <3>4 DEF Tracks
    <2>8. CASE ~last
      <3>1. i # tx.n_in /\ pos' = end /\ Ahead(Whole, end, r3)
        BY <1>16, <1>19, <2>8 DEF last, i
      <3>2. Len(tx'.inputs) < tx'.n_in
        BY <1>3, <2>2, <2>3, <3>1
      <3>3. Ahead(Whole', pos', AtInput(sent', Number', Len(tx'.inputs) + 1))
        BY <2>3, <2>5, <3>1 DEF r3
      <3>4. InInputs'
        BY <2>2, <2>4, <2>6, <3>2, <3>3 DEF InInputs
      <3>5. QED
        BY <1>19, <2>5, <2>8, <3>4 DEF Tracks
    <2>9. QED
      BY <2>7, <2>8
  <1>20. QED
    BY <1>18, <1>19 DEF ReadInput, end, last, n, at, script

LEMMA AppendOne ==
  ASSUME NEW S, NEW q \in Seq(S), NEW x \in S, NEW i \in Nat, i = Len(q) + 1
  PROVE  /\ Append(q, x) \in Seq(S) /\ Len(Append(q, x)) = i /\ Append(q, x)[i] = x
         /\ Len(q) \in Nat /\ \A j \in 1..Len(q) : Append(q, x)[j] = q[j]
         /\ \A j \in 1..i : j \in 1..Len(q) \/ j = i
  OBVIOUS

LEMMA ReadOutputTracks == ASSUME Shape, Fits, Tracks, ReadOutput, Still PROVE Tracks'
  <1> DEFINE at == Take(pos, 8)
             end == ItemEnd(at)
             script == Slice(Varint(pos + 8).next, end)
             k == Number
             t == InHand
             o == Len(tx.outputs) + 1
             s == t.outputs[o]
             r2 == AtOutput(sent, k, o + 1)
             r1 == Item(s) \o r2
  <1>1. /\ pc = "outputs" /\ sent \in Seq(Transactions) /\ k \in 1..Len(sent) /\ k \in Nat
        /\ t = sent[k] /\ t \in Transactions /\ Done /\ raw \in Seq(Byte) /\ pos \in Nat
    BY Hand DEF ReadOutput, Reading
  <1>2. /\ InOutputs /\ BeganTx /\ tx \in Record /\ Len(tx.outputs) < tx.n_out
    BY <1>1 DEF Tracks, InOutputs, Shape, Reading, ReadOutput
  <1>3. /\ Len(tx.outputs) \in Nat /\ o \in Nat /\ Len(t.outputs) \in Nat /\ o \in 1..Len(t.outputs)
    <2>1. tx.n_out = Len(t.outputs) /\ Len(tx.outputs) < tx.n_out
      BY <1>2 DEF InOutputs
    <2>2. Len(tx.outputs) \in Nat /\ Len(t.outputs) \in Nat
      BY <1>1, <1>2, TxType DEF Record
    <2>3. QED
      BY <2>1, <2>2
  <1>4. /\ s \in Some(Byte) /\ AtOutput(sent, k, o) = Amount \o r1 /\ r2 \in Seq(Byte)
    <2> HIDE DEF k, t, o, s, r1, r2
    <2>1. \A j \in 1..Len(sent[k].outputs) :
            /\ sent[k].outputs[j] \in Some(Byte)
            /\ AtOutput(sent, k, j) = Amount \o (Item(sent[k].outputs[j]) \o AtOutput(sent, k, j + 1))
            /\ AtOutput(sent, k, j + 1) \in Seq(Byte)
      BY <1>1, OutputAhead
    <2>2. QED
      BY <1>1, <1>3, <2>1 DEF s, r1, r2
  <1>5. Ahead(Whole, pos, AtOutput(sent, k, o))
    BY <1>2 DEF InOutputs
  <1> HIDE DEF k, t, o, s, r2
  <1>6. r1 \in Seq(Byte) /\ s \in Seq(Byte) /\ Amount \in Seq(Byte) /\ 8 = Len(Amount)
    BY <1>4, BytesJoin, ItemBytes, OutputBytes
  <1>7. /\ raw = Whole => at # Bad
        /\ at # Bad => at = pos + 8 /\ Ahead(Whole, at, r1)
    <2> HIDE DEF r1
    <2>1. Ahead(Whole, pos, Amount \o r1)
      BY <1>4, <1>5
    <2>2. QED
      BY <1>1, <1>6, <2>1, TakeFits
  <1>8. at = Bad => end = Bad
    BY DEF ItemEnd, Count, HasVarint
  <1> HIDE DEF at
  <1>9. at # Bad => /\ raw = Whole => end # Bad
                    /\ end # Bad => Ahead(Whole, end, r2) /\ Slice(Varint(at).next, end) = s
    <2>1. at # Bad => Ahead(Whole, at, Item(s) \o r2)
      BY <1>7 DEF r1
    <2>2. QED
      BY <1>1, <1>4, <2>1, ItemFits
  <1> HIDE DEF end, r1
  <1>10. /\ raw = Whole => end # Bad
         /\ end # Bad => Ahead(Whole, end, r2) /\ script = s
    BY <1>7, <1>8, <1>9
  <1> HIDE DEF script
  <1>11. CASE Malformed /\ end = Bad
    <2>1. raw # Whole
      BY <1>10, <1>11
    <2>2. QED
      BY <1>11, <2>1, MalformedTracks DEF Malformed
  <1>12. CASE /\ end # Bad /\ tx' = [tx EXCEPT !.outputs = Append(@, script)]
              /\ pos' = end /\ UNCHANGED <<pc, count, txs>>
    <2>1. script = s /\ Ahead(Whole, end, r2)
      BY <1>10, <1>12
    <2>2. /\ tx'.start = tx.start /\ tx'.has_witness = tx.has_witness /\ tx'.n_in = tx.n_in
          /\ tx'.outputs = Append(tx.outputs, s) /\ tx'.inputs = tx.inputs
          /\ tx'.stacks = tx.stacks /\ tx'.items = tx.items /\ tx'.n_out = tx.n_out
      BY <1>2, <1>12, <2>1 DEF Record
    <2>3. /\ Len(tx'.outputs) = o
          /\ \A j \in 1..o : tx'.outputs[j] = t.outputs[j]
      <3> DEFINE q == tx.outputs
      <3>1. q \in Seq(Seq(Byte)) /\ o = Len(q) + 1 /\ tx'.outputs = Append(q, s)
        BY <1>2, <2>2 DEF Record, o
      <3>2. \A j \in 1..Len(q) : q[j] = t.outputs[j]
        BY <1>2 DEF BeganTx, t
      <3> HIDE DEF q
      <3>3. /\ Len(Append(q, s)) = o /\ Append(q, s)[o] = s
            /\ \A j \in 1..Len(q) : Append(q, s)[j] = q[j]
            /\ \A j \in 1..o : j \in 1..Len(q) \/ j = o
        BY <1>3, <1>6, <3>1, AppendOne
      <3>4. QED
        BY <3>1, <3>2, <3>3 DEF s
    <2>4. BeganTx'
      <3>1. Len(tx'.outputs) <= Len(InHand.outputs)
            /\ \A j \in 1..Len(tx'.outputs) : tx'.outputs[j] = InHand.outputs[j]
        BY <1>3, <2>3 DEF t
      <3>2. Len(tx'.inputs) <= tx.n_in
            /\ \A j \in 1..Len(tx'.inputs) : tx'.inputs[j] = InHand.inputs[j].outpoint
        BY <1>2, <2>2 DEF BeganTx
      <3>3. QED
        BY <1>2, <1>12, <2>2, <3>1, <3>2, StillBegan
    <2>5. Number' = k /\ InHand' = t /\ Whole' = Whole /\ sent' = sent /\ Done'
      BY <1>1, <1>12, SameHand DEF k, t
    <2>6. Ahead(Whole', pos', AtOutput(sent', Number', Len(tx'.outputs) + 1))
      BY <1>12, <2>1, <2>3, <2>5 DEF r2
    <2>7. InOutputs'
      <3>1. Len(tx.inputs) = tx.n_in /\ tx.n_out = Len(t.outputs) /\ tx.stacks = 0 /\ tx.items = 0
        BY <1>2 DEF InOutputs, t
      <3>2. QED
        BY <2>2, <2>4, <2>5, <2>6, <3>1 DEF InOutputs
    <2>8. QED
      BY <1>1, <1>12, <2>5, <2>7 DEF Tracks
  <1>13. QED
    BY <1>11, <1>12 DEF ReadOutput, end, at, script

LEMMA EndOutputsTracks == ASSUME Shape, Fits, Tracks, EndOutputs, Still PROVE Tracks'
  <1> DEFINE k == Number
             t == InHand
             o == Len(tx.outputs)
  <1>1. /\ pc = "outputs" /\ sent \in Seq(Transactions) /\ k \in 1..Len(sent) /\ k \in Nat
        /\ t = sent[k] /\ t \in Transactions /\ Done /\ raw \in Seq(Byte) /\ pos \in Nat
    BY Hand DEF EndOutputs, Reading
  <1>2. /\ InOutputs /\ BeganTx /\ tx \in Record /\ o = tx.n_out
        /\ tx' = [tx EXCEPT !.witness_start = pos, !.stacks = IF tx.has_witness THEN tx.n_in ELSE 0]
        /\ pc' = "witness" /\ UNCHANGED <<pos, count, txs>>
    BY <1>1 DEF Tracks, InOutputs, Shape, Reading, EndOutputs
  <1>3. /\ o = Len(t.outputs) /\ Len(tx.inputs) = tx.n_in /\ tx.n_in = Len(t.inputs) /\ tx.items = 0
        /\ tx.has_witness = (t.witness # << >>)
    BY <1>2 DEF InOutputs, BeganTx
  <1>4. Ahead(Whole, pos, AtStack(sent, k, 1))
    <2>1. Ahead(Whole, pos, AtOutput(sent, k, o + 1))
      BY <1>2 DEF InOutputs
    <2> HIDE DEF k, t, o
    <2>2. AtOutput(sent, k, Len(sent[k].outputs) + 1) = AtStack(sent, k, 1)
      BY <1>1, OutputAhead
    <2>3. QED
      BY <1>1, <1>3, <2>1, <2>2
  <1>5. /\ tx'.start = tx.start /\ tx'.has_witness = tx.has_witness /\ tx'.n_in = tx.n_in
        /\ tx'.inputs = tx.inputs /\ tx'.outputs = tx.outputs /\ tx'.items = tx.items
        /\ tx'.witness_start = pos /\ tx'.stacks = (IF tx.has_witness THEN tx.n_in ELSE 0)
    BY <1>2 DEF Record
  <1>6. /\ t.witness \in Seq(Some(Some(Byte))) /\ Len(t.witness) \in Nat
        /\ t.witness # << >> => Len(t.witness) = Len(t.inputs)
    <2> HIDE DEF t
    <2>1. t.witness \in Seq(Some(Some(Byte))) /\ (t.witness # << >> => Len(t.witness) = Len(t.inputs))
      BY <1>1, TxType
    <2>2. QED
      BY <2>1
  <1>7. tx'.stacks = Len(t.witness)
    <2> DEFINE w == t.witness
    <2>1. CASE w # << >>
      BY <1>3, <1>5, <1>6, <2>1
    <2>2. CASE w = << >>
      <3>1. Len(w) = 0
        BY <2>2
      <3>2. QED
        BY <1>3, <1>5, <2>2, <3>1
    <2>3. QED
      BY <2>1, <2>2
  <1>8. Number' = k /\ InHand' = t /\ Whole' = Whole /\ sent' = sent /\ Done'
    BY <1>1, <1>2, SameHand
  <1>9. BeganTx'
    <2>1. /\ Len(tx'.inputs) <= tx.n_in
          /\ \A j \in 1..Len(tx'.inputs) : tx'.inputs[j] = InHand.inputs[j].outpoint
          /\ Len(tx'.outputs) <= Len(InHand.outputs)
          /\ \A j \in 1..Len(tx'.outputs) : tx'.outputs[j] = InHand.outputs[j]
      BY <1>2, <1>5 DEF BeganTx
    <2>2. QED
      BY <1>2, <1>5, <2>1, StillBegan
  <1> HIDE DEF k, t, o
  <1>10. Opened' + 1 = 1 /\ tx'.stacks \in 0..Len(t.witness)
    <2>1. Opened' = Len(t.witness) - tx'.stacks
      BY <1>8 DEF Opened
    <2>2. QED
      BY <1>6, <1>7, <2>1
  <1>11. /\ Ahead(Whole', tx'.witness_start, AtStack(sent', Number', 1))
         /\ Ahead(Whole', pos', AtStack(sent', Number', Opened' + 1))
    BY <1>2, <1>4, <1>5, <1>8, <1>10
  <1>12. Len(tx'.outputs) = Len(InHand'.outputs) /\ tx'.items = 0 /\ Len(tx'.inputs) = tx'.n_in
         /\ tx'.stacks \in 0..Len(InHand'.witness)
    BY <1>3, <1>5, <1>8, <1>10 DEF o
  <1>13. InWitness'
    BY <1>9, <1>11, <1>12 DEF InWitness
  <1>14. QED
    BY <1>2, <1>8, <1>13 DEF Tracks

LEMMA ReadWitnessTracks == ASSUME Shape, Fits, Tracks, ReadWitness, Still PROVE Tracks'
  <1> DEFINE n == Count(pos, 1)
             end == IF tx.items > 0 THEN ItemEnd(pos) ELSE n.next
             k == Number
             t == InHand
             w == Opened
             m == Len(t.witness)
  <1>1. /\ pc = "witness" /\ sent \in Seq(Transactions) /\ k \in 1..Len(sent) /\ k \in Nat
        /\ t = sent[k] /\ t \in Transactions /\ Done /\ raw \in Seq(Byte) /\ pos \in Nat
    BY Hand DEF ReadWitness, Reading
  <1>2. /\ InWitness /\ BeganTx /\ tx \in Record /\ tx.items \in Nat /\ tx.stacks \in Nat
        /\ (tx.items > 0 \/ tx.stacks > 0)
    BY <1>1 DEF Tracks, InWitness, Shape, Reading, ReadWitness, Record
  <1>3. m \in Nat /\ w = m - tx.stacks /\ w \in 0..m /\ tx.stacks \in 0..m
    <2>1. t.witness \in Seq(Some(Some(Byte)))
      BY <1>1, TxType
    <2>2. tx.stacks \in 0..m /\ w = m - tx.stacks
      BY <1>2 DEF InWitness, Opened
    <2>3. m \in Nat
      BY <2>1
    <2> HIDE DEF m, w
    <2>4. QED
      BY <2>2, <2>3
  <1>4. ASSUME tx'.start = tx.start, tx'.has_witness = tx.has_witness, tx'.n_in = tx.n_in,
               tx'.inputs = tx.inputs, tx'.outputs = tx.outputs,
               tx'.witness_start = tx.witness_start, UNCHANGED <<pc, count, txs>>,
               tx'.stacks \in 0..m,
               tx'.items = 0 => Ahead(Whole, pos', AtStack(sent, k, (m - tx'.stacks) + 1)),
               tx'.items # 0 =>
                 /\ m - tx'.stacks > 0 /\ tx'.items \in 1..Len(t.witness[m - tx'.stacks])
                 /\ Ahead(Whole, pos', AtItem(sent, k, m - tx'.stacks,
                                              (Len(t.witness[m - tx'.stacks]) - tx'.items) + 1))
        PROVE  Tracks'
    <2>1. Number' = k /\ InHand' = t /\ Whole' = Whole /\ sent' = sent /\ Done'
      BY <1>1, <1>4, SameHand
    <2>2. BeganTx'
      <3>1. /\ Len(tx'.inputs) <= tx.n_in
            /\ \A j \in 1..Len(tx'.inputs) : tx'.inputs[j] = InHand.inputs[j].outpoint
            /\ Len(tx'.outputs) <= Len(InHand.outputs)
            /\ \A j \in 1..Len(tx'.outputs) : tx'.outputs[j] = InHand.outputs[j]
        BY <1>2, <1>4 DEF BeganTx
      <3>2. QED
        BY <1>2, <1>4, <3>1, StillBegan
    <2>3. Opened' = m - tx'.stacks /\ Len(InHand'.witness) = m
      BY <2>1 DEF Opened
    <2> HIDE DEF k, t
    <2>4. /\ Len(tx'.inputs) = tx'.n_in /\ Len(tx'.outputs) = Len(InHand'.outputs)
          /\ Ahead(Whole', tx'.witness_start, AtStack(sent', Number', 1))
      BY <1>2, <1>4, <2>1 DEF InWitness, k, t
    <2> HIDE DEF m
    <2>5. InWitness'
      BY <1>4, <2>1, <2>2, <2>3, <2>4 DEF InWitness
    <2>6. QED
      BY <1>1, <1>4, <2>1, <2>5 DEF Tracks
  <1>5. CASE tx.items > 0
    <2> DEFINE s == t.witness[w]
               l == Len(s)
               i == (l - tx.items) + 1
               rest == AtItem(sent, k, w, i + 1)
    <2>1. w \in 1..m /\ tx.items \in 1..l /\ Ahead(Whole, pos, AtItem(sent, k, w, i))
      <3>1. w > 0 /\ tx.items \in 1..l /\ Ahead(Whole, pos, AtItem(sent, k, w, (l - tx.items) + 1))
        BY <1>2, <1>5 DEF InWitness
      <3> HIDE DEF w, m, l
      <3>2. QED
        BY <1>3, <3>1
    <2> HIDE DEF t, k, w, m
    <2>2. /\ \A j \in 1..l : /\ s[j] \in Some(Byte)
                             /\ AtItem(sent, k, w, j) = Item(s[j]) \o AtItem(sent, k, w, j + 1)
                             /\ AtItem(sent, k, w, j + 1) \in Seq(Byte)
          /\ AtItem(sent, k, w, l + 1) = AtStack(sent, k, w + 1) /\ l \in Nat
      <3>1. w \in 1..Len(sent[k].witness)
        BY <1>1, <2>1 DEF m
      <3>2. QED
        BY <1>1, <3>1, ItemAhead
    <2> HIDE DEF s, l
    <2>3. i \in 1..l
      <3> DEFINE y == tx.items
      <3>1. y \in 1..l /\ l \in Nat /\ i = (l - y) + 1
        BY <2>1, <2>2
      <3> HIDE DEF y, i
      <3>2. QED
        BY <3>1
    <2>4. s[i] \in Some(Byte) /\ Ahead(Whole, pos, Item(s[i]) \o rest) /\ rest \in Seq(Byte)
      <3> HIDE DEF i
      <3>1. QED
        BY <2>1, <2>2, <2>3
    <2> HIDE DEF i, rest
    <2>5. /\ raw = Whole => ItemEnd(pos) # Bad
          /\ ItemEnd(pos) # Bad => Ahead(Whole, ItemEnd(pos), rest)
      BY <1>1, <2>4, ItemFits
    <2>6. end = ItemEnd(pos)
      BY <1>5
    <2>7. CASE Malformed /\ end = Bad
      <3>1. raw # Whole
        BY <2>5, <2>6, <2>7
      <3>2. QED
        BY <2>7, <3>1, MalformedTracks DEF Malformed
    <2>8. CASE end # Bad /\ tx' = [tx EXCEPT !.items = @ - 1] /\ pos' = end /\ UNCHANGED <<pc, count, txs>>
      <3>1. /\ tx'.start = tx.start /\ tx'.has_witness = tx.has_witness /\ tx'.n_in = tx.n_in
            /\ tx'.inputs = tx.inputs /\ tx'.outputs = tx.outputs /\ tx'.stacks = tx.stacks
            /\ tx'.witness_start = tx.witness_start /\ tx'.items = tx.items - 1
        BY <1>2, <2>8 DEF Record
      <3>2. Ahead(Whole, pos', rest)
        BY <2>5, <2>6, <2>8
      <3>3. m - tx'.stacks = w /\ tx'.stacks \in 0..m /\ w > 0
        BY <1>3, <2>1, <3>1
      <3>4. ASSUME tx'.items = 0 PROVE Ahead(Whole, pos', AtStack(sent, k, w + 1))
        <4>1. i + 1 = l + 1
          BY <2>1, <2>2, <3>1, <3>4 DEF i
        <4>2. QED
          BY <2>2, <3>2, <4>1 DEF rest
      <3>5. ASSUME tx'.items # 0
            PROVE  tx'.items \in 1..l /\ Ahead(Whole, pos', AtItem(sent, k, w, (l - tx'.items) + 1))
        <4> DEFINE y == tx.items
                   z == tx'.items
        <4>1. y \in 1..l /\ l \in Nat /\ z = y - 1 /\ z # 0 /\ i = (l - y) + 1
          BY <2>1, <2>2, <3>1, <3>5 DEF i
        <4> HIDE DEF y, z
        <4>2. i + 1 = (l - z) + 1 /\ z \in 1..l
          BY <4>1
        <4>3. QED
          BY <3>2, <4>2 DEF rest, z
      <3>6. QED
        BY <1>4, <2>8, <3>1, <3>3, <3>4, <3>5 DEF l, s
    <2>9. QED
      BY <1>5, <2>7, <2>8 DEF ReadWitness, end
  <1>6. CASE ~(tx.items > 0)
    <2> DEFINE v == w + 1
               s == t.witness[v]
               l == Len(s)
               rest == AtItem(sent, k, v, 1)
    <2>1. tx.items = 0 /\ tx.stacks > 0 /\ Ahead(Whole, pos, AtStack(sent, k, v))
      <3>1. tx.items = 0 /\ tx.stacks > 0
        BY <1>2, <1>6
      <3>2. QED
        BY <1>2, <3>1 DEF InWitness
    <2> HIDE DEF t, k, w, m
    <2>2. v \in 1..m /\ v \in Nat /\ v = m - (tx.stacks - 1) /\ tx.stacks - 1 \in 0..m /\ v > 0
      BY <1>3, <2>1
    <2> HIDE DEF v
    <2>3. v \in 1..Len(sent[k].witness) /\ s = sent[k].witness[v]
      BY <1>1, <2>2 DEF m
    <2>4. AtStack(sent, k, v) = VarInt(l) \o rest /\ rest \in Seq(Byte) /\ Len(rest) >= l
      <3> HIDE DEF s
      <3>1. QED
        BY <1>1, <2>3, StackAhead
    <2>5. AtItem(sent, k, v, l + 1) = AtStack(sent, k, v + 1) /\ l \in Nat /\ l < TooLong
      <3> HIDE DEF s
      <3>1. QED
        BY <1>1, <2>3, ItemAhead
    <2> HIDE DEF s, l
    <2>6. /\ raw = Whole => n.next # Bad
          /\ n.next # Bad => n.value = l /\ Ahead(Whole, n.next, rest)
      <3> HIDE DEF rest
      <3>1. l * 1 <= Len(rest) /\ 1 \in {1, 9, 41}
        BY <2>4, <2>5
      <3>2. Ahead(Whole, pos, VarInt(l) \o rest)
        BY <2>1, <2>4
      <3>3. QED
        BY <1>1, <2>4, <2>5, <3>1, <3>2, CountFits
    <2> HIDE DEF n
    <2>7. end = n.next
      BY <1>6
    <2>8. CASE Malformed /\ end = Bad
      <3>1. raw # Whole
        BY <2>6, <2>7, <2>8
      <3>2. QED
        BY <2>8, <3>1, MalformedTracks DEF Malformed
    <2>9. CASE /\ end # Bad /\ tx' = [tx EXCEPT !.stacks = @ - 1, !.items = n.value]
               /\ pos' = end /\ UNCHANGED <<pc, count, txs>>
      <3>1. /\ tx'.start = tx.start /\ tx'.has_witness = tx.has_witness /\ tx'.n_in = tx.n_in
            /\ tx'.inputs = tx.inputs /\ tx'.outputs = tx.outputs /\ tx'.stacks = tx.stacks - 1
            /\ tx'.witness_start = tx.witness_start /\ tx'.items = l
        BY <1>2, <2>6, <2>7, <2>9 DEF Record
      <3>2. Ahead(Whole, pos', rest)
        BY <2>6, <2>7, <2>9
      <3>3. m - tx'.stacks = v /\ tx'.stacks \in 0..m
        BY <2>2, <3>1
      <3>4. ASSUME tx'.items = 0 PROVE Ahead(Whole, pos', AtStack(sent, k, v + 1))
        <4>1. l + 1 = 1
          BY <3>1, <3>4
        <4>2. QED
          BY <2>5, <3>2, <4>1 DEF rest
      <3>5. ASSUME tx'.items # 0
            PROVE  tx'.items \in 1..l /\ Ahead(Whole, pos', AtItem(sent, k, v, (l - tx'.items) + 1))
        <4>1. 1 = (l - tx'.items) + 1 /\ tx'.items \in 1..l
          BY <2>5, <3>1, <3>5
        <4>2. QED
          BY <3>2, <4>1 DEF rest
      <3>6. QED
        BY <1>4, <2>2, <2>9, <3>1, <3>3, <3>4, <3>5 DEF l, s
    <2>10. QED
      BY <1>6, <2>8, <2>9 DEF ReadWitness, end, n
  <1>7. QED
    BY <1>5, <1>6

(* What read_tx returns of a transaction that it has read to the end. *)
LEMMA CompletedFits ==
  ASSUME Shape, Fits, Tracks, pc = "witness", tx.items = 0, tx.stacks = 0
  PROVE  /\ raw = Whole => Take(pos, 4) # Bad
         /\ Take(pos, 4) # Bad => /\ Completed(Take(pos, 4)) = Parsed(InHand)
                                  /\ Ahead(Whole, Take(pos, 4), AtTx(sent, Number + 1))
  <1> DEFINE end == Take(pos, 4)
             k == Number
             t == InHand
             v == <<2, 0, 0, 0>>
             z == Zeros(4)
             next == AtTx(sent, k + 1)
             s == tx.start
             ws == tx.witness_start
  <1>1. /\ sent \in Seq(Transactions) /\ k \in 1..Len(sent) /\ k \in Nat
        /\ t = sent[k] /\ t \in Transactions /\ raw \in Seq(Byte) /\ pos \in Nat
    BY Hand DEF Reading
  <1>2. /\ InWitness /\ BeganTx /\ tx \in Record /\ s \in Nat /\ s <= pos /\ ws \in Nat /\ ws <= pos
        /\ pos <= Len(raw)
    BY DEF Tracks, InWitness, Shape, Reading, Record
  <1>3. /\ v \in Seq(Byte) /\ Len(v) = 4 /\ z \in Seq(Byte) /\ Len(z) = 4 /\ Marker(t) \in Seq(Byte)
        /\ Body(t) \in Seq(Byte) /\ Wire(t) \in Seq(Byte)
    <2> HIDE DEF t
    <2>1. QED
      BY <1>1, WireBytes
  <1>4. /\ AtTx(sent, k) = Wire(t) \o next /\ next \in Seq(Byte)
    <2> HIDE DEF k, t
    <2>1. QED
      BY <1>1, TxAhead
  <1>5. Ahead(Whole, pos, z \o next)
    <2>1. Ahead(Whole, pos, AtStack(sent, k, Opened + 1))
      BY <1>2 DEF InWitness
    <2>2. Opened = Len(t.witness)
      <3>1. t.witness \in Seq(Some(Some(Byte)))
        BY <1>1, TxType
      <3>2. Len(t.witness) \in Nat
        BY <3>1
      <3>3. QED
        BY <3>2 DEF Opened
    <2> HIDE DEF k, t, z, next
    <2>3. AtStack(sent, k, Len(sent[k].witness) + 1) = AtEnd(sent, k)
      BY <1>1, StackAhead
    <2>4. QED
      BY <1>1, <2>1, <2>2, <2>3 DEF AtEnd, z, next
  <1> HIDE DEF k, t, v, z, next, s, ws
  <1>6. /\ raw = Whole => end # Bad
        /\ end # Bad => end = pos + 4 /\ end <= Len(raw) /\ Ahead(Whole, end, next) /\ Slice(pos, end) = z
    <2>1. 4 = Len(z) /\ z \in Seq(Byte) /\ next \in Seq(Byte) /\ raw \in Seq(Byte)
      BY <1>1, <1>3, <1>4
    <2>2. QED
      BY <1>5, <2>1, TakeFits
  <1> HIDE DEF end
  <1>7. tx.inputs = Outpoints(t) /\ tx.outputs = t.outputs
    <2>1. t.inputs \in Seq(Ins) /\ t.outputs \in Seq(Some(Byte))
      BY <1>1, TxType
    <2>2. /\ Len(tx.inputs) = Len(t.inputs) /\ Len(tx.outputs) = Len(t.outputs)
          /\ \A j \in 1..Len(tx.inputs) : tx.inputs[j] = t.inputs[j].outpoint
          /\ \A j \in 1..Len(tx.outputs) : tx.outputs[j] = t.outputs[j]
      BY <1>2 DEF InWitness, BeganTx, t
    <2>3. tx.inputs \in Seq(Seq(Byte)) /\ tx.outputs \in Seq(Seq(Byte))
      BY <1>2 DEF Record
    <2>4. tx.inputs = Outpoints(t)
      <3> DEFINE a == tx.inputs
                 b == t.inputs
                 c == Outpoints(t)
      <3>1. c = [j \in 1..Len(b) |-> b[j].outpoint]
        BY <2>1 DEF Outpoints
      <3>2. /\ a \in Seq(Seq(Byte)) /\ Len(a) = Len(b) /\ Len(b) \in Nat
            /\ \A j \in 1..Len(a) : a[j] = b[j].outpoint
        BY <2>1, <2>2, <2>3
      <3> HIDE DEF a, b, c
      <3>3. a = [j \in 1..Len(a) |-> a[j]]
        BY <3>2
      <3>4. QED
        BY <3>1, <3>2, <3>3 DEF a, c
    <2>5. tx.outputs = t.outputs
      <3> DEFINE a == tx.outputs
                 b == t.outputs
      <3>1. a \in Seq(Seq(Byte)) /\ b \in Seq(Some(Byte)) /\ Len(a) = Len(b) /\ \A j \in 1..Len(a) : a[j] = b[j]
        BY <2>1, <2>2, <2>3
      <3> HIDE DEF a, b
      <3>2. a = [j \in 1..Len(a) |-> a[j]] /\ b = [j \in 1..Len(b) |-> b[j]]
        BY <3>1
      <3>3. QED
        BY <3>1, <3>2 DEF a, b
    <2>6. QED
      BY <2>4, <2>5
  <1>8. (Outpoints(t) = <<Null>>) = IsCoinbase(t)
    <2> DEFINE b == t.inputs
               c == Outpoints(t)
    <2>1. b \in Seq(Ins) /\ c = [j \in 1..Len(b) |-> b[j].outpoint]
      BY <1>1, TxType DEF Outpoints
    <2> HIDE DEF b, c
    <2>2. Len(b) \in Nat /\ c \in Seq({b[j].outpoint : j \in 1..Len(b)}) /\ Len(c) = Len(b)
          /\ \A j \in 1..Len(b) : c[j] = b[j].outpoint
      BY <2>1
    <2>3. ASSUME c = <<Null>> PROVE Len(b) = 1 /\ b[1].outpoint = Null
      BY <2>2, <2>3
    <2>4. ASSUME Len(b) = 1, b[1].outpoint = Null PROVE c = <<Null>>
      <3>1. c = [j \in 1..1 |-> Null]
        BY <2>1, <2>4
      <3>2. QED
        BY <3>1
    <2>5. (c = <<Null>>) <=> (Len(b) = 1 /\ b[1].outpoint = Null)
      BY <2>3, <2>4
    <2>6. QED
      BY <2>5 DEF IsCoinbase, b, c
  <1>9. ASSUME end # Bad PROVE Preimage(end) = Legacy(t)
    <2>1. /\ end = pos + 4 /\ end <= Len(raw) /\ s + 4 <= Len(raw)
          /\ Ahead(Whole, end, next) /\ Slice(pos, end) = z
      BY <1>1, <1>2, <1>6, <1>9
    <2>2. tx.has_witness = (t.witness # << >>) /\ Ahead(Whole, s, AtTx(sent, k))
          /\ Ahead(Whole, IF tx.has_witness THEN s + 6 ELSE s + 4, AtBody(sent, k))
      BY <1>2 DEF BeganTx, t, k, s
    <2>3. CASE ~tx.has_witness
      <3>1. Ahead(Whole, s, Wire(t) \o next)
        BY <1>4, <2>2
      <3>2. Slice(s, end) = Wire(t)
        <4> DEFINE a == Wire(t)
        <4>1. a \in Seq(Byte) /\ next \in Seq(Byte) /\ raw \in Seq(Byte) /\ Ahead(Whole, s, a \o next)
              /\ Ahead(Whole, end, next) /\ end <= Len(raw)
          BY <1>1, <1>3, <1>4, <2>1, <3>1
        <4> HIDE DEF a
        <4>2. Slice(s, end) = a
          BY <4>1, SpanFits
        <4>3. QED
          BY <4>2 DEF a
      <3>3. Wire(t) = Legacy(t)
        BY <2>2, <2>3 DEF Wire
      <3>4. QED
        BY <2>3, <3>2, <3>3 DEF Preimage, s
    <2>4. CASE tx.has_witness
      <3> DEFINE body == AtBody(sent, k)
                 stacks == AtStack(sent, k, 1)
                 mb == Marker(t) \o body
      <3>1. /\ body \in Seq(Byte) /\ body = Body(t) \o stacks /\ AtTx(sent, k) = v \o mb
            /\ stacks \in Seq(Byte)
        BY <1>1, BodyAhead DEF v
      <3> HIDE DEF body, stacks
      <3>2. mb \in Seq(Byte)
        BY <1>3, <3>1, BytesJoin
      <3> HIDE DEF mb
      <3>3. Ahead(Whole, s, v \o mb) /\ Ahead(Whole, s + 6, body)
        BY <2>2, <2>4, <3>1 DEF body
      <3>4. Ahead(Whole, s + 4, mb)
        <4>1. Ahead(Whole, s + Len(v), mb)
          BY <1>3, <3>2, <3>3, AheadStep
        <4>2. QED
          BY <1>3, <4>1
      <3>5. Slice(s, s + 4) = v
        BY <1>1, <1>3, <2>1, <3>2, <3>3, <3>4, SpanFits
      <3>6. Slice(s + 6, ws) = Body(t)
        <4>1. Ahead(Whole, ws, stacks) /\ ws <= Len(raw)
          BY <1>1, <1>2 DEF InWitness, stacks, ws, k
        <4> DEFINE a == Body(t)
                   p == s + 6
        <4>2. /\ a \in Seq(Byte) /\ stacks \in Seq(Byte) /\ raw \in Seq(Byte) /\ Ahead(Whole, p, a \o stacks)
          BY <1>1, <1>3, <3>1, <3>3
        <4> HIDE DEF a, p
        <4>3. Slice(p, ws) = a
          BY <4>1, <4>2, SpanFits
        <4>4. QED
          BY <4>3 DEF a, p
      <3>7. Preimage(end) = v \o Body(t) \o z
        BY <2>1, <2>4, <3>5, <3>6 DEF Preimage, s, ws
      <3>8. QED
        BY <3>7 DEF Legacy, v, z
    <2>5. QED
      BY <2>3, <2>4
  <1>10. ASSUME end # Bad PROVE Completed(end) = Parsed(t)
    <2> DEFINE is_coinbase == tx.inputs = <<Null>>
    <2>1. is_coinbase = IsCoinbase(t) /\ Preimage(end) = Legacy(t) /\ tx.has_witness = (t.witness # << >>)
      BY <1>2, <1>7, <1>8, <1>9, <1>10 DEF BeganTx, t
    <2>2. Completed(end) =
            [txid |-> Preimage(end), inputs |-> IF is_coinbase THEN << >> ELSE tx.inputs,
             outputs |-> tx.outputs, is_coinbase |-> is_coinbase, has_witness |-> tx.has_witness]
      BY DEF Completed
    <2> HIDE DEF is_coinbase
    <2>3. QED
      BY <1>7, <2>1, <2>2 DEF Parsed
  <1>11. QED
    BY <1>6, <1>10 DEF end, next, t, k

LEMMA EndTxTracks == ASSUME Shape, Fits, Tracks, EndTx, Still PROVE Tracks'
  <1> DEFINE end == Take(pos, 4)
             k == Number
             t == InHand
             r == Completed(end)
             n == Len(txs)
  <1>1. /\ pc = "witness" /\ tx.items = 0 /\ tx.stacks = 0 /\ k \in 1..Len(sent) /\ k \in Nat
        /\ t = sent[k] /\ Done /\ k <= count /\ k = n + 1
        /\ txs \in Seq(Result) /\ n \in Nat
    <2>1. pc = "witness" /\ tx.items = 0 /\ tx.stacks = 0 /\ txs \in Seq(Result)
      BY DEF EndTx, Shape
    <2>2. n \in Nat
      BY <2>1
    <2>3. QED
      BY <2>1, <2>2, Hand DEF Reading, Number
  <1>2. /\ raw = Whole => end # Bad
        /\ end # Bad => r = Parsed(t) /\ Ahead(Whole, end, AtTx(sent, k + 1))
    BY <1>1, CompletedFits
  <1> HIDE DEF k, t, r, end
  <1>3. CASE Malformed /\ end = Bad
    <2>1. raw # Whole
      BY <1>2, <1>3
    <2>2. QED
      BY <1>3, <2>1, MalformedTracks DEF Malformed
  <1>4. CASE /\ end # Bad /\ txs' = Append(txs, r) /\ pos' = end /\ pc' = "tx" /\ tx' = << >>
             /\ UNCHANGED count
    <2>1. /\ Len(txs') = k /\ txs'[k] = Parsed(sent[k]) /\ \A j \in 1..n : txs'[j] = txs[j]
      <3>1. /\ Len(Append(txs, r)) = n + 1 /\ Append(txs, r)[n + 1] = r
            /\ \A j \in 1..n : Append(txs, r)[j] = txs[j]
        BY <1>1
      <3>2. QED
        BY <1>1, <1>2, <1>4, <3>1
    <2>2. sent' = sent /\ Whole' = Whole
      BY StillHolds
    <2>3. Done'
      <3>1. \A j \in 1..n : txs[j] = Parsed(sent[j])
        BY <1>1 DEF Done
      <3>2. ASSUME NEW j \in 1..k PROVE txs'[j] = Parsed(sent[j])
        <4>1. j \in 1..n \/ j = k
          BY <1>1
        <4>2. QED
          BY <2>1, <3>1, <4>1
      <3>3. count' = Len(sent') /\ Len(txs') <= count'
        BY <1>1, <1>4, <2>1, <2>2 DEF Done
      <3>4. QED
        BY <2>1, <2>2, <3>2, <3>3 DEF Done
    <2>4. Number' = k + 1
      BY <2>1 DEF Number
    <2>5. Ahead(Whole', pos', AtTx(sent', Number'))
      BY <1>2, <1>4, <2>2, <2>4
    <2>6. QED
      BY <1>4, <2>3, <2>5 DEF Tracks
  <1>5. QED
    BY <1>3, <1>4 DEF EndTx, end, r

LEMMA EndTracks == ASSUME Shape, Fits, Tracks, End, Still PROVE Tracks'
  <1>1. /\ pc = "tx" /\ Len(txs) = count /\ sent \in Seq(Transactions) /\ Done /\ Len(txs) = Len(sent)
        /\ pos \in Nat
    BY DEF End, Shape, Sending, Tracks, Done
  <1>2. pos = Len(Whole)
    <2>1. Ahead(Whole, pos, AtTx(sent, Len(sent) + 1))
      BY <1>1 DEF Tracks, Number
    <2>2. AtTx(sent, Len(sent) + 1) = << >>
      BY <1>1, TxAhead
    <2>3. Ahead(Whole, pos, << >>)
      BY <2>1, <2>2
    <2>4. Len(Whole) = pos + Len(<< >>)
      BY <2>3 DEF Ahead
    <2>5. QED
      BY <1>1, <2>4
  <1>3. CASE Malformed /\ pos # Len(raw)
    <2>1. raw # Whole
      BY <1>2, <1>3
    <2>2. QED
      BY <1>3, <2>1, MalformedTracks DEF Malformed
  <1>4. CASE pos = Len(raw) /\ pc' = "parsed" /\ UNCHANGED <<pos, count, tx, txs>>
    <2>1. sent' = sent /\ Whole' = Whole
      BY StillHolds
    <2>2. Done'
      BY <1>1, <1>4, SameHand
    <2>3. QED
      BY <1>1, <1>2, <1>4, <2>1, <2>2 DEF Tracks
  <1>5. QED
    BY <1>3, <1>4 DEF End

-----------------------------------------------------------------------------
(* The inductive invariant: whatever arrived, the shape of the state and that what *)
(* was read lies end to end; and when it is the message, a piece of it or more     *)
(* than it, that the cursor is in the message where the parser believes it is.     *)

IInv == Shape /\ Tiles /\ (Fits => Tracks)

LEMMA InitIInv == ASSUME Init PROVE IInv
  BY InitShape, InitTracks, InitTiles DEF IInv

LEMMA NextIInv == ASSUME IInv, Next PROVE IInv'
  <1>1. Shape /\ Tiles /\ (Fits => Tracks) /\ Still
    BY DEF IInv, Next, Still
  <1>2. Fits' <=> Fits
    BY <1>1, StillHolds
  <1>3. CASE ReadHeader
    <2>1. Shape' /\ Tiles'
      BY <1>1, <1>3, ReadHeaderSafe
    <2>2. Fits => Tracks'
      BY <1>1, <1>3, ReadHeaderTracks
    <2>3. QED
      BY <1>2, <2>1, <2>2 DEF IInv
  <1>4. CASE BeginTx
    <2>1. Shape' /\ Tiles'
      BY <1>1, <1>4, BeginTxSafe
    <2>2. Fits => Tracks'
      BY <1>1, <1>4, BeginTxTracks
    <2>3. QED
      BY <1>2, <2>1, <2>2 DEF IInv
  <1>5. CASE ReadInput
    <2>1. Shape' /\ Tiles'
      BY <1>1, <1>5, ReadInputSafe
    <2>2. Fits => Tracks'
      BY <1>1, <1>5, ReadInputTracks
    <2>3. QED
      BY <1>2, <2>1, <2>2 DEF IInv
  <1>6. CASE ReadOutput
    <2>1. Shape' /\ Tiles'
      BY <1>1, <1>6, ReadOutputSafe
    <2>2. Fits => Tracks'
      BY <1>1, <1>6, ReadOutputTracks
    <2>3. QED
      BY <1>2, <2>1, <2>2 DEF IInv
  <1>7. CASE EndOutputs
    <2>1. Shape' /\ Tiles'
      BY <1>1, <1>7, EndOutputsSafe
    <2>2. Fits => Tracks'
      BY <1>1, <1>7, EndOutputsTracks
    <2>3. QED
      BY <1>2, <2>1, <2>2 DEF IInv
  <1>8. CASE ReadWitness
    <2>1. Shape' /\ Tiles'
      BY <1>1, <1>8, ReadWitnessSafe
    <2>2. Fits => Tracks'
      BY <1>1, <1>8, ReadWitnessTracks
    <2>3. QED
      BY <1>2, <2>1, <2>2 DEF IInv
  <1>9. CASE EndTx
    <2>1. Shape' /\ Tiles'
      BY <1>1, <1>9, EndTxSafe
    <2>2. Fits => Tracks'
      BY <1>1, <1>9, EndTxTracks
    <2>3. QED
      BY <1>2, <2>1, <2>2 DEF IInv
  <1>10. CASE End
    <2>1. Shape' /\ Tiles'
      BY <1>1, <1>10, EndSafe
    <2>2. Fits => Tracks'
      BY <1>1, <1>10, EndTracks
    <2>3. QED
      BY <1>2, <2>1, <2>2 DEF IInv
  <1>11. QED
    BY <1>3, <1>4, <1>5, <1>6, <1>7, <1>8, <1>9, <1>10 DEF Next

LEMMA StutterIInv == ASSUME IInv, UNCHANGED vars PROVE IInv'
  <1>1. /\ topic' = topic /\ sent' = sent /\ raw' = raw /\ pos' = pos /\ pc' = pc /\ count' = count
        /\ tx' = tx /\ txs' = txs
    BY DEF vars
  <1>2. Still
    BY <1>1 DEF Still
  <1>3. Whole' = Whole /\ Number' = Number /\ InHand' = InHand /\ (Fits' <=> Fits)
        /\ Declared' = Declared /\ (Sending' <=> Sending)
    BY <1>1, <1>2, StillHolds, SameHand
  <1>4. Shape'
    BY <1>1, <1>3 DEF IInv, Shape
  <1>5. Txids' = Txids
    BY <1>1 DEF Txids
  <1>6. Tiles'
    BY <1>1, <1>3, <1>5 DEF IInv, Tiles, Tiled, Slice
  <1>7. Opened' = Opened
    BY <1>1, <1>3 DEF Opened
  <1>8. (BeganTx' <=> BeganTx) /\ (Done' <=> Done)
    BY <1>1, <1>3 DEF BeganTx, Done
  <1>9. (InInputs' <=> InInputs) /\ (InOutputs' <=> InOutputs) /\ (InWitness' <=> InWitness)
    BY <1>1, <1>3, <1>7, <1>8 DEF InInputs, InOutputs, InWitness
  <1>10. Tracks' <=> Tracks
    BY <1>1, <1>3, <1>8, <1>9 DEF Tracks
  <1>11. QED
    BY <1>3, <1>4, <1>6, <1>10 DEF IInv

LEMMA ReachedIInv == Spec => []IInv
  <1>1. Init => IInv
    BY InitIInv
  <1>2. IInv /\ [Next]_vars => IInv'
    BY NextIInv, StutterIInv
  <1>3. QED
    BY <1>1, <1>2, PTL DEF Spec

(* One of two byte strings begins with the other. *)
LEMMA PrefixFits ==
  ASSUME NEW a \in Seq(Byte), NEW b \in Seq(Byte), IsPrefix(a, b)
  PROVE  /\ \A i \in 1..Len(a) : i <= Len(b) /\ a[i] = b[i]
         /\ Len(a) = Len(b) => a = b
  <1> DEFINE n == Len(a)
             c == SubSeq(a, 1, n)
             d == SubSeq(b, 1, n)
  <1>1. n \in Nat /\ Len(b) \in Nat /\ n <= Len(b) /\ c = d
    BY DEF IsPrefix
  <1>2. \A i \in 1..n : c[i] = a[i] /\ d[i] = b[i] /\ i <= Len(b)
    BY <1>1
  <1>3. \A i \in 1..n : a[i] = b[i]
    <2> HIDE DEF c, d
    <2>1. QED
      BY <1>1, <1>2
  <1>4. ASSUME n = Len(b) PROVE a = b
    BY <1>3, <1>4, SeqEqual
  <1>5. QED
    BY <1>2, <1>3, <1>4

(* block.py:60-64, tests/test_block.py:55-89, tests/test_tx.py:57-93: a message that  *)
(* arrives whole is parsed into what was sent, whatever the transactions in it.       *)
THEOREM IntactParsed == Spec => []IntactIsParsed
  <1>1. IInv => IntactIsParsed
    <2> SUFFICES ASSUME IInv, pc \in Ends, raw = Message(topic, sent)
                 PROVE  pc = "parsed" /\ txs = [i \in DOMAIN sent |-> Parsed(sent[i])]
      BY DEF IntactIsParsed, Parsed, IsCoinbase, Outpoints
    <2>1. raw = Whole /\ Fits
      BY DEF Whole, Fits
    <2>2. Tracks /\ sent \in Seq(Transactions) /\ txs \in Seq(Result)
      BY <2>1 DEF IInv, Shape, Sending
    <2>3. pc = "parsed"
      BY <2>1, <2>2 DEF Tracks, Ends
    <2>4. Len(txs) = Len(sent) /\ \A i \in 1..Len(txs) : txs[i] = Parsed(sent[i])
      BY <2>2, <2>3 DEF Tracks, Done
    <2>5. txs = [i \in 1..Len(txs) |-> txs[i]] /\ DOMAIN sent = 1..Len(sent)
      BY <2>2
    <2>6. txs = [i \in DOMAIN sent |-> Parsed(sent[i])]
      BY <2>4, <2>5
    <2>7. QED
      BY <2>3, <2>6
  <1>2. QED
    BY <1>1, ReachedIInv, PTL

(* block.py:61-64, 99-102, tests/test_block.py:108-127: a piece of a message and one *)
(* with something after it are never parsed, and a parsed block has the transactions *)
(* it declares, end to end, whatever the bytes.                                      *)
THEOREM AcceptedWhole == Spec => []AcceptedIsWhole
  <1>1. IInv => AcceptedIsWhole
    <2> SUFFICES ASSUME IInv, pc = "parsed"
                 PROVE  /\ ~IsStrictPrefix(raw, Whole) /\ ~IsStrictPrefix(Whole, raw)
                        /\ Len(txs) = Declared.value
                        /\ (\A i \in DOMAIN txs : ~txs[i].has_witness) =>
                             FlattenSeq(Txids) = Slice(Declared.next, Len(raw))
      BY DEF AcceptedIsWhole, Whole, Declared, Txids
    <2>1. Tiled(pos) /\ pos = Len(raw) /\ Len(txs) = count /\ Sending /\ raw \in Seq(Byte)
      BY DEF IInv, Tiles, Shape
    <2>2. Whole \in Seq(Byte)
      BY <2>1, MessageAhead
    <2>3. Fits => Len(raw) = Len(Whole)
      BY <2>1 DEF IInv, Tracks
    <2>4. ~IsStrictPrefix(raw, Whole)
      <3> SUFFICES ASSUME IsPrefix(raw, Whole) PROVE raw = Whole
        BY DEF IsStrictPrefix
      <3>1. Fits
        BY <2>1, <2>2, PrefixFits DEF Fits
      <3>2. QED
        BY <2>1, <2>2, <2>3, <3>1, PrefixFits
    <2>5. ~IsStrictPrefix(Whole, raw)
      <3> SUFFICES ASSUME IsPrefix(Whole, raw) PROVE Whole = raw
        BY DEF IsStrictPrefix
      <3>1. \A i \in 1..Len(Whole) : Whole[i] = raw[i]
        BY <2>1, <2>2, PrefixFits
      <3>2. \A i \in 1..Len(raw) : i <= Len(Whole) => i \in 1..Len(Whole)
        <4>1. Len(Whole) \in Nat /\ Len(raw) \in Nat
          BY <2>1, <2>2
        <4>2. QED
          BY <4>1
      <3>3. Fits
        BY <3>1, <3>2 DEF Fits
      <3>4. QED
        BY <2>1, <2>2, <2>3, <3>3, PrefixFits
    <2>6. QED
      BY <2>1, <2>4, <2>5 DEF Tiled
  <1>2. QED
    BY <1>1, ReachedIInv, PTL
=============================================================================
