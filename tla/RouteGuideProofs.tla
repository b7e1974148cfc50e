-------------------------- MODULE RouteGuideProofs --------------------------
(***************************************************************************)
(* For any clients, features, routes and notes: RouteInv of RouteGuide is   *)
(* inductive, so the answers of the streaming calls are right, and          *)
(* RouteChat implements the note board.                                     *)
(***************************************************************************)
EXTENDS RouteGuide, FiniteSetTheorems, SequenceTheorems, WellFoundedInduction, TLAPS

-----------------------------------------------------------------------------
(* Sequences.                                                               *)

\* Without End there is nothing to take away; End appended is taken away again.
LEMMA PlainFacts ==
    ASSUME NEW M, End \notin M, NEW s \in Seq(M)
    PROVE  /\ Plain(s) = s /\ ~Ended(s)
           /\ Plain(Append(s, End)) = s /\ Ended(Append(s, End))
           /\ \A x \in M : Plain(Append(s, x)) = Append(s, x)
<1>1. ~Ended(s)
  BY DEF Ended
<1>2. Ended(Append(s, End)) /\ Front(Append(s, End)) = s
  <2>1. Append(s, End) \in Seq(M \cup {End}) /\ Len(Append(s, End)) = Len(s) + 1
    OBVIOUS
  <2>2. Front(Append(s, End)) = SubSeq(Append(s, End), 1, Len(s))
    BY <2>1 DEF Front
  <2>3. SubSeq(Append(s, End), 1, Len(s)) = s
    BY <2>1
  <2>4. QED
    BY <2>1, <2>2, <2>3 DEF Ended
<1>3. ASSUME NEW x \in M PROVE ~Ended(Append(s, x))
  BY DEF Ended
<1>4. QED
  BY <1>1, <1>2, <1>3 DEF Plain

\* The next message of a direction is either End, and then the last one, or it is
\* the next of the others.
LEMMA PlainTail ==
    ASSUME NEW M, End \notin M, NEW N, NEW s \in Seq(N), s # <<>>, Plain(s) \in Seq(M)
    PROVE  /\ Head(s) = End => Plain(s) = <<>> /\ Plain(Tail(s)) = <<>>
           /\ Head(s) # End => /\ Plain(s) # <<>> /\ Head(s) = Head(Plain(s)) /\ Head(s) \in M
                               /\ Plain(Tail(s)) = Tail(Plain(s))
                               /\ Ended(Tail(s)) <=> Ended(s)
<1>1. CASE ~Ended(s)
  <2>1. Plain(s) = s
    BY <1>1 DEF Plain
  <2>2. Head(s) \in M /\ Tail(s) \in Seq(M)
    BY <2>1
  <2>3. Plain(Tail(s)) = Tail(s) /\ ~Ended(Tail(s))
    BY <2>2, PlainFacts
  <2>4. QED
    BY <1>1, <2>1, <2>2, <2>3
<1>2. CASE Ended(s)
  <2>1. /\ Plain(s) = SubSeq(s, 1, Len(s) - 1) /\ s[Len(s)] = End /\ Len(s) \in Nat \ {0}
        /\ Len(Plain(s)) = Len(s) - 1 /\ \A i \in 1..Len(s) - 1 : Plain(s)[i] = s[i]
    <3>1. s[Len(s)] = End /\ Len(s) \in Nat \ {0}
      BY <1>2 DEF Ended
    <3>2. Plain(s) = SubSeq(s, 1, Len(s) - 1)
      BY <1>2 DEF Plain, Front
    <3>3. /\ Len(SubSeq(s, 1, Len(s) - 1)) = Len(s) - 1
          /\ \A i \in 1..Len(s) - 1 : SubSeq(s, 1, Len(s) - 1)[i] = s[i]
      <4> DEFINE n == Len(s) - 1
      <4>1. n \in Int /\ 1 \in Int /\ \A i \in 1..n : s[i] \in N
        BY <3>1
      <4>2. /\ Len(SubSeq(s, 1, n)) = IF 1 <= n THEN n - 1 + 1 ELSE 0
            /\ \A i \in 1..n - 1 + 1 : SubSeq(s, 1, n)[i] = s[1 + i - 1]
        BY <4>1, SubSeqProperties
      <4>3. n >= 0
        BY <3>1
      <4> HIDE DEF n
      <4>4. Len(SubSeq(s, 1, n)) = n /\ \A i \in 1..n : SubSeq(s, 1, n)[i] = s[i]
        BY <4>1, <4>2, <4>3
      <4>5. QED
        BY <4>4 DEF n
    <3>4. QED
      BY <3>1, <3>2, <3>3, Zenon
  <2>2. CASE Len(s) = 1
    <3>1. Head(s) = End /\ Len(Tail(s)) = 0 /\ Tail(s) \in Seq(N) /\ Len(Plain(s)) = 0
      BY <2>1, <2>2
    <3>2. Plain(s) = <<>> /\ Tail(s) = <<>>
      <4>1. \A S : \A t \in Seq(S) : Len(t) = 0 => t = <<>>
        OBVIOUS
      <4>2. QED
        BY <3>1, <4>1
    <3>3. QED
      BY <3>1, <3>2 DEF Plain, Ended
  <2>3. CASE Len(s) > 1
    <3>1. Head(s) = Plain(s)[1] /\ Plain(s)[1] \in M /\ Plain(s) # <<>>
      <4>1. Len(Plain(s)) >= 1 /\ Plain(s)[1] = s[1]
        BY <2>1, <2>3
      <4>2. QED
        BY <4>1
    <3>2. Len(Tail(s)) = Len(s) - 1 /\ Tail(s)[Len(s) - 1] = End /\ Tail(s) \in Seq(N)
      BY <2>1, <2>3
    <3>3. Ended(Tail(s))
      BY <2>3, <3>2 DEF Ended
    <3>4. Plain(Tail(s)) = SubSeq(Tail(s), 1, Len(s) - 2)
      BY <3>2, <3>3 DEF Plain, Front
    <3>5. SubSeq(Tail(s), 1, Len(s) - 2) = Tail(SubSeq(s, 1, Len(s) - 1))
      BY <2>1, <2>3
    <3>6. QED
      BY <1>2, <2>1, <3>1, <3>3, <3>4, <3>5
  <2>4. QED
    BY <2>1, <2>2, <2>3
<1>3. QED
  BY <1>1, <1>2

\* A sequence over a set is one over a larger set.
LEMMA SeqMono == ASSUME NEW A, NEW B, A \subseteq B, NEW s \in Seq(A) PROVE s \in Seq(B)
  OBVIOUS

\* The parts of a sequence that is not empty.
LEMMA TailFacts ==
    ASSUME NEW M, NEW s \in Seq(M), s # <<>>
    PROVE  /\ Len(s) \in Nat /\ Len(s) >= 1 /\ Head(s) \in M /\ Tail(s) \in Seq(M)
           /\ Len(Tail(s)) = Len(s) - 1 /\ (Tail(s) = <<>> <=> Len(s) = 1)
<1>1. Len(s) \in Nat /\ Len(s) # 0
  BY EmptySeq
<1>2. Head(s) \in M /\ Tail(s) \in Seq(M) /\ Len(Tail(s)) = Len(s) - 1
  BY <1>1
<1>3. Tail(s) = <<>> <=> Len(Tail(s)) = 0
  BY <1>2, EmptySeq
<1>4. QED
  BY <1>1, <1>2, <1>3

\* Moving the next message from one sequence to the end of another.
LEMMA Moved ==
    ASSUME NEW M, NEW a \in Seq(M), NEW b \in Seq(M), b # <<>>
    PROVE  Append(a, Head(b)) \o Tail(b) = a \o b
  OBVIOUS

\* What goes in at the end of one of several sequences in a row stays in a row.
LEMMA Rows ==
    ASSUME NEW M, NEW a \in Seq(M), NEW b \in Seq(M), NEW d \in Seq(M)
    PROVE  /\ a \o b \in Seq(M) /\ a \o (b \o d) = (a \o b) \o d /\ a \o <<>> = a /\ <<>> \o a = a
           /\ a # <<>> => (Tail(a \o b) = Tail(a) \o b /\ Head(a \o b) = Head(a) /\ a \o b # <<>>)
           /\ b # <<>> => Append(a, Head(b)) \o (Tail(b) \o d) = a \o (b \o d)
<1>1. a \o b \in Seq(M) /\ a \o (b \o d) = (a \o b) \o d
  OBVIOUS
<1>2. a \o <<>> = a /\ <<>> \o a = a
  OBVIOUS
<1>3. ASSUME a # <<>> PROVE Tail(a \o b) = Tail(a) \o b /\ Head(a \o b) = Head(a) /\ a \o b # <<>>
  BY <1>3
<1>4. ASSUME b # <<>> PROVE Append(a, Head(b)) \o (Tail(b) \o d) = a \o (b \o d)
  <2>1. Append(a, Head(b)) \in Seq(M) /\ Tail(b) \in Seq(M)
    BY <1>4
  <2>2. Append(a, Head(b)) \o (Tail(b) \o d) = (Append(a, Head(b)) \o Tail(b)) \o d
    BY <2>1
  <2>3. QED
    BY <1>1, <1>4, <2>2, Moved
<1>5. QED
  BY <1>1, <1>2, <1>3, <1>4

-----------------------------------------------------------------------------
(* Loops.                                                                   *)

\* A set of numbers that is not empty has a least element.
LEMMA LeastNat ==
    ASSUME NEW S, S \subseteq Nat, S # {}
    PROVE  \E x \in S : \A y \in S : x <= y
<1> DEFINE R == {ss \in Nat \X Nat : ss[1] < ss[2]}
<1>1. IsWellFoundedOn(R, Nat)
  BY NatLessThanWellFounded DEF OpToRel
<1>2. PICK x \in S : \A y \in S : ~(<<y, x>> \in R)
  BY <1>1, WFMin
<1>3. \A y \in S : ~(y < x)
  BY <1>2
<1>4. QED
  BY <1>3

\* A set that has 0, and with a number of 0..N the next, has all of them.
LEMMA UpTo ==
    ASSUME NEW N \in Nat, NEW G, 0 \in G, \A k \in 1..N : k - 1 \in G => k \in G
    PROVE  0..N \subseteq G
<1> SUFFICES ASSUME (0..N) \ G # {} PROVE FALSE
  OBVIOUS
<1>1. PICK k \in (0..N) \ G : \A y \in (0..N) \ G : k <= y
  <2>1. (0..N) \ G \subseteq Nat
    OBVIOUS
  <2>2. QED
    BY <2>1, LeastNat
<1>2. k \in 1..N /\ k - 1 \in 0..N /\ ~(k <= k - 1)
  BY <1>1
<1>3. k - 1 \in G
  BY <1>1, <1>2
<1>4. QED
  BY <1>1, <1>2, <1>3

\* What the recursive functions of RouteGuide are: a first value, and each from the
\* one before it.
Iterates(f, b, N, step) == f[0] = b /\ \A k \in 1..N : f[k] = step[<<k, f[k - 1]>>]

\* There is such a function for every first value and every step.
LEMMA Iteration ==
    \A T : \A b \in T : \A N \in Nat : \A step \in [(1..N) \X T -> T] :
        \E f \in [0..N -> T] : Iterates(f, b, N, step)
<1> TAKE T
<1> TAKE b \in T
<1> TAKE N \in Nat
<1> TAKE step \in [(1..N) \X T -> T]
<1> DEFINE P(n) == \E f \in [0..n -> T] : f[0] = b /\ \A k \in 1..n : f[k] = step[<<k, f[k - 1]>>]
           G == {n \in 0..N : P(n)}
<1>1. P(0)
  <2> DEFINE f == [k \in 0..0 |-> b]
  <2>1. f \in [0..0 -> T] /\ f[0] = b /\ \A k \in 1..0 : f[k] = step[<<k, f[k - 1]>>]
    OBVIOUS
  <2>2. QED
    BY <2>1
<1>2. ASSUME NEW n \in 1..N, P(n - 1) PROVE P(n)
  <2>1. PICK f \in [0..n - 1 -> T] :
           f[0] = b /\ \A k \in 1..n - 1 : f[k] = step[<<k, f[k - 1]>>]
    BY <1>2
  <2> DEFINE g == [k \in 0..n |-> IF k = n THEN step[<<n, f[n - 1]>>] ELSE f[k]]
  <2>2. f[n - 1] \in T /\ <<n, f[n - 1]>> \in (1..N) \X T
    BY <2>1
  <2>3. step[<<n, f[n - 1]>>] \in T
    BY <2>2
  <2>4. g \in [0..n -> T]
    BY <2>1, <2>3
  <2>5. g[0] = b
    BY <2>1
  <2>6. ASSUME NEW k \in 1..n PROVE g[k] = step[<<k, g[k - 1]>>]
    <3>1. g[k - 1] = f[k - 1]
      OBVIOUS
    <3>2. CASE k = n
      <4>1. g[n] = step[<<n, f[n - 1]>>]
        OBVIOUS
      <4> HIDE DEF g
      <4>2. QED
        BY <3>1, <3>2, <4>1
    <3>3. CASE k # n
      <4>1. k \in 1..n - 1 /\ g[k] = f[k]
        BY <3>3
      <4> HIDE DEF g
      <4>2. QED
        BY <2>1, <3>1, <4>1
    <3>4. QED
      BY <3>2, <3>3
  <2> HIDE DEF g
  <2>7. QED
    BY <2>4, <2>5, <2>6
<1>3. 0 \in G /\ \A k \in 1..N : k - 1 \in G => k \in G
  <2> HIDE DEF P
  <2>1. QED
    BY <1>1, <1>2
<1>4. N \in G
  <2> HIDE DEF G
  <2>1. QED
    BY <1>3, UpTo
<1>5. QED
  BY <1>4 DEF Iterates

-----------------------------------------------------------------------------
(* ListFeatures.                                                            *)

\* What the assumptions say of the features loaded.
LEMMA FeaturesType ==
    /\ SavedFeatures \in Seq(ToSet(SavedFeatures)) /\ Len(SavedFeatures) \in Nat
    /\ DOMAIN SavedFeatures = 1..Len(SavedFeatures)
    /\ \A i \in DOMAIN SavedFeatures : SavedFeatures[i].location \in Points
<1> DEFINE F == {f \in ToSet(SavedFeatures) : f.location \in Points}
<1>1. SavedFeatures \in Seq(F)
  BY PointsAssumption, Zenon
<1>2. F \subseteq ToSet(SavedFeatures) /\ \A f \in F : f.location \in Points
  BY Zenon
<1> HIDE DEF F
<1>3. QED
  BY <1>1, <1>2

\* Between the corners, in whatever order the rectangle names them.
LEMMA InRangeRight ==
    ASSUME NEW p \in Points, NEW r \in Rectangles
    PROVE  inRange(p, r) <=> /\ Between(p.lat, r.lo.lat, r.hi.lat)
                             /\ Between(p.lon, r.lo.lon, r.hi.lon)
<1>1. /\ p.lat \in Int /\ p.lon \in Int
      /\ r.lo.lat \in Int /\ r.lo.lon \in Int /\ r.hi.lat \in Int /\ r.hi.lon \in Int
  BY PointsAssumption
<1>2. ASSUME NEW a \in Int, NEW b \in Int
      PROVE  /\ Min({a, b}) = IF a <= b THEN a ELSE b
             /\ Max({a, b}) = IF a <= b THEN b ELSE a
  BY DEF Min, Max
<1>3. QED
  BY <1>1, <1>2 DEF inRange, Between

\* Feature by feature, the list grows or stays.
LEMMA ListedSteps ==
    ASSUME NEW within
    PROVE  \E h \in [0..Len(SavedFeatures) -> Seq(ToSet(SavedFeatures))] :
              /\ h[0] = <<>> /\ Listed(within) = h[Len(SavedFeatures)]
              /\ \A k \in 1..Len(SavedFeatures) :
                    h[k] = IF k \in within THEN Append(h[k - 1], SavedFeatures[k]) ELSE h[k - 1]
<1> DEFINE N == Len(SavedFeatures)
           T == Seq(ToSet(SavedFeatures))
           Step(f, k) == IF k = 0 THEN <<>>
                         ELSE IF k \in within THEN Append(f[k - 1], SavedFeatures[k]) ELSE f[k - 1]
           step == [x \in (1..N) \X T |->
                       IF x[1] \in within THEN Append(x[2], SavedFeatures[x[1]]) ELSE x[2]]
           P(f) == f = [k \in 0..N |-> Step(f, k)]
           h == CHOOSE f : P(f)
<1>1. N \in Nat /\ DOMAIN SavedFeatures = 1..N
  BY FeaturesType
<1>2. ASSUME NEW k \in 1..N, NEW l \in T PROVE Append(l, SavedFeatures[k]) \in T
  <2>1. SavedFeatures[k] \in ToSet(SavedFeatures)
    BY <1>1 DEF ToSet
  <2> HIDE DEF N
  <2>2. \A S : \A s \in Seq(S), x \in S : Append(s, x) \in Seq(S)
    OBVIOUS
  <2>3. QED
    BY <2>1, <2>2, Zenon
<1>3. Listed(within) = h[N]
  BY DEF Listed
<1>4. <<>> \in T
  OBVIOUS
<1> HIDE DEF T
<1>5. step \in [(1..N) \X T -> T]
  BY <1>2
<1>6. PICK f \in [0..N -> T] : Iterates(f, <<>>, N, step)
  <2> HIDE DEF step, N
  <2>1. N \in Nat
    BY <1>1
  <2>2. QED
    BY <1>4, <1>5, <2>1, Iteration, Zenon
<1>7. P(f)
  <2>1. ASSUME NEW k \in 1..N PROVE f[k] = Step(f, k)
    <3>1. f[k] = step[<<k, f[k - 1]>>] /\ f[k - 1] \in T
      <4> HIDE DEF step
      <4>1. QED
        BY <1>1, <1>6 DEF Iterates
    <3>2. <<k, f[k - 1]>> \in (1..N) \X T /\ k # 0
      BY <1>1, <3>1
    <3>3. step[<<k, f[k - 1]>>] =
             IF k \in within THEN Append(f[k - 1], SavedFeatures[k]) ELSE f[k - 1]
      BY <3>2
    <3>4. QED
      BY <3>1, <3>2, <3>3
  <2>2. \A k \in 0..N : f[k] = Step(f, k)
    <3>1. f[0] = Step(f, 0)
      BY <1>6, Zenon DEF Iterates
    <3>2. \A k \in 0..N : k = 0 \/ k \in 1..N
      BY <1>1
    <3> HIDE DEF Step
    <3>3. QED
      BY <2>1, <3>1, <3>2
  <2>3. QED
    BY <2>2
<1>8. P(h)
  BY <1>7
<1> HIDE DEF h
<1>9. \A k \in 0..N : h[k] = Step(h, k)
  BY <1>8
<1>10. 0..N \subseteq {k \in 0..N : h[k] \in T}
  <2> DEFINE G == {k \in 0..N : h[k] \in T}
  <2>1. 0 \in G
    BY <1>1, <1>4, <1>9
  <2>2. ASSUME NEW k \in 1..N, k - 1 \in G PROVE k \in G
    BY <1>1, <1>2, <1>9, <2>2
  <2> HIDE DEF G, N
  <2>3. 0..N \subseteq G
    BY <1>1, <2>1, <2>2, UpTo
  <2>4. QED
    BY <2>3 DEF G
<1>11. h \in [0..N -> T]
  BY <1>8, <1>10
<1>12. h[0] = <<>> /\ \A k \in 1..N :
          h[k] = IF k \in within THEN Append(h[k - 1], SavedFeatures[k]) ELSE h[k - 1]
  BY <1>1, <1>9
<1>13. QED
  BY <1>3, <1>11, <1>12, Zenon DEF T

\* The list enumerates the features within, in order.
LEMMA ListedRight ==
    ASSUME NEW within \in SUBSET DOMAIN SavedFeatures
    PROVE  /\ Listed(within) \in Seq(ToSet(SavedFeatures))
           /\ LET list == Listed(within)
              IN  \E place \in [DOMAIN list -> within] :
                     /\ \A i \in within : \E j \in DOMAIN list : place[j] = i
                     /\ \A i, j \in DOMAIN list : i < j => place[i] < place[j]
                     /\ \A j \in DOMAIN list : list[j] = SavedFeatures[place[j]]
<1> DEFINE N == Len(SavedFeatures)
           T == ToSet(SavedFeatures)
           W(k) == within \cap 1..k
           E(l, place, S) == /\ \A i \in S : \E j \in DOMAIN l : place[j] = i
                             /\ \A i, j \in DOMAIN l : i < j => place[i] < place[j]
                             /\ \A j \in DOMAIN l : l[j] = SavedFeatures[place[j]]
<1>1. N \in Nat /\ DOMAIN SavedFeatures = 1..N
  BY FeaturesType
<1>2. PICK h \in [0..N -> Seq(T)] :
         /\ h[0] = <<>> /\ Listed(within) = h[N]
         /\ \A k \in 1..N :
               h[k] = IF k \in within THEN Append(h[k - 1], SavedFeatures[k]) ELSE h[k - 1]
  BY ListedSteps
<1> DEFINE G == {k \in 0..N : \E place \in [DOMAIN h[k] -> W(k)] : E(h[k], place, W(k))}
<1>3. 0 \in G
  <2> DEFINE e == [j \in {} |-> 0]
  <2>1. DOMAIN h[0] = {} /\ W(0) = {}
    BY <1>2
  <2>2. e \in [DOMAIN h[0] -> W(0)] /\ E(h[0], e, W(0))
    BY <2>1
  <2> HIDE DEF E, W, e
  <2>3. QED
    BY <1>1, <2>2
<1>4. ASSUME NEW k \in 1..N, k - 1 \in G PROVE k \in G
  <2>1. PICK place \in [DOMAIN h[k - 1] -> W(k - 1)] : E(h[k - 1], place, W(k - 1))
    BY <1>4
  <2>2. h[k - 1] \in Seq(T) /\ h[k] \in Seq(T)
    BY <1>1, <1>2
  <2>3. CASE k \notin within
    <3>1. h[k] = h[k - 1] /\ W(k) = W(k - 1)
      BY <1>1, <1>2, <2>3
    <3> HIDE DEF E, W
    <3>2. \E p \in [DOMAIN h[k] -> W(k)] : E(h[k], p, W(k))
      BY <2>1, <3>1
    <3>3. QED
      BY <3>2
  <2>4. CASE k \in within
    <3> DEFINE n == Len(h[k - 1])
               p == [j \in 1..n + 1 |-> IF j = n + 1 THEN k ELSE place[j]]
    <3>1. /\ W(k) = W(k - 1) \cup {k} /\ \A i \in W(k - 1) : i < k
          /\ n \in Nat /\ DOMAIN h[k - 1] = 1..n
      BY <1>1, <2>2, <2>4
    <3>2. h[k] = Append(h[k - 1], SavedFeatures[k])
      BY <1>2, <2>4
    <3>3. /\ DOMAIN h[k] = 1..n + 1 /\ h[k][n + 1] = SavedFeatures[k]
          /\ \A j \in 1..n : h[k][j] = h[k - 1][j]
      BY <2>2, <3>1, <3>2
    <3>4. /\ \A i \in W(k - 1) : \E j \in 1..n : place[j] = i
          /\ \A i, j \in 1..n : i < j => place[i] < place[j]
          /\ \A j \in 1..n : h[k - 1][j] = SavedFeatures[place[j]]
      BY <2>1, <3>1
    <3> HIDE DEF W, n
    <3>5. p \in [1..n + 1 -> W(k)] /\ p[n + 1] = k /\ \A j \in 1..n : p[j] = place[j] /\ p[j] < k
      BY <2>1, <3>1
    <3> HIDE DEF p
    <3>6. \A i \in W(k) : \E j \in 1..n + 1 : p[j] = i
      BY <3>1, <3>4, <3>5
    <3>7. \A i, j \in 1..n + 1 : i < j => p[i] < p[j]
      <4> SUFFICES ASSUME NEW i \in 1..n + 1, NEW j \in 1..n + 1, i < j PROVE p[i] < p[j]
        OBVIOUS
      <4>1. i \in 1..n
        BY <3>1
      <4>2. CASE j = n + 1
        BY <3>5, <4>1, <4>2
      <4>3. CASE j # n + 1
        <5>1. j \in 1..n
          BY <3>1, <4>3
        <5>2. QED
          BY <3>4, <3>5, <4>1, <5>1
      <4>4. QED
        BY <4>2, <4>3
    <3>8. \A j \in 1..n + 1 : h[k][j] = SavedFeatures[p[j]]
      <4> SUFFICES ASSUME NEW j \in 1..n + 1 PROVE h[k][j] = SavedFeatures[p[j]]
        OBVIOUS
      <4>1. CASE j = n + 1
        BY <3>3, <3>5, <4>1
      <4>2. CASE j # n + 1
        <5>1. j \in 1..n
          BY <3>1, <4>2
        <5>2. QED
          BY <3>3, <3>4, <3>5, <5>1
      <4>3. QED
        BY <4>1, <4>2
    <3>9. E(h[k], p, W(k)) /\ p \in [DOMAIN h[k] -> W(k)]
      BY <3>3, <3>5, <3>6, <3>7, <3>8
    <3> HIDE DEF E
    <3>10. QED
      BY <3>9
  <2>5. QED
    BY <2>3, <2>4
<1>5. N \in G
  <2> HIDE DEF G, N
  <2>1. 0..N \subseteq G
    BY <1>1, <1>3, <1>4, UpTo, Zenon
  <2>2. QED
    BY <1>1, <2>1
<1>6. W(N) = within
  BY <1>1
<1>7. PICK spot \in [DOMAIN h[N] -> W(N)] : E(h[N], spot, W(N))
  BY <1>5
<1> HIDE DEF W
<1>8. h[N] \in Seq(T)
  BY <1>1, <1>2
<1>9. \E place \in [DOMAIN h[N] -> within] : E(h[N], place, within)
  <2> HIDE DEF E
  <2>1. QED
    BY <1>6, <1>7
<1>10. QED
  <2> HIDE DEF N
  <2>1. QED
    BY <1>2, <1>8, <1>9

\* ListFeatures sends what lies between the corners of its rectangle.
LEMMA ListsRight ==
    ASSUME NEW r \in Rectangles
    PROVE  LET list == Listed({i \in DOMAIN SavedFeatures : inRange(SavedFeatures[i].location, r)})
           IN  list \in Seq(Feature) /\ Lists(list, r)
<1> DEFINE within == {i \in DOMAIN SavedFeatures : inRange(SavedFeatures[i].location, r)}
           list == Listed(within)
           inside == {i \in DOMAIN SavedFeatures :
                         /\ Between(SavedFeatures[i].location.lat, r.lo.lat, r.hi.lat)
                         /\ Between(SavedFeatures[i].location.lon, r.lo.lon, r.hi.lon)}
<1>1. within = inside
  BY FeaturesType, InRangeRight
<1>2. within \in SUBSET DOMAIN SavedFeatures
  OBVIOUS
<1> HIDE DEF within
<1>3. /\ list \in Seq(ToSet(SavedFeatures))
      /\ \E place \in [DOMAIN list -> within] :
            /\ \A i \in within : \E j \in DOMAIN list : place[j] = i
            /\ \A i, j \in DOMAIN list : i < j => place[i] < place[j]
            /\ \A j \in DOMAIN list : list[j] = SavedFeatures[place[j]]
  BY <1>2, ListedRight
<1>4. Lists(list, r)
  BY <1>1, <1>3 DEF Lists
<1> HIDE DEF list
<1>5. list \in Seq(Feature)
  <2>1. ToSet(SavedFeatures) \subseteq Feature
    BY DEF Feature
  <2>2. QED
    BY <1>3, <2>1, SeqMono
<1>6. QED
  BY <1>4, <1>5 DEF list, within

-----------------------------------------------------------------------------
(* RecordRoute.                                                             *)

\* The points of a route.
LEMMA RouteType1 ==
    ASSUME NEW r \in Routes
    PROVE  /\ r \in Seq(Points) /\ Len(r) \in Nat /\ Len(r) >= 2 /\ DOMAIN r = 1..Len(r)
           /\ \A i \in 1..Len(r) : r[i] \in Points
  BY RoutesAssumption

\* Leg by leg, the length of a route.
LEMMA LengthSteps ==
    ASSUME NEW r \in Routes
    PROVE  \E h \in [0..Len(r) -> Int] :
              /\ \A k \in 0..Len(r) : RouteLength(r, k) = h[k]
              /\ h[0] = 0 /\ h[1] = 0
              /\ \A k \in 2..Len(r) : h[k] = h[k - 1] + Distance[<<r[k - 1], r[k]>>]
<1> DEFINE N == Len(r)
           Step(f, k) == IF k <= 1 THEN 0 ELSE f[k - 1] + Distance[<<r[k - 1], r[k]>>]
           step == [x \in (1..N) \X Int |->
                       IF x[1] <= 1 THEN 0 ELSE x[2] + Distance[<<r[x[1] - 1], r[x[1]]>>]]
           P(f) == f = [k \in 0..N |-> Step(f, k)]
           h == CHOOSE f : P(f)
<1>1. N \in Nat /\ N >= 2 /\ \A i \in 1..N : r[i] \in Points
  BY RouteType1
<1>2. \A k \in 2..N : Distance[<<r[k - 1], r[k]>>] \in Int
  <2> SUFFICES ASSUME NEW k \in 2..N PROVE Distance[<<r[k - 1], r[k]>>] \in Int
    OBVIOUS
  <2>1. r[k - 1] \in Points /\ r[k] \in Points
    BY <1>1
  <2>2. QED
    BY <2>1, PointsAssumption, Zenon
<1>3. \A k \in 0..N : RouteLength(r, k) = h[k]
  BY Zenon DEF RouteLength
<1>4. step \in [(1..N) \X Int -> Int]
  BY <1>1, <1>2
<1>5. PICK f \in [0..N -> Int] : Iterates(f, 0, N, step)
  <2> HIDE DEF step, N
  <2>1. N \in Nat /\ 0 \in Int
    BY <1>1
  <2>2. QED
    BY <1>4, <2>1, Iteration, Zenon
<1>6. P(f)
  <2>1. ASSUME NEW k \in 1..N PROVE f[k] = Step(f, k)
    <3>1. f[k] = step[<<k, f[k - 1]>>] /\ f[k - 1] \in Int
      <4> HIDE DEF step
      <4>1. QED
        BY <1>1, <1>5 DEF Iterates
    <3>2. <<k, f[k - 1]>> \in (1..N) \X Int
      BY <1>1, <3>1
    <3>3. step[<<k, f[k - 1]>>] = IF k <= 1 THEN 0 ELSE f[k - 1] + Distance[<<r[k - 1], r[k]>>]
      BY <3>2
    <3>4. QED
      BY <3>1, <3>3
  <2>2. \A k \in 0..N : f[k] = Step(f, k)
    <3>1. f[0] = Step(f, 0)
      <4>1. f[0] = 0
        BY <1>5, Zenon DEF Iterates
      <4>2. QED
        BY <4>1
    <3>2. \A k \in 0..N : k = 0 \/ k \in 1..N
      BY <1>1
    <3> HIDE DEF Step
    <3>3. QED
      BY <2>1, <3>1, <3>2
  <2>3. QED
    BY <2>2
<1>7. P(h)
  BY <1>6
<1> HIDE DEF h
<1>8. /\ \A k \in 0..N : k <= 1 => h[k] = 0
      /\ \A k \in 0..N : ~(k <= 1) => h[k] = h[k - 1] + Distance[<<r[k - 1], r[k]>>]
  <2>1. \A k \in 0..N : h[k] = Step(h, k)
    BY <1>7
  <2>2. QED
    BY <2>1, Zenon
<1> HIDE DEF N
<1>9. 0..N \subseteq {k \in 0..N : h[k] \in Int}
  <2> DEFINE G == {k \in 0..N : h[k] \in Int}
  <2>1. 0 \in G
    BY <1>1, <1>8
  <2>2. ASSUME NEW k \in 1..N, k - 1 \in G PROVE k \in G
    <3>1. CASE k <= 1
      BY <1>1, <1>8, <3>1
    <3>2. CASE ~(k <= 1)
      <4>1. k \in 2..N /\ h[k - 1] \in Int
        BY <1>1, <2>2, <3>2
      <4>2. h[k] = h[k - 1] + Distance[<<r[k - 1], r[k]>>]
        BY <1>1, <1>8, <3>2
      <4>3. QED
        BY <1>2, <4>1, <4>2
    <3>3. QED
      BY <3>1, <3>2
  <2> HIDE DEF G
  <2>3. 0..N \subseteq G
    BY <1>1, <2>1, <2>2, UpTo
  <2>4. QED
    BY <2>3 DEF G
<1>10. h \in [0..N -> Int]
  BY <1>7, <1>9
<1>11. h[0] = 0 /\ h[1] = 0 /\ \A k \in 2..N : h[k] = h[k - 1] + Distance[<<r[k - 1], r[k]>>]
  BY <1>1, <1>8
<1>12. QED
  BY <1>3, <1>10, <1>11, Zenon DEF N

\* The pairs of one of the first k points and a feature at the same place.
Meetings(r, k) == {p \in (1..k) \X (DOMAIN SavedFeatures) : r[p[1]] = SavedFeatures[p[2]].location}

\* The next point meets the features at its place.
LEMMA MeetingsStep ==
    ASSUME NEW r, NEW k \in Nat
    PROVE  LET here == {i \in DOMAIN SavedFeatures : SavedFeatures[i].location = r[k + 1]}
           IN  /\ Cardinality(Meetings(r, k)) \in Nat /\ Cardinality(here) \in Nat
               /\ Cardinality(Meetings(r, k + 1)) = Cardinality(Meetings(r, k)) + Cardinality(here)
<1> DEFINE D == DOMAIN SavedFeatures
           here == {i \in D : SavedFeatures[i].location = r[k + 1]}
           new == {p \in {k + 1} \X D : r[p[1]] = SavedFeatures[p[2]].location}
           f == [i \in here |-> <<k + 1, i>>]
<1>1. IsFiniteSet(D)
  BY FeaturesType, FS_Interval
<1>2. IsFiniteSet(here)
  BY <1>1, FS_Subset
<1>3. IsFiniteSet(Meetings(r, k))
  <2>1. IsFiniteSet((1..k) \X D)
    <3>1. IsFiniteSet(1..k)
      BY FS_Interval
    <3> HIDE DEF D
    <3>2. QED
      BY <1>1, <3>1, FS_Product
  <2>2. Meetings(r, k) \in SUBSET ((1..k) \X D)
    BY DEF Meetings
  <2>3. QED
    BY <2>1, <2>2, FS_Subset
<1>4. ExistsBijection(here, new)
  <2>1. f \in [here -> new]
    <3> SUFFICES ASSUME NEW i \in here PROVE <<k + 1, i>> \in new
      OBVIOUS
    <3>1. QED
      OBVIOUS
  <2>2. \A a, b \in here : f[a] = f[b] => a = b
    OBVIOUS
  <2>3. \A t \in new : \E s \in here : f[s] = t
    <3> SUFFICES ASSUME NEW t \in new PROVE \E s \in here : f[s] = t
      OBVIOUS
    <3>1. t = <<k + 1, t[2]>> /\ t[2] \in here
      OBVIOUS
    <3>2. QED
      BY <3>1
  <2> HIDE DEF f, here, new
  <2>4. f \in Bijection(here, new)
    BY <2>1, <2>2, <2>3 DEF Bijection, Injection, Surjection, IsInjective
  <2>5. QED
    BY <2>4 DEF ExistsBijection
<1>5. IsFiniteSet(new) /\ Cardinality(new) = Cardinality(here)
  BY <1>2, <1>4, FS_Bijection
<1>6. Meetings(r, k + 1) = Meetings(r, k) \cup new /\ Meetings(r, k) \cap new = {}
  <2>1. 1..k + 1 = (1..k) \cup {k + 1} /\ k + 1 \notin 1..k
    OBVIOUS
  <2>2. QED
    BY <2>1 DEF Meetings
<1> HIDE DEF new, here, D
<1>7. Cardinality(Meetings(r, k + 1)) = Cardinality(Meetings(r, k)) + Cardinality(here)
  <2>1. Cardinality(Meetings(r, k + 1)) = Cardinality(Meetings(r, k)) + Cardinality(new) - 0
    BY <1>3, <1>5, <1>6, FS_Union, FS_EmptySet
  <2>2. QED
    BY <1>2, <1>3, <1>5, <2>1, FS_CardinalityType
<1>8. QED
  BY <1>2, <1>3, <1>7, FS_CardinalityType DEF here, D

\* What RecordRoute knows after k points.
TripRight(t, r, k) ==
    /\ t.pointCount = k /\ t.featureCount = Cardinality(Meetings(r, k))
    /\ t.distance = RouteLength(r, k)
    /\ t.lastPoint = IF k = 0 THEN NoPoint ELSE r[k]

\* The local variables of a RecordRoute handler.
TripType == [pointCount : Nat, featureCount : Nat, distance : Int,
             lastPoint : Points \cup {NoPoint}]

\* A new trip is one without points.
LEMMA TripStart ==
    ASSUME NEW r \in Routes
    PROVE  NoTrip \in TripType /\ TripRight(NoTrip, r, 0)
<1>1. Meetings(r, 0) = {}
  BY DEF Meetings
<1>2. RouteLength(r, 0) = 0
  <2>1. 0 \in 0..Len(r)
    BY RouteType1
  <2>2. QED
    BY <2>1, LengthSteps
<1>3. QED
  BY <1>1, <1>2, FS_EmptySet DEF TripRight, NoTrip, TripType

\* One turn of RecordRoute's loop adds the next point of the route.
LEMMA TripStep ==
    ASSUME NEW r \in Routes, NEW k \in 0..Len(r) - 1, NEW t \in TripType, TripRight(t, r, k)
    PROVE  /\ RecordPoint(t, r[k + 1]) \in TripType
           /\ TripRight(RecordPoint(t, r[k + 1]), r, k + 1)
<1> DEFINE p == r[k + 1]
           u == RecordPoint(t, p)
           here == {i \in DOMAIN SavedFeatures : SavedFeatures[i].location = p}
<1>1. k \in Nat /\ k + 1 \in 1..Len(r) /\ p \in Points /\ k + 1 # 0
  BY RouteType1
<1>2. /\ u.pointCount = t.pointCount + 1
      /\ u.featureCount = t.featureCount + Cardinality(here)
      /\ u.distance = IF t.lastPoint = NoPoint THEN t.distance
                      ELSE t.distance + Distance[<<t.lastPoint, p>>]
      /\ u.lastPoint = p
      /\ u = [pointCount |-> u.pointCount, featureCount |-> u.featureCount,
              distance |-> u.distance, lastPoint |-> u.lastPoint]
  BY Zenon DEF RecordPoint, calcDistance
<1> HIDE DEF u
<1>3. /\ Cardinality(Meetings(r, k)) \in Nat /\ Cardinality(here) \in Nat
      /\ Cardinality(Meetings(r, k + 1)) = Cardinality(Meetings(r, k)) + Cardinality(here)
  BY <1>1, MeetingsStep
<1>4. u.featureCount = Cardinality(Meetings(r, k + 1)) /\ u.featureCount \in Nat
  BY <1>2, <1>3 DEF TripRight
<1>5. u.pointCount = k + 1 /\ u.pointCount \in Nat
  BY <1>1, <1>2 DEF TripRight
<1>6. u.distance = RouteLength(r, k + 1) /\ u.distance \in Int
  <2>1. PICK h \in [0..Len(r) -> Int] :
              /\ \A j \in 0..Len(r) : RouteLength(r, j) = h[j]
              /\ h[0] = 0 /\ h[1] = 0
              /\ \A j \in 2..Len(r) : h[j] = h[j - 1] + Distance[<<r[j - 1], r[j]>>]
    BY LengthSteps
  <2>2. /\ k \in 0..Len(r) /\ k + 1 \in 0..Len(r)
        /\ t.distance = h[k] /\ RouteLength(r, k + 1) = h[k + 1] /\ h[k + 1] \in Int
    BY <1>1, <2>1, RouteType1 DEF TripRight
  <2>3. CASE k = 0
    <3>1. u.distance = t.distance
      BY <1>2, <2>3 DEF TripRight
    <3>2. QED
      BY <2>1, <2>2, <2>3, <3>1
  <2>4. CASE k # 0
    <3>1. t.lastPoint = r[k] /\ r[k] \in Points /\ r[k] # NoPoint
      <4>1. t.lastPoint = r[k]
        BY <2>4 DEF TripRight
      <4>2. r[k] \in Points
        BY <1>1, <2>4, RouteType1
      <4>3. NoPoint \notin Points
        BY PointsAssumption, Zenon
      <4>4. QED
        BY <4>1, <4>2, <4>3
    <3>2. u.distance = t.distance + Distance[<<r[k], p>>]
      BY <1>2, <3>1
    <3>3. k + 1 \in 2..Len(r) /\ (k + 1) - 1 = k
      BY <1>1, <2>4
    <3>4. h[k + 1] = h[k] + Distance[<<r[k], p>>]
      BY <2>1, <3>3
    <3>5. QED
      BY <2>2, <3>2, <3>4
  <2>5. QED
    BY <2>3, <2>4
<1>7. u \in TripType
  BY <1>1, <1>2, <1>4, <1>5, <1>6 DEF TripType
<1>8. TripRight(u, r, k + 1)
  BY <1>1, <1>2, <1>4, <1>5, <1>6 DEF TripRight
<1>9. QED
  BY <1>7, <1>8 DEF u

\* The summary of a trip is that of the part of the route it has seen.
LEMMA SummaryRight ==
    ASSUME NEW r, NEW k, NEW t
    PROVE  /\ TripRight(t, r, k) =>
                 t.pointCount = k /\ Summary(t) = TripSummary(r, k)
                 /\ t.lastPoint = IF k = 0 THEN NoPoint ELSE r[k]
           /\ t.pointCount = k /\ Summary(t) = TripSummary(r, k)
              /\ t.lastPoint = (IF k = 0 THEN NoPoint ELSE r[k]) => TripRight(t, r, k)
<1>1. TripSummary(r, k) = [pointCount |-> k, featureCount |-> Cardinality(Meetings(r, k)),
                           distance |-> RouteLength(r, k)]
  BY Zenon DEF TripSummary, Meetings
<1>2. Summary(t) = [pointCount |-> t.pointCount, featureCount |-> t.featureCount,
                    distance |-> t.distance]
  BY Zenon DEF Summary
<1>3. QED
  BY <1>1, <1>2 DEF TripRight

-----------------------------------------------------------------------------
(* The inductive invariant.                                                 *)

\* The calls of main, in order.
LEMMA CallFacts ==
    /\ ToSet(Calls) = {"GetFeature", "ListFeatures", "RecordRoute", "RouteChat"}
    /\ Calls[1] = "GetFeature"
    /\ Following("GetFeature") = "ListFeatures" /\ Following("ListFeatures") = "RecordRoute"
    /\ Following("RecordRoute") = "RouteChat" /\ Following("RouteChat") = "done"
<1>1. /\ DOMAIN Calls = 1..4 /\ Len(Calls) = 4 /\ Calls[1] = "GetFeature"
      /\ Calls[2] = "ListFeatures" /\ Calls[3] = "RecordRoute" /\ Calls[4] = "RouteChat"
  BY DEF Calls
<1>2. \A i \in DOMAIN Calls : i = 1 \/ i = 2 \/ i = 3 \/ i = 4
  BY <1>1
<1>3. ToSet(Calls) = {"GetFeature", "ListFeatures", "RecordRoute", "RouteChat"}
  BY <1>1, <1>2 DEF ToSet
<1>4. /\ (CHOOSE i \in DOMAIN Calls : Calls[i] = "GetFeature") = 1
      /\ (CHOOSE i \in DOMAIN Calls : Calls[i] = "ListFeatures") = 2
      /\ (CHOOSE i \in DOMAIN Calls : Calls[i] = "RecordRoute") = 3
      /\ (CHOOSE i \in DOMAIN Calls : Calls[i] = "RouteChat") = 4
  BY <1>1, <1>2
<1>5. QED
  BY <1>1, <1>3, <1>4 DEF Following

\* What a client sends in each call; End is none of it, nor an answer.
LEMMA SendFacts ==
    /\ Sends["ListFeatures"] = Rectangles /\ Sends["RecordRoute"] = Points
    /\ Sends["RouteChat"] = ChatNotes
    /\ \A m \in Methods : Sends[m] \subseteq Request /\ End \notin Sends[m]
    /\ End \notin Reply /\ ChatNotes \subseteq Reply /\ Feature \subseteq Reply
<1>1. /\ Sends["ListFeatures"] = Rectangles /\ Sends["RecordRoute"] = Points
      /\ Sends["RouteChat"] = ChatNotes
  BY Zenon DEF Sends
<1>2. Rectangles \subseteq Request /\ Points \subseteq Request /\ ChatNotes \subseteq Request
  BY DEF Request
<1>3. ChatNotes \subseteq Reply /\ Feature \subseteq Reply
  BY DEF Reply
<1>4. End \notin Request /\ End \notin Reply
  BY EndAssumption, Zenon
<1> HIDE DEF Request, Reply
<1>5. QED
  BY <1>1, <1>2, <1>3, <1>4 DEF Methods

\* The part of AnswersRight that is about one client.
Right(c) ==
    /\ at[c] \in {"RecordRoute", "RouteChat", "done"} =>
          \E r \in Rectangles : Lists(got[c].ListFeatures, r)
    /\ at[c] \in {"RouteChat", "done"} =>
          \E r \in Routes : got[c].RecordRoute = <<TripSummary(r, Len(r))>>

\* The part of RouteInv that is about one client.
Inv(c) == Streaming(c) /\ Answering(c) /\ Right(c)

\* The types of one client's part of the state.
LEMMA TypeOf ==
    ASSUME RouteType, NEW c \in Clients
    PROVE  /\ at[c] \in ToSet(Calls) \cup {"done", "fatal"}
           /\ opened[c] \in BOOLEAN /\ closed[c] \in BOOLEAN /\ cut[c] \in BOOLEAN
           /\ todo[c] \in Seq(Request) /\ up[c] \in Seq(Request \cup {End})
           /\ down[c] \in Seq(Reply \cup {End}) /\ trip[c] \in TripType
           /\ got[c] \in [ToSet(Calls) -> Seq(Reply)]
           /\ srv[c].method \in Methods \cup {"none", "failed"} /\ srv[c].rn \in Seq(Reply)
           /\ srv[c].last \in BOOLEAN
           /\ srv[c] = [method |-> srv[c].method, rn |-> srv[c].rn, last |-> srv[c].last]
  BY DEF RouteType, TripType

\* Nothing of client d changes.
Untouched(d) ==
    /\ at'[d] = at[d] /\ todo'[d] = todo[d] /\ opened'[d] = opened[d] /\ closed'[d] = closed[d]
    /\ up'[d] = up[d] /\ down'[d] = down[d] /\ got'[d] = got[d] /\ srv'[d] = srv[d]
    /\ trip'[d] = trip[d]

\* A step of another client or handler keeps what is known of client d.
LEMMA UntouchedInv == ASSUME NEW d, Inv(d), Untouched(d) PROVE Inv(d)'
<1>1. Streaming(d)'
  BY DEF Inv, Untouched, Streaming
<1>2. Answering(d)'
  BY DEF Inv, Untouched, Answering, Listing, Recording, Answered
<1>3. Right(d)'
  BY DEF Inv, Untouched, Right
<1>4. QED
  BY <1>1, <1>2, <1>3 DEF Inv

-----------------------------------------------------------------------------
(* The client's steps.                                                      *)

\* log.Fatalf.
LEMMA FatalStep ==
    ASSUME RouteType, NEW c \in Clients, Inv(c), Fatal(c)
    PROVE  RouteType' /\ Inv(c)' /\ \A d \in Clients \ {c} : Untouched(d)
<1> USE DEF Fatal
<1>1. /\ at'[c] = "fatal" /\ todo'[c] = <<>> /\ down'[c] = <<>> /\ opened' = opened
      /\ closed' = closed /\ up' = up /\ got' = got /\ srv' = srv /\ trip' = trip
      /\ routeNotes' = routeNotes
  BY DEF RouteType, server
<1>2. RouteType'
  <2>1. at' \in [Clients -> ToSet(Calls) \cup {"done", "fatal"}] /\ cut' \in [Clients -> BOOLEAN]
    BY DEF RouteType
  <2>2. todo' \in [Clients -> Seq(Request)] /\ down' \in [Clients -> Seq(Reply \cup {End})]
    <3>1. <<>> \in Seq(Request) /\ <<>> \in Seq(Reply \cup {End})
      OBVIOUS
    <3>2. todo \in [Clients -> Seq(Request)] /\ down \in [Clients -> Seq(Reply \cup {End})]
      BY DEF RouteType
    <3> DEFINE A == Seq(Request)
               B == Seq(Reply \cup {End})
    <3> HIDE DEF A, B
    <3>3. \A z \in A : todo \in [Clients -> A] => [todo EXCEPT ![c] = z] \in [Clients -> A]
      OBVIOUS
    <3>4. \A z \in B : down \in [Clients -> B] => [down EXCEPT ![c] = z] \in [Clients -> B]
      OBVIOUS
    <3>5. QED
      BY <3>1, <3>2, <3>3, <3>4 DEF A, B
  <2>3. QED
    BY <1>1, <2>1, <2>2 DEF RouteType
<1>3. \A d \in Clients \ {c} : Untouched(d)
  BY <1>1 DEF RouteType, Untouched
<1>4. Plain(<<>>) = <<>>
  BY DEF Plain, Ended
<1>5. Streaming(c)'
  <2>1. Plain(down'[c]) \in Seq(Reply) /\ down'[c] \in Seq(Reply)
    <3>1. <<>> \in Seq(Reply)
      OBVIOUS
    <3> HIDE DEF Fatal
    <3>2. QED
      BY <1>1, <1>4, <3>1
  <2>2. Streaming(c)
    BY DEF Inv
  <2> HIDE DEF Fatal
  <2>3. QED
    BY <1>1, <2>1, <2>2 DEF Streaming
<1>6. Answering(c)' /\ Right(c)'
  BY <1>1 DEF Answering, Right
<1>7. QED
  BY <1>2, <1>3, <1>5, <1>6 DEF Inv

\* What GetFeature answers is a feature.
LEMMA GetFeatureType == ASSUME NEW p \in Points PROVE GetFeature(p) \in Reply
<1> DEFINE here == {i \in DOMAIN SavedFeatures : SavedFeatures[i].location = p}
<1>1. CASE here = {}
  <2>1. GetFeature(p) = [name |-> "", location |-> p]
    BY <1>1, Zenon DEF GetFeature
  <2>2. QED
    BY <2>1, SendFacts DEF Feature
<1>2. CASE here # {}
  <2>1. GetFeature(p) = SavedFeatures[Min(here)]
    BY <1>2, Zenon DEF GetFeature
  <2>2. Min(here) \in here
    <3>1. here \subseteq Nat
      BY FeaturesType
    <3>2. PICK i \in here : \A j \in here : i <= j
      BY <1>2, <3>1, LeastNat
    <3> HIDE DEF here
    <3>3. QED
      BY <3>2 DEF Min
  <2>3. GetFeature(p) \in ToSet(SavedFeatures)
    BY <2>1, <2>2 DEF ToSet
  <2>4. QED
    BY <2>3, SendFacts DEF Feature
<1>3. QED
  BY <1>1, <1>2

\* A feature is got and printed.
LEMMA PrintStep ==
    ASSUME RouteType, NEW c \in Clients, Inv(c), PrintFeature(c), ~Fatal(c)
    PROVE  RouteType' /\ Inv(c)' /\ \A d \in Clients \ {c} : Untouched(d)
<1>1. /\ at[c] = "GetFeature" /\ UNCHANGED <<opened, closed, net, server>>
      /\ got' = [got EXCEPT ![c].GetFeature = Append(@, GetFeature(Head(todo[c])))]
      /\ todo' = [todo EXCEPT ![c] = Tail(@)]
      /\ at' = [at EXCEPT ![c] = IF Len(todo[c]) = 1 THEN Following(@) ELSE @]
  BY Zenon DEF PrintFeature
<1>2. ~opened[c] /\ todo[c] \in Seq(Points) /\ todo[c] # <<>> /\ todo[c] \in Seq(Request)
  BY <1>1, TypeOf DEF Inv, Answering
<1>3. GetFeature(Head(todo[c])) \in Reply
  BY <1>2, GetFeatureType
<1>4. /\ at'[c] = IF Len(todo[c]) = 1 THEN "ListFeatures" ELSE "GetFeature"
      /\ todo'[c] = Tail(todo[c]) /\ got[c] \in [ToSet(Calls) -> Seq(Reply)]
      /\ got'[c] = [got[c] EXCEPT !["GetFeature"] = Append(@, GetFeature(Head(todo[c])))]
      /\ opened' = opened /\ closed' = closed /\ cut' = cut /\ up' = up /\ down' = down
      /\ srv' = srv /\ trip' = trip /\ routeNotes' = routeNotes
  BY <1>1, CallFacts DEF RouteType, net, server
<1>5. /\ got'[c] \in [ToSet(Calls) -> Seq(Reply)]
      /\ got'[c].ListFeatures = got[c].ListFeatures /\ got'[c].RecordRoute = got[c].RecordRoute
  <2>1. got[c]["GetFeature"] \in Seq(Reply)
    BY <1>4, CallFacts
  <2>2. Append(got[c]["GetFeature"], GetFeature(Head(todo[c]))) \in Seq(Reply)
    BY <1>3, <2>1
  <2>3. QED
    BY <1>4, <2>2, CallFacts
<1>6. RouteType'
  <2>1. at' \in [Clients -> ToSet(Calls) \cup {"done", "fatal"}]
    BY <1>1, CallFacts DEF RouteType
  <2>2. todo' \in [Clients -> Seq(Request)]
    <3>1. Tail(todo[c]) \in Seq(Request)
      BY <1>2
    <3>2. QED
      BY <1>1, <3>1 DEF RouteType
  <2>3. got' \in [Clients -> [ToSet(Calls) -> Seq(Reply)]]
    BY <1>1, <1>4, <1>5 DEF RouteType
  <2>4. QED
    BY <1>4, <2>1, <2>2, <2>3 DEF RouteType
<1>7. \A d \in Clients \ {c} : Untouched(d)
  BY <1>1, <1>4 DEF RouteType, Untouched
<1>8. Streaming(c)'
  BY <1>2, <1>4 DEF Inv, Streaming, Methods
<1>9. Answering(c)'
  <2>1. Len(todo[c]) # 1 => Tail(todo[c]) \in Seq(Points) /\ Tail(todo[c]) # <<>>
    <3> SUFFICES ASSUME Len(todo[c]) # 1 PROVE Tail(todo[c]) \in Seq(Points) /\ Tail(todo[c]) # <<>>
      OBVIOUS
    <3>1. QED
      BY <1>2, TailFacts
  <2>2. QED
    BY <1>1, <1>2, <1>4, <1>5, <2>1 DEF Inv, Answering
<1>10. Right(c)'
  BY <1>4 DEF Right
<1>11. QED
  BY <1>6, <1>7, <1>8, <1>9, <1>10 DEF Inv

\* What a client sends in a call.
LEMMA MessagesType ==
    ASSUME NEW c \in Clients, NEW m \in Methods, NEW ms \in Messages(c, m)
    PROVE  /\ ms \in Seq(Sends[m]) /\ ms \in Seq(Request)
           /\ m = "ListFeatures" => \E r \in Rectangles : ms = <<r>>
           /\ m = "RecordRoute" => ms \in Routes
<1>1. CASE m = "ListFeatures"
  <2>1. PICK r \in Rectangles : ms = <<r>>
    BY <1>1 DEF Messages
  <2>2. ms \in Seq(Sends[m])
    BY <1>1, <2>1, SendFacts
  <2>3. QED
    BY <1>1, <2>1, <2>2, SendFacts, SeqMono
<1>2. CASE m = "RecordRoute"
  <2>1. ms \in Routes
    BY <1>2 DEF Messages
  <2>2. ms \in Seq(Sends[m])
    BY <1>2, <2>1, SendFacts, RouteType1
  <2>3. QED
    BY <1>2, <2>1, <2>2, SendFacts, SeqMono
<1>3. CASE m = "RouteChat"
  <2>1. ms = [i \in DOMAIN ChatScript |-> Note(c, i)]
    BY <1>3 DEF Messages
  <2>2. /\ Len(ChatScript) \in Nat /\ DOMAIN ChatScript = 1..Len(ChatScript)
        /\ \A i \in DOMAIN ChatScript : Note(c, i) \in ChatNotes
    <3>1. ChatScript \in Seq(Points)
      BY PointsAssumption, Zenon
    <3>2. QED
      BY <3>1 DEF ChatNotes
  <2>3. ms \in Seq(ChatNotes)
    BY <2>1, <2>2
  <2>4. ms \in Seq(Sends[m])
    BY <1>3, <2>3, SendFacts
  <2>5. QED
    BY <1>3, <2>4, SendFacts, SeqMono
<1>4. QED
  BY <1>1, <1>2, <1>3 DEF Methods

\* A stream is created and its handler started.
LEMMA NewStreamStep ==
    ASSUME RouteType, NEW c \in Clients, Inv(c), NewStream(c), ~Fatal(c)
    PROVE  RouteType' /\ Inv(c)' /\ \A d \in Clients \ {c} : Untouched(d)
<1>1. /\ at[c] \in Methods /\ ~opened[c]
      /\ \E ms \in Messages(c, at[c]) : todo' = [todo EXCEPT ![c] = ms]
      /\ opened' = [opened EXCEPT ![c] = TRUE] /\ closed' = [closed EXCEPT ![c] = FALSE]
      /\ cut' = [cut EXCEPT ![c] = FALSE]
      /\ up' = [up EXCEPT ![c] = <<>>] /\ down' = [down EXCEPT ![c] = <<>>]
      /\ srv' = [srv EXCEPT ![c] = Serving(at[c], <<>>, FALSE)]
      /\ trip' = [trip EXCEPT ![c] = NoTrip]
      /\ UNCHANGED <<at, got, routeNotes>>
  BY Zenon DEF NewStream, Methods
<1>2. PICK ms \in Messages(c, at[c]) : todo' = [todo EXCEPT ![c] = ms]
  BY <1>1
<1>3. /\ ms \in Seq(Sends[at[c]]) /\ ms \in Seq(Request)
      /\ at[c] = "ListFeatures" => \E r \in Rectangles : ms = <<r>>
      /\ at[c] = "RecordRoute" => ms \in Routes
  BY <1>1, MessagesType
<1>4. Serving(at[c], <<>>, FALSE) = [method |-> at[c], rn |-> <<>>, last |-> FALSE]
  BY DEF Serving
<1>5. /\ todo'[c] = ms /\ opened'[c] = TRUE /\ closed'[c] = FALSE /\ up'[c] = <<>>
      /\ down'[c] = <<>> /\ srv'[c].method = at[c] /\ srv'[c].rn = <<>> /\ srv'[c].last = FALSE
      /\ trip'[c] = NoTrip /\ at' = at /\ got' = got /\ routeNotes' = routeNotes
  <2>1. srv'[c] = Serving(at[c], <<>>, FALSE)
    BY <1>1 DEF RouteType
  <2>2. srv'[c].method = at[c] /\ srv'[c].rn = <<>> /\ srv'[c].last = FALSE
    BY <2>1 DEF Serving
  <2>3. QED
    BY <1>1, <1>2, <2>2 DEF RouteType
<1>6. NoTrip \in TripType /\ <<>> \in Seq(Reply)
  BY DEF NoTrip, TripType
<1>7. RouteType'
  <2>1. opened' \in [Clients -> BOOLEAN] /\ closed' \in [Clients -> BOOLEAN]
        /\ cut' \in [Clients -> BOOLEAN]
    BY <1>1 DEF RouteType
  <2>2. todo' \in [Clients -> Seq(Request)]
    BY <1>2, <1>3 DEF RouteType
  <2>3. up' \in [Clients -> Seq(Request \cup {End})] /\ down' \in [Clients -> Seq(Reply \cup {End})]
    <3>1. <<>> \in Seq(Request \cup {End}) /\ <<>> \in Seq(Reply \cup {End})
      OBVIOUS
    <3>2. QED
      BY <1>1, <3>1 DEF RouteType
  <2>4. srv' \in [Clients -> [method : Methods \cup {"none", "failed"}, rn : Seq(Reply), last : BOOLEAN]]
    <3>1. [method |-> at[c], rn |-> <<>>, last |-> FALSE]
             \in [method : Methods \cup {"none", "failed"}, rn : Seq(Reply), last : BOOLEAN]
      BY <1>1, <1>6
    <3>2. QED
      BY <1>1, <1>4, <3>1 DEF RouteType
  <2>5. trip' \in [Clients -> TripType]
    BY <1>1, <1>6 DEF RouteType, TripType
  <2>6. QED
    BY <1>5, <2>1, <2>2, <2>3, <2>4, <2>5 DEF RouteType, TripType
<1>8. \A d \in Clients \ {c} : Untouched(d)
  BY <1>1, <1>2 DEF RouteType, Untouched
<1>9. Plain(<<>>) = <<>>
  BY DEF Plain, Ended
<1>10. Streaming(c)'
  <2>1. at[c] # "none" /\ at[c] # "fatal"
    BY <1>1 DEF Methods
  <2>2. <<>> \in Seq(Sends[at[c]])
    OBVIOUS
  <2>3. QED
    BY <1>1, <1>3, <1>5, <1>6, <1>9, <2>1, <2>2 DEF Streaming
<1>11. Answering(c)'
  <2>1. at[c] # "none" /\ at[c] # "GetFeature" /\ ~Answered(c)'
    BY <1>1, <1>5 DEF Methods, Answered
  <2>2. ASSUME at[c] = "ListFeatures" PROVE Listing(c)'
    <3>1. PICK r \in Rectangles : ms = <<r>>
      BY <1>3, <2>2
    <3>2. got[c].ListFeatures = <<>>
      BY <1>1, <2>2 DEF Inv, Answering
    <3>3. Plain(up'[c]) \o todo'[c] = <<r>>
      <4>1. <<>> \o <<r>> = <<r>>
        OBVIOUS
      <4>2. QED
        BY <1>5, <1>9, <3>1, <4>1
    <3>4. QED
      BY <1>5, <2>1, <3>2, <3>3 DEF Listing
  <2>3. ASSUME at[c] = "RecordRoute" PROVE Recording(c)'
    <3>1. ms \in Routes /\ ms \in Seq(Points) /\ Len(ms) \in Nat
      BY <1>3, <2>3, RouteType1
    <3>2. got[c].RecordRoute = <<>>
      BY <1>1, <2>3 DEF Inv, Answering
    <3>3. TripRight(NoTrip, ms, 0) /\ NoTrip.pointCount = 0
      BY <3>1, TripStart DEF NoTrip
    <3>4. Summary(NoTrip) = TripSummary(ms, 0) /\ NoTrip.lastPoint = NoPoint
      BY <3>3, SummaryRight
    <3>5. Plain(up'[c]) \o todo'[c] = SubSeq(ms, 0 + 1, Len(ms))
      <4>1. <<>> \o ms = ms /\ SubSeq(ms, 0 + 1, Len(ms)) = ms
        BY <3>1
      <4>2. QED
        BY <1>5, <1>9, <4>1
    <3>6. QED
      BY <1>5, <2>1, <3>1, <3>2, <3>3, <3>4, <3>5 DEF Recording
  <2>4. QED
    BY <1>5, <2>1, <2>2, <2>3 DEF Answering, Inv
<1>12. Right(c)'
  BY <1>5 DEF Inv, Right
<1>13. QED
  BY <1>7, <1>8, <1>10, <1>11, <1>12 DEF Inv

\* What Inv says of a client with an open stream.
LEMMA RunningFacts ==
    ASSUME RouteType, NEW c \in Clients, Inv(c), Running(c)
    PROVE  /\ opened[c] /\ at[c] # "fatal" /\ at[c] \in Methods /\ todo[c] \in Seq(Sends[at[c]])
           /\ closed[c] => todo[c] = <<>>
           /\ srv[c].method \in Methods =>
                 /\ srv[c].method = at[c] /\ Plain(up[c]) \in Seq(Sends[at[c]])
                 /\ ~closed[c] => up[c] \in Seq(Sends[at[c]])
           /\ Plain(down[c]) \in Seq(Reply)
           /\ srv[c].method # "none" => down[c] \in Seq(Reply)
           /\ Sends[at[c]] \subseteq Request /\ End \notin Sends[at[c]]
           /\ at[c] = "ListFeatures" => Listing(c)
           /\ at[c] = "RecordRoute" => Recording(c)
  BY SendFacts DEF Running, Inv, Streaming, Answering

\* A message is sent.
LEMMA SendStep ==
    ASSUME RouteType, NEW c \in Clients, Inv(c), Send(c)
    PROVE  RouteType' /\ Inv(c)' /\ \A d \in Clients \ {c} : Untouched(d)
<1>1. /\ Running(c) /\ todo[c] # <<>>
      /\ up' = [up EXCEPT ![c] = Append(@, Head(todo[c]))]
      /\ todo' = [todo EXCEPT ![c] = Tail(@)]
      /\ UNCHANGED <<at, opened, closed, got, cut, down, server>>
  BY DEF Send
<1>2. /\ up'[c] = Append(up[c], Head(todo[c])) /\ todo'[c] = Tail(todo[c])
      /\ at' = at /\ opened' = opened /\ closed' = closed /\ got' = got /\ cut' = cut /\ down' = down
      /\ srv' = srv /\ trip' = trip /\ routeNotes' = routeNotes
  BY <1>1 DEF RouteType, server
<1> DEFINE M == Sends[at[c]]
<1>3. /\ ~closed[c] /\ todo[c] \in Seq(M) /\ Head(todo[c]) \in M /\ Tail(todo[c]) \in Seq(M)
      /\ M \subseteq Request /\ End \notin M
  BY <1>1, RunningFacts, TailFacts
<1>4. srv[c].method \in Methods =>
         /\ up[c] \in Seq(M) /\ up'[c] \in Seq(M) /\ Plain(up[c]) = up[c] /\ Plain(up'[c]) = up'[c]
         /\ Plain(up'[c]) \o todo'[c] = Plain(up[c]) \o todo[c]
  <2> SUFFICES ASSUME srv[c].method \in Methods
               PROVE  /\ up[c] \in Seq(M) /\ up'[c] \in Seq(M) /\ Plain(up[c]) = up[c]
                      /\ Plain(up'[c]) = up'[c]
                      /\ Plain(up'[c]) \o todo'[c] = Plain(up[c]) \o todo[c]
    OBVIOUS
  <2>1. up[c] \in Seq(M)
    BY <1>1, <1>3, RunningFacts
  <2> HIDE DEF M
  <2>2. up'[c] \in Seq(M)
    BY <1>2, <1>3, <2>1
  <2>3. Plain(up[c]) = up[c] /\ Plain(up'[c]) = up'[c]
    BY <1>3, <2>1, <2>2, PlainFacts
  <2>4. Append(up[c], Head(todo[c])) \o Tail(todo[c]) = up[c] \o todo[c]
    BY <1>1, <1>3, <2>1, Moved
  <2>5. QED
    BY <1>2, <2>1, <2>2, <2>3, <2>4
<1>5. RouteType'
  <2>1. todo' \in [Clients -> Seq(Request)] /\ up' \in [Clients -> Seq(Request \cup {End})]
    <3>1. Tail(todo[c]) \in Seq(Request)
      BY <1>3, SeqMono
    <3>2. Append(up[c], Head(todo[c])) \in Seq(Request \cup {End})
      <4>1. up[c] \in Seq(Request \cup {End}) /\ Head(todo[c]) \in Request \cup {End}
        BY <1>3, TypeOf
      <4>2. QED
        BY <4>1
    <3>3. QED
      BY <1>1, <3>1, <3>2 DEF RouteType
  <2>2. QED
    BY <1>2, <2>1 DEF RouteType
<1>6. \A d \in Clients \ {c} : Untouched(d)
  BY <1>1, <1>2 DEF RouteType, Untouched
<1>7. Streaming(c)'
  <2>1. srv[c].method \in Methods => srv[c].method = at[c]
    BY <1>1, RunningFacts
  <2>2. QED
    BY <1>1, <1>2, <1>3, <1>4, <2>1, RunningFacts DEF Inv, Streaming
<1>8. Answering(c)'
  <2>1. "ListFeatures" \in Methods /\ "RecordRoute" \in Methods
    BY DEF Methods
  <2>2. Listing(c) => Listing(c)'
    BY <1>2, <1>4, <2>1 DEF Listing, Answered
  <2>3. Recording(c) => Recording(c)'
    BY <1>2, <1>4, <2>1 DEF Recording, Answered
  <2>4. at[c] # "GetFeature"
    BY <1>1, RunningFacts DEF Methods
  <2>5. QED
    BY <1>2, <2>2, <2>3, <2>4 DEF Inv, Answering
<1>9. Right(c)'
  BY <1>2 DEF Inv, Right
<1>10. QED
  BY <1>5, <1>6, <1>7, <1>8, <1>9 DEF Inv

\* CloseSend.
LEMMA CloseSendStep ==
    ASSUME RouteType, NEW c \in Clients, Inv(c), CloseSend(c)
    PROVE  RouteType' /\ Inv(c)' /\ \A d \in Clients \ {c} : Untouched(d)
<1>1. /\ Running(c) /\ todo[c] = <<>> /\ ~closed[c]
      /\ closed' = [closed EXCEPT ![c] = TRUE]
      /\ up' = [up EXCEPT ![c] = Append(@, End)]
      /\ UNCHANGED <<at, todo, opened, got, cut, down, server>>
  BY DEF CloseSend
<1>2. /\ up'[c] = Append(up[c], End) /\ closed'[c] = TRUE /\ todo' = todo
      /\ at' = at /\ opened' = opened /\ got' = got /\ cut' = cut /\ down' = down
      /\ srv' = srv /\ trip' = trip /\ routeNotes' = routeNotes
  BY <1>1 DEF RouteType, server
<1>3. srv[c].method \in Methods =>
         /\ Plain(up[c]) \in Seq(Sends[at[c]]) /\ Plain(up'[c]) = Plain(up[c])
  BY <1>1, <1>2, RunningFacts, PlainFacts
<1>4. RouteType'
  <2>1. up[c] \in Seq(Request \cup {End})
    BY TypeOf
  <2>2. Append(up[c], End) \in Seq(Request \cup {End})
    BY <2>1
  <2>3. closed' \in [Clients -> BOOLEAN] /\ up' \in [Clients -> Seq(Request \cup {End})]
    BY <1>1, <2>2 DEF RouteType
  <2>4. QED
    BY <1>2, <2>3 DEF RouteType
<1>5. \A d \in Clients \ {c} : Untouched(d)
  BY <1>1, <1>2 DEF RouteType, Untouched
<1>6. Streaming(c)'
  <2>1. srv[c].method \in Methods => srv[c].method = at[c]
    BY <1>1, RunningFacts
  <2>2. QED
    BY <1>1, <1>2, <1>3, <2>1, RunningFacts DEF Inv, Streaming
<1>7. Answering(c)'
  <2>1. "ListFeatures" \in Methods /\ "RecordRoute" \in Methods
    BY DEF Methods
  <2>2. Listing(c) => Listing(c)'
    BY <1>2, <1>3, <2>1 DEF Listing, Answered
  <2>3. Recording(c) => Recording(c)'
    BY <1>2, <1>3, <2>1 DEF Recording, Answered
  <2>4. QED
    BY <1>2, <2>2, <2>3 DEF Inv, Answering
<1>8. Right(c)'
  BY <1>2 DEF Inv, Right
<1>9. QED
  BY <1>4, <1>5, <1>6, <1>7, <1>8 DEF Inv

\* An answer is received.
LEMMA RecvStep ==
    ASSUME RouteType, NEW c \in Clients, Inv(c), Recv(c)
    PROVE  RouteType' /\ Inv(c)' /\ \A d \in Clients \ {c} : Untouched(d)
<1>1. /\ Running(c) /\ down[c] # <<>> /\ Head(down[c]) # End
      /\ got' = [got EXCEPT ![c][at[c]] = Append(@, Head(down[c]))]
      /\ down' = [down EXCEPT ![c] = Tail(@)]
      /\ UNCHANGED <<at, todo, opened, closed, cut, up, server>>
  BY DEF Recv
<1>2. at[c] \in Methods /\ at[c] \in ToSet(Calls) /\ Plain(down[c]) \in Seq(Reply)
  BY <1>1, RunningFacts, CallFacts DEF Methods
<1>3. /\ got'[c] = [got[c] EXCEPT ![at[c]] = Append(@, Head(down[c]))] /\ down'[c] = Tail(down[c])
      /\ got[c] \in [ToSet(Calls) -> Seq(Reply)] /\ down[c] \in Seq(Reply \cup {End})
      /\ srv[c].rn \in Seq(Reply)
      /\ at' = at /\ opened' = opened /\ closed' = closed /\ todo' = todo /\ cut' = cut /\ up' = up
      /\ srv' = srv /\ trip' = trip /\ routeNotes' = routeNotes
  BY <1>1, TypeOf DEF RouteType, server
<1>4. /\ Head(down[c]) \in Reply /\ Plain(down[c]) # <<>> /\ Head(down[c]) = Head(Plain(down[c]))
      /\ Plain(down'[c]) = Tail(Plain(down[c])) /\ Tail(Plain(down[c])) \in Seq(Reply)
      /\ Ended(down'[c]) <=> Ended(down[c])
  BY <1>1, <1>2, <1>3, PlainTail, SendFacts, TailFacts
<1>5. /\ got'[c] \in [ToSet(Calls) -> Seq(Reply)]
      /\ got'[c][at[c]] = Append(got[c][at[c]], Head(Plain(down[c])))
      /\ \A m \in ToSet(Calls) \ {at[c]} : got'[c][m] = got[c][m]
  <2>1. got[c][at[c]] \in Seq(Reply)
    BY <1>2, <1>3
  <2>2. Append(got[c][at[c]], Head(down[c])) \in Seq(Reply)
    BY <1>4, <2>1
  <2>3. QED
    BY <1>2, <1>3, <1>4, <2>2
<1>6. got'[c][at[c]] \o (Plain(down'[c]) \o srv'[c].rn) =
         got[c][at[c]] \o (Plain(down[c]) \o srv[c].rn)
  <2>1. got[c][at[c]] \in Seq(Reply)
    BY <1>2, <1>3
  <2>2. Append(got[c][at[c]], Head(Plain(down[c]))) \o (Tail(Plain(down[c])) \o srv[c].rn)
           = got[c][at[c]] \o (Plain(down[c]) \o srv[c].rn)
    <3>1. \A a, b, d \in Seq(Reply) : b # <<>> =>
             Append(a, Head(b)) \o (Tail(b) \o d) = a \o (b \o d)
      BY Rows
    <3>2. QED
      BY <1>2, <1>3, <1>4, <2>1, <3>1
  <2>3. QED
    BY <1>3, <1>4, <1>5, <2>2
<1>7. RouteType'
  <2>1. down' \in [Clients -> Seq(Reply \cup {End})]
    <3>1. Tail(down[c]) \in Seq(Reply \cup {End})
      BY <1>1, <1>3, TailFacts
    <3>2. QED
      BY <1>1, <3>1 DEF RouteType
  <2>2. got' \in [Clients -> [ToSet(Calls) -> Seq(Reply)]]
    BY <1>1, <1>3, <1>5 DEF RouteType
  <2>3. QED
    BY <1>3, <2>1, <2>2 DEF RouteType
<1>8. \A d \in Clients \ {c} : Untouched(d)
  BY <1>1, <1>3 DEF RouteType, Untouched
<1>9. Streaming(c)'
  <2>1. srv[c].method # "none" => down'[c] \in Seq(Reply)
    BY <1>1, <1>3, RunningFacts, TailFacts
  <2>2. QED
    BY <1>1, <1>3, <1>4, <2>1 DEF Inv, Streaming, Running
<1>10. Answering(c)'
  <2>1. ASSUME at[c] = "ListFeatures" PROVE Listing(c)'
    <3>1. PICK r \in Rectangles :
             /\ ~(srv[c].method = "ListFeatures" /\ ~srv[c].last)
             /\ Answered(c) => Lists(got[c].ListFeatures \o (Plain(down[c]) \o srv[c].rn), r)
      BY <1>1, <2>1, RunningFacts DEF Listing
    <3>2. got'[c].ListFeatures \o (Plain(down'[c]) \o srv'[c].rn)
             = got[c].ListFeatures \o (Plain(down[c]) \o srv[c].rn)
      BY <1>6, <2>1
    <3>3. QED
      BY <1>3, <3>1, <3>2 DEF Listing, Answered
  <2>2. ASSUME at[c] = "RecordRoute" PROVE Recording(c)'
    <3>1. PICK r \in Routes :
             /\ ~(srv[c].method = "RecordRoute" /\ ~srv[c].last)
             /\ Answered(c) => got[c].RecordRoute \o (Plain(down[c]) \o srv[c].rn)
                                  = <<TripSummary(r, Len(r))>>
      BY <1>1, <2>2, RunningFacts DEF Recording
    <3>2. got'[c].RecordRoute \o (Plain(down'[c]) \o srv'[c].rn)
             = got[c].RecordRoute \o (Plain(down[c]) \o srv[c].rn)
      BY <1>6, <2>2
    <3>3. QED
      BY <1>3, <3>1, <3>2 DEF Recording, Answered
  <2>3. at[c] # "GetFeature" /\ opened[c]
    BY <1>1, RunningFacts DEF Methods
  <2>4. at[c] = "ListFeatures" => got'[c].RecordRoute = got[c].RecordRoute
    BY <1>5, CallFacts
  <2>5. QED
    BY <1>3, <2>1, <2>2, <2>3, <2>4 DEF Inv, Answering
<1>11. Right(c)'
  <2>1. at[c] \in {"RecordRoute", "RouteChat"} => got'[c].ListFeatures = got[c].ListFeatures
    BY <1>5, CallFacts
  <2>2. at[c] = "RouteChat" => got'[c].RecordRoute = got[c].RecordRoute
    BY <1>5, CallFacts
  <2>3. at[c] # "done"
    BY <1>2 DEF Methods
  <2>4. QED
    BY <1>3, <2>1, <2>2, <2>3 DEF Inv, Right
<1>12. QED
  BY <1>7, <1>8, <1>9, <1>10, <1>11 DEF Inv

\* The end of the stream is received: the answer was complete.
LEMMA RecvEOFStep ==
    ASSUME RouteType, NEW c \in Clients, Inv(c), RecvEOF(c)
    PROVE  RouteType' /\ Inv(c)' /\ \A d \in Clients \ {c} : Untouched(d)
<1>1. /\ Running(c) /\ down[c] # <<>> /\ Head(down[c]) = End
      /\ at' = [at EXCEPT ![c] = Following(@)]
      /\ opened' = [opened EXCEPT ![c] = FALSE]
      /\ down' = [down EXCEPT ![c] = <<>>]
      /\ UNCHANGED <<todo, closed, got, cut, up, server>>
  BY DEF RecvEOF
<1>2. /\ at'[c] = Following(at[c]) /\ opened'[c] = FALSE /\ down'[c] = <<>>
      /\ got[c] \in [ToSet(Calls) -> Seq(Reply)] /\ down[c] \in Seq(Reply \cup {End})
      /\ closed' = closed /\ todo' = todo /\ cut' = cut /\ up' = up /\ got' = got
      /\ srv' = srv /\ trip' = trip /\ routeNotes' = routeNotes
  BY <1>1, TypeOf DEF RouteType, server
<1>3. Plain(down[c]) = <<>>
  BY <1>1, <1>2, RunningFacts, PlainTail, SendFacts
<1>4. srv[c].method = "none" /\ srv[c].rn = <<>> /\ Answered(c)
  <2>1. srv[c].method = "none"
    <3>1. down[c] \notin Seq(Reply)
      BY <1>1, SendFacts, TailFacts
    <3>2. QED
      BY <1>1, <3>1, RunningFacts
  <2>2. QED
    BY <2>1 DEF Answered, Inv, Streaming, Methods
<1>5. /\ at[c] \in Methods
      /\ at'[c] = CASE at[c] = "ListFeatures" -> "RecordRoute" [] at[c] = "RecordRoute" -> "RouteChat"
                    [] OTHER -> "done"
  BY <1>1, <1>2, RunningFacts, CallFacts DEF Methods
<1>6. ASSUME NEW s \in Seq(Reply) PROVE s \o (Plain(down[c]) \o srv[c].rn) = s
  BY <1>3, <1>4
<1>7. RouteType'
  <2>1. at' \in [Clients -> ToSet(Calls) \cup {"done", "fatal"}] /\ opened' \in [Clients -> BOOLEAN]
    BY <1>1, <1>5, <1>2, CallFacts DEF RouteType
  <2>2. down' \in [Clients -> Seq(Reply \cup {End})]
    <3>1. <<>> \in Seq(Reply \cup {End})
      OBVIOUS
    <3>2. QED
      BY <1>1, <3>1 DEF RouteType
  <2>3. QED
    BY <1>2, <2>1, <2>2 DEF RouteType
<1>8. \A d \in Clients \ {c} : Untouched(d)
  BY <1>1, <1>2 DEF RouteType, Untouched
<1>9. Streaming(c)'
  <2>1. Plain(<<>>) = <<>> /\ <<>> \in Seq(Reply)
    BY DEF Plain, Ended
  <2>2. "none" \notin Methods
    BY DEF Methods
  <2>3. QED
    BY <1>2, <1>4, <2>1, <2>2 DEF Inv, Streaming
<1>10. CASE at[c] = "ListFeatures"
  <2>1. PICK r \in Rectangles : Lists(got[c].ListFeatures \o (Plain(down[c]) \o srv[c].rn), r)
    BY <1>1, <1>4, <1>10, RunningFacts DEF Listing
  <2>2. Lists(got[c].ListFeatures, r)
    BY <1>2, <1>6, <2>1, CallFacts
  <2>3. got[c].RecordRoute = <<>>
    BY <1>10 DEF Inv, Answering
  <2>4. Right(c)' /\ Answering(c)'
    BY <1>2, <1>5, <1>10, <2>2, <2>3 DEF Right, Answering
  <2>5. QED
    BY <1>7, <1>8, <1>9, <2>4 DEF Inv
<1>11. CASE at[c] = "RecordRoute"
  <2>1. PICK r \in Routes : got[c].RecordRoute \o (Plain(down[c]) \o srv[c].rn)
                               = <<TripSummary(r, Len(r))>>
    BY <1>1, <1>4, <1>11, RunningFacts DEF Recording
  <2>2. got[c].RecordRoute = <<TripSummary(r, Len(r))>>
    BY <1>2, <1>6, <2>1, CallFacts
  <2>3. Right(c)' /\ Answering(c)'
    BY <1>2, <1>5, <1>11, <2>2 DEF Inv, Right, Answering
  <2>4. QED
    BY <1>7, <1>8, <1>9, <2>3 DEF Inv
<1>12. CASE at[c] = "RouteChat"
  <2>1. Right(c)' /\ Answering(c)'
    BY <1>2, <1>5, <1>12 DEF Inv, Right, Answering
  <2>2. QED
    BY <1>7, <1>8, <1>9, <2>1 DEF Inv
<1>13. QED
  BY <1>5, <1>10, <1>11, <1>12 DEF Methods

\* The context of a stream ends; the messages in flight are still there.
LEMMA CutStep ==
    ASSUME RouteType, NEW c \in Clients, Inv(c), Cut(c)
    PROVE  RouteType' /\ Inv(c)' /\ \A d \in Clients \ {c} : Untouched(d)
<1>1. /\ cut' = [cut EXCEPT ![c] = TRUE] /\ at' = at /\ todo' = todo /\ opened' = opened
      /\ closed' = closed /\ got' = got /\ up' = up /\ down' = down /\ srv' = srv /\ trip' = trip
      /\ routeNotes' = routeNotes
  BY DEF Cut, client, server
<1>2. RouteType'
  BY <1>1 DEF RouteType
<1>3. \A d \in Clients : Untouched(d)
  BY <1>1 DEF Untouched
<1>4. QED
  BY <1>2, <1>3, UntouchedInv

-----------------------------------------------------------------------------
(* The handlers' steps.                                                     *)

\* What a handler that reads knows of its stream.
LEMMA ReadingFacts ==
    ASSUME RouteType, NEW c \in Clients, Inv(c), NEW m \in Methods, Reading(c, m)
    PROVE  /\ srv[c].method = m /\ srv[c].rn = <<>> /\ ~srv[c].last
           /\ opened[c] /\ at[c] \in {m, "fatal"} /\ down[c] \in Seq(Reply)
           /\ up[c] # <<>> /\ up'[c] = Tail(up[c]) /\ up' \in [Clients -> Seq(Request \cup {End})]
           /\ \A d \in Clients \ {c} : up'[d] = up[d]
           /\ Head(up[c]) = End => closed[c] /\ Plain(up[c]) = <<>> /\ Plain(up'[c]) = <<>>
           /\ Head(up[c]) # End =>
                 /\ Head(up[c]) \in Sends[m] /\ Plain(up[c]) # <<>>
                 /\ Head(up[c]) = Head(Plain(up[c])) /\ Plain(up'[c]) = Tail(Plain(up[c]))
           /\ Plain(up[c]) \in Seq(Sends[m]) /\ Plain(up'[c]) \in Seq(Sends[m])
           /\ ~closed[c] => up'[c] \in Seq(Sends[m])
           /\ at' = at /\ todo' = todo /\ opened' = opened /\ closed' = closed /\ got' = got
           /\ cut' = cut /\ down' = down
<1>1. /\ srv[c].method = m /\ srv[c].rn = <<>> /\ ~srv[c].last /\ up[c] # <<>>
      /\ up' = [up EXCEPT ![c] = Tail(@)]
      /\ at' = at /\ todo' = todo /\ opened' = opened /\ closed' = closed /\ got' = got
      /\ cut' = cut /\ down' = down
  BY DEF Reading, client
<1>2. up[c] \in Seq(Request \cup {End}) /\ up'[c] = Tail(up[c])
  BY <1>1, TypeOf DEF RouteType
<1>3. Tail(up[c]) \in Seq(Request \cup {End})
  BY <1>1, <1>2, TailFacts
<1>4. up' \in [Clients -> Seq(Request \cup {End})] /\ \A d \in Clients \ {c} : up'[d] = up[d]
  BY <1>1, <1>3 DEF RouteType
<1>5. /\ opened[c] /\ at[c] \in {m, "fatal"} /\ down[c] \in Seq(Reply)
      /\ Plain(up[c]) \in Seq(Sends[m]) /\ (~closed[c] => up[c] \in Seq(Sends[m]))
  <2>1. m # "none"
    BY DEF Methods
  <2>2. QED
    BY <1>1, <2>1 DEF Inv, Streaming
<1>6. End \notin Sends[m]
  BY SendFacts
<1>7. /\ Head(up[c]) = End => Plain(up[c]) = <<>> /\ Plain(Tail(up[c])) = <<>>
      /\ Head(up[c]) # End =>
            /\ Head(up[c]) \in Sends[m] /\ Plain(up[c]) # <<>>
            /\ Head(up[c]) = Head(Plain(up[c])) /\ Plain(Tail(up[c])) = Tail(Plain(up[c]))
  BY <1>1, <1>2, <1>5, <1>6, PlainTail
<1>8. ~closed[c] => Head(up[c]) # End /\ Tail(up[c]) \in Seq(Sends[m])
  BY <1>1, <1>5, <1>6, TailFacts
<1>9. Plain(Tail(up[c])) \in Seq(Sends[m])
  <2>1. <<>> \in Seq(Sends[m])
    OBVIOUS
  <2>2. QED
    BY <1>5, <1>7, <2>1, TailFacts
<1>10. QED
  BY <1>1, <1>2, <1>4, <1>5, <1>7, <1>8, <1>9

\* A handler with another state of its locals is typed as before.
LEMMA SrvType ==
    ASSUME RouteType, NEW c \in Clients, NEW m \in Methods \cup {"none", "failed"},
           NEW rn \in Seq(Reply), NEW last \in BOOLEAN,
           srv' = [srv EXCEPT ![c] = Serving(m, rn, last)]
    PROVE  /\ srv' \in [Clients -> [method : Methods \cup {"none", "failed"}, rn : Seq(Reply),
                                    last : BOOLEAN]]
           /\ srv'[c].method = m /\ srv'[c].rn = rn /\ srv'[c].last = last
           /\ \A d \in Clients \ {c} : srv'[d] = srv[d]
  BY DEF RouteType, Serving

\* Reading keeps a handler and its client in the same call.
LEMMA ReadingStreams ==
    ASSUME RouteType, NEW c \in Clients, Inv(c), NEW m \in Methods, Reading(c, m),
           srv'[c].method = m
    PROVE  Streaming(c)'
<1>1. m # "none" /\ m # "failed"
  BY DEF Methods
<1>2. QED
  BY <1>1, ReadingFacts DEF Inv, Streaming

\* ListFeatures reads its rectangle and collects the features.
LEMMA ListFeaturesStep ==
    ASSUME RouteType, NEW c \in Clients, Inv(c), ListFeatures(c)
    PROVE  RouteType' /\ Inv(c)' /\ \A d \in Clients \ {c} : Untouched(d)
<1> DEFINE L == Listed({i \in DOMAIN SavedFeatures : inRange(SavedFeatures[i].location, Head(up[c]))})
<1>1. /\ Reading(c, "ListFeatures") /\ trip' = trip /\ routeNotes' = routeNotes
      /\ srv' = [srv EXCEPT ![c] = Serving("ListFeatures", L, TRUE)]
  BY DEF ListFeatures
<1>2. "ListFeatures" \in Methods
  BY DEF Methods
<1>3. L \in Seq(Reply)
  <2>1. L \in Seq(ToSet(SavedFeatures))
    BY ListedRight
  <2>2. ToSet(SavedFeatures) \subseteq Reply
    BY SendFacts DEF Feature
  <2>3. QED
    BY <2>1, <2>2, SeqMono
<1> HIDE DEF L
<1>5. /\ srv' \in [Clients -> [method : Methods \cup {"none", "failed"}, rn : Seq(Reply), last : BOOLEAN]]
      /\ srv'[c].method = "ListFeatures" /\ srv'[c].rn = L /\ srv'[c].last = TRUE
      /\ \A d \in Clients \ {c} : srv'[d] = srv[d]
  BY <1>1, <1>2, <1>3, SrvType
<1>6. RouteType'
  BY <1>1, <1>2, <1>5, ReadingFacts DEF RouteType
<1>7. \A d \in Clients \ {c} : Untouched(d)
  BY <1>1, <1>2, <1>5, ReadingFacts DEF Untouched
<1>8. Streaming(c)'
  BY <1>1, <1>2, <1>5, ReadingStreams
<1>9. ASSUME at[c] = "ListFeatures" PROVE Listing(c)'
  <2>1. PICK r \in Rectangles :
           /\ Plain(up[c]) \o todo[c] = <<r>>
           /\ got[c].ListFeatures = <<>> /\ down[c] = <<>> /\ srv[c].rn = <<>>
    BY <1>1, <1>2, <1>9, ReadingFacts DEF Inv, Answering, Listing
  <2>2. Running(c)
    BY <1>1, <1>2, <1>9, ReadingFacts DEF Running
  <2>3. Plain(up[c]) \in Seq(Rectangles) /\ todo[c] \in Seq(Rectangles)
    BY <1>1, <1>2, <1>9, <2>2, ReadingFacts, RunningFacts, SendFacts
  <2>4. Head(up[c]) = r
    <3>1. Head(up[c]) # End
      <4>1. SUFFICES ASSUME Head(up[c]) = End PROVE FALSE
        OBVIOUS
      <4>2. Plain(up[c]) = <<>> /\ todo[c] = <<>>
        BY <1>1, <1>2, <2>2, <4>1, ReadingFacts, RunningFacts
      <4>3. <<>> \o <<>> = <<>> /\ <<>> # <<r>>
        OBVIOUS
      <4>4. QED
        BY <2>1, <4>2, <4>3
    <3>2. Plain(up[c]) # <<>> /\ Head(up[c]) = Head(Plain(up[c]))
      BY <1>1, <1>2, <3>1, ReadingFacts
    <3>3. Head(Plain(up[c]) \o todo[c]) = Head(Plain(up[c]))
      <4>1. \A a, b \in Seq(Rectangles) : a # <<>> => Head(a \o b) = Head(a)
        OBVIOUS
      <4>2. QED
        BY <2>3, <3>2, <4>1
    <3>4. QED
      BY <2>1, <3>2, <3>3
  <2>5. Lists(L, r) /\ L \in Seq(Reply)
    BY <1>3, <2>4, ListsRight DEF L
  <2>6. got'[c].ListFeatures \o (Plain(down'[c]) \o srv'[c].rn) = L
    <3>1. Plain(<<>>) = <<>>
      BY DEF Plain, Ended
    <3>2. <<>> \o (<<>> \o L) = L
      BY <2>5
    <3>3. got'[c].ListFeatures = <<>> /\ Plain(down'[c]) = <<>> /\ srv'[c].rn = L
      BY <1>1, <1>2, <1>5, <2>1, <3>1, ReadingFacts
    <3>4. QED
      BY <3>2, <3>3
  <2>7. QED
    BY <1>5, <2>5, <2>6 DEF Listing
<1>10. Answering(c)' /\ Right(c)'
  <2>1. at'[c] = at[c] /\ at[c] \in {"ListFeatures", "fatal"} /\ got' = got /\ opened' = opened
        /\ opened[c]
    BY <1>1, <1>2, ReadingFacts
  <2>2. QED
    BY <1>9, <2>1 DEF Inv, Answering, Right
<1>11. QED
  BY <1>6, <1>7, <1>8, <1>10 DEF Inv

\* What remains of a route after k of its points.
LEMMA Remaining ==
    ASSUME NEW r \in Routes, NEW k \in 0..Len(r)
    PROVE  /\ SubSeq(r, k + 1, Len(r)) = <<>> => k = Len(r)
           /\ SubSeq(r, k + 1, Len(r)) # <<>> =>
                 /\ k \in 0..Len(r) - 1 /\ Head(SubSeq(r, k + 1, Len(r))) = r[k + 1]
                 /\ Tail(SubSeq(r, k + 1, Len(r))) = SubSeq(r, (k + 1) + 1, Len(r))
<1>1. r \in Seq(Points) /\ Len(r) \in Nat
  BY RouteType1
<1>2. CASE k = Len(r)
  <2>1. SubSeq(r, k + 1, Len(r)) = <<>>
    BY <1>1, <1>2
  <2>2. QED
    BY <1>2, <2>1
<1>3. CASE k < Len(r)
  <2> DEFINE n == Len(r)
             s == SubSeq(r, k + 1, n)
             t == SubSeq(r, (k + 1) + 1, n)
  <2>1. /\ s \in Seq(Points) /\ Len(s) = n - k /\ \A i \in 1..n - k : s[i] = r[k + i]
        /\ t \in Seq(Points) /\ Len(t) = n - k - 1 /\ \A i \in 1..n - k - 1 : t[i] = r[k + 1 + i]
    BY <1>1, <1>3
  <2>2. k \in 0..n - 1 /\ n \in Nat /\ n - k \in Nat /\ n - k >= 1 /\ k \in Nat
    BY <1>1, <1>3
  <2> HIDE DEF s, t, n
  <2>3. s # <<>> /\ Head(s) = r[k + 1]
    BY <2>1, <2>2
  <2>4. Tail(s) = t
    <3>1. Tail(s) \in Seq(Points) /\ Len(Tail(s)) = n - k - 1
          /\ \A i \in 1..n - k - 1 : Tail(s)[i] = s[i + 1]
      BY <2>1, <2>2
    <3>2. \A i \in 1..n - k - 1 : i + 1 \in 1..n - k /\ k + (i + 1) = k + 1 + i
      BY <2>2
    <3>3. \A i \in 1..n - k - 1 : Tail(s)[i] = t[i]
      BY <2>1, <3>1, <3>2
    <3>4. QED
      BY <2>1, <3>1, <3>3
  <2>5. QED
    BY <1>3, <2>2, <2>3, <2>4 DEF s, t, n
<1>4. QED
  BY <1>1, <1>2, <1>3

\* One turn of RecordRoute's loop keeps the types of its locals.
LEMMA RecordType == ASSUME NEW t \in TripType, NEW p \in Points PROVE RecordPoint(t, p) \in TripType
<1> DEFINE here == {i \in DOMAIN SavedFeatures : SavedFeatures[i].location = p}
           u == RecordPoint(t, p)
<1>1. Cardinality(here) \in Nat
  <2>1. IsFiniteSet(DOMAIN SavedFeatures)
    BY FeaturesType, FS_Interval
  <2>2. IsFiniteSet(here)
    BY <2>1, FS_Subset
  <2>3. QED
    BY <2>2, FS_CardinalityType
<1>2. /\ u.pointCount = t.pointCount + 1
      /\ u.featureCount = t.featureCount + Cardinality(here)
      /\ u.distance = IF t.lastPoint = NoPoint THEN t.distance
                      ELSE t.distance + Distance[<<t.lastPoint, p>>]
      /\ u.lastPoint = p
      /\ u = [pointCount |-> u.pointCount, featureCount |-> u.featureCount,
              distance |-> u.distance, lastPoint |-> u.lastPoint]
  BY Zenon DEF RecordPoint, calcDistance
<1>3. \A q \in Points : Distance[<<q, p>>] \in Int
  BY PointsAssumption
<1> HIDE DEF u, here
<1>4. u.pointCount \in Nat /\ u.featureCount \in Nat /\ u.distance \in Int
  BY <1>1, <1>2, <1>3 DEF TripType
<1>5. QED
  BY <1>2, <1>4 DEF TripType, u

\* RecordRoute reads a point, or the end and then answers.
LEMMA RecordRouteStep ==
    ASSUME RouteType, NEW c \in Clients, Inv(c), RecordRoute(c)
    PROVE  RouteType' /\ Inv(c)' /\ \A d \in Clients \ {c} : Untouched(d)
<1> DEFINE S == Summary(trip[c])
<1>1. /\ Reading(c, "RecordRoute") /\ routeNotes' = routeNotes
      /\ Head(up[c]) = End =>
            srv' = [srv EXCEPT ![c] = Serving("RecordRoute", <<S>>, TRUE)] /\ trip' = trip
      /\ Head(up[c]) # End =>
            trip' = [trip EXCEPT ![c] = RecordPoint(trip[c], Head(up[c]))] /\ srv' = srv
  BY DEF RecordRoute
<1>2. "RecordRoute" \in Methods
  BY DEF Methods
<1>3. trip[c] \in TripType
  BY TypeOf
<1>4. <<S>> \in Seq(Reply)
  <2>1. S \in Reply
    BY <1>3 DEF Summary, TripType, Reply
  <2> HIDE DEF S
  <2>2. QED
    BY <2>1
<1> HIDE DEF S
<1>5. /\ srv' \in [Clients -> [method : Methods \cup {"none", "failed"}, rn : Seq(Reply), last : BOOLEAN]]
      /\ srv'[c].method = "RecordRoute" /\ \A d \in Clients \ {c} : srv'[d] = srv[d]
      /\ Head(up[c]) = End => srv'[c].rn = <<S>> /\ srv'[c].last = TRUE
      /\ Head(up[c]) # End => srv'[c].rn = <<>> /\ ~srv'[c].last
  <2>1. CASE Head(up[c]) = End
    <3>1. srv' = [srv EXCEPT ![c] = Serving("RecordRoute", <<S>>, TRUE)]
      BY <1>1, <2>1
    <3>2. /\ srv' \in [Clients -> [method : Methods \cup {"none", "failed"}, rn : Seq(Reply),
                                   last : BOOLEAN]]
          /\ srv'[c].method = "RecordRoute" /\ srv'[c].rn = <<S>> /\ srv'[c].last = TRUE
          /\ \A d \in Clients \ {c} : srv'[d] = srv[d]
      BY <1>2, <1>4, <3>1, SrvType
    <3>3. QED
      BY <2>1, <3>2
  <2>2. CASE Head(up[c]) # End
    <3>1. srv' = srv /\ srv[c].method = "RecordRoute" /\ srv[c].rn = <<>> /\ ~srv[c].last
      BY <1>1, <1>2, <2>2, ReadingFacts
    <3>2. QED
      BY <2>2, <3>1 DEF RouteType
  <2>3. QED
    BY <2>1, <2>2
<1>6. /\ trip' \in [Clients -> TripType] /\ \A d \in Clients \ {c} : trip'[d] = trip[d]
      /\ Head(up[c]) # End => trip'[c] = RecordPoint(trip[c], Head(up[c]))
  <2>1. trip \in [Clients -> TripType]
    BY DEF RouteType, TripType
  <2>2. Head(up[c]) # End => Head(up[c]) \in Points
    BY <1>1, <1>2, ReadingFacts, SendFacts
  <2>3. Head(up[c]) # End => RecordPoint(trip[c], Head(up[c])) \in TripType
    BY <1>3, <2>2, RecordType
  <2>4. QED
    BY <1>1, <2>1, <2>3
<1>7. RouteType'
  BY <1>1, <1>2, <1>5, <1>6, ReadingFacts DEF RouteType, TripType
<1>8. \A d \in Clients \ {c} : Untouched(d)
  BY <1>1, <1>2, <1>5, <1>6, ReadingFacts DEF Untouched
<1>9. Streaming(c)'
  BY <1>1, <1>2, <1>5, ReadingStreams
<1>10. ASSUME at[c] = "RecordRoute" PROVE Recording(c)'
  <2> DEFINE k == trip[c].pointCount
  <2>1. PICK r \in Routes :
           /\ Plain(up[c]) \o todo[c] = SubSeq(r, k + 1, Len(r)) /\ k \in 0..Len(r)
           /\ S = TripSummary(r, k) /\ trip[c].lastPoint = IF k = 0 THEN NoPoint ELSE r[k]
           /\ got[c].RecordRoute = <<>> /\ down[c] = <<>> /\ srv[c].rn = <<>>
    BY <1>1, <1>2, <1>10, ReadingFacts DEF Inv, Answering, Recording, S
  <2>2. Running(c)
    BY <1>1, <1>2, <1>10, ReadingFacts DEF Running
  <2>3. Plain(up[c]) \in Seq(Points) /\ todo[c] \in Seq(Points)
    BY <1>1, <1>2, <1>10, <2>2, ReadingFacts, RunningFacts, SendFacts
  <2>4. Plain(<<>>) = <<>>
    BY DEF Plain, Ended
  <2>5. CASE Head(up[c]) = End
    <3>1. Plain(up[c]) = <<>> /\ todo[c] = <<>>
      BY <1>1, <1>2, <2>2, <2>5, ReadingFacts, RunningFacts
    <3>2. SubSeq(r, k + 1, Len(r)) = <<>>
      <4>1. <<>> \o <<>> = <<>>
        OBVIOUS
      <4>2. QED
        BY <2>1, <3>1, <4>1
    <3>3. k = Len(r)
      BY <2>1, <3>2, Remaining
    <3>4. got'[c].RecordRoute = <<>> /\ Plain(down'[c]) = <<>> /\ srv'[c].rn = <<S>>
      BY <1>1, <1>2, <1>5, <2>1, <2>4, <2>5, ReadingFacts
    <3>5. <<>> \o (<<>> \o <<S>>) = <<S>>
      OBVIOUS
    <3>6. got'[c].RecordRoute \o (Plain(down'[c]) \o srv'[c].rn) = <<TripSummary(r, Len(r))>>
      BY <2>1, <3>3, <3>4, <3>5
    <3>7. QED
      BY <1>5, <2>5, <3>6 DEF Recording
  <2>6. CASE Head(up[c]) # End
    <3>1. /\ Plain(up[c]) # <<>> /\ Head(up[c]) = Head(Plain(up[c]))
          /\ Plain(up'[c]) = Tail(Plain(up[c]))
      BY <1>1, <1>2, <2>6, ReadingFacts
    <3>2. /\ Plain(up[c]) \o todo[c] # <<>>
          /\ Head(Plain(up[c]) \o todo[c]) = Head(Plain(up[c]))
          /\ Tail(Plain(up[c]) \o todo[c]) = Tail(Plain(up[c])) \o todo[c]
      <4>1. \A a, b \in Seq(Points) : a # <<>> =>
               Tail(a \o b) = Tail(a) \o b /\ Head(a \o b) = Head(a) /\ a \o b # <<>>
        BY Rows
      <4>2. QED
        BY <2>3, <3>1, <4>1
    <3>3. /\ k \in 0..Len(r) - 1 /\ Head(up[c]) = r[k + 1]
          /\ Plain(up'[c]) \o todo[c] = SubSeq(r, (k + 1) + 1, Len(r))
      BY <2>1, <3>1, <3>2, Remaining
    <3>4. TripRight(trip[c], r, k)
      BY <2>1, SummaryRight DEF S
    <3>5. TripRight(trip'[c], r, k + 1)
      BY <1>3, <1>6, <2>6, <3>3, <3>4, TripStep
    <3>6. /\ trip'[c].pointCount = k + 1 /\ Summary(trip'[c]) = TripSummary(r, k + 1)
          /\ trip'[c].lastPoint = IF k + 1 = 0 THEN NoPoint ELSE r[k + 1]
      BY <3>5, SummaryRight
    <3>7. k + 1 \in 0..Len(r)
      BY <3>3, RouteType1
    <3>8. /\ todo' = todo /\ got'[c].RecordRoute = <<>> /\ down'[c] = <<>> /\ srv'[c].rn = <<>>
          /\ ~srv'[c].last /\ srv'[c].method # "none"
      BY <1>1, <1>2, <1>5, <2>1, <2>6, ReadingFacts
    <3> HIDE DEF k
    <3>9. QED
      BY <3>3, <3>6, <3>7, <3>8 DEF Recording, Answered
  <2>7. QED
    BY <2>5, <2>6
<1>11. Answering(c)' /\ Right(c)'
  <2>1. at'[c] = at[c] /\ at[c] \in {"RecordRoute", "fatal"} /\ got' = got /\ opened' = opened
        /\ opened[c]
    BY <1>1, <1>2, ReadingFacts
  <2>2. QED
    BY <1>10, <2>1 DEF Inv, Answering, Right
<1>12. QED
  BY <1>7, <1>8, <1>9, <1>11 DEF Inv

\* The location of a note is a point.
LEMMA NotePlace == ASSUME NEW n \in ChatNotes PROVE n.location \in Points
<1>1. PICK d \in Clients, i \in DOMAIN ChatScript : n = Note(d, i)
  BY DEF ChatNotes
<1>2. n.location = ChatScript[i]
  BY <1>1 DEF Note
<1>3. ChatScript \in Seq(Points)
  BY PointsAssumption, Zenon
<1>4. QED
  BY <1>2, <1>3

\* RouteChat posts a note and copies those of its place, or reads the end.
LEMMA ChatFacts ==
    ASSUME RouteType, NEW c \in Clients, Inv(c), RouteChat(c)
    PROVE  /\ Reading(c, "RouteChat") /\ "RouteChat" \in Methods /\ trip' = trip
           /\ srv' \in [Clients -> [method : Methods \cup {"none", "failed"}, rn : Seq(Reply),
                                    last : BOOLEAN]]
           /\ srv'[c].method = "RouteChat" /\ \A d \in Clients \ {c} : srv'[d] = srv[d]
           /\ routeNotes' \in [{serialize(p) : p \in Points} -> Seq(ChatNotes)]
           /\ Head(up[c]) = End => routeNotes' = routeNotes /\ srv'[c].rn = <<>>
           /\ Head(up[c]) # End =>
                 /\ Head(up[c]) \in ChatNotes
                 /\ LET key == serialize(Head(up[c]).location)
                    IN  /\ routeNotes' = [routeNotes EXCEPT ![key] = Append(@, Head(up[c]))]
                        /\ key \in {serialize(p) : p \in Points} /\ srv'[c].rn = routeNotes'[key]
<1>1. Reading(c, "RouteChat") /\ "RouteChat" \in Methods /\ trip' = trip
  BY DEF RouteChat, Methods
<1>2. CASE Head(up[c]) = End
  <2>1. srv' = [srv EXCEPT ![c] = Serving("RouteChat", <<>>, TRUE)] /\ routeNotes' = routeNotes
    BY <1>2 DEF RouteChat
  <2>2. <<>> \in Seq(Reply)
    OBVIOUS
  <2>3. /\ srv' \in [Clients -> [method : Methods \cup {"none", "failed"}, rn : Seq(Reply),
                                 last : BOOLEAN]]
        /\ srv'[c].method = "RouteChat" /\ srv'[c].rn = <<>>
        /\ \A d \in Clients \ {c} : srv'[d] = srv[d]
    BY <1>1, <2>1, <2>2, SrvType
  <2>4. QED
    BY <1>1, <1>2, <2>1, <2>3 DEF RouteType
<1>3. CASE Head(up[c]) # End
  <2> DEFINE n == Head(up[c])
             key == serialize(n.location)
             D == {serialize(p) : p \in Points}
  <2>1. /\ routeNotes' = [routeNotes EXCEPT ![key] = Append(@, n)]
        /\ srv' = [srv EXCEPT ![c] = Serving("RouteChat", routeNotes'[key], FALSE)]
    BY <1>3 DEF RouteChat
  <2>2. n \in ChatNotes
    BY <1>1, <1>3, ReadingFacts, SendFacts
  <2>3. key \in D
    BY <2>2, NotePlace
  <2>4. routeNotes \in [D -> Seq(ChatNotes)]
    BY DEF RouteType
  <2> HIDE DEF n, key, D
  <2>5. Append(routeNotes[key], n) \in Seq(ChatNotes)
    BY <2>2, <2>3, <2>4
  <2>6. routeNotes' \in [D -> Seq(ChatNotes)] /\ routeNotes'[key] \in Seq(ChatNotes)
    BY <2>1, <2>3, <2>4, <2>5
  <2>7. routeNotes'[key] \in Seq(Reply)
    BY <2>6, SendFacts, SeqMono
  <2>8. /\ srv' \in [Clients -> [method : Methods \cup {"none", "failed"}, rn : Seq(Reply),
                                 last : BOOLEAN]]
        /\ srv'[c].method = "RouteChat" /\ srv'[c].rn = routeNotes'[key]
        /\ \A d \in Clients \ {c} : srv'[d] = srv[d]
    <3> DEFINE rn == routeNotes'[key]
    <3>1. srv' = [srv EXCEPT ![c] = Serving("RouteChat", rn, FALSE)] /\ rn \in Seq(Reply)
      BY <2>1, <2>7
    <3> HIDE DEF rn
    <3>2. /\ srv' \in [Clients -> [method : Methods \cup {"none", "failed"}, rn : Seq(Reply),
                                   last : BOOLEAN]]
          /\ srv'[c].method = "RouteChat" /\ srv'[c].rn = rn
          /\ \A d \in Clients \ {c} : srv'[d] = srv[d]
      BY <1>1, <3>1, SrvType
    <3>3. QED
      BY <3>2 DEF rn
  <2>9. QED
    BY <1>1, <1>3, <2>1, <2>2, <2>3, <2>6, <2>8 DEF n, key, D
<1>4. QED
  BY <1>2, <1>3

\* A turn of RouteChat's loop up to the sending.
LEMMA RouteChatStep ==
    ASSUME RouteType, NEW c \in Clients, Inv(c), RouteChat(c)
    PROVE  RouteType' /\ Inv(c)' /\ \A d \in Clients \ {c} : Untouched(d)
<1>1. Reading(c, "RouteChat") /\ "RouteChat" \in Methods
  BY ChatFacts
<1>2. RouteType'
  BY <1>1, ChatFacts, ReadingFacts DEF RouteType
<1>3. \A d \in Clients \ {c} : Untouched(d)
  <2>1. /\ at' = at /\ todo' = todo /\ opened' = opened /\ closed' = closed /\ got' = got
        /\ down' = down /\ \A d \in Clients \ {c} : up'[d] = up[d]
    BY <1>1, ReadingFacts
  <2>2. trip' = trip /\ \A d \in Clients \ {c} : srv'[d] = srv[d]
    BY ChatFacts
  <2>3. QED
    BY <2>1, <2>2 DEF Untouched
<1>4. Streaming(c)'
  BY <1>1, ChatFacts, ReadingStreams
<1>5. Answering(c)' /\ Right(c)'
  <2>1. at'[c] = at[c] /\ at[c] \in {"RouteChat", "fatal"} /\ got' = got /\ opened' = opened
        /\ opened[c]
    BY <1>1, ReadingFacts
  <2>2. QED
    BY <2>1 DEF Inv, Answering, Right
<1>6. QED
  BY <1>2, <1>3, <1>4, <1>5 DEF Inv

\* What stays when only the handler's state and down change, and of it neither the
\* method nor what the client will have received.
LEMMA Delivered ==
    ASSUME RouteType, NEW c \in Clients, Inv(c),
           at' = at /\ todo' = todo /\ opened' = opened /\ closed' = closed /\ got' = got,
           up' = up /\ trip' = trip,
           Answered(c)' <=> Answered(c), srv[c].rn # <<>> \/ srv[c].last,
           srv[c].method \in Methods,
           srv'[c].method = "none" \/ srv'[c].last = srv[c].last,
           Plain(down'[c]) \o srv'[c].rn = Plain(down[c]) \o srv[c].rn
    PROVE  Answering(c)' /\ Right(c)'
<1>1. Right(c)'
  BY DEF Inv, Right
<1>2. ASSUME at[c] = "ListFeatures", opened[c] PROVE Listing(c)'
  <2>1. PICK r \in Rectangles :
           /\ srv[c].method = "ListFeatures" /\ ~srv[c].last => srv[c].rn = <<>>
           /\ Answered(c) => Lists(got[c].ListFeatures \o (Plain(down[c]) \o srv[c].rn), r)
    BY <1>2 DEF Inv, Answering, Listing
  <2>2. srv[c].method = "ListFeatures"
    BY <1>2 DEF Inv, Streaming
  <2>3. srv[c].last
    BY <2>1, <2>2
  <2>4. QED
    BY <2>1, <2>2, <2>3 DEF Listing
<1>3. ASSUME at[c] = "RecordRoute", opened[c] PROVE Recording(c)'
  <2>1. PICK r \in Routes :
           /\ srv[c].method = "RecordRoute" /\ ~srv[c].last => srv[c].rn = <<>>
           /\ Answered(c) => got[c].RecordRoute \o (Plain(down[c]) \o srv[c].rn)
                                = <<TripSummary(r, Len(r))>>
    BY <1>3 DEF Inv, Answering, Recording
  <2>2. srv[c].method = "RecordRoute"
    BY <1>3 DEF Inv, Streaming
  <2>3. srv[c].last
    BY <2>1, <2>2
  <2>4. QED
    BY <2>1, <2>2, <2>3 DEF Recording
<1>4. QED
  BY <1>1, <1>2, <1>3 DEF Inv, Answering

\* The handler of a stream that is sending, or about to return, is in a call.
LEMMA Busy ==
    ASSUME NEW c, Inv(c), srv[c].rn # <<>> \/ srv[c].last
    PROVE  /\ srv[c].method \in Methods /\ srv[c].method # "none" /\ srv[c].method # "failed"
           /\ opened[c] /\ at[c] \in {srv[c].method, "fatal"} /\ down[c] \in Seq(Reply)
  BY DEF Inv, Streaming, Methods

\* The handler sends the next message.
LEMMA StreamSendStep ==
    ASSUME RouteType, NEW c \in Clients, Inv(c), StreamSend(c)
    PROVE  /\ RouteType' /\ Inv(c)' /\ \A d \in Clients \ {c} : Untouched(d)
           /\ Plain(down'[c]) \o srv'[c].rn = Plain(down[c]) \o srv[c].rn
           /\ srv'[c].method = srv[c].method /\ srv[c].method \in Methods
<1> DEFINE x == Head(srv[c].rn)
<1>1. /\ srv[c].rn # <<>>
      /\ down' = [down EXCEPT ![c] = Append(down[c], x)]
      /\ srv' = [srv EXCEPT ![c] = Serving(srv[c].method, Tail(srv[c].rn), srv[c].last)]
      /\ at' = at /\ todo' = todo /\ opened' = opened /\ closed' = closed /\ got' = got
      /\ cut' = cut /\ up' = up /\ trip' = trip /\ routeNotes' = routeNotes
  BY DEF StreamSend, client
<1>2. /\ srv[c].method \in Methods /\ srv[c].method # "none" /\ srv[c].method # "failed"
      /\ opened[c] /\ at[c] \in {srv[c].method, "fatal"} /\ down[c] \in Seq(Reply)
  BY <1>1, Busy
<1>3. srv[c].rn \in Seq(Reply) /\ srv[c].last \in BOOLEAN
  BY TypeOf
<1>4. x \in Reply /\ Tail(srv[c].rn) \in Seq(Reply)
  BY <1>1, <1>3, TailFacts
<1>5. /\ srv' \in [Clients -> [method : Methods \cup {"none", "failed"}, rn : Seq(Reply), last : BOOLEAN]]
      /\ srv'[c].method = srv[c].method /\ srv'[c].rn = Tail(srv[c].rn)
      /\ srv'[c].last = srv[c].last /\ \A d \in Clients \ {c} : srv'[d] = srv[d]
  <2> DEFINE m == srv[c].method
             rn == Tail(srv[c].rn)
             l == srv[c].last
  <2>1. srv' = [srv EXCEPT ![c] = Serving(m, rn, l)] /\ rn \in Seq(Reply) /\ l \in BOOLEAN
        /\ m \in Methods \cup {"none", "failed"}
    BY <1>1, <1>2, <1>3, <1>4
  <2> HIDE DEF m, rn, l
  <2>2. /\ srv' \in [Clients -> [method : Methods \cup {"none", "failed"}, rn : Seq(Reply),
                                 last : BOOLEAN]]
        /\ srv'[c].method = m /\ srv'[c].rn = rn
        /\ srv'[c].last = l /\ \A d \in Clients \ {c} : srv'[d] = srv[d]
    BY <2>1, SrvType
  <2>3. QED
    BY <2>2 DEF m, rn, l
<1> HIDE DEF x
<1>6. /\ down'[c] = Append(down[c], x) /\ down'[c] \in Seq(Reply)
      /\ down' \in [Clients -> Seq(Reply \cup {End})] /\ \A d \in Clients \ {c} : down'[d] = down[d]
  <2>1. down \in [Clients -> Seq(Reply \cup {End})] /\ down'[c] = Append(down[c], x)
    BY <1>1 DEF RouteType
  <2>2. Append(down[c], x) \in Seq(Reply)
    BY <1>2, <1>4
  <2>3. Append(down[c], x) \in Seq(Reply \cup {End})
    BY <2>2, SeqMono
  <2>4. QED
    BY <1>1, <2>1, <2>2, <2>3
<1>7. Plain(down[c]) = down[c] /\ Plain(down'[c]) = down'[c]
  BY <1>2, <1>6, PlainFacts, SendFacts
<1>8. Plain(down'[c]) \o srv'[c].rn = Plain(down[c]) \o srv[c].rn
  <2>1. Append(down[c], Head(srv[c].rn)) \o Tail(srv[c].rn) = down[c] \o srv[c].rn
    BY <1>1, <1>2, <1>3, Moved
  <2>2. QED
    BY <1>5, <1>6, <1>7, <2>1 DEF x
<1>9. RouteType'
  BY <1>1, <1>5, <1>6 DEF RouteType
<1>10. \A d \in Clients \ {c} : Untouched(d)
  BY <1>1, <1>5, <1>6 DEF Untouched
<1>11. Streaming(c)'
  BY <1>1, <1>2, <1>5, <1>6, <1>7 DEF Inv, Streaming
<1>12. Answering(c)' /\ Right(c)'
  BY <1>1, <1>2, <1>5, <1>8, Delivered DEF Answered
<1>13. QED
  BY <1>2, <1>5, <1>8, <1>9, <1>10, <1>11, <1>12 DEF Inv

\* The handler returns; End follows its messages.
LEMMA HandlerReturnStep ==
    ASSUME RouteType, NEW c \in Clients, Inv(c), HandlerReturn(c)
    PROVE  /\ RouteType' /\ Inv(c)' /\ \A d \in Clients \ {c} : Untouched(d)
           /\ Plain(down'[c]) \o srv'[c].rn = Plain(down[c]) \o srv[c].rn
           /\ srv'[c].method = "none" /\ srv[c].method \in Methods
<1>1. /\ srv[c].last /\ srv[c].rn = <<>>
      /\ down' = [down EXCEPT ![c] = Append(down[c], End)]
      /\ srv' = [srv EXCEPT ![c] = Serving("none", <<>>, FALSE)]
      /\ at' = at /\ todo' = todo /\ opened' = opened /\ closed' = closed /\ got' = got
      /\ cut' = cut /\ up' = up /\ trip' = trip /\ routeNotes' = routeNotes
  BY DEF HandlerReturn, client, Idle
<1>2. /\ srv[c].method \in Methods /\ srv[c].method # "none" /\ srv[c].method # "failed"
      /\ opened[c] /\ at[c] \in {srv[c].method, "fatal"} /\ down[c] \in Seq(Reply)
  BY <1>1, Busy
<1>3. /\ srv' \in [Clients -> [method : Methods \cup {"none", "failed"}, rn : Seq(Reply), last : BOOLEAN]]
      /\ srv'[c].method = "none" /\ srv'[c].rn = <<>>
      /\ srv'[c].last = FALSE /\ \A d \in Clients \ {c} : srv'[d] = srv[d]
  <2>1. <<>> \in Seq(Reply)
    OBVIOUS
  <2>2. QED
    BY <1>1, <2>1, SrvType
<1>4. /\ down'[c] = Append(down[c], End)
      /\ down' \in [Clients -> Seq(Reply \cup {End})] /\ \A d \in Clients \ {c} : down'[d] = down[d]
  <2>1. down \in [Clients -> Seq(Reply \cup {End})] /\ down'[c] = Append(down[c], End)
    BY <1>1 DEF RouteType
  <2>2. Append(down[c], End) \in Seq(Reply \cup {End})
    BY <2>1
  <2>3. QED
    BY <1>1, <2>1, <2>2
<1>5. Plain(down[c]) = down[c] /\ Plain(down'[c]) = down[c] /\ Ended(down'[c])
  BY <1>2, <1>4, PlainFacts, SendFacts
<1>6. Plain(down'[c]) \o srv'[c].rn = Plain(down[c]) \o srv[c].rn
  BY <1>1, <1>3, <1>5
<1>7. RouteType'
  BY <1>1, <1>3, <1>4 DEF RouteType
<1>8. \A d \in Clients \ {c} : Untouched(d)
  BY <1>1, <1>3, <1>4 DEF Untouched
<1>9. Streaming(c)'
  <2>1. "none" \notin Methods
    BY DEF Methods
  <2>2. QED
    BY <1>1, <1>2, <1>3, <1>5, <2>1 DEF Inv, Streaming
<1>10. Answering(c)' /\ Right(c)'
  BY <1>1, <1>2, <1>3, <1>6, Delivered DEF Answered
<1>11. QED
  BY <1>2, <1>3, <1>6, <1>7, <1>8, <1>9, <1>10 DEF Inv

\* The handler fails; what it has sent stays in flight.
LEMMA HandlerErrorStep ==
    ASSUME RouteType, NEW c \in Clients, Inv(c), HandlerError(c)
    PROVE  RouteType' /\ Inv(c)' /\ \A d \in Clients \ {c} : Untouched(d)
<1>1. /\ srv[c].method \notin {"none", "failed"}
      /\ srv' = [srv EXCEPT ![c] = Serving("failed", <<>>, FALSE)]
      /\ at' = at /\ todo' = todo /\ opened' = opened /\ closed' = closed /\ got' = got
      /\ cut' = cut /\ up' = up /\ down' = down /\ trip' = trip /\ routeNotes' = routeNotes
  BY DEF HandlerError, client, net
<1>2. /\ srv[c].method \in Methods /\ opened[c] /\ down[c] \in Seq(Reply)
      /\ "failed" \notin Methods
  BY <1>1, TypeOf DEF Inv, Streaming, Methods
<1>3. /\ srv' \in [Clients -> [method : Methods \cup {"none", "failed"}, rn : Seq(Reply), last : BOOLEAN]]
      /\ srv'[c].method = "failed" /\ srv'[c].rn = <<>>
      /\ srv'[c].last = FALSE /\ \A d \in Clients \ {c} : srv'[d] = srv[d]
  <2>1. <<>> \in Seq(Reply)
    OBVIOUS
  <2>2. QED
    BY <1>1, <2>1, SrvType
<1>4. RouteType'
  BY <1>1, <1>3 DEF RouteType
<1>5. \A d \in Clients \ {c} : Untouched(d)
  BY <1>1, <1>3 DEF Untouched
<1>6. Streaming(c)'
  BY <1>1, <1>2, <1>3 DEF Inv, Streaming
<1>7. ~Answered(c)'
  BY <1>3 DEF Answered
<1>8. Listing(c)' <=> Rectangles # {}
  BY <1>3, <1>7 DEF Listing
<1>9. Recording(c)' <=> Routes # {}
  BY <1>3, <1>7 DEF Recording
<1>10. Answering(c)'
  <2>1. Listing(c) => Rectangles # {}
    BY DEF Listing
  <2>2. Recording(c) => Routes # {}
    BY DEF Recording
  <2>3. QED
    BY <1>1, <1>8, <1>9, <2>1, <2>2 DEF Inv, Answering
<1>11. Right(c)'
  BY <1>1 DEF Inv, Right
<1>12. QED
  BY <1>4, <1>5, <1>6, <1>10, <1>11 DEF Inv

-----------------------------------------------------------------------------
(* The answers of the streaming calls.                                      *)

\* The invariant, client by client.
LEMMA ClientByClient == RouteInv <=> RouteType /\ \A c \in Clients : Inv(c)
  BY DEF RouteInv, AnswersRight, Inv, Right

\* It holds before any call.
LEMMA RouteInit == Init => RouteInv
<1> SUFFICES ASSUME Init PROVE RouteType /\ \A c \in Clients : Inv(c)
  BY ClientByClient
<1>1. <<>> \in Seq(Request) /\ <<>> \in Seq(Request \cup {End}) /\ <<>> \in Seq(Reply)
      /\ <<>> \in Seq(Reply \cup {End}) /\ <<>> \in Seq(ChatNotes)
  OBVIOUS
<1>2. Queries \in Seq(Points) /\ Queries # <<>>
  BY PointsAssumption, Zenon
<1>3. Queries \in Seq(Request)
  <2>1. Points \subseteq Request
    BY SendFacts DEF Methods
  <2>2. QED
    BY <1>2, <2>1, SeqMono
<1>4. Serving("none", <<>>, FALSE) \in
         [method : Methods \cup {"none", "failed"}, rn : Seq(Reply), last : BOOLEAN]
  BY <1>1 DEF Serving
<1>5. NoTrip \in TripType
  BY DEF NoTrip, TripType
<1>6. RouteType
  <2>1. /\ at \in [Clients -> ToSet(Calls) \cup {"done", "fatal"}]
        /\ opened \in [Clients -> BOOLEAN] /\ closed \in [Clients -> BOOLEAN]
        /\ cut \in [Clients -> BOOLEAN]
    BY CallFacts DEF Init
  <2>2. /\ todo \in [Clients -> Seq(Request)] /\ up \in [Clients -> Seq(Request \cup {End})]
        /\ down \in [Clients -> Seq(Reply \cup {End})]
    BY <1>1, <1>3 DEF Init
  <2>3. got \in [Clients -> [ToSet(Calls) -> Seq(Reply)]]
    BY <1>1 DEF Init
  <2>4. srv \in [Clients -> [method : Methods \cup {"none", "failed"}, rn : Seq(Reply),
                             last : BOOLEAN]]
    BY <1>4 DEF Init, Idle
  <2>5. trip \in [Clients -> TripType]
    BY <1>5 DEF Init
  <2>6. routeNotes \in [{serialize(p) : p \in Points} -> Seq(ChatNotes)]
    BY <1>1 DEF Init, NewServer
  <2>7. QED
    BY <2>1, <2>2, <2>3, <2>4, <2>5, <2>6 DEF RouteType, TripType
<1>7. ASSUME NEW c \in Clients PROVE Inv(c)
  <2>1. /\ at[c] = "GetFeature" /\ todo[c] = Queries /\ opened[c] = FALSE /\ down[c] = <<>>
        /\ got[c].ListFeatures = <<>> /\ got[c].RecordRoute = <<>>
    BY CallFacts DEF Init
  <2>2. srv[c].method = "none" /\ srv[c].rn = <<>> /\ srv[c].last = FALSE
    BY DEF Init, Idle, Serving
  <2>3. Plain(<<>>) = <<>>
    BY DEF Plain, Ended
  <2>4. Streaming(c)
    BY <1>1, <2>1, <2>2, <2>3 DEF Streaming, Methods
  <2>5. Answering(c)
    BY <1>2, <2>1 DEF Answering
  <2>6. Right(c)
    BY <2>1 DEF Right
  <2>7. QED
    BY <2>4, <2>5, <2>6 DEF Inv
<1>8. QED
  BY <1>6, <1>7

\* A step of one client, of its network or of its handler.
LEMMA OneStep ==
    ASSUME RouteType, NEW c \in Clients, Inv(c), Client(c) \/ Cut(c) \/ Handler(c)
    PROVE  RouteType' /\ Inv(c)' /\ \A d \in Clients \ {c} : Untouched(d)
<1>1. CASE Fatal(c)
  BY <1>1, FatalStep
<1>2. CASE PrintFeature(c) /\ ~Fatal(c)
  BY <1>2, PrintStep
<1>3. CASE NewStream(c) /\ ~Fatal(c)
  BY <1>3, NewStreamStep
<1>4. CASE Send(c)
  BY <1>4, SendStep
<1>5. CASE CloseSend(c)
  BY <1>5, CloseSendStep
<1>6. CASE Recv(c)
  BY <1>6, RecvStep
<1>7. CASE RecvEOF(c)
  BY <1>7, RecvEOFStep
<1>8. CASE Cut(c)
  BY <1>8, CutStep
<1>9. CASE ListFeatures(c)
  BY <1>9, ListFeaturesStep
<1>10. CASE RecordRoute(c)
  BY <1>10, RecordRouteStep
<1>11. CASE RouteChat(c)
  BY <1>11, RouteChatStep
<1>12. CASE StreamSend(c)
  BY <1>12, StreamSendStep
<1>13. CASE HandlerReturn(c)
  BY <1>13, HandlerReturnStep
<1>14. CASE HandlerError(c)
  BY <1>14, HandlerErrorStep
<1>15. StreamError(c) => Fatal(c)
  BY DEF StreamError
<1>16. QED
  BY <1>1, <1>2, <1>3, <1>4, <1>5, <1>6, <1>7, <1>8, <1>9, <1>10, <1>11, <1>12, <1>13, <1>14, <1>15
     DEF Client, Handler

\* And it is kept by every step.
LEMMA RouteStep == RouteInv /\ [Next]_vars => RouteInv'
<1> SUFFICES ASSUME RouteInv, [Next]_vars PROVE RouteInv'
  OBVIOUS
<1>1. RouteType /\ \A c \in Clients : Inv(c)
  BY ClientByClient
<1>2. RouteInv' <=> RouteType' /\ \A c \in Clients : Inv(c)'
  <2>1. (RouteInv <=> RouteType /\ \A c \in Clients : Inv(c))'
    BY ClientByClient, PTL
  <2>2. QED
    BY <2>1
<1>3. ASSUME NEW c \in Clients, Client(c) \/ Cut(c) \/ Handler(c) PROVE RouteInv'
  <2>1. RouteType' /\ Inv(c)' /\ \A d \in Clients \ {c} : Untouched(d)
    BY <1>1, <1>3, OneStep
  <2>2. ASSUME NEW d \in Clients \ {c} PROVE Inv(d)'
    BY <1>1, <2>1, UntouchedInv
  <2>3. QED
    BY <1>2, <2>1, <2>2
<1>4. CASE UNCHANGED vars
  <2>1. /\ at' = at /\ todo' = todo /\ opened' = opened /\ closed' = closed /\ got' = got
        /\ cut' = cut /\ up' = up /\ down' = down /\ srv' = srv /\ trip' = trip
        /\ routeNotes' = routeNotes
    BY <1>4 DEF vars, client, net, server
  <2>2. RouteType'
    BY <1>1, <2>1 DEF RouteType
  <2>3. \A d \in Clients : Untouched(d)
    BY <2>1 DEF Untouched
  <2>4. \A d \in Clients : Inv(d)'
    BY <1>1, <2>3, UntouchedInv
  <2>5. QED
    BY <1>2, <2>2, <2>4
<1>5. QED
  BY <1>3, <1>4 DEF Next, Rest

\* The invariant behind the two theorems below: client and handler are in the same
\* call, and what is in flight, in the handler and received makes up the answer.
THEOREM RouteInvariant == Spec => []RouteInv
  BY RouteInit, RouteStep, PTL DEF Spec

\* A client that got past ListFeatures and RecordRoute of server.go received, whole
\* and in order, the features between the corners of its rectangle and the summary
\* of its route, for any features, routes, window and number of clients.
THEOREM AnswersCorrect == Spec => []AnswersRight
<1>1. RouteInv => AnswersRight
  BY DEF RouteInv
<1>2. QED
  BY <1>1, RouteInvariant, PTL

-----------------------------------------------------------------------------
(* RouteChat implements the note board.                                     *)

\* A conversation that has failed, at one of its ends.
Broke(c) == at[c] = "fatal" \/ srv[c].method = "failed"

\* What the note board sees of a client does not change.
Unseen(c) ==
    /\ Owed(c)' = Owed(c) /\ got'[c].RouteChat = got[c].RouteChat
    /\ Broke(c)' <=> Broke(c)

\* That is so of a client nothing of which changes.
LEMMA UntouchedUnseen == ASSUME NEW d, Untouched(d) PROVE Unseen(d)
<1>1. Owed(d)' = Owed(d)
  BY DEF Untouched, Owed, InChat
<1>2. QED
  BY <1>1 DEF Untouched, Unseen, Broke

\* A step that neither the notes nor what the board sees of a client notice.
LEMMA StutterStep ==
    ASSUME NEW c \in Clients, \A d \in Clients \ {c} : Untouched(d), Unseen(c),
           routeNotes' = routeNotes
    PROVE  UNCHANGED Board!vars
<1>1. \A d \in Clients : Unseen(d)
  BY UntouchedUnseen
<1>2. [p \in Points |-> routeNotes[serialize(p)]]' = [p \in Points |-> routeNotes[serialize(p)]]
  OBVIOUS
<1>3. [d \in Clients |-> Owed(d)]' = [d \in Clients |-> Owed(d)]
  BY <1>1 DEF Unseen
<1>4. [d \in Clients |-> got[d].RouteChat]' = [d \in Clients |-> got[d].RouteChat]
  BY <1>1 DEF Unseen
<1>5. {d \in Clients : at[d] = "fatal" \/ srv[d].method = "failed"}'
         = {d \in Clients : at[d] = "fatal" \/ srv[d].method = "failed"}
  BY <1>1 DEF Unseen, Broke
<1>6. QED
  BY <1>2, <1>3, <1>4, <1>5 DEF Board!vars

\* A step that breaks a conversation.
LEMMA BreakStep ==
    ASSUME NEW c \in Clients, \A d \in Clients \ {c} : Untouched(d), routeNotes' = routeNotes,
           got'[c].RouteChat = got[c].RouteChat, Broke(c)',
           NEW k \in 0..Len(Owed(c)), Owed(c)' = SubSeq(Owed(c), 1, k)
    PROVE  Board!Break(c)
<1>1. \A d \in Clients \ {c} : Unseen(d)
  BY UntouchedUnseen
<1>2. [p \in Points |-> routeNotes[serialize(p)]]' = [p \in Points |-> routeNotes[serialize(p)]]
  OBVIOUS
<1>3. [d \in Clients |-> Owed(d)]'
         = [[d \in Clients |-> Owed(d)] EXCEPT ![c] = SubSeq(Owed(c), 1, k)]
  BY <1>1 DEF Unseen
<1>4. [d \in Clients |-> got[d].RouteChat]' = [d \in Clients |-> got[d].RouteChat]
  BY <1>1 DEF Unseen
<1>5. {d \in Clients : at[d] = "fatal" \/ srv[d].method = "failed"}'
         = {d \in Clients : at[d] = "fatal" \/ srv[d].method = "failed"} \cup {c}
  BY <1>1 DEF Unseen, Broke
<1>6. [d \in Clients |-> Owed(d)][c] = Owed(c)
  OBVIOUS
<1>7. QED
  BY <1>2, <1>3, <1>4, <1>5, <1>6 DEF Board!Break

\* A step in which a client hears a note.
LEMMA HearStep ==
    ASSUME NEW c \in Clients, \A d \in Clients \ {c} : Untouched(d), routeNotes' = routeNotes,
           Owed(c) # <<>>, Owed(c)' = Tail(Owed(c)), Broke(c)' <=> Broke(c),
           got'[c].RouteChat = Append(got[c].RouteChat, Head(Owed(c)))
    PROVE  Board!Hear(c)
<1>1. \A d \in Clients \ {c} : Unseen(d)
  BY UntouchedUnseen
<1>2. [p \in Points |-> routeNotes[serialize(p)]]' = [p \in Points |-> routeNotes[serialize(p)]]
  OBVIOUS
<1>3. [d \in Clients |-> Owed(d)]'
         = [[d \in Clients |-> Owed(d)] EXCEPT ![c] = Tail(Owed(c))]
  BY <1>1 DEF Unseen
<1>4. [d \in Clients |-> got[d].RouteChat]'
         = [[d \in Clients |-> got[d].RouteChat] EXCEPT ![c] = Append(got[c].RouteChat, Head(Owed(c)))]
  BY <1>1 DEF Unseen
<1>5. {d \in Clients : at[d] = "fatal" \/ srv[d].method = "failed"}'
         = {d \in Clients : at[d] = "fatal" \/ srv[d].method = "failed"}
  BY <1>1 DEF Unseen, Broke
<1>6. [d \in Clients |-> Owed(d)][c] = Owed(c)
      /\ [d \in Clients |-> got[d].RouteChat][c] = got[c].RouteChat
  OBVIOUS
<1>7. QED
  BY <1>2, <1>3, <1>4, <1>5, <1>6 DEF Board!Hear

\* Points in different places have different keys.
LEMMA Keys == ASSUME NEW p \in Points, NEW q \in Points, serialize(p) = serialize(q) PROVE p = q
<1>1. p \in [lat : Int, lon : Int] /\ q \in [lat : Int, lon : Int]
  BY PointsAssumption, Zenon
<1>2. p.lat = q.lat /\ p.lon = q.lon
  BY DEF serialize
<1>3. QED
  BY <1>1, <1>2

\* A step in which a handler posts a note.
LEMMA PostStep ==
    ASSUME RouteType, NEW c \in Clients, \A d \in Clients \ {c} : Untouched(d),
           NEW n \in ChatNotes,
           routeNotes' = [routeNotes EXCEPT ![serialize(n.location)] = Append(@, n)],
           Broke(c)' <=> Broke(c), got'[c].RouteChat = got[c].RouteChat,
           Broke(c) => Owed(c)' = Owed(c),
           ~Broke(c) => Owed(c)' = Owed(c) \o Append(routeNotes[serialize(n.location)], n)
    PROVE  Board!Post(c, n)
<1> DEFINE key == serialize(n.location)
           notes == Append(routeNotes[key], n)
           place == [m \in ChatNotes |-> m.location]
           board == [p \in Points |-> routeNotes[serialize(p)]]
           owed == [d \in Clients |-> Owed(d)]
           broken == {d \in Clients : at[d] = "fatal" \/ srv[d].method = "failed"}
<1>1. \A d \in Clients \ {c} : Unseen(d)
  BY UntouchedUnseen
<1>2. n.location \in Points /\ place[n] = n.location
  BY NotePlace
<1>3. board[place[n]] = routeNotes[key]
  BY <1>2
<1>4. board' = [board EXCEPT ![place[n]] = Append(board[place[n]], n)]
  <2>1. routeNotes \in [{serialize(p) : p \in Points} -> Seq(ChatNotes)]
    BY DEF RouteType
  <2>2. key \in {serialize(p) : p \in Points}
    BY <1>2
  <2>3. ASSUME NEW p \in Points
        PROVE  routeNotes'[serialize(p)] = IF p = n.location THEN notes ELSE routeNotes[serialize(p)]
    <3>1. CASE p = n.location
      BY <2>1, <2>2, <3>1
    <3>2. CASE p # n.location
      <4>1. serialize(p) # key /\ serialize(p) \in {serialize(q) : q \in Points}
        BY <1>2, <3>2, Keys
      <4> HIDE DEF key
      <4>2. QED
        BY <2>1, <3>2, <4>1 DEF key
    <3>3. QED
      BY <3>1, <3>2
  <2>4. board' = [p \in Points |-> routeNotes'[serialize(p)]]
    OBVIOUS
  <2>5. QED
    BY <1>2, <1>3, <2>3, <2>4
<1>5. [d \in Clients |-> got[d].RouteChat]' = [d \in Clients |-> got[d].RouteChat]
  BY <1>1 DEF Unseen
<1>6. broken' = broken /\ (c \in broken <=> Broke(c))
  BY <1>1 DEF Unseen, Broke
<1>7. Broke(c) => owed' = owed
  BY <1>1 DEF Unseen
<1>8. ~Broke(c) => owed' = [owed EXCEPT ![c] = owed[c] \o Append(board[place[n]], n)]
  <2>1. owed[c] = Owed(c)
    OBVIOUS
  <2>2. QED
    BY <1>1, <1>3, <2>1 DEF Unseen
<1>9. QED
  BY <1>4, <1>5, <1>6, <1>7, <1>8 DEF Board!Post

\* What a client is owed is a sequence; outside of the chat it is owed nothing.
LEMMA OwedType ==
    ASSUME RouteType, NEW c \in Clients, Inv(c)
    PROVE  /\ Owed(c) \in Seq(Reply)
           /\ ~InChat(c) => Owed(c) = <<>>
<1>1. Plain(down[c]) \in Seq(Reply) /\ srv[c].rn \in Seq(Reply)
  BY TypeOf DEF Inv, Streaming
<1>2. Plain(down[c]) \o srv[c].rn \in Seq(Reply)
  BY <1>1
<1>3. <<>> \in Seq(Reply)
  OBVIOUS
<1>4. QED
  BY <1>2, <1>3 DEF Owed

\* log.Fatalf breaks the conversation, and nothing more is heard.
LEMMA FatalBreaks ==
    ASSUME RouteType, NEW c \in Clients, Inv(c), Fatal(c)
    PROVE  Board!Break(c)
<1>1. /\ \A d \in Clients \ {c} : Untouched(d)
  BY FatalStep
<1>2. at'[c] = "fatal" /\ got' = got /\ routeNotes' = routeNotes
  BY DEF Fatal, server, RouteType
<1>3. Broke(c)' /\ Owed(c)' = <<>>
  BY <1>2 DEF Broke, Owed, InChat
<1>4. Owed(c) \in Seq(Reply)
  BY OwedType
<1>5. 0 \in 0..Len(Owed(c)) /\ SubSeq(Owed(c), 1, 0) = <<>>
  BY <1>4
<1>6. QED
  BY <1>1, <1>2, <1>3, <1>5, BreakStep

\* Each step of a client or of its handler is a step of the note board, or none.
LEMMA BoardStep ==
    ASSUME RouteType, NEW c \in Clients, Inv(c), Client(c) \/ Cut(c) \/ Handler(c)
    PROVE  Board!Next \/ UNCHANGED Board!vars
<1>1. \A d \in Clients \ {c} : Untouched(d)
  BY OneStep
<1>2. ASSUME Board!Break(c) \/ Board!Hear(c) PROVE Board!Next
  BY <1>2 DEF Board!Next
<1>3. CASE Fatal(c)
  BY <1>2, <1>3, FatalBreaks
<1>4. CASE PrintFeature(c) /\ ~Fatal(c)
  <2>1. at[c] = "GetFeature" /\ srv' = srv /\ routeNotes' = routeNotes
        /\ got' = [got EXCEPT ![c].GetFeature = Append(@, GetFeature(Head(todo[c])))]
        /\ at' = [at EXCEPT ![c] = IF Len(todo[c]) = 1 THEN Following(@) ELSE @]
    BY <1>4, Zenon DEF PrintFeature, server
  <2>2. at'[c] \in {"GetFeature", "ListFeatures"}
    BY <2>1, CallFacts DEF RouteType
  <2>3. got'[c].RouteChat = got[c].RouteChat
    BY <2>1, CallFacts DEF RouteType
  <2>4. Unseen(c)
    BY <2>1, <2>2, <2>3 DEF Unseen, Broke, Owed, InChat
  <2>5. QED
    BY <1>1, <2>1, <2>4, StutterStep
<1>5. CASE NewStream(c) /\ ~Fatal(c)
  <2>1. /\ at[c] \in Methods /\ ~opened[c] /\ at' = at /\ got' = got /\ routeNotes' = routeNotes
        /\ down' = [down EXCEPT ![c] = <<>>]
        /\ srv' = [srv EXCEPT ![c] = Serving(at[c], <<>>, FALSE)]
    BY <1>5, Zenon DEF NewStream, Methods
  <2>2. srv'[c].method = at[c] /\ srv'[c].rn = <<>> /\ down'[c] = <<>>
    BY <2>1 DEF RouteType, Serving
  <2>3. srv[c].method = "none" /\ at[c] # "failed"
    BY <2>1 DEF Inv, Streaming, Methods
  <2>4. Plain(down'[c]) \o srv'[c].rn = <<>>
    BY <2>2 DEF Plain, Ended
  <2>5. Owed(c) = <<>> /\ Owed(c)' = <<>>
    BY <2>1, <2>4 DEF Owed, InChat
  <2>6. Unseen(c)
    BY <2>1, <2>2, <2>3, <2>5 DEF Unseen, Broke
  <2>7. QED
    BY <1>1, <2>1, <2>6, StutterStep
<1>6. CASE Send(c) \/ CloseSend(c) \/ Cut(c)
  <2>1. at' = at /\ opened' = opened /\ got' = got /\ down' = down /\ srv' = srv
        /\ routeNotes' = routeNotes
    BY <1>6 DEF Send, CloseSend, Cut, client, server
  <2>2. Unseen(c)
    BY <2>1 DEF Unseen, Broke, Owed, InChat
  <2>3. QED
    BY <1>1, <2>1, <2>2, StutterStep
<1>7. CASE Recv(c)
  <2>1. /\ Running(c) /\ down[c] # <<>> /\ Head(down[c]) # End
        /\ got' = [got EXCEPT ![c][at[c]] = Append(@, Head(down[c]))]
        /\ down' = [down EXCEPT ![c] = Tail(@)]
        /\ at' = at /\ opened' = opened /\ srv' = srv /\ routeNotes' = routeNotes
    BY <1>7 DEF Recv, server
  <2>2. /\ at[c] \in ToSet(Calls) /\ got[c] \in [ToSet(Calls) -> Seq(Reply)]
        /\ down[c] \in Seq(Reply \cup {End}) /\ srv[c].rn \in Seq(Reply) /\ opened[c]
        /\ Plain(down[c]) \in Seq(Reply)
    BY <2>1, RunningFacts, CallFacts, TypeOf DEF Methods
  <2>3. got'[c] = [got[c] EXCEPT ![at[c]] = Append(@, Head(down[c]))] /\ down'[c] = Tail(down[c])
    BY <2>1 DEF RouteType
  <2>4. CASE at[c] = "RouteChat"
    <3>1. /\ Plain(down[c]) # <<>> /\ Head(down[c]) = Head(Plain(down[c]))
          /\ Plain(down'[c]) = Tail(Plain(down[c]))
      BY <2>1, <2>2, <2>3, PlainTail, SendFacts
    <3>2. /\ Owed(c) = Plain(down[c]) \o srv[c].rn
          /\ Owed(c)' = Tail(Plain(down[c])) \o srv[c].rn
      BY <2>1, <2>2, <2>4, <3>1 DEF Owed, InChat
    <3>3. \A a, b \in Seq(Reply) : a # <<>> =>
             Tail(a \o b) = Tail(a) \o b /\ Head(a \o b) = Head(a) /\ a \o b # <<>>
      BY Rows
    <3>4. Owed(c) # <<>> /\ Owed(c)' = Tail(Owed(c)) /\ Head(Owed(c)) = Head(down[c])
      BY <2>2, <3>1, <3>2, <3>3
    <3>5. got'[c].RouteChat = Append(got[c].RouteChat, Head(Owed(c)))
      BY <2>2, <2>3, <2>4, <3>4
    <3>6. Broke(c)' <=> Broke(c)
      BY <2>1 DEF Broke
    <3>7. Board!Hear(c)
      BY <1>1, <2>1, <3>4, <3>5, <3>6, HearStep
    <3>8. QED
      BY <1>2, <3>7
  <2>5. CASE at[c] # "RouteChat"
    <3>1. got'[c].RouteChat = got[c].RouteChat
      BY <2>2, <2>3, <2>5, CallFacts
    <3>2. Unseen(c)
      BY <2>1, <2>5, <3>1 DEF Unseen, Broke, Owed, InChat
    <3>3. QED
      BY <1>1, <2>1, <3>2, StutterStep
  <2>6. QED
    BY <2>4, <2>5
<1>8. CASE RecvEOF(c)
  <2>1. /\ Running(c) /\ down[c] # <<>> /\ Head(down[c]) = End
        /\ at' = [at EXCEPT ![c] = Following(at[c])]
        /\ opened' = [opened EXCEPT ![c] = FALSE]
        /\ got' = got /\ srv' = srv /\ routeNotes' = routeNotes
    BY <1>8 DEF RecvEOF, server
  <2>2. at[c] \in Methods /\ at[c] # "fatal" /\ at'[c] = Following(at[c]) /\ ~opened'[c]
    BY <2>1, RunningFacts DEF RouteType
  <2>3. at'[c] # "fatal"
    BY <2>2, CallFacts DEF Methods
  <2>4. Plain(down[c]) = <<>> /\ srv[c].rn = <<>>
    <3>1. Plain(down[c]) \in Seq(Reply) /\ down[c] \in Seq(Reply \cup {End})
          /\ (srv[c].method # "none" => down[c] \in Seq(Reply))
      BY <2>1, RunningFacts, TypeOf
    <3>2. Plain(down[c]) = <<>>
      BY <2>1, <3>1, PlainTail, SendFacts
    <3>3. down[c] \notin Seq(Reply)
      BY <2>1, SendFacts, TailFacts
    <3>4. QED
      BY <3>1, <3>2, <3>3 DEF Inv, Streaming, Methods
  <2>5. Owed(c) = <<>> /\ Owed(c)' = <<>>
    <3>1. <<>> \o <<>> = <<>>
      OBVIOUS
    <3>2. QED
      BY <2>2, <2>4, <3>1 DEF Owed, InChat
  <2>6. Unseen(c)
    BY <2>1, <2>2, <2>3, <2>5 DEF Unseen, Broke
  <2>7. QED
    BY <1>1, <2>1, <2>6, StutterStep
<1>9. CASE ListFeatures(c) \/ RecordRoute(c)
  <2>1. PICK m \in Methods : Reading(c, m) /\ m # "RouteChat" /\ srv'[c].method = m
    <3>1. CASE ListFeatures(c)
      <4>1. Reading(c, "ListFeatures")
        BY <3>1 DEF ListFeatures
      <4>2. srv'[c].method = "ListFeatures"
        BY <3>1 DEF ListFeatures, Serving, RouteType
      <4>3. QED
        BY <4>1, <4>2 DEF Methods
    <3>2. CASE RecordRoute(c)
      <4>1. Reading(c, "RecordRoute") /\ "RecordRoute" \in Methods
        BY <3>2 DEF RecordRoute, Methods
      <4>2. srv[c].method = "RecordRoute"
        BY <4>1, ReadingFacts
      <4>3. srv'[c].method = "RecordRoute"
        BY <3>2, <4>2 DEF RecordRoute, Serving, RouteType
      <4>4. QED
        BY <4>1, <4>3
    <3>3. QED
      BY <1>9, <3>1, <3>2
  <2>2. routeNotes' = routeNotes
    BY <1>9 DEF ListFeatures, RecordRoute
  <2>3. at' = at /\ opened' = opened /\ got' = got /\ srv[c].method = m /\ at[c] \in {m, "fatal"}
    BY <2>1, ReadingFacts
  <2>4. Unseen(c)
    BY <2>1, <2>3 DEF Unseen, Broke, Owed, InChat
  <2>5. QED
    BY <1>1, <2>2, <2>4, StutterStep
<1>10. CASE RouteChat(c)
  <2>1. /\ at' = at /\ opened' = opened /\ got' = got /\ down' = down /\ srv[c].rn = <<>>
        /\ srv[c].method = "RouteChat" /\ opened[c] /\ at[c] \in {"RouteChat", "fatal"}
        /\ srv'[c].method = "RouteChat"
    BY <1>10, ChatFacts, ReadingFacts
  <2>2. Broke(c)' <=> Broke(c)
    BY <2>1 DEF Broke
  <2>3. CASE Head(up[c]) = End
    <3>1. routeNotes' = routeNotes /\ srv'[c].rn = <<>>
      BY <1>10, <2>3, ChatFacts
    <3>2. Unseen(c)
      BY <2>1, <2>2, <3>1 DEF Unseen, Owed, InChat
    <3>3. QED
      BY <1>1, <3>1, <3>2, StutterStep
  <2>4. CASE Head(up[c]) # End
    <3> DEFINE n == Head(up[c])
               key == serialize(n.location)
    <3>1. /\ n \in ChatNotes /\ routeNotes' = [routeNotes EXCEPT ![key] = Append(routeNotes[key], n)]
          /\ key \in {serialize(p) : p \in Points} /\ srv'[c].rn = routeNotes'[key]
      BY <1>10, <2>4, ChatFacts
    <3>2. routeNotes \in [{serialize(p) : p \in Points} -> Seq(ChatNotes)]
      BY DEF RouteType
    <3> HIDE DEF n
    <3>3. srv'[c].rn = Append(routeNotes[key], n)
      BY <3>1, <3>2
    <3>4. Broke(c) => Owed(c)' = Owed(c)
      BY <2>1 DEF Broke, Owed, InChat
    <3>5. ~Broke(c) => Owed(c)' = Owed(c) \o Append(routeNotes[key], n)
      <4>1. Plain(down[c]) \in Seq(Reply)
        BY DEF Inv, Streaming
      <4>2. Plain(down[c]) \o <<>> = Plain(down[c])
        BY <4>1
      <4>3. QED
        BY <2>1, <3>3, <4>2 DEF Broke, Owed, InChat
    <3>6. Board!Post(c, n)
      BY <1>1, <2>1, <2>2, <3>1, <3>4, <3>5, PostStep
    <3>7. QED
      BY <3>1, <3>6 DEF Board!Next
  <2>5. QED
    BY <2>3, <2>4
<1>11. CASE StreamSend(c) \/ HandlerReturn(c)
  <2>1. /\ Plain(down'[c]) \o srv'[c].rn = Plain(down[c]) \o srv[c].rn
        /\ srv[c].method \in Methods /\ srv'[c].method \in Methods \cup {"none"}
    BY <1>11, StreamSendStep, HandlerReturnStep
  <2>2. at' = at /\ opened' = opened /\ got' = got /\ routeNotes' = routeNotes
    BY <1>11 DEF StreamSend, HandlerReturn, client
  <2>3. Unseen(c)
    BY <2>1, <2>2 DEF Unseen, Broke, Owed, InChat, Methods
  <2>4. QED
    BY <1>1, <2>2, <2>3, StutterStep
<1>12. CASE HandlerError(c)
  <2>1. /\ at' = at /\ opened' = opened /\ got' = got /\ down' = down /\ routeNotes' = routeNotes
        /\ srv' = [srv EXCEPT ![c] = Serving("failed", <<>>, FALSE)]
    BY <1>12 DEF HandlerError, client, net
  <2>2. srv'[c].method = "failed" /\ srv'[c].rn = <<>>
    BY <2>1 DEF RouteType, Serving
  <2>3. Broke(c)'
    BY <2>2 DEF Broke
  <2>4. CASE InChat(c)
    <3> DEFINE a == Plain(down[c])
               b == srv[c].rn
    <3>1. a \in Seq(Reply) /\ b \in Seq(Reply)
      BY TypeOf DEF Inv, Streaming
    <3>2. Owed(c) = a \o b /\ Owed(c)' = a \o <<>>
      BY <2>1, <2>2, <2>4 DEF Owed, InChat
    <3> HIDE DEF a, b
    <3>3. Len(a) \in 0..Len(a \o b) /\ a \o <<>> = SubSeq(a \o b, 1, Len(a))
      BY <3>1
    <3>4. Board!Break(c)
      BY <1>1, <2>1, <2>3, <3>2, <3>3, BreakStep
    <3>5. QED
      BY <1>2, <3>4
  <2>5. CASE ~InChat(c)
    <3>1. Owed(c) = <<>> /\ Owed(c)' = <<>>
      BY <2>1, <2>5 DEF Owed, InChat
    <3>2. 0 \in 0..Len(Owed(c)) /\ SubSeq(Owed(c), 1, 0) = <<>>
      BY <3>1
    <3>3. Board!Break(c)
      BY <1>1, <2>1, <2>3, <3>1, <3>2, BreakStep
    <3>4. QED
      BY <1>2, <3>3
  <2>6. QED
    BY <2>4, <2>5
<1>13. StreamError(c) => Fatal(c)
  BY DEF StreamError
<1>14. QED
  BY <1>3, <1>4, <1>5, <1>6, <1>7, <1>8, <1>9, <1>10, <1>11, <1>12, <1>13 DEF Client, Handler

\* RouteChat of server.go implements the note board, for any script, window and
\* number of clients: for each note it sends a conversation hears every note of
\* exactly that place up to and with its own, in the one order all conversations
\* see, although the handlers send the copies outside of the lock.
THEOREM NoteBoardImplemented == Spec => ImplementsNoteBoard
<1>1. Init => Board!Init
  <2> SUFFICES ASSUME Init PROVE Board!Init
    OBVIOUS
  <2>1. [p \in Points |-> routeNotes[serialize(p)]] = [p \in Points |-> <<>>]
    BY DEF Init, NewServer
  <2>2. [c \in Clients |-> Owed(c)] = [c \in Clients |-> <<>>]
    BY CallFacts DEF Init, Owed, InChat
  <2>3. [c \in Clients |-> got[c].RouteChat] = [c \in Clients |-> <<>>]
    BY CallFacts DEF Init
  <2>4. {c \in Clients : at[c] = "fatal" \/ srv[c].method = "failed"} = {}
    BY CallFacts DEF Init, Idle, Serving
  <2>5. QED
    BY <2>1, <2>2, <2>3, <2>4 DEF Board!Init
<1>2. RouteInv /\ [Next]_vars => [Board!Next]_(Board!vars)
  <2> SUFFICES ASSUME RouteInv, [Next]_vars PROVE Board!Next \/ UNCHANGED Board!vars
    OBVIOUS
  <2>1. RouteType /\ \A c \in Clients : Inv(c)
    BY ClientByClient
  <2>2. ASSUME NEW c \in Clients, Client(c) \/ Cut(c) \/ Handler(c)
        PROVE  Board!Next \/ UNCHANGED Board!vars
    BY <2>1, <2>2, BoardStep
  <2>3. CASE UNCHANGED vars
    BY <2>3 DEF vars, client, net, server, Board!vars, Owed, InChat
  <2>4. QED
    BY <2>2, <2>3 DEF Next, Rest
<1>3. QED
  BY <1>1, <1>2, RouteInvariant, PTL DEF Spec, ImplementsNoteBoard, Board!Spec
=============================================================================
