-------------------------- MODULE SquadArenaProofs --------------------------
(***************************************************************************)
(* What the arena of a squad keeps for every set of users and sockets,     *)
(* however many rooms are opened.                                          *)
(*                                                                         *)
(* One step of the program often runs matchEnd and tryStartMatch several   *)
(* times, so the lemmas are about worlds: Good(w, D) says that the world w *)
(* is a queue-and-throne of the entries D, and each lemma XIs says what    *)
(* the operator X makes of a good world.  Three things not in the runs'    *)
(* invariants are needed to carry them on:                                 *)
(*   - no entry is twice in the arena (Distinct), without which taking one *)
(*     out would leave another behind;                                     *)
(*   - no user has two entries in it (Apart), which is why one             *)
(*     disconnection cuts one entry at most, and why splicing by user id   *)
(*     and filtering by socket id agree;                                   *)
(*   - an entry was made for the owner of its socket (Owned), which ties   *)
(*     what a disconnection looks for to what a join has looked for.       *)
(* Every step is then one of two kinds: Orderly, after which nobody has    *)
(* overtaken anybody and the line of KingOfTheHill has moved by one of its *)
(* steps at most, or Restart.                                              *)
(***************************************************************************)
EXTENDS SquadArena, TLAPS, FiniteSetTheorems, SequenceTheorems

----------------------------------------------------------------------------
(* The elements of a queue and their order.                                *)

Rng(q) == {q[k] : k \in DOMAIN q}

Once(q) == \A j, k \in DOMAIN q : q[j] = q[k] => j = k

\* The queue without its k-th element, as handlePlayerDisconnect splices it.
Cut(q, k) == SubSeq(q, 1, k - 1) \o SubSeq(q, k + 1, Len(q))

LEMMA SmallNat ==
    ASSUME NEW n \in Nat, n <= 1
    PROVE  n = 0 \/ n = 1
OBVIOUS

LEMMA SeqFacts ==
    ASSUME NEW S, NEW q \in Seq(S)
    PROVE  /\ DOMAIN q = 1..Len(q) /\ Len(q) \in Nat
           /\ \A k \in DOMAIN q : q[k] \in S
           /\ Rng(q) \subseteq S
BY DEF Rng

LEMMA OnceOrder ==
    ASSUME NEW S, NEW q \in Seq(S), Once(q), NEW e, NEW f, Before(q, e, f)
    PROVE  ~Before(q, f, e)
BY SeqFacts DEF Once, Before

LEMMA AppendFacts ==
    ASSUME NEW S, NEW q \in Seq(S), NEW x \in S
    PROVE  LET r == Append(q, x) IN
           /\ r \in Seq(S) /\ Len(r) = Len(q) + 1
           /\ \A k \in DOMAIN q : k \in DOMAIN r /\ r[k] = q[k]
           /\ r[Len(q) + 1] = x
           /\ Rng(r) = Rng(q) \cup {x}
           /\ Once(q) /\ x \notin Rng(q) => Once(r)
           /\ \A e \in Rng(q) : \A f : x \notin Rng(q) /\ Before(r, f, e) => Before(q, f, e)
<1> DEFINE r == Append(q, x)
<1>1. r \in Seq(S) /\ Len(r) = Len(q) + 1 /\ DOMAIN r = 1..(Len(q) + 1) /\ DOMAIN q = 1..Len(q)
      /\ Len(q) \in Nat
  BY SeqFacts
<1>2. \A k \in DOMAIN q : k \in DOMAIN r /\ r[k] = q[k]
  BY <1>1
<1>3. r[Len(q) + 1] = x
  BY <1>1
<1> HIDE DEF r
<1>4. \A k \in DOMAIN r : k \in DOMAIN q \/ k = Len(q) + 1
  BY <1>1
<1>5. Len(q) + 1 \in DOMAIN r /\ \A k \in DOMAIN q : k < Len(q) + 1
  BY <1>1
<1>6. Rng(r) = Rng(q) \cup {x}
  <2>1. Rng(r) \subseteq Rng(q) \cup {x}
    BY <1>2, <1>3, <1>4 DEF Rng
  <2>2. Rng(q) \cup {x} \subseteq Rng(r)
    BY <1>2, <1>3, <1>5 DEF Rng
  <2> QED
    BY <2>1, <2>2
<1>7. Once(q) /\ x \notin Rng(q) => Once(r)
  BY <1>2, <1>3, <1>4 DEF Rng, Once
<1>8. ASSUME NEW e \in Rng(q), NEW f, x \notin Rng(q), Before(r, f, e)
      PROVE  Before(q, f, e)
  <2>1. PICK j \in DOMAIN r, k \in DOMAIN r : j < k /\ r[j] = f /\ r[k] = e
    BY <1>8 DEF Before
  <2>2. k \in DOMAIN q
    BY <1>3, <1>4, <1>8, <2>1
  <2>3. j \in DOMAIN q
    BY <1>1, <2>1, <2>2
  <2> QED
    BY <1>2, <2>1, <2>2, <2>3 DEF Before
<1> QED
  BY <1>1, <1>2, <1>3, <1>6, <1>7, <1>8 DEF r

LEMMA TailFacts ==
    ASSUME NEW S, NEW q \in Seq(S), Len(q) >= 1
    PROVE  LET r == Tail(q) IN
           /\ q[1] \in S /\ r \in Seq(S) /\ Len(r) = Len(q) - 1
           /\ \A k \in DOMAIN r : k + 1 \in DOMAIN q /\ r[k] = q[k + 1]
           /\ Rng(q) = Rng(r) \cup {q[1]}
           /\ Once(q) => Once(r) /\ q[1] \notin Rng(r)
           /\ \A e, f : Before(r, f, e) => Before(q, f, e)
           /\ \A e \in Rng(r) : Before(q, q[1], e)
<1> DEFINE r == Tail(q)
<1>1. /\ q # <<>> /\ r \in Seq(S) /\ Len(r) = Len(q) - 1 /\ Len(q) \in Nat
      /\ DOMAIN r = 1..(Len(q) - 1) /\ DOMAIN q = 1..Len(q)
  BY SeqFacts
<1>2. \A k \in DOMAIN r : k + 1 \in DOMAIN q /\ r[k] = q[k + 1]
  BY <1>1
<1>3. 1 \in DOMAIN q /\ q[1] \in S
  BY <1>1
<1> HIDE DEF r
<1>4. \A k \in DOMAIN q : k = 1 \/ (k - 1 \in DOMAIN r /\ r[k - 1] = q[k])
  <2> SUFFICES ASSUME NEW k \in DOMAIN q, k # 1
               PROVE  k - 1 \in DOMAIN r /\ r[k - 1] = q[k]
    OBVIOUS
  <2>1. k - 1 \in DOMAIN r /\ (k - 1) + 1 = k
    BY <1>1
  <2> QED
    BY <1>2, <2>1
<1>5. Rng(q) = Rng(r) \cup {q[1]}
  <2>1. Rng(q) \subseteq Rng(r) \cup {q[1]}
    BY <1>4 DEF Rng
  <2>2. Rng(r) \cup {q[1]} \subseteq Rng(q)
    BY <1>2, <1>3 DEF Rng
  <2> QED
    BY <2>1, <2>2
<1>6. Once(q) => Once(r) /\ q[1] \notin Rng(r)
  <2> SUFFICES ASSUME Once(q)
               PROVE  Once(r) /\ q[1] \notin Rng(r)
    OBVIOUS
  <2>1. Once(r)
    <3> SUFFICES ASSUME NEW j \in DOMAIN r, NEW k \in DOMAIN r, r[j] = r[k]
                 PROVE  j = k
      BY DEF Once
    <3>1. j + 1 = k + 1
      BY <1>2 DEF Once
    <3> QED
      BY <1>1, <3>1
  <2>2. ASSUME NEW k \in DOMAIN r, r[k] = q[1]
        PROVE  FALSE
    <3>1. k + 1 = 1
      BY <1>2, <1>3, <2>2 DEF Once
    <3> QED
      BY <1>1, <3>1
  <2> QED
    BY <2>1, <2>2 DEF Rng
<1>7. ASSUME NEW e, NEW f, Before(r, f, e)
      PROVE  Before(q, f, e)
  <2>1. PICK j \in DOMAIN r, k \in DOMAIN r : j < k /\ r[j] = f /\ r[k] = e
    BY <1>7 DEF Before
  <2>2. j + 1 < k + 1
    BY <1>1, <2>1
  <2> QED
    BY <1>2, <2>1, <2>2 DEF Before
<1>8. ASSUME NEW e \in Rng(r)
      PROVE  Before(q, q[1], e)
  <2>1. PICK k \in DOMAIN r : r[k] = e
    BY <1>8 DEF Rng
  <2>2. 1 < k + 1
    BY <1>1
  <2> QED
    BY <1>2, <1>3, <2>1, <2>2 DEF Before
<1> QED
  BY <1>1, <1>2, <1>3, <1>5, <1>6, <1>7, <1>8 DEF r

\* A sequence obtained from another by leaving out its k-th element.
LEMMA CutFacts ==
    ASSUME NEW S, NEW q \in Seq(S), NEW k \in DOMAIN q
    PROVE  LET r == Cut(q, k) IN
           /\ r \in Seq(S) /\ Len(r) = Len(q) - 1
           /\ \A i \in DOMAIN r : r[i] = IF i < k THEN q[i] ELSE q[i + 1]
           /\ Once(q) => Once(r) /\ Rng(r) = Rng(q) \ {q[k]}
           /\ \A e, f : Before(r, f, e) => Before(q, f, e)
<1> DEFINE a == SubSeq(q, 1, k - 1)
           b == SubSeq(q, k + 1, Len(q))
           r == a \o b
<1>1. Len(q) \in Nat /\ DOMAIN q = 1..Len(q) /\ k \in 1..Len(q)
  BY SeqFacts
<1>2. a \in Seq(S) /\ Len(a) = k - 1 /\ \A i \in 1..(k - 1) : a[i] = q[i]
  BY <1>1
<1>3. b \in Seq(S) /\ Len(b) = Len(q) - k /\ \A i \in 1..(Len(q) - k) : b[i] = q[i + k]
  BY <1>1
<1> HIDE DEF a, b
<1>4. r \in Seq(S) /\ Len(r) = Len(q) - 1 /\ DOMAIN r = 1..(Len(q) - 1)
  <2>1. r \in Seq(S) /\ Len(r) = Len(a) + Len(b)
    BY <1>2, <1>3, ConcatProperties
  <2>2. Len(a) + Len(b) = Len(q) - 1
    BY <1>1, <1>2, <1>3
  <2> QED
    BY <2>1, <2>2, SeqFacts
<1>5. \A i \in DOMAIN r : r[i] = IF i < k THEN q[i] ELSE q[i + 1]
  <2> SUFFICES ASSUME NEW i \in 1..(Len(q) - 1)
               PROVE  r[i] = IF i < k THEN q[i] ELSE q[i + 1]
    BY <1>4
  <2>0. r[i] = IF i <= Len(a) THEN a[i] ELSE b[i - Len(a)]
    BY <1>1, <1>2, <1>3, ConcatProperties
  <2>1. CASE i < k
    <3>1. i \in 1..(k - 1) /\ i <= k - 1
      BY <1>1, <2>1
    <3> QED
      BY <1>2, <2>0, <2>1, <3>1
  <2>2. CASE ~(i < k)
    <3>1. i - (k - 1) \in 1..(Len(q) - k) /\ (i - (k - 1)) + k = i + 1 /\ ~(i <= k - 1)
      BY <1>1, <2>2
    <3> QED
      BY <1>2, <1>3, <2>0, <2>2, <3>1
  <2> QED
    BY <2>1, <2>2
<1> HIDE DEF r
<1>6. \A i \in DOMAIN r : LET n == IF i < k THEN i ELSE i + 1
                          IN  n \in DOMAIN q \ {k} /\ r[i] = q[n]
  BY <1>1, <1>4, <1>5
<1>7. \A n \in DOMAIN q \ {k} : LET i == IF n < k THEN n ELSE n - 1
                                IN  i \in DOMAIN r /\ r[i] = q[n]
  <2> SUFFICES ASSUME NEW n \in DOMAIN q \ {k}
               PROVE  LET i == IF n < k THEN n ELSE n - 1
                      IN  i \in DOMAIN r /\ r[i] = q[n]
    OBVIOUS
  <2>1. CASE n < k
    BY <1>1, <1>4, <1>5, <2>1
  <2>2. CASE ~(n < k)
    <3>1. n - 1 \in DOMAIN r /\ ~(n - 1 < k) /\ (n - 1) + 1 = n
      BY <1>1, <1>4, <2>2
    <3> QED
      BY <1>5, <2>2, <3>1
  <2> QED
    BY <2>1, <2>2
<1>8. ASSUME Once(q)
      PROVE  Once(r) /\ Rng(r) = Rng(q) \ {q[k]}
  <2>1. Once(r)
    <3> SUFFICES ASSUME NEW i \in DOMAIN r, NEW j \in DOMAIN r, r[i] = r[j]
                 PROVE  i = j
      BY DEF Once
    <3>1. (IF i < k THEN i ELSE i + 1) = (IF j < k THEN j ELSE j + 1)
      BY <1>6, <1>8 DEF Once
    <3> QED
      BY <1>1, <1>4, <3>1
  <2>2. Rng(r) \subseteq Rng(q) \ {q[k]}
    BY <1>6, <1>8 DEF Rng, Once
  <2>3. Rng(q) \ {q[k]} \subseteq Rng(r)
    BY <1>7 DEF Rng
  <2> QED
    BY <2>1, <2>2, <2>3
<1>9. ASSUME NEW e, NEW f, Before(r, f, e)
      PROVE  Before(q, f, e)
  <2>1. PICK i \in DOMAIN r, j \in DOMAIN r : i < j /\ r[i] = f /\ r[j] = e
    BY <1>9 DEF Before
  <2>2. (IF i < k THEN i ELSE i + 1) < (IF j < k THEN j ELSE j + 1)
    BY <1>1, <1>4, <2>1
  <2> QED
    BY <1>6, <2>1, <2>2 DEF Before
<1> QED
  BY <1>4, <1>5, <1>8, <1>9 DEF r, a, b, Cut

LEMMA UpTo ==
    ASSUME NEW n \in Nat
    PROVE  /\ IsFiniteSet(1..n) /\ Cardinality(1..n) = n
           /\ \A x \in 1..n : Cardinality((1..n) \ {x}) = n - 1
           /\ \A x : x \notin 1..n => Cardinality((1..n) \ {x}) = n
<1>1. IsFiniteSet(1..n) /\ Cardinality(1..n) = n
  <2>1. Cardinality(1..n) = IF 1 > n THEN 0 ELSE n - 1 + 1
    BY FS_Interval
  <2> QED
    BY <2>1, FS_Interval
<1> QED
  BY <1>1, FS_RemoveElement

\* The user who leaves has no entry in the queue.
LEMMA WithoutNobody ==
    ASSUME NEW S, NEW q \in Seq(S), NEW u, \A k \in DOMAIN q : UserAt(q[k]) # u
    PROVE  Without(q, u) = q
<1> DEFINE kept == {k \in DOMAIN q : UserAt(q[k]) # u}
           at(n) == CHOOSE k \in kept : Cardinality(kept \cap 1..k) = n
<1>1. Len(q) \in Nat /\ DOMAIN q = 1..Len(q) /\ kept = 1..Len(q)
  BY SeqFacts
<1> HIDE DEF kept
<1>2. Cardinality(kept) = Len(q)
  BY <1>1, UpTo
<1>3. ASSUME NEW k \in kept
      PROVE  Cardinality(kept \cap 1..k) = k
  <2>1. kept \cap 1..k = 1..k /\ k \in Nat
    BY <1>1
  <2> QED
    BY <2>1, UpTo
<1>4. \A n \in 1..Len(q) : at(n) = n
  BY <1>1, <1>3
<1>5. Without(q, u) = [n \in 1..Len(q) |-> q[at(n)]]
  BY <1>2 DEF Without, kept
<1> HIDE DEF at
<1>6. [n \in 1..Len(q) |-> q[at(n)]] = [n \in 1..Len(q) |-> q[n]]
  BY <1>4
<1>7. q = [n \in 1..Len(q) |-> q[n]]
  BY <1>1
<1> QED
  BY <1>5, <1>6, <1>7

\* Leaving takes at most one entry out, and the others stay in their order.
LEMMA WithoutOne ==
    ASSUME NEW S, NEW q \in Seq(S), NEW x \in DOMAIN q,
           \A k \in DOMAIN q : UserAt(q[k]) = UserAt(q[x]) => k = x
    PROVE  Without(q, UserAt(q[x])) = Cut(q, x)
<1> DEFINE kept == {k \in DOMAIN q : UserAt(q[k]) # UserAt(q[x])}
           at(n) == CHOOSE k \in kept : Cardinality(kept \cap 1..k) = n
           to(n) == IF n < x THEN n ELSE n + 1
<1>1. Len(q) \in Nat /\ DOMAIN q = 1..Len(q) /\ kept = (1..Len(q)) \ {x} /\ x \in 1..Len(q)
  BY SeqFacts
<1> HIDE DEF kept
<1>2. Cardinality(kept) = Len(q) - 1
  BY <1>1, UpTo
<1>3. ASSUME NEW k \in kept
      PROVE  Cardinality(kept \cap 1..k) = IF k < x THEN k ELSE k - 1
  <2>1. kept \cap 1..k = (1..k) \ {x} /\ k \in Nat /\ (x \in 1..k <=> ~(k < x))
    BY <1>1
  <2> QED
    BY <2>1, UpTo
<1>4. ASSUME NEW n \in 1..(Len(q) - 1)
      PROVE  at(n) = to(n)
  <2>1. to(n) \in kept /\ (IF to(n) < x THEN to(n) ELSE to(n) - 1) = n
    BY <1>1
  <2>2. \A k \in kept : (IF k < x THEN k ELSE k - 1) = n => k = to(n)
    BY <1>1
  <2> HIDE DEF to
  <2> QED
    BY <1>3, <2>1, <2>2
<1>5. Without(q, UserAt(q[x])) = [n \in 1..(Len(q) - 1) |-> q[at(n)]]
  BY <1>2 DEF Without, kept
<1> HIDE DEF at
<1>6. [n \in 1..(Len(q) - 1) |-> q[at(n)]] = [n \in 1..(Len(q) - 1) |-> q[to(n)]]
  BY <1>4
<1>7. /\ Cut(q, x) \in Seq(S) /\ Len(Cut(q, x)) = Len(q) - 1
      /\ \A n \in DOMAIN Cut(q, x) : Cut(q, x)[n] = q[to(n)]
  BY CutFacts
<1> HIDE DEF to
<1>8. DOMAIN Cut(q, x) = 1..(Len(q) - 1)
  BY <1>7, SeqFacts
<1>9. Cut(q, x) = [n \in 1..(Len(q) - 1) |-> Cut(q, x)[n]]
  BY <1>7, <1>8
<1> QED
  BY <1>5, <1>6, <1>7, <1>8, <1>9

----------------------------------------------------------------------------
(* The line: two who play before those who wait, and the users of it.      *)

LEMMA SubIs ==
    ASSUME NEW S, NEW q \in Seq(S), NEW m \in Nat \ {0}, NEW n \in 0..Len(q), m <= n + 1
    PROVE  LET r == SubSeq(q, m, n) IN
           /\ r \in Seq(S) /\ Len(r) = n + 1 - m
           /\ \A i \in 1..(n + 1 - m) : r[i] = q[i + m - 1]
OBVIOUS

\* z is a, of length m, followed by b, of length n.
Joins(z, a, m, b, n) ==
    Len(z) = m + n /\ \A i \in 1..(m + n) : z[i] = IF i <= m THEN a[i] ELSE b[i - m]

LEMMA ConcatIs ==
    ASSUME NEW S, NEW a \in Seq(S), NEW b \in Seq(S)
    PROVE  a \o b \in Seq(S) /\ Joins(a \o b, a, Len(a), b, Len(b))
<1>1. a \o b \in Seq(S) /\ Len(a \o b) = Len(a) + Len(b)
  BY ConcatProperties
<1>2. ASSUME NEW i \in 1..(Len(a) + Len(b))
      PROVE  (a \o b)[i] = IF i <= Len(a) THEN a[i] ELSE b[i - Len(a)]
  BY ConcatProperties
<1> QED
  BY <1>1, <1>2 DEF Joins

\* What is cut out of a line that two go before.
LEMMA Behind ==
    ASSUME NEW S, NEW t \in Seq(S), Len(t) = 2, NEW q \in Seq(S), NEW k \in 1..(Len(q) + 1)
    PROVE  /\ SubSeq(t \o q, 1, k + 1) = t \o SubSeq(q, 1, k - 1)
           /\ SubSeq(t \o q, k + 2, Len(t \o q)) = SubSeq(q, k, Len(q))
<1> DEFINE x == t \o q
           a == SubSeq(q, 1, k - 1)
           b == SubSeq(q, k, Len(q))
           c == SubSeq(x, 1, k + 1)
           d == SubSeq(x, k + 2, Len(x))
           e == t \o a
<1>1. Len(q) \in Nat
  BY SeqFacts
<1>2. /\ x \in Seq(S) /\ Len(x) = Len(q) + 2
      /\ \A i \in 1..(Len(q) + 2) : x[i] = IF i <= 2 THEN t[i] ELSE q[i - 2]
  <2>1. x \in Seq(S) /\ Joins(x, t, 2, q, Len(q))
    BY ConcatIs
  <2> HIDE DEF x
  <2> QED
    BY <1>1, <2>1 DEF Joins
<1>3. a \in Seq(S) /\ Len(a) = k - 1 /\ \A i \in 1..(k - 1) : a[i] = q[i]
  BY <1>1
<1>4. b \in Seq(S) /\ Len(b) = Len(q) + 1 - k /\ \A i \in 1..(Len(q) + 1 - k) : b[i] = q[i + k - 1]
  BY <1>1
<1> HIDE DEF x, a, b
<1>5. c \in Seq(S) /\ Len(c) = k + 1 /\ \A i \in 1..(k + 1) : c[i] = x[i]
  BY <1>1, <1>2
<1>6. d \in Seq(S) /\ Len(d) = Len(q) + 1 - k
      /\ \A i \in 1..(Len(q) + 1 - k) : d[i] = x[i + (k + 2) - 1]
  <2>1. k + 2 \in Nat \ {0} /\ Len(x) \in 0..Len(x) /\ k + 2 <= Len(x) + 1
        /\ Len(x) + 1 - (k + 2) = Len(q) + 1 - k
    BY <1>1, <1>2
  <2> HIDE DEF d
  <2> DEFINE m == k + 2
  <2>2. m \in Nat \ {0} /\ d = SubSeq(x, m, Len(x)) /\ m <= Len(x) + 1
    BY <2>1 DEF d
  <2> HIDE DEF m
  <2>3. /\ d \in Seq(S) /\ Len(d) = Len(x) + 1 - m
        /\ \A i \in 1..(Len(x) + 1 - m) : d[i] = x[i + m - 1]
    BY <1>2, <2>1, <2>2, SubIs
  <2> QED
    BY <2>1, <2>3 DEF m
<1> HIDE DEF c, d
<1>7. /\ e \in Seq(S) /\ Len(e) = k + 1
      /\ \A i \in 1..(k + 1) : e[i] = IF i <= 2 THEN t[i] ELSE a[i - 2]
  <2>1. e \in Seq(S) /\ Joins(e, t, 2, a, k - 1)
    BY <1>3, ConcatIs
  <2> HIDE DEF e
  <2> QED
    BY <1>1, <2>1 DEF Joins
<1> HIDE DEF e
<1>8. c = e
  <2> SUFFICES ASSUME NEW i \in 1..(k + 1)
               PROVE  c[i] = e[i]
    BY <1>5, <1>7, SeqEqual
  <2>1. i \in 1..(Len(q) + 2)
    BY <1>1
  <2>2. CASE i <= 2
    BY <1>2, <1>5, <1>7, <2>1, <2>2
  <2>3. CASE ~(i <= 2)
    <3>1. i - 2 \in 1..(k - 1)
      BY <1>1, <2>3
    <3> QED
      BY <1>2, <1>3, <1>5, <1>7, <2>1, <2>3, <3>1
  <2> QED
    BY <2>2, <2>3
<1>9. d = b
  <2> SUFFICES ASSUME NEW i \in 1..(Len(q) + 1 - k)
               PROVE  d[i] = b[i]
    BY <1>4, <1>6, SeqEqual
  <2> DEFINE j == i + (k + 2) - 1
  <2>1. j \in 1..(Len(q) + 2) /\ ~(j <= 2) /\ j - 2 = i + k - 1
    BY <1>1
  <2>2. d[i] = x[j]
    BY <1>6
  <2> HIDE DEF j
  <2>3. x[j] = q[i + k - 1]
    BY <1>2, <2>1
  <2> QED
    BY <1>4, <2>2, <2>3
<1> QED
  BY <1>8, <1>9 DEF x, a, b, c, d, e

LEMMA TwoFirst ==
    ASSUME NEW S, NEW q \in Seq(S), NEW c \in S, NEW d \in S
    PROVE  LET x == <<c, d>> \o q IN
           /\ x \in Seq(S) /\ Len(x) = Len(q) + 2 /\ Len(q) \in Nat
           /\ x[1] = c /\ x[2] = d
           /\ SubSeq(x, 3, Len(x)) = q
<1> DEFINE t == <<c, d>>
           x == t \o q
<1>1. t \in Seq(S) /\ Len(t) = 2 /\ t[1] = c /\ t[2] = d
  OBVIOUS
<1>2. Len(q) \in Nat
  OBVIOUS
<1> HIDE DEF t
<1>3. /\ x \in Seq(S) /\ Len(x) = Len(q) + 2
      /\ \A i \in 1..(Len(q) + 2) : x[i] = IF i <= 2 THEN t[i] ELSE q[i - 2]
  <2>1. x \in Seq(S) /\ Joins(x, t, 2, q, Len(q))
    BY <1>1, ConcatIs
  <2> HIDE DEF x
  <2> QED
    BY <1>2, <2>1 DEF Joins
<1>4. SubSeq(x, 3, Len(x)) = q
  <2>1. SubSeq(q, 1, Len(q)) = q /\ 1 + 2 = 3 /\ 1 \in 1..(Len(q) + 1)
    BY <1>2, SubSeqFull
  <2>2. SubSeq(x, 1 + 2, Len(x)) = SubSeq(q, 1, Len(q))
    BY <1>1, <2>1, Behind
  <2> QED
    BY <2>1, <2>2
<1>5. x[1] = c /\ x[2] = d
  BY <1>1, <1>2, <1>3
<1> QED
  BY <1>2, <1>3, <1>4, <1>5 DEF t

LEMMA AppendBehind ==
    ASSUME NEW S, NEW t \in Seq(S), NEW q \in Seq(S), NEW e \in S
    PROVE  t \o Append(q, e) = Append(t \o q, e)
<1> DEFINE x == t \o q
           z == <<e>>
<1>1. x \in Seq(S) /\ z \in Seq(S)
  BY ConcatProperties
<1>2. Append(q, e) = q \o z
  BY AppendIsConcat
<1> HIDE DEF x
<1>3. Append(x, e) = x \o z
  BY <1>1, AppendIsConcat
<1> HIDE DEF z
<1>4. t \o (q \o z) = (t \o q) \o z
  BY <1>1, ConcatAssociative
<1> QED
  BY <1>2, <1>3, <1>4 DEF x

\* y is x without its m-th element.
Lacks(y, x, m) == m \in DOMAIN x /\ y = Cut(x, m)

LEMMA CutBehind ==
    ASSUME NEW S, NEW t \in Seq(S), Len(t) = 2, NEW q \in Seq(S), NEW k \in DOMAIN q,
           NEW n, n = k + 2
    PROVE  Lacks(t \o Cut(q, k), t \o q, n)
<1> DEFINE x == t \o q
           a == SubSeq(q, 1, k - 1)
           b == SubSeq(q, k + 1, Len(q))
           m == k + 1
<1>1. Len(q) \in Nat /\ DOMAIN q = 1..Len(q)
  BY SeqFacts
<1>2. n \in DOMAIN x
  <2>1. x \in Seq(S) /\ Joins(x, t, 2, q, Len(q))
    BY ConcatIs
  <2> HIDE DEF x
  <2>2. DOMAIN x = 1..(2 + Len(q))
    BY <2>1 DEF Joins
  <2> QED
    BY <1>1, <2>2
<1>3. a \in Seq(S) /\ b \in Seq(S)
  BY <1>1
<1>4. SubSeq(x, 1, k + 1) = t \o a
  <2>1. k \in 1..(Len(q) + 1)
    BY <1>1
  <2> QED
    BY <2>1, Behind
<1>5. SubSeq(x, m + 2, Len(x)) = SubSeq(q, m, Len(q))
  <2>1. m \in 1..(Len(q) + 1)
    BY <1>1
  <2> HIDE DEF m
  <2> QED
    BY <2>1, Behind
<1>6. n - 1 = k + 1 /\ n + 1 = m + 2
  BY <1>1
<1>7. Cut(x, n) = (t \o a) \o b
  BY <1>4, <1>5, <1>6 DEF Cut
<1> HIDE DEF a, b
<1>8. (t \o a) \o b = t \o (a \o b)
  <2>1. t \in Seq(S) /\ a \in Seq(S) /\ b \in Seq(S)
    BY <1>3
  <2>2. \A e, f, g \in Seq(S) : (e \o f) \o g = e \o (f \o g)
    BY ConcatAssociative
  <2> QED
    BY <2>1, <2>2, Zenon
<1> QED
  BY <1>2, <1>7, <1>8 DEF a, b, Cut, Lacks

\* The loser goes to the back and the next in line comes forward.
LEMMA Turnover ==
    ASSUME NEW S, NEW q \in Seq(S), NEW win \in S, NEW lose \in S
    PROVE  LET r == Append(q, lose) IN
           <<win, r[1]>> \o Tail(r) = <<win>> \o q \o <<lose>>
<1> DEFINE r == Append(q, lose)
           z == Tail(r)
           d == r[1]
<1>1. r \in Seq(S) /\ r # <<>> /\ r = q \o <<lose>> /\ <<lose>> \in Seq(S) /\ <<win>> \in Seq(S)
  BY AppendIsConcat
<1> HIDE DEF r
<1>2. d \in S /\ <<d>> \in Seq(S) /\ z \in Seq(S)
  BY <1>1
<1>3. r = <<d>> \o z
  <2>1. Len(r) \in Nat \ {0}
    BY <1>1
  <2>2. SubSeq(r, 1, Len(r)) = <<d>> \o SubSeq(r, 1 + 1, Len(r))
    BY <1>1, <2>1, SubSeqRecursiveFirst
  <2>3. z = SubSeq(r, 2, Len(r)) /\ 1 + 1 = 2
    BY <1>1, TailIsSubSeq
  <2> QED
    BY <1>1, <2>2, <2>3, SubSeqFull
<1> HIDE DEF d, z
<1>4. <<win, d>> = <<win>> \o <<d>>
  OBVIOUS
<1>5. (<<win>> \o <<d>>) \o z = <<win>> \o (<<d>> \o z)
  BY <1>1, <1>2, ConcatAssociative
<1>6. (<<win>> \o q) \o <<lose>> = <<win>> \o (q \o <<lose>>)
  BY <1>1, ConcatAssociative
<1> QED
  BY <1>1, <1>3, <1>4, <1>5, <1>6 DEF r, d, z

\* The users of the entries x, and of any entries of D.
Named(en, x) == [k \in DOMAIN x |-> en[x[k]].user]
NamesOf(en, D) == {en[e].user : e \in D}

NamedType(D, en, x, y) == y \in Seq(NamesOf(en, D)) /\ Len(y) = Len(x)
NamedAll(en, x, y) == \A k \in DOMAIN x : y[k] = en[x[k]].user

LEMMA NamedIs ==
    ASSUME NEW D, NEW en, NEW x \in Seq(D)
    PROVE  NamedType(D, en, x, Named(en, x)) /\ NamedAll(en, x, Named(en, x))
<1> DEFINE U == NamesOf(en, D)
           y == Named(en, x)
<1>1. DOMAIN x = 1..Len(x) /\ Len(x) \in Nat /\ \A k \in DOMAIN x : x[k] \in D
  BY SeqFacts
<1>2. \A k \in DOMAIN x : en[x[k]].user \in U
  BY <1>1 DEF NamesOf
<1> HIDE DEF U
<1>3. y \in [1..Len(x) -> U] /\ \A k \in DOMAIN x : y[k] = en[x[k]].user
  BY <1>1, <1>2 DEF Named
<1> HIDE DEF y
<1>4. y \in Seq(U) /\ Len(y) = Len(x)
  BY <1>1, <1>3
<1> QED
  BY <1>3, <1>4 DEF y, U, NamedType, NamedAll

LEMMA NamedConcat ==
    ASSUME NEW D, NEW en, NEW x \in Seq(D), NEW y \in Seq(D)
    PROVE  Named(en, x \o y) = Named(en, x) \o Named(en, y)
<1> DEFINE U == NamesOf(en, D)
           z == x \o y
           a == Named(en, x)
           b == Named(en, y)
           c == Named(en, z)
           d == a \o b
<1>1. /\ z \in Seq(D) /\ Len(z) = Len(x) + Len(y)
      /\ \A i \in 1..(Len(x) + Len(y)) : z[i] = IF i <= Len(x) THEN x[i] ELSE y[i - Len(x)]
  BY ConcatProperties
<1> HIDE DEF z
<1>2. /\ Len(x) \in Nat /\ Len(y) \in Nat
      /\ DOMAIN x = 1..Len(x) /\ DOMAIN y = 1..Len(y) /\ DOMAIN z = 1..Len(z)
  BY <1>1, SeqFacts
<1>3. NamedType(D, en, x, a) /\ NamedAll(en, x, a)
  BY NamedIs
<1>4. NamedType(D, en, y, b) /\ NamedAll(en, y, b)
  BY NamedIs
<1>5. NamedType(D, en, z, c) /\ NamedAll(en, z, c)
  BY <1>1, NamedIs
<1> HIDE DEF a, b, c, U
<1>6. a \in Seq(U) /\ Len(a) = Len(x) /\ b \in Seq(U) /\ Len(b) = Len(y)
      /\ c \in Seq(U) /\ Len(c) = Len(x) + Len(y)
  BY <1>1, <1>3, <1>4, <1>5 DEF NamedType, U
<1>7. /\ d \in Seq(U) /\ Len(d) = Len(x) + Len(y)
      /\ \A i \in 1..(Len(x) + Len(y)) : d[i] = IF i <= Len(x) THEN a[i] ELSE b[i - Len(x)]
  <2>1. d \in Seq(U) /\ Joins(d, a, Len(x), b, Len(y))
    BY <1>6, ConcatIs
  <2> HIDE DEF d
  <2> QED
    BY <2>1 DEF Joins
<1> HIDE DEF d
<1>8. c = d
  <2> SUFFICES ASSUME NEW i \in 1..(Len(x) + Len(y))
               PROVE  c[i] = d[i]
    BY <1>6, <1>7, SeqEqual
  <2>1. c[i] = en[z[i]].user
    BY <1>1, <1>2, <1>5 DEF NamedAll
  <2>2. CASE i <= Len(x)
    <3>1. i \in DOMAIN x /\ z[i] = x[i] /\ d[i] = a[i]
      BY <1>1, <1>2, <1>7, <2>2
    <3>2. a[i] = en[x[i]].user
      BY <1>3, <3>1 DEF NamedAll
    <3> QED
      BY <2>1, <3>1, <3>2
  <2>3. CASE ~(i <= Len(x))
    <3>1. i - Len(x) \in DOMAIN y /\ z[i] = y[i - Len(x)] /\ d[i] = b[i - Len(x)]
      BY <1>1, <1>2, <1>7, <2>3
    <3>2. b[i - Len(x)] = en[y[i - Len(x)]].user
      BY <1>4, <3>1 DEF NamedAll
    <3> QED
      BY <2>1, <3>1, <3>2
  <2> QED
    BY <2>2, <2>3
<1> QED
  BY <1>8 DEF a, b, c, d, z

\* z is the part of x from m to n.
Part(z, x, m, n) == z = SubSeq(x, m, n)

LEMMA NamedSub ==
    ASSUME NEW D, NEW en, NEW x \in Seq(D), NEW m \in Nat \ {0}, NEW n \in 0..Len(x), m <= n + 1,
           NEW z, Part(z, x, m, n)
    PROVE  Part(Named(en, z), Named(en, x), m, n)
<1> DEFINE U == NamesOf(en, D)
           a == Named(en, x)
           c == Named(en, z)
           d == SubSeq(a, m, n)
<1>1. z \in Seq(D) /\ Len(z) = n + 1 - m /\ \A i \in 1..(n + 1 - m) : z[i] = x[i + m - 1]
  BY SubIs DEF Part
<1>2. Len(x) \in Nat /\ DOMAIN x = 1..Len(x) /\ DOMAIN z = 1..Len(z)
  BY <1>1, SeqFacts
<1>3. NamedType(D, en, x, a) /\ NamedAll(en, x, a)
  BY NamedIs
<1>4. NamedType(D, en, z, c) /\ NamedAll(en, z, c)
  BY <1>1, NamedIs
<1> HIDE DEF a, c, U
<1>5. a \in Seq(U) /\ Len(a) = Len(x) /\ c \in Seq(U) /\ Len(c) = n + 1 - m
  BY <1>1, <1>3, <1>4 DEF NamedType, U
<1>6. d \in Seq(U) /\ Len(d) = n + 1 - m /\ \A i \in 1..(n + 1 - m) : d[i] = a[i + m - 1]
  <2>1. n \in 0..Len(a)
    BY <1>5
  <2> QED
    BY <1>5, <2>1, SubIs
<1> HIDE DEF d
<1>7. c = d
  <2> SUFFICES ASSUME NEW i \in 1..(n + 1 - m)
               PROVE  c[i] = d[i]
    BY <1>5, <1>6, SeqEqual
  <2>1. i + m - 1 \in DOMAIN x /\ i \in DOMAIN z /\ z[i] = x[i + m - 1] /\ d[i] = a[i + m - 1]
    BY <1>1, <1>2, <1>6
  <2>2. c[i] = en[z[i]].user /\ a[i + m - 1] = en[x[i + m - 1]].user
    BY <1>3, <1>4, <2>1 DEF NamedAll
  <2> QED
    BY <2>1, <2>2
<1> QED
  BY <1>7 DEF a, c, d, Part

LEMMA NamedOne ==
    ASSUME NEW en, NEW e
    PROVE  Named(en, <<e>>) = <<en[e].user>>
<1>1. DOMAIN <<e>> = 1..1 /\ <<e>>[1] = e
  OBVIOUS
<1>2. Named(en, <<e>>) = [k \in 1..1 |-> en[e].user]
  BY <1>1 DEF Named
<1> QED
  BY <1>2

LEMMA NamedAppend ==
    ASSUME NEW D, NEW en, NEW x \in Seq(D), NEW e \in D
    PROVE  Named(en, Append(x, e)) = Append(Named(en, x), en[e].user)
<1> DEFINE U == NamesOf(en, D)
           u == en[e].user
           y == Named(en, x)
           t == <<e>>
<1>1. Append(x, e) = x \o t /\ t \in Seq(D)
  BY AppendIsConcat
<1>2. y \in Seq(U) /\ u \in U
  <2>1. NamedType(D, en, x, y)
    BY NamedIs
  <2> QED
    BY <2>1 DEF NamedType, NamesOf
<1>3. Named(en, t) = <<u>>
  BY NamedOne
<1> HIDE DEF t
<1>4. Named(en, x \o t) = Named(en, x) \o Named(en, t)
  BY <1>1, NamedConcat
<1> HIDE DEF u, U
<1>5. Named(en, x \o t) = y \o <<u>>
  BY <1>3, <1>4
<1> HIDE DEF y
<1>6. Append(y, u) = y \o <<u>>
  BY <1>2, AppendIsConcat
<1> QED
  BY <1>1, <1>5, <1>6 DEF y, u

\* Cutting and turning a line do the same to the users of it.
LEMMA NamedCut ==
    ASSUME NEW D, NEW en, NEW x \in Seq(D), NEW k \in DOMAIN x
    PROVE  Named(en, Cut(x, k)) = Cut(Named(en, x), k)
<1> DEFINE h == k - 1
           m == k + 1
           n == Len(x)
           a == SubSeq(x, 1, h)
           b == SubSeq(x, m, n)
           y == Named(en, x)
<1>1. h \in 0..Len(x) /\ m \in Nat \ {0} /\ n \in 0..Len(x) /\ m <= n + 1 /\ 1 <= h + 1
  BY SeqFacts
<1>2. Cut(x, k) = a \o b /\ Cut(y, k) = SubSeq(y, 1, h) \o SubSeq(y, m, Len(y))
  BY DEF Cut
<1>3. Len(y) = n
  <2>1. NamedType(D, en, x, y)
    BY NamedIs
  <2> QED
    BY <2>1 DEF NamedType
<1>4. a \in Seq(D) /\ b \in Seq(D)
  BY <1>1, SeqFacts
<1>5. Part(a, x, 1, h) /\ Part(b, x, m, n)
  BY DEF Part
<1> HIDE DEF a, b, h, m, n
<1>6. Part(Named(en, a), y, 1, h)
  BY <1>1, <1>5, NamedSub
<1>7. Part(Named(en, b), y, m, n)
  BY <1>1, <1>5, NamedSub
<1>8. Named(en, a \o b) = Named(en, a) \o Named(en, b)
  BY <1>4, NamedConcat
<1> HIDE DEF y
<1> QED
  BY <1>2, <1>3, <1>6, <1>7, <1>8 DEF Part, y

\* The k-th of the first two loses.
Turn(x, k) == <<x[3 - k]>> \o SubSeq(x, 3, Len(x)) \o <<x[k]>>

LEMMA NamedTurn ==
    ASSUME NEW D, NEW en, NEW x \in Seq(D), Len(x) >= 2, NEW k \in {1, 2}
    PROVE  Named(en, Turn(x, k)) = Turn(Named(en, x), k)
<1> DEFINE a == <<x[3 - k]>>
           b == SubSeq(x, 3, Len(x))
           c == <<x[k]>>
           y == Named(en, x)
<1>1. /\ k \in DOMAIN x /\ 3 - k \in DOMAIN x /\ \A i \in DOMAIN x : x[i] \in D
      /\ 3 \in Nat \ {0} /\ Len(x) \in 0..Len(x) /\ 3 <= Len(x) + 1
  BY SeqFacts
<1>2. a \in Seq(D) /\ b \in Seq(D) /\ c \in Seq(D)
  <2>1. x[3 - k] \in D /\ x[k] \in D
    BY <1>1
  <2> QED
    BY <1>1, <2>1
<1>3. NamedType(D, en, x, y) /\ NamedAll(en, x, y)
  BY NamedIs
<1>4. Len(y) = Len(x) /\ y[k] = en[x[k]].user /\ y[3 - k] = en[x[3 - k]].user
  <2> HIDE DEF y
  <2> QED
    BY <1>1, <1>3 DEF NamedType, NamedAll
<1>5. Named(en, a) = <<y[3 - k]>> /\ Named(en, c) = <<y[k]>>
  <2> HIDE DEF y
  <2> QED
    BY <1>4, NamedOne
<1>6. Named(en, b) = SubSeq(y, 3, Len(y))
  <2> DEFINE m == 3
             n == Len(x)
  <2>1. Part(b, x, m, n) /\ m \in Nat \ {0} /\ n \in 0..Len(x) /\ m <= n + 1
    BY <1>1 DEF Part
  <2> HIDE DEF b, m, n
  <2>2. Part(Named(en, b), y, m, n)
    BY <2>1, NamedSub
  <2> QED
    BY <1>4, <2>2 DEF Part, m, n
<1>7. Turn(x, k) = a \o b \o c /\ Turn(y, k) = <<y[3 - k]>> \o SubSeq(y, 3, Len(y)) \o <<y[k]>>
  BY DEF Turn
<1> HIDE DEF a, b, c, y
<1>8. Named(en, a \o b) = Named(en, a) \o Named(en, b) /\ a \o b \in Seq(D)
  BY <1>2, NamedConcat
<1>9. Named(en, (a \o b) \o c) = Named(en, a \o b) \o Named(en, c)
  <2> DEFINE z == a \o b
  <2>1. z \in Seq(D) /\ c \in Seq(D)
    BY <1>2, <1>8
  <2> HIDE DEF z
  <2>2. Named(en, z \o c) = Named(en, z) \o Named(en, c)
    BY <2>1, NamedConcat
  <2> QED
    BY <2>2 DEF z
<1> QED
  BY <1>5, <1>6, <1>7, <1>8, <1>9 DEF y

\* Nothing has happened between the lines x and y, or one of the first two has
\* lost.
Turns(x, y) == y = x \/ (Len(x) >= 2 /\ \E k \in {1, 2} : y = Turn(x, k))

LEMMA TurnsIs ==
    ASSUME NEW D, NEW q \in Seq(D), NEW c \in D, NEW d \in D, NEW win, NEW lose,
           (win = c /\ lose = d) \/ (win = d /\ lose = c)
    PROVE  Turns(<<c, d>> \o q, <<win, Append(q, lose)[1]>> \o Tail(Append(q, lose)))
<1> DEFINE x == <<c, d>> \o q
           y == <<win, Append(q, lose)[1]>> \o Tail(Append(q, lose))
<1>1. /\ x \in Seq(D) /\ Len(x) = Len(q) + 2 /\ Len(q) \in Nat
      /\ x[1] = c /\ x[2] = d /\ SubSeq(x, 3, Len(x)) = q
  BY TwoFirst
<1>2. y = <<win>> \o q \o <<lose>>
  <2>1. win \in D /\ lose \in D
    OBVIOUS
  <2> QED
    BY <2>1, Turnover
<1> HIDE DEF x, y
<1>3. Len(x) >= 2
  BY <1>1
<1>4. CASE win = c /\ lose = d
  <2>1. y = Turn(x, 2)
    <3>1. 3 - 2 = 1
      OBVIOUS
    <3> QED
      BY <1>1, <1>2, <1>4, <3>1 DEF Turn
  <2> QED
    BY <1>3, <2>1 DEF Turns, x, y
<1>5. CASE win = d /\ lose = c
  <2>1. y = Turn(x, 1)
    <3>1. 3 - 1 = 2
      OBVIOUS
    <3> QED
      BY <1>1, <1>2, <1>5, <3>1 DEF Turn
  <2> QED
    BY <1>3, <2>1 DEF Turns, x, y
<1> QED
  BY <1>4, <1>5

----------------------------------------------------------------------------
(* The arena and its rooms, w, over a set D of queue entries.              *)

Open == {"creating", "in_progress"}

RoomOf(D) ==
    {g \in [seat : [Sides -> D], wins : [Sides -> 0..2], caught : BOOLEAN, before : SUBSET Nat,
            status : Open \cup {"finalizing", "finalized", "failed"}] :
        g.status \in Open => g.wins \in [Sides -> 0..1]}

ArenaOf(D, R) ==
    [champion : {None} \cup D, challenger : {None} \cup D, queue : Seq(D),
     room : {None} \cup R, inProgress : BOOLEAN]

Typed(w, D) ==
    /\ w = [arena |-> w.arena, rooms |-> w.rooms]
    /\ w.rooms \in Seq(RoomOf(D))
    /\ w.arena \in ArenaOf(D, DOMAIN w.rooms)

\* Everyone in the arena, and that nobody is there twice.
Inside(a) == Rng(a.queue) \cup ({a.champion, a.challenger} \ {None})

\* Them in line: the champion and the challenger, if there are, then the queue.
LineOf(a) == (IF a.champion = None THEN <<>> ELSE <<a.champion, a.challenger>>) \o a.queue

Distinct(a) ==
    /\ Once(a.queue)
    /\ a.champion \notin Rng(a.queue) /\ a.challenger \notin Rng(a.queue)
    /\ a.champion # None => a.champion # a.challenger

Idle(a) == a.champion = None /\ a.challenger = None /\ ~a.inProgress /\ Len(a.queue) <= 1

Seated(a) == a.champion # None /\ a.challenger # None /\ a.inProgress

Good(w, D) == Typed(w, D) /\ Distinct(w.arena) /\ (Idle(w.arena) \/ Seated(w.arena))

LEMMA LineIs ==
    ASSUME NEW D, NEW a, a.queue \in Seq(D)
    PROVE  /\ a.champion = None => LineOf(a) = a.queue
           /\ a.champion # None => LineOf(a) = <<a.champion, a.challenger>> \o a.queue
BY ConcatEmptySeq DEF LineOf

LEMMA LineType ==
    ASSUME NEW D, NEW w, Good(w, D)
    PROVE  /\ Inside(w.arena) \subseteq D
           /\ LineOf(w.arena) \in Seq(Inside(w.arena)) /\ LineOf(w.arena) \in Seq(D)
<1> DEFINE a == w.arena
           q == a.queue
           I == Inside(a)
<1>1. /\ q \in Seq(D) /\ a.champion \in {None} \cup D /\ a.challenger \in {None} \cup D
      /\ Idle(a) \/ Seated(a)
  BY DEF Good, Typed, ArenaOf
<1>2. I \subseteq D
  BY <1>1, SeqFacts DEF Inside
<1>3. q \in Seq(I)
  <2>1. \A k \in 1..Len(q) : q[k] \in I
    BY <1>1, SeqFacts DEF Inside, Rng
  <2> HIDE DEF q, I
  <2> QED
    BY <1>1, <2>1
<1>4. LineOf(a) \in Seq(I)
  <2>1. CASE Idle(a)
    BY <1>1, <1>3, <2>1, LineIs DEF Idle
  <2>2. CASE Seated(a)
    <3>1. a.champion \in I /\ a.challenger \in I /\ LineOf(a) = <<a.champion, a.challenger>> \o q
      BY <1>1, <2>2, LineIs DEF Seated, Inside
    <3> HIDE DEF q, I
    <3> QED
      BY <1>3, <3>1, TwoFirst
  <2> QED
    BY <1>1, <2>1, <2>2
<1>5. LineOf(a) \in Seq(D)
  BY <1>2, <1>4, SeqMonotonic
<1> QED
  BY <1>2, <1>4, <1>5

\* The assignments of tryStartMatch and handleMatchEnd, field by field.
LEMMA SeatedIs ==
    ASSUME NEW D, NEW w, Typed(w, D), NEW c, NEW d, NEW q, NEW caught
    PROVE  LET a == [champion |-> c, challenger |-> d, queue |-> q, room |-> w.arena.room,
                     inProgress |-> w.arena.inProgress]
           IN  Pair(w, c, d, q, caught)
                 = [arena |-> [a EXCEPT !.inProgress = TRUE],
                    rooms |-> Append(w.rooms, NewRoom(a, caught))]
<1> DEFINE a == w.arena
           a1 == [a EXCEPT !.champion = c]
           a2 == [a1 EXCEPT !.challenger = d]
           a3 == [a2 EXCEPT !.queue = q]
           w1 == [w EXCEPT !.arena.champion = c]
           w2 == [w1 EXCEPT !.arena.challenger = d]
           w3 == [w2 EXCEPT !.arena.queue = q]
<1>1. a = [champion |-> a.champion, challenger |-> a.challenger, queue |-> a.queue,
           room |-> a.room, inProgress |-> a.inProgress]
  BY DEF Typed, ArenaOf
<1>2. w = [arena |-> a, rooms |-> w.rooms]
  BY DEF Typed
<1>3. Pair(w, c, d, q, caught) = StartMatch(w3, caught)
  BY DEF Pair
<1> HIDE DEF a
<1>4. a1 = [champion |-> c, challenger |-> a.challenger, queue |-> a.queue,
            room |-> a.room, inProgress |-> a.inProgress]
  BY <1>1
<1>5. w1 = [arena |-> a1, rooms |-> w.rooms]
  BY <1>2
<1> HIDE DEF a1, w1
<1>6. a2 = [champion |-> c, challenger |-> d, queue |-> a.queue,
            room |-> a.room, inProgress |-> a.inProgress]
  BY <1>4
<1>7. w2 = [arena |-> a2, rooms |-> w.rooms]
  BY <1>5
<1> HIDE DEF a2, w2
<1>8. a3 = [champion |-> c, challenger |-> d, queue |-> q,
            room |-> a.room, inProgress |-> a.inProgress]
  BY <1>6
<1>9. w3 = [arena |-> a3, rooms |-> w.rooms]
  BY <1>7
<1> HIDE DEF a3, w3
<1>10. w3.arena = a3 /\ w3.rooms = w.rooms
  BY <1>9
<1> QED
  BY <1>3, <1>8, <1>10 DEF a, StartMatch

LEMMA FreedIs ==
    ASSUME NEW D, NEW R, NEW a \in ArenaOf(D, R)
    PROVE  /\ Freed(a) \in ArenaOf(D, R)
           /\ Freed(a).champion = a.champion /\ Freed(a).queue = a.queue
           /\ Freed(a).challenger = None /\ ~Freed(a).inProgress
BY DEF Freed, ArenaOf

LEMMA NewRoomIs ==
    ASSUME NEW D, NEW a, a.champion \in D, a.challenger \in D, NEW caught \in BOOLEAN
    PROVE  NewRoom(a, caught) \in RoomOf(D) /\ NewRoom(a, caught).seat["player2"] = a.challenger
BY DEF NewRoom, RoomOf, Sides, Open

\* Between w and v a match has begun between c and d, and q goes on waiting.
Begun(w, v, c, d, q) ==
    /\ Seated(v.arena)
    /\ v.arena.champion = c /\ v.arena.challenger = d /\ v.arena.queue = q
    /\ Len(v.rooms) = Len(w.rooms) + 1
    /\ \A i \in DOMAIN v.rooms \ DOMAIN w.rooms : v.rooms[i].seat["player2"] = d

LEMMA PairIs ==
    ASSUME NEW D \in SUBSET (Nat \ {0}), NEW w, Typed(w, D), NEW c \in D, NEW d \in D,
           NEW q \in Seq(D), NEW caught \in BOOLEAN
    PROVE  /\ Typed(Pair(w, c, d, q, caught), D)
           /\ Begun(w, Pair(w, c, d, q, caught), c, d, q)
<1> DEFINE v == Pair(w, c, d, q, caught)
           a == [champion |-> c, challenger |-> d, queue |-> q, room |-> w.arena.room,
                 inProgress |-> w.arena.inProgress]
           b == [a EXCEPT !.inProgress = TRUE]
           g == NewRoom(a, caught)
<1>1. w.rooms \in Seq(RoomOf(D)) /\ w.arena \in ArenaOf(D, DOMAIN w.rooms)
  BY DEF Typed
<1>2. v = [arena |-> b, rooms |-> Append(w.rooms, g)]
  BY SeatedIs
<1>3. a.champion = c /\ a.challenger = d
  OBVIOUS
<1>4. \A R : w.arena.room \in {None} \cup R => a \in ArenaOf(D, R) /\ b \in ArenaOf(D, R)
  BY <1>1 DEF ArenaOf
<1>5. b.champion = c /\ b.challenger = d /\ b.queue = q /\ b.inProgress
  OBVIOUS
<1> HIDE DEF a, b
<1>6. g \in RoomOf(D) /\ g.seat["player2"] = d
  BY <1>3, NewRoomIs
<1> HIDE DEF g, v
<1>7. v.arena = b /\ v.rooms = Append(w.rooms, g) /\ v = [arena |-> v.arena, rooms |-> v.rooms]
  BY <1>2
<1>8. /\ v.rooms \in Seq(RoomOf(D)) /\ Len(v.rooms) = Len(w.rooms) + 1
      /\ DOMAIN w.rooms = 1..Len(w.rooms) /\ DOMAIN v.rooms = 1..(Len(w.rooms) + 1)
      /\ v.rooms[Len(w.rooms) + 1] = g /\ Len(w.rooms) \in Nat
  BY <1>1, <1>6, <1>7
<1>9. \A i \in DOMAIN v.rooms \ DOMAIN w.rooms : i = Len(w.rooms) + 1
  BY <1>8
<1>10. w.arena.room \in {None} \cup DOMAIN v.rooms
  BY <1>1, <1>8 DEF ArenaOf
<1>11. Typed(v, D)
  BY <1>4, <1>7, <1>8, <1>10 DEF Typed
<1>12. Seated(v.arena)
  BY <1>5, <1>7 DEF Seated, None
<1> QED
  BY <1>5, <1>6, <1>7, <1>8, <1>9, <1>11, <1>12 DEF v, Begun

\* No one who waits is overtaken between w and v.
Fair(w, v) ==
    \A e \in Rng(w.arena.queue) :
        /\ \A f \in Rng(w.arena.queue) :
              Before(w.arena.queue, e, f) => ~Before(v.arena.queue, f, e)
        /\ e \in Rng(v.arena.queue) =>
              \A i \in DOMAIN v.rooms \ DOMAIN w.rooms :
                 Before(w.arena.queue, v.rooms[i].seat["player2"], e)

\* Between w and v nobody has come or gone, and the arena is still a good one.
Turned(w, v, D) ==
    /\ Good(v, D) /\ Inside(v.arena) = Inside(w.arena)
    /\ Len(w.rooms) <= Len(v.rooms)
    /\ Fair(w, v)
    /\ Turns(LineOf(w.arena), LineOf(v.arena))

LEMMA TryStartIs ==
    ASSUME NEW D, NEW w, Typed(w, D), NEW caught
    PROVE  LET q == w.arena.queue
               c == w.arena.champion
               v == TryStart(w, caught)
           IN  /\ w.arena.inProgress \/ (c = None /\ Len(q) < 2) => v = w
               /\ ~w.arena.inProgress /\ c = None /\ Len(q) = 2 => v = Pair(w, q[1], q[2], <<>>, caught)
               /\ ~w.arena.inProgress /\ c # None /\ Len(q) >= 1 =>
                      v = Pair(w, c, q[1], Tail(q), caught)
<1> DEFINE q == w.arena.queue
           c == w.arena.champion
           busy == w.arena.inProgress
<1>1. busy \in BOOLEAN /\ q \in Seq(D) /\ Len(q) \in Nat
  BY DEF Typed, ArenaOf
<1>2. Len(q) = 2 => SubSeq(q, 3, Len(q)) = <<>>
  BY <1>1
<1> HIDE DEF busy, q
<1>3. TryStart(w, caught) =
        CASE ~busy /\ c = None /\ Len(q) >= 2 -> Pair(w, q[1], q[2], SubSeq(q, 3, Len(q)), caught)
          [] ~busy /\ c # None /\ Len(q) >= 1 -> Pair(w, c, q[1], Tail(q), caught)
          [] OTHER -> w
  BY DEF TryStart, busy, q
<1> HIDE DEF c
<1>4. busy \/ (c = None /\ Len(q) < 2) => TryStart(w, caught) = w
  BY <1>1, <1>3
<1>5. ~busy /\ c = None /\ Len(q) = 2 => TryStart(w, caught) = Pair(w, q[1], q[2], <<>>, caught)
  <2> SUFFICES ASSUME ~busy, c = None, Len(q) = 2
               PROVE  TryStart(w, caught) = Pair(w, q[1], q[2], <<>>, caught)
    OBVIOUS
  <2>1. Len(q) >= 2
    OBVIOUS
  <2>2. TryStart(w, caught) = Pair(w, q[1], q[2], SubSeq(q, 3, Len(q)), caught)
    BY <1>3, <2>1
  <2> QED
    BY <1>2, <2>2
<1>6. ~busy /\ c # None /\ Len(q) >= 1 => TryStart(w, caught) = Pair(w, c, q[1], Tail(q), caught)
  BY <1>1, <1>3
<1> QED
  BY <1>4, <1>5, <1>6 DEF busy, q, c

\* The two of a match after it: who is on the throne, and who goes to the back.
Victor(a, u) == IF u = UserAt(a.champion) THEN a.champion ELSE a.challenger
Beaten(a, u) == IF u = UserAt(a.champion) THEN a.challenger ELSE a.champion

LEMMA SettleIs ==
    ASSUME NEW D, NEW R, NEW a \in ArenaOf(D, R), Seated(a), NEW u
    PROVE  /\ Settle(a, u) \in ArenaOf(D, R)
           /\ Settle(a, u).champion = Victor(a, u)
           /\ Settle(a, u).queue = Append(a.queue, Beaten(a, u))
           /\ Settle(a, u).challenger = None /\ ~Settle(a, u).inProgress
<1> DEFINE b == Freed(a)
<1>1. /\ b \in ArenaOf(D, R) /\ b.champion = a.champion /\ b.queue = a.queue
      /\ b.challenger = None /\ ~b.inProgress
  BY FreedIs
<1>2. a.champion \in D /\ a.challenger \in D /\ a.queue \in Seq(D)
  BY DEF ArenaOf, Seated
<1>3. Append(a.queue, a.champion) \in Seq(D) /\ Append(a.queue, a.challenger) \in Seq(D)
  BY <1>2
<1> HIDE DEF b
<1>4. CASE u = UserAt(a.champion)
  <2>1. Settle(a, u) = [b EXCEPT !.queue = Append(b.queue, a.challenger)]
    BY <1>4 DEF Settle, b
  <2> QED
    BY <1>1, <1>3, <1>4, <2>1 DEF ArenaOf, Victor, Beaten
<1>5. CASE u # UserAt(a.champion)
  <2>1. Settle(a, u) = [b EXCEPT !.champion = a.challenger, !.queue = Append(b.queue, a.champion)]
    BY <1>5 DEF Settle, b
  <2> QED
    BY <1>1, <1>2, <1>3, <1>5, <2>1 DEF ArenaOf, Victor, Beaten
<1> QED
  BY <1>4, <1>5

\* The end of a match between two who sit there starts the next at once.
LEMMA MatchEndIs ==
    ASSUME NEW D \in SUBSET (Nat \ {0}), NEW w, Good(w, D), Seated(w.arena), NEW u,
           NEW caught \in BOOLEAN
    PROVE  LET v == MatchEnd(w, u, caught) IN
           /\ Turned(w, v, D) /\ Seated(v.arena)
           /\ v.arena.champion = Victor(w.arena, u)
           /\ \/ v.arena.challenger \in Rng(w.arena.queue)
              \/ w.arena.queue = <<>> /\ v.arena.queue = <<>>
<1> DEFINE v == MatchEnd(w, u, caught)
           a == w.arena
           q == a.queue
           win == Victor(a, u)
           lose == Beaten(a, u)
           r == Append(q, lose)
           w1 == [arena |-> Settle(a, u), rooms |-> w.rooms]
<1>1. /\ w.rooms \in Seq(RoomOf(D)) /\ a \in ArenaOf(D, DOMAIN w.rooms) /\ Distinct(a)
      /\ w = [arena |-> a, rooms |-> w.rooms]
  BY DEF Good, Typed
<1>2. /\ a.champion \in D /\ a.challenger \in D /\ q \in Seq(D)
      /\ a.champion # None /\ a.challenger # None
  BY <1>1 DEF ArenaOf, Seated
<1>3. Typed(w1, D)
  BY <1>1, SettleIs DEF Typed
<1>4. v = TryStart(w1, caught)
  <2>1. [w EXCEPT !.arena = Settle(w.arena, u)] = w1
    BY <1>1
  <2> QED
    BY <1>2, <2>1 DEF MatchEnd
<1>5. /\ win \in D /\ lose \in D /\ win # lose /\ win # None
      /\ {win, lose} = {a.champion, a.challenger}
      /\ (win = a.champion /\ lose = a.challenger) \/ (win = a.challenger /\ lose = a.champion)
      /\ win \notin Rng(q) /\ lose \notin Rng(q) /\ Once(q)
  BY <1>1, <1>2 DEF Victor, Beaten, Distinct
<1> HIDE DEF win, lose
<1>6. /\ r \in Seq(D) /\ Len(r) >= 1 /\ Len(q) \in Nat /\ Rng(r) = Rng(q) \cup {lose} /\ Once(r)
      /\ \A e \in Rng(q) : \A f : Before(r, f, e) => Before(q, f, e)
  BY <1>2, <1>5, AppendFacts
<1>7. v = Pair(w1, win, r[1], Tail(r), caught)
  <2>1. /\ w1.arena.champion = win /\ w1.arena.queue = r
        /\ ~w1.arena.inProgress
    BY <1>1, SettleIs DEF win, lose
  <2> HIDE DEF w1, r
  <2> QED
    BY <1>3, <1>4, <1>5, <1>6, <2>1, TryStartIs
<1>8. /\ r[1] \in D /\ Tail(r) \in Seq(D) /\ Rng(r) = Rng(Tail(r)) \cup {r[1]}
      /\ Once(Tail(r)) /\ r[1] \notin Rng(Tail(r))
      /\ \A e, f : Before(Tail(r), f, e) => Before(r, f, e)
      /\ \A e \in Rng(Tail(r)) : Before(r, r[1], e)
  <2> HIDE DEF r
  <2> QED
    BY <1>6, TailFacts
<1>9. /\ Typed(v, D) /\ Seated(v.arena)
      /\ v.arena.champion = win /\ v.arena.challenger = r[1] /\ v.arena.queue = Tail(r)
      /\ Len(v.rooms) = Len(w.rooms) + 1
      /\ \A i \in DOMAIN v.rooms \ DOMAIN w.rooms : v.rooms[i].seat["player2"] = r[1]
  <2>1. w1.rooms = w.rooms
    OBVIOUS
  <2> DEFINE d == r[1]
             z == Tail(r)
             x == Pair(w1, win, d, z, caught)
  <2>2. d \in D /\ z \in Seq(D) /\ v = x
    BY <1>7, <1>8
  <2> HIDE DEF w1, r, v, d, z
  <2>3. Typed(x, D) /\ Begun(w1, x, win, d, z)
    BY <1>3, <1>5, <2>2, PairIs
  <2> HIDE DEF x
  <2> QED
    BY <2>1, <2>2, <2>3 DEF d, z, Begun
<1>10. r[1] \in Rng(q) \/ (q = <<>> /\ Tail(r) = <<>>)
  <2>1. CASE q = <<>>
    BY <1>2, <1>5, <2>1
  <2>2. CASE q # <<>>
    <3>1. 1 \in DOMAIN q /\ r[1] = q[1]
      BY <1>2, <2>2
    <3> QED
      BY <3>1 DEF Rng
  <2> QED
    BY <2>1, <2>2
<1> HIDE DEF r, v, w1
<1>11. Distinct(v.arena)
  BY <1>5, <1>6, <1>8, <1>9 DEF Distinct
<1>12. Inside(v.arena) = Inside(w.arena)
  <2>1. Inside(v.arena) = Rng(Tail(r)) \cup {win, r[1]}
    BY <1>5, <1>8, <1>9 DEF Inside, None
  <2>2. Inside(a) = Rng(q) \cup {win, lose}
    BY <1>2, <1>5 DEF Inside
  <2> QED
    BY <1>6, <1>8, <2>1, <2>2
<1>13. Fair(w, v)
  <2> SUFFICES ASSUME NEW e \in Rng(q)
               PROVE  /\ \A f \in Rng(q) : Before(q, e, f) => ~Before(Tail(r), f, e)
                      /\ e \in Rng(Tail(r)) => Before(q, r[1], e)
    BY <1>9 DEF Fair
  <2>1. \A f : Before(q, e, f) => ~Before(q, f, e)
    BY <1>2, <1>5, OnceOrder
  <2> QED
    BY <1>6, <1>8, <2>1
<1>14. Len(w.rooms) <= Len(v.rooms)
  BY <1>1, <1>9
<1>15. Turns(LineOf(a), LineOf(v.arena))
  <2>1. LineOf(a) = <<a.champion, a.challenger>> \o q
    BY <1>2, LineIs
  <2>2. LineOf(v.arena) = <<win, r[1]>> \o Tail(r)
    <3> DEFINE b == v.arena
    <3>1. b.queue \in Seq(D) /\ b.champion # None
      BY <1>5, <1>8, <1>9
    <3> HIDE DEF b
    <3>2. LineOf(b) = <<b.champion, b.challenger>> \o b.queue
      BY <3>1, LineIs
    <3> QED
      BY <1>9, <3>2 DEF b
  <2>3. Turns(<<a.champion, a.challenger>> \o q,
              <<win, Append(q, lose)[1]>> \o Tail(Append(q, lose)))
    BY <1>2, <1>5, TurnsIs
  <2> QED
    BY <2>1, <2>2, <2>3 DEF r
<1> QED
  BY <1>9, <1>10, <1>11, <1>12, <1>13, <1>14, <1>15 DEF Good, Turned, v, win

LEMMA Widen ==
    ASSUME NEW D, NEW E, D \subseteq E, NEW w
    PROVE  (Typed(w, D) => Typed(w, E)) /\ (Good(w, D) => Good(w, E))
<1>1. RoomOf(D) \subseteq RoomOf(E)
  BY DEF RoomOf
<1>2. \A R : ArenaOf(D, R) \subseteq ArenaOf(E, R)
  BY DEF ArenaOf
<1>3. Typed(w, D) => Typed(w, E)
  BY <1>1, <1>2 DEF Typed
<1> QED
  BY <1>3 DEF Good

\* Another queue in the same arena.
Requeued(w, q) == [w EXCEPT !.arena.queue = q]

LEMMA RequeueIs ==
    ASSUME NEW D, NEW w, Typed(w, D), NEW q \in Seq(D)
    PROVE  LET v == Requeued(w, q) IN
           /\ Typed(v, D)
           /\ v.rooms = w.rooms /\ v.arena.queue = q
           /\ v.arena.champion = w.arena.champion /\ v.arena.challenger = w.arena.challenger
           /\ v.arena.inProgress = w.arena.inProgress
<1> DEFINE v == Requeued(w, q)
           b == [w.arena EXCEPT !.queue = q]
<1>1. w = [arena |-> w.arena, rooms |-> w.rooms] /\ w.arena \in ArenaOf(D, DOMAIN w.rooms)
  BY DEF Typed
<1>2. v = [arena |-> b, rooms |-> w.rooms]
  BY <1>1 DEF Requeued
<1>3. /\ b \in ArenaOf(D, DOMAIN w.rooms) /\ b.queue = q /\ b.champion = w.arena.champion
      /\ b.challenger = w.arena.challenger /\ b.inProgress = w.arena.inProgress
  BY <1>1 DEF ArenaOf
<1> HIDE DEF v, b
<1>4. v.arena = b /\ v.rooms = w.rooms /\ v = [arena |-> v.arena, rooms |-> v.rooms]
  BY <1>2
<1>5. Typed(v, D)
  BY <1>3, <1>4 DEF Typed
<1> QED
  BY <1>3, <1>4, <1>5 DEF v, b

\* One more player joins the back of the queue.
LEMMA JoinIs ==
    ASSUME NEW D \in SUBSET (Nat \ {0}), NEW w, Good(w, D),
           NEW x \in D, x \notin Inside(w.arena), NEW caught \in BOOLEAN
    PROVE  LET v == TryStart(Requeued(w, Append(w.arena.queue, x)), caught) IN
           /\ Good(v, D)
           /\ Inside(v.arena) = Inside(w.arena) \cup {x}
           /\ LineOf(v.arena) = Append(LineOf(w.arena), x)
           /\ Len(w.rooms) <= Len(v.rooms)
           /\ Fair(w, v)
<1> DEFINE a == w.arena
           q == a.queue
           r == Append(q, x)
           w1 == Requeued(w, r)
           v == TryStart(w1, caught)
<1>1. /\ Typed(w, D) /\ Distinct(a) /\ q \in Seq(D) /\ Len(q) \in Nat /\ Once(q)
      /\ a.challenger \in D \cup {None}
      /\ x \notin Rng(q) /\ x # a.champion /\ x # a.challenger /\ x # None
      /\ w.rooms \in Seq(RoomOf(D)) /\ a.champion \in D \cup {None}
  BY DEF Good, Typed, ArenaOf, Distinct, Inside, None
<1>2. /\ r \in Seq(D) /\ Len(r) = Len(q) + 1 /\ r[Len(q) + 1] = x
      /\ \A k \in DOMAIN q : k \in DOMAIN r /\ r[k] = q[k]
      /\ Rng(r) = Rng(q) \cup {x} /\ Once(r)
      /\ \A e \in Rng(q) : \A f : Before(r, f, e) => Before(q, f, e)
  BY <1>1, AppendFacts
<1> HIDE DEF r
<1>3. /\ Typed(w1, D) /\ w1.rooms = w.rooms /\ w1.arena.queue = r
      /\ w1.arena.champion = a.champion /\ w1.arena.challenger = a.challenger
      /\ w1.arena.inProgress = a.inProgress
  <2>1. Typed(w, D) /\ r \in Seq(D)
    BY <1>1, <1>2
  <2> QED
    BY <2>1, RequeueIs
<1> HIDE DEF w1
<1>4. Distinct(w1.arena) /\ Inside(w1.arena) = Inside(a) \cup {x}
  BY <1>1, <1>2, <1>3 DEF Distinct, Inside
<1>5. Fair(w, w1)
  <2>1. ASSUME NEW e \in Rng(q), NEW f, Before(q, e, f)
        PROVE  ~Before(r, f, e)
    BY <1>1, <1>2, <2>1, OnceOrder
  <2> QED
    BY <1>3, <2>1 DEF Fair
<1> SUFFICES /\ Good(v, D)
             /\ Inside(v.arena) = Inside(a) \cup {x}
             /\ LineOf(v.arena) = Append(LineOf(a), x)
             /\ Len(w.rooms) <= Len(v.rooms)
             /\ Fair(w, v)
  BY DEF v, w1, r
<1>6. CASE Seated(a) \/ Len(q) = 0
  <2>1. w1.arena.inProgress \/ (w1.arena.champion = None /\ Len(r) < 2)
    BY <1>2, <1>3, <1>6 DEF Good, Seated, Idle
  <2>2. v = w1
    BY <1>3, <2>1, TryStartIs
  <2>3. Idle(w1.arena) \/ Seated(w1.arena)
    BY <1>2, <1>3, <1>6 DEF Good, Seated, Idle
  <2>4. LineOf(w1.arena) = Append(LineOf(a), x)
    <3>1. CASE Seated(a)
      <4> DEFINE c == a.champion
                 d == a.challenger
                 b == w1.arena
      <4>1. c \in D /\ d \in D /\ c # None
        BY <1>1, <3>1 DEF Seated
      <4>2. LineOf(a) = <<c, d>> \o q
        BY <1>1, <4>1, LineIs
      <4>3. b.champion = c /\ b.challenger = d /\ b.queue = r /\ r \in Seq(D)
        BY <1>2, <1>3
      <4> HIDE DEF b, c, d, q
      <4>4. LineOf(b) = <<c, d>> \o r
        BY <4>1, <4>3, LineIs
      <4>5. <<c, d>> \o Append(q, x) = Append(<<c, d>> \o q, x)
        <5> DEFINE t == <<c, d>>
        <5>1. t \in Seq(D)
          BY <4>1
        <5> HIDE DEF t
        <5>2. t \o Append(q, x) = Append(t \o q, x)
          BY <1>1, <5>1, AppendBehind
        <5> QED
          BY <5>2 DEF t
      <4> QED
        BY <4>2, <4>4, <4>5 DEF b, q, r
    <3>2. CASE ~Seated(a)
      <4>1. a.champion = None
        BY <3>2 DEF Good, Idle
      <4> QED
        BY <1>1, <1>2, <1>3, <4>1, LineIs DEF r
    <3> QED
      BY <3>1, <3>2
  <2> HIDE DEF v
  <2> QED
    BY <1>1, <1>3, <1>4, <1>5, <2>2, <2>3, <2>4 DEF Good
<1>7. CASE Idle(a) /\ Len(q) = 1
  <2> DEFINE c == r[1]
             z == <<>>
             u == Pair(w1, c, x, z, caught)
  <2>1. /\ Len(r) = 2 /\ r[2] = x /\ 1 \in DOMAIN q /\ c = q[1] /\ c \in D /\ c \in Rng(q)
        /\ \A k \in DOMAIN q : k = 1
    BY <1>1, <1>2, <1>7 DEF Rng
  <2>2. v = u
    <3>1. ~w1.arena.inProgress /\ w1.arena.champion = None
      BY <1>3, <1>7 DEF Idle
    <3> HIDE DEF v
    <3> QED
      BY <1>3, <2>1, <3>1, TryStartIs DEF v
  <2>3. z \in Seq(D) /\ z = <<>>
    OBVIOUS
  <2> HIDE DEF v, c, z
  <2>4. Typed(w1, D) /\ c \in D /\ x \in D
    BY <1>3, <2>1
  <2>5. Typed(u, D) /\ Begun(w1, u, c, x, z)
    BY <2>3, <2>4, PairIs
  <2> HIDE DEF u
  <2>6. /\ Typed(u, D) /\ Seated(u.arena)
        /\ u.arena.champion = c /\ u.arena.challenger = x /\ u.arena.queue = z
        /\ Len(u.rooms) = Len(w1.rooms) + 1
    BY <2>5 DEF Begun
  <2>7. Rng(u.arena.queue) = {} /\ Once(u.arena.queue)
    BY <2>3, <2>6 DEF Rng, Once
  <2>8. Distinct(u.arena)
    BY <1>1, <2>1, <2>6, <2>7 DEF Distinct
  <2>9. Rng(q) = {c}
    BY <2>1 DEF Rng
  <2>10. Inside(u.arena) = Inside(a) \cup {x}
    BY <1>1, <1>7, <2>1, <2>6, <2>7, <2>9 DEF Inside, Idle, None
  <2>11. Fair(w, u)
    <3>1. \A e, f : ~Before(u.arena.queue, f, e)
      BY <2>3, <2>6 DEF Before
    <3> QED
      BY <2>7, <3>1 DEF Fair
  <2>12. Len(w.rooms) <= Len(u.rooms)
    BY <1>1, <1>3, <2>6
  <2>13. LineOf(u.arena) = Append(LineOf(a), x)
    <3>1. a.champion = None /\ c # None
      BY <1>7, <2>4 DEF Idle, None
    <3>2. LineOf(a) = q /\ LineOf(u.arena) = <<c, x>> \o z
      BY <1>1, <2>3, <2>6, <3>1, LineIs
    <3>3. <<c, x>> \o z = <<c, x>>
      BY <2>3, <2>4, ConcatEmptySeq
    <3>4. r = <<c, x>>
      BY <1>2, <2>1 DEF c
    <3> QED
      BY <3>2, <3>3, <3>4 DEF r
  <2> QED
    BY <2>2, <2>6, <2>8, <2>10, <2>11, <2>12, <2>13 DEF Good
<1>8. Seated(a) \/ Len(q) = 0 \/ (Idle(a) /\ Len(q) = 1)
  <2>1. Len(q) <= 1 => Len(q) = 0 \/ Len(q) = 1
    BY <1>1, SmallNat
  <2>2. Seated(a) \/ (Idle(a) /\ Len(q) <= 1)
    BY DEF Good, Idle
  <2> QED
    BY <2>1, <2>2
<1> QED
  BY <1>6, <1>7, <1>8

\* Between the lines x and y somebody has left who waited.
Departs(x, y) == \E m : (Len(x) >= 2 => m > 2) /\ Lacks(y, x, m)

\* One player is taken out of the queue.
LEMMA CutIs ==
    ASSUME NEW D \in SUBSET (Nat \ {0}), NEW w, Good(w, D), NEW k \in DOMAIN w.arena.queue
    PROVE  LET v == Requeued(w, Cut(w.arena.queue, k)) IN
           /\ Good(v, D)
           /\ v.rooms = w.rooms
           /\ Inside(v.arena) = Inside(w.arena) \ {w.arena.queue[k]}
           /\ Fair(w, v)
           /\ Departs(LineOf(w.arena), LineOf(v.arena))
<1> DEFINE a == w.arena
           q == a.queue
           r == Cut(q, k)
           v == Requeued(w, r)
<1>1. /\ Typed(w, D) /\ Distinct(a) /\ q \in Seq(D) /\ Len(q) \in Nat /\ Once(q)
      /\ q[k] \in Rng(q)
  BY DEF Good, Typed, ArenaOf, Distinct, Rng
<1>2. /\ r \in Seq(D) /\ Len(r) = Len(q) - 1 /\ Once(r) /\ Rng(r) = Rng(q) \ {q[k]}
      /\ \A e, f : Before(r, f, e) => Before(q, f, e)
  BY <1>1, CutFacts
<1> HIDE DEF r
<1>3. /\ Typed(v, D) /\ v.arena.queue = r /\ v.rooms = w.rooms
      /\ v.arena.champion = a.champion /\ v.arena.challenger = a.challenger
      /\ v.arena.inProgress = a.inProgress
  BY <1>1, <1>2, RequeueIs
<1> HIDE DEF v
<1>4. Distinct(v.arena) /\ Inside(v.arena) = Inside(a) \ {q[k]}
  BY <1>1, <1>2, <1>3 DEF Distinct, Inside
<1>5. Idle(v.arena) \/ Seated(v.arena)
  BY <1>1, <1>2, <1>3 DEF Good, Idle, Seated
<1>6. Fair(w, v)
  <2>1. ASSUME NEW e, NEW f, Before(q, e, f)
        PROVE  ~Before(r, f, e)
    BY <1>1, <1>2, <2>1, OnceOrder
  <2> QED
    BY <1>3, <2>1 DEF Fair
<1>7. Departs(LineOf(a), LineOf(v.arena))
  <2>1. CASE Seated(a)
    <3> DEFINE c == a.champion
               d == a.challenger
               t == <<c, d>>
               m == k + 2
    <3>1. /\ c \in D /\ d \in D
          /\ LineOf(a) = t \o q
          /\ LineOf(v.arena) = t \o Cut(q, k)
      BY <1>1, <1>2, <1>3, <2>1, LineIs DEF Seated, Typed, ArenaOf, r
    <3>2. t \in Seq(D) /\ Len(t) = 2 /\ q \in Seq(D) /\ k \in DOMAIN q /\ m = k + 2
      BY <1>1, <3>1
    <3>3. m > 2
      BY <1>1, SeqFacts
    <3> HIDE DEF q, t, m
    <3>4. Lacks(t \o Cut(q, k), t \o q, m)
      BY <3>2, CutBehind
    <3> QED
      BY <3>1, <3>3, <3>4 DEF Departs
  <2>2. CASE ~Seated(a)
    <3>1. a.champion = None /\ Len(q) <= 1
      BY <2>2 DEF Good, Idle
    <3>2. LineOf(a) = q /\ LineOf(v.arena) = Cut(q, k)
      BY <1>1, <1>2, <1>3, <3>1, LineIs DEF r
    <3>3. ~(Len(q) >= 2)
      BY <1>1, <3>1
    <3> QED
      BY <3>2, <3>3 DEF Departs, Lacks
  <2> QED
    BY <2>1, <2>2
<1> QED
  BY <1>3, <1>4, <1>5, <1>6, <1>7 DEF Good, v, r

----------------------------------------------------------------------------
(* Users, and the loss of a socket.                                        *)

\* No user has two entries in the arena a.
Apart(a) == \A e, f \in Inside(a) : UserAt(e) = UserAt(f) => e = f

\* Every entry of D was made for the user of its socket.
Owned(D) == \A e \in D : entry[e].user = owner[entry[e].socket]

\* The loss of a socket cuts one entry out of the queue, or makes whoever has
\* the socket in the match lose it: the champion to its challenger, and if the
\* next challenger is on the same socket, that one too.
LEMMA DisconnectIs ==
    ASSUME NEW D \in SUBSET (Nat \ {0}), NEW w, Good(w, D), Apart(w.arena), Owned(D), NEW s
    PROVE  LET a == w.arena
               v == PlayerDisconnect(w, s)
               out == {k \in DOMAIN a.queue : Holds(a.queue[k], s)}
           IN  /\ out # {} => \E k \in out : v = Requeued(w, Cut(a.queue, k))
               /\ out = {} =>
                    /\ Turned(w, v, D)
                    /\ Seated(a) => v.arena.champion = IF Holds(a.champion, s) THEN a.challenger
                                                       ELSE a.champion
<1> DEFINE a == w.arena
           q == a.queue
           out == {k \in DOMAIN q : Holds(q[k], s)}
           v == PlayerDisconnect(w, s)
           w1 == ChampionForfeits(w, s)
           w2 == ChallengerForfeits(w1, s)
<1>1. /\ q \in Seq(D) /\ Once(q) /\ Distinct(a) /\ Len(w.rooms) \in Nat
      /\ \A k \in DOMAIN q : q[k] \in D /\ q[k] \in Inside(a)
  BY DEF Good, Typed, ArenaOf, Distinct, Inside, Rng
<1>2. ASSUME out # {}
      PROVE  \E k \in out : v = Requeued(w, Cut(q, k))
  <2>1. \A j, k \in out : j = k
    <3>1. \A k \in out : k \in DOMAIN q /\ UserAt(q[k]) = owner[s]
      BY <1>1 DEF Owned, Holds, UserAt
    <3> HIDE DEF out
    <3>2. \A j, k \in out : q[j] = q[k]
      BY <1>1, <3>1 DEF Apart
    <3> QED
      BY <1>1, <3>1, <3>2 DEF Once
  <2>2. \A k \in out : \A j \in 1..(k - 1) : j \in DOMAIN q /\ j # k
    BY <1>1, SeqFacts
  <2>3. \A k \in out : \A j \in 1..(k - 1) : ~Holds(q[j], s)
    BY <2>1, <2>2
  <2>4. FirstOf(q, s) \in out
    BY <1>2, <2>3 DEF FirstOf
  <2>5. v = [w EXCEPT !.arena.queue = Cut(q, FirstOf(q, s))]
    BY <1>2 DEF PlayerDisconnect, Cut
  <2> QED
    BY <2>4, <2>5 DEF Requeued
<1>3. ASSUME out = {}
      PROVE  v = w2
  BY <1>3 DEF PlayerDisconnect
<1> HIDE DEF v, w2, out
<1>4. Turned(w, w, D)
  <2>1. \A e, f : Before(q, e, f) => ~Before(q, f, e)
    BY <1>1, OnceOrder
  <2> QED
    BY <1>1, <2>1 DEF Turned, Fair, Turns
<1>5. CASE Idle(a)
  <2>1. w1 = w
    BY <1>5 DEF ChampionForfeits, Idle, Holds
  <2>2. w2 = w
    BY <1>5, <2>1 DEF ChallengerForfeits, Idle, Holds, w2
  <2>3. ~Seated(a)
    BY <1>5 DEF Idle, Seated
  <2> QED
    BY <1>2, <1>3, <1>4, <2>2, <2>3 DEF v, out
<1>6. CASE Seated(a)
  <2>1. /\ a.champion # a.challenger /\ UserAt(a.champion) # UserAt(a.challenger)
        /\ a.champion # None /\ a.challenger # None /\ a.inProgress
    BY <1>1, <1>6 DEF Distinct, Seated, Apart, Inside
  <2>2. CASE Holds(a.champion, s) /\ out = {}
    <3> DEFINE u == UserAt(a.challenger)
    <3>1. w1 = MatchEnd(w, u, FALSE)
      BY <2>1, <2>2 DEF ChampionForfeits
    <3>2. Victor(a, u) = a.challenger
      BY <2>1 DEF Victor
    <3> HIDE DEF w1, u
    <3>3. /\ Turned(w, w1, D) /\ Seated(w1.arena) /\ w1.arena.champion = a.challenger
          /\ w1.arena.challenger \in Rng(q) \/ (q = <<>> /\ w1.arena.queue = <<>>)
      BY <1>6, <3>1, <3>2, MatchEndIs
    <3>4. CASE ~Holds(w1.arena.challenger, s)
      <4>1. w2 = w1
        BY <3>4 DEF ChallengerForfeits, w2
      <4> QED
        BY <1>2, <1>3, <2>2, <3>3, <4>1 DEF v, out
    <3>5. CASE Holds(w1.arena.challenger, s)
      <4> DEFINE t == UserAt(w1.arena.champion)
      <4>1. w2 = MatchEnd(w1, t, FALSE)
        BY <3>3, <3>5 DEF ChallengerForfeits, Seated, w2
      <4>2. Victor(w1.arena, t) = w1.arena.champion
        BY DEF Victor
      <4> HIDE DEF t
      <4>3. /\ Turned(w1, w2, D) /\ Seated(w2.arena) /\ w2.arena.champion = a.challenger
            /\ \/ w2.arena.challenger \in Rng(w1.arena.queue)
               \/ w1.arena.queue = <<>> /\ w2.arena.queue = <<>>
        BY <3>3, <4>1, <4>2, MatchEndIs DEF Turned
      <4>4. Rng(q) = {}
        BY <2>2, <3>3, <3>5 DEF Rng, out
      <4>5. Fair(w, w2)
        BY <4>4 DEF Fair
      <4>6. Len(w.rooms) <= Len(w2.rooms)
        BY <3>3, <4>3 DEF Turned, Good, Typed
      <4>7. LineOf(w2.arena) = LineOf(w1.arena)
        <5>1. w1.arena.queue = <<>>
          BY <3>3, <4>4
        <5>2. w2.arena.queue = <<>>
          BY <4>3, <5>1 DEF Rng
        <5>3. Rng(w1.arena.queue) = {} /\ Rng(w2.arena.queue) = {}
          BY <5>1, <5>2 DEF Rng
        <5>4. /\ Inside(w2.arena) = Inside(w1.arena) /\ Distinct(w1.arena) /\ Distinct(w2.arena)
              /\ Seated(w1.arena)
          BY <3>3, <4>3 DEF Turned, Good
        <5>5. w2.arena.challenger = w1.arena.challenger
          BY <3>3, <4>3, <5>3, <5>4 DEF Inside, Distinct, Seated
        <5> QED
          BY <3>3, <4>3, <5>1, <5>2, <5>5 DEF LineOf
      <4>8. Turned(w, w2, D)
        BY <3>3, <4>3, <4>5, <4>6, <4>7 DEF Turned
      <4> QED
        BY <1>2, <1>3, <2>2, <4>3, <4>8 DEF v, out
    <3> QED
      BY <3>4, <3>5
  <2>3. CASE ~Holds(a.champion, s) /\ out = {}
    <3> DEFINE u == UserAt(a.champion)
    <3>1. w1 = w
      BY <2>3 DEF ChampionForfeits
    <3>2. Victor(a, u) = a.champion
      BY DEF Victor
    <3>3. w2 = w \/ w2 = MatchEnd(w, u, FALSE)
      BY <3>1 DEF ChallengerForfeits, w2
    <3> HIDE DEF u
    <3>4. Turned(w, w2, D) /\ w2.arena.champion = a.champion
      BY <1>4, <1>6, <3>2, <3>3, MatchEndIs
    <3> QED
      BY <1>2, <1>3, <2>3, <3>4 DEF v, out
  <2>4. CASE out # {}
    BY <1>2, <2>4 DEF v, out
  <2> QED
    BY <2>2, <2>3, <2>4
<1> QED
  BY <1>5, <1>6 DEF Good

----------------------------------------------------------------------------
(* The inductive invariant.                                                *)

\* The variables outside the worlds.
Base ==
    /\ gone \in SUBSET Sockets /\ tracked \in SUBSET Sockets /\ joining \in [Sockets -> Nat]
    /\ entry \in Seq([user : Users, socket : Sockets])
    /\ cell \in [DOMAIN entry -> {None} \cup DOMAIN rooms]

IInv == Base /\ Good(World, DOMAIN entry) /\ Apart(arena) /\ Owned(DOMAIN entry)

LEMMA Ids == IInv => DOMAIN entry \in SUBSET (Nat \ {0}) /\ Len(entry) \in Nat
BY DEF IInv, Base

LEMMA WorldIs ==
    /\ World.arena = arena /\ World.rooms = rooms
    /\ World'.arena = arena' /\ World'.rooms = rooms'
    /\ Inside(arena) = Waiting \cup Playing
    /\ Inside(arena') = (Waiting \cup Playing)'
BY DEF World, Inside, Waiting, Playing, Rng

\* What the runs check follows from the invariant.
LEMMA IInvHolds == IInv => TypeOK /\ OneSeatPerUser /\ ArenaShape
<1> SUFFICES ASSUME IInv
             PROVE  TypeOK /\ OneSeatPerUser /\ ArenaShape
  OBVIOUS
<1> DEFINE D == DOMAIN entry
<1>1. /\ Base /\ Apart(arena) /\ rooms \in Seq(RoomOf(D)) /\ arena \in ArenaOf(D, DOMAIN rooms)
      /\ Distinct(arena) /\ (Idle(arena) \/ Seated(arena))
  BY WorldIs DEF IInv, Good, Typed
<1>2. D \in SUBSET (Nat \ {0})
  BY Ids
<1>3. TypeOK
  <2>1. RoomOf(D) \subseteq [seat : [Sides -> D], wins : [Sides -> 0..2], caught : BOOLEAN,
                             before : SUBSET Nat,
                             status : {"creating", "in_progress", "finalizing", "finalized", "failed"}]
    BY DEF RoomOf, Open
  <2>2. rooms \in Seq([seat : [Sides -> D], wins : [Sides -> 0..2], caught : BOOLEAN,
                       before : SUBSET Nat,
                       status : {"creating", "in_progress", "finalizing", "finalized", "failed"}])
    BY <1>1, <2>1, SeqMonotonic
  <2> QED
    BY <1>1, <2>2 DEF Base, ArenaOf, TypeOK
<1>4. OneSeatPerUser
  <2>1. \A k \in DOMAIN arena.queue : arena.queue[k] \in Inside(arena)
    BY DEF Inside, Rng
  <2>2. \A j, k \in DOMAIN arena.queue :
           UserAt(arena.queue[j]) = UserAt(arena.queue[k]) => j = k
    BY <1>1, <2>1 DEF Apart, Distinct, Once
  <2>3. \A e \in Waiting, p \in Playing : UserAt(e) # UserAt(p)
    <3>1. Waiting = Rng(arena.queue)
      BY DEF Waiting, Rng
    <3>2. \A p \in Playing : p \in Inside(arena) /\ p \notin Waiting
      BY <1>1, <3>1 DEF Playing, Inside, Distinct
    <3>3. \A e \in Waiting : e \in Inside(arena)
      BY <3>1 DEF Inside
    <3> QED
      BY <1>1, <3>2, <3>3 DEF Apart
  <2>4. None \in {arena.champion, arena.challenger}
          \/ UserAt(arena.champion) # UserAt(arena.challenger)
    BY <1>1 DEF Apart, Inside, Distinct
  <2> QED
    BY <2>2, <2>3, <2>4 DEF OneSeatPerUser
<1>5. ArenaShape
  BY <1>1 DEF ArenaShape, Idle, Seated, Playing
<1> QED
  BY <1>3, <1>4, <1>5

\* Any two worlds of which the second has the rooms of the first in another
\* status, and the arena of the first but for its current room.
LEMMA RoomsStepIs ==
    ASSUME NEW D \in SUBSET (Nat \ {0}), NEW w, Good(w, D), NEW b, NEW rs \in Seq(RoomOf(D)),
           Len(rs) = Len(w.rooms),
           b = w.arena \/ \E i \in DOMAIN w.rooms : b = [w.arena EXCEPT !.room = i]
    PROVE  LET v == [arena |-> b, rooms |-> rs] IN
           /\ Turned(w, v, D)
           /\ b.champion = w.arena.champion /\ b.challenger = w.arena.challenger
<1> DEFINE v == [arena |-> b, rooms |-> rs]
<1>1. /\ w.arena \in ArenaOf(D, DOMAIN w.rooms) /\ w.rooms \in Seq(RoomOf(D))
      /\ Distinct(w.arena) /\ (Idle(w.arena) \/ Seated(w.arena))
  BY DEF Good, Typed
<1>2. DOMAIN rs = DOMAIN w.rooms /\ Len(rs) <= Len(rs)
  BY <1>1
<1>3. b \in ArenaOf(D, DOMAIN rs)
  BY <1>1, <1>2 DEF ArenaOf
<1>4. /\ b.champion = w.arena.champion /\ b.challenger = w.arena.challenger
      /\ b.queue = w.arena.queue /\ b.inProgress = w.arena.inProgress
  BY <1>1 DEF ArenaOf
<1>5. v.arena = b /\ v.rooms = rs /\ v = [arena |-> v.arena, rooms |-> v.rooms]
  OBVIOUS
<1> HIDE DEF v
<1>6. Good(v, D)
  <2>1. Typed(v, D)
    BY <1>3, <1>5 DEF Typed
  <2>2. Distinct(v.arena) /\ (Idle(v.arena) \/ Seated(v.arena))
    BY <1>1, <1>4, <1>5 DEF Distinct, Idle, Seated
  <2> QED
    BY <2>1, <2>2 DEF Good
<1>7. Inside(v.arena) = Inside(w.arena)
  BY <1>4, <1>5 DEF Inside
<1>8. Fair(w, v)
  <2>1. w.arena.queue \in Seq(D) /\ Once(w.arena.queue)
    BY <1>1 DEF ArenaOf, Distinct
  <2>2. \A e, f : Before(w.arena.queue, e, f) => ~Before(w.arena.queue, f, e)
    BY <2>1, OnceOrder
  <2>3. DOMAIN v.rooms \ DOMAIN w.rooms = {}
    BY <1>2, <1>5
  <2> QED
    BY <1>4, <1>5, <2>2, <2>3 DEF Fair
<1>9. Turns(LineOf(w.arena), LineOf(v.arena))
  BY <1>4, <1>5 DEF LineOf, Turns
<1> QED
  BY <1>2, <1>4, <1>5, <1>6, <1>7, <1>8, <1>9 DEF Turned, v

----------------------------------------------------------------------------
(* The actions.  A step of the arena is orderly if it keeps the invariant, *)
(* is fair to those who wait, is a step of the line that was promised, and *)
(* loses nobody but the one who leaves.                                    *)

\* A step of the line, seen by users, or none.
Promised == Promise!Next \/ lineBar' = lineBar

Left == \E e \in Waiting, s \in Sockets :
            /\ Inside(arena) \subseteq Inside(arena') \cup {e}
            /\ owner[s] = UserAt(e) /\ (Leave(s) \/ Disconnect(s))

Orderly == IInv' /\ Fair(World, World') /\ Promised /\ (Inside(arena) \subseteq Inside(arena') \/ Left)

LEMMA BarIs ==
    /\ lineBar = Named(entry, LineOf(arena))
    /\ lineBar' = Named(entry', LineOf(arena'))
BY DEF lineBar, Line, LineOf, Named, UserAt

\* The line by entries and by users.
LEMMA BarType ==
    ASSUME IInv
    PROVE  LET x == LineOf(arena) IN
           /\ x \in Seq(DOMAIN entry) /\ x \in Seq(Inside(arena)) /\ Inside(arena) \subseteq DOMAIN entry
           /\ Len(lineBar) = Len(x) /\ DOMAIN lineBar = DOMAIN x
           /\ \A k \in DOMAIN x : lineBar[k] = UserAt(x[k])
<1> DEFINE D == DOMAIN entry
           x == LineOf(arena)
<1>1. x \in Seq(D) /\ x \in Seq(Inside(arena)) /\ Inside(arena) \subseteq D
  <2>1. Good(World, D) /\ World.arena = arena
    BY WorldIs DEF IInv
  <2> QED
    BY <2>1, LineType
<1>2. lineBar = Named(entry, x)
  BY BarIs
<1> HIDE DEF x
<1>3. NamedType(D, entry, x, lineBar) /\ NamedAll(entry, x, lineBar)
  BY <1>1, <1>2, NamedIs
<1>4. Len(lineBar) = Len(x) /\ DOMAIN lineBar = DOMAIN x
  BY <1>1, <1>3, SeqFacts DEF NamedType
<1>5. \A k \in DOMAIN x : lineBar[k] = UserAt(x[k])
  BY <1>3 DEF NamedAll, UserAt
<1> QED
  BY <1>1, <1>4, <1>5 DEF x

\* Somebody has lost, or nothing has happened.
LEMMA TurnsPromised ==
    ASSUME IInv, entry' = entry, Turns(LineOf(arena), LineOf(arena'))
    PROVE  Promised
<1> DEFINE D == DOMAIN entry
           x == LineOf(arena)
           y == LineOf(arena')
<1>1. /\ x \in Seq(D) /\ lineBar = Named(entry, x) /\ lineBar' = Named(entry, y)
      /\ Len(lineBar) = Len(x) /\ DOMAIN lineBar = DOMAIN x
  BY BarType, BarIs
<1> HIDE DEF x, y
<1>2. CASE y = x
  BY <1>1, <1>2 DEF Promised
<1>3. ASSUME Len(x) >= 2, NEW k \in {1, 2}, y = Turn(x, k)
      PROVE  Promised
  <2>1. lineBar' = Turn(lineBar, k)
    BY <1>1, <1>3, NamedTurn
  <2>2. k \in DOMAIN lineBar /\ Len(lineBar) >= 2
    BY <1>1, <1>3, SeqFacts
  <2>3. Promise!Lose(k)
    BY <2>1, <2>2 DEF Promise!Lose, Turn
  <2> QED
    BY <2>2, <2>3 DEF Promised, Promise!Next
<1> QED
  BY <1>2, <1>3 DEF Turns, x, y

\* Somebody has left.
LEMMA DepartsPromised ==
    ASSUME IInv, entry' = entry, Departs(LineOf(arena), LineOf(arena'))
    PROVE  Promised
<1> DEFINE D == DOMAIN entry
           x == LineOf(arena)
           y == LineOf(arena')
<1>1. /\ x \in Seq(D) /\ lineBar = Named(entry, x) /\ lineBar' = Named(entry, y)
      /\ Len(lineBar) = Len(x) /\ DOMAIN lineBar = DOMAIN x
  BY BarType, BarIs
<1>2. PICK m \in DOMAIN x : (Len(x) >= 2 => m > 2) /\ y = Cut(x, m)
  BY DEF Departs, Lacks
<1> HIDE DEF x, y
<1>3. lineBar' = Cut(lineBar, m)
  BY <1>1, <1>2, NamedCut
<1>4. Promise!Go(m)
  BY <1>1, <1>2, <1>3 DEF Promise!Go, Cut
<1> QED
  BY <1>1, <1>2, <1>4 DEF Promised, Promise!Next

\* The user u has come, who was not there, and has the entry e.
LEMMA ComesPromised ==
    ASSUME IInv, NEW u \in Users, NEW e, entry'[e].user = u,
           \A d \in DOMAIN entry : entry'[d] = entry[d],
           \A f \in Inside(arena) : UserAt(f) # u,
           LineOf(arena') = Append(LineOf(arena), e)
    PROVE  Promised
<1> DEFINE D == DOMAIN entry
           E == D \cup {e}
           x == LineOf(arena)
<1>1. /\ x \in Seq(D) /\ x \in Seq(Inside(arena))
      /\ lineBar = Named(entry, x) /\ lineBar' = Named(entry', LineOf(arena'))
      /\ DOMAIN lineBar = DOMAIN x /\ \A k \in DOMAIN x : lineBar[k] = UserAt(x[k])
  BY BarType, BarIs
<1>2. x \in Seq(E) /\ \A k \in DOMAIN x : x[k] \in D /\ x[k] \in Inside(arena)
  <2>1. D \subseteq E
    OBVIOUS
  <2> HIDE DEF x, E
  <2> QED
    BY <1>1, <2>1, SeqMonotonic, SeqFacts
<1> HIDE DEF x
<1>3. Named(entry', x) = Named(entry, x)
  BY <1>2 DEF Named
<1>4. Named(entry', Append(x, e)) = Append(Named(entry', x), entry'[e].user)
  <2> DEFINE en == entry'
  <2>1. e \in E
    OBVIOUS
  <2> HIDE DEF en, E
  <2>2. Named(en, Append(x, e)) = Append(Named(en, x), en[e].user)
    BY <1>2, <2>1, NamedAppend
  <2> QED
    BY <2>2 DEF en
<1>5. lineBar' = Append(lineBar, u)
  BY <1>1, <1>3, <1>4 DEF x
<1>6. u \notin Promise!Inside
  BY <1>1, <1>2 DEF Promise!Inside
<1>7. Promise!Come(u)
  BY <1>5, <1>6 DEF Promise!Come
<1> QED
  BY <1>7 DEF Promised, Promise!Next

\* The entries are the same and nobody has come: the rest of the invariant.
LEMMA Carry ==
    ASSUME IInv, entry' = entry,
           gone' \in SUBSET Sockets, tracked' \in SUBSET Sockets, joining' \in [Sockets -> Nat],
           cell' \in [DOMAIN entry -> {None} \cup DOMAIN rooms],
           Len(rooms) <= Len(rooms'),
           Good(World', DOMAIN entry), Inside(arena') \subseteq Inside(arena)
    PROVE  IInv'
<1>1. rooms \in Seq(RoomOf(DOMAIN entry)) /\ rooms' \in Seq(RoomOf(DOMAIN entry))
  BY WorldIs DEF IInv, Good, Typed
<1>2. DOMAIN rooms \subseteq DOMAIN rooms'
  BY <1>1
<1>3. Base'
  BY <1>2 DEF IInv, Base
<1>4. Apart(arena)'
  BY DEF IInv, Apart, UserAt
<1>5. Owned(DOMAIN entry)' /\ Good(World, DOMAIN entry)'
  BY DEF IInv, Owned
<1> QED
  BY <1>3, <1>4, <1>5 DEF IInv

\* A step between two worlds in which nobody comes or goes.
LEMMA TurnedIsOrderly ==
    ASSUME IInv, entry' = entry,
           gone' \in SUBSET Sockets, tracked' \in SUBSET Sockets, joining' \in [Sockets -> Nat],
           cell' \in [DOMAIN entry -> {None} \cup DOMAIN rooms],
           Turned(World, World', DOMAIN entry)
    PROVE  Orderly
<1>1. /\ Len(rooms) <= Len(rooms') /\ Good(World', DOMAIN entry)
      /\ Inside(arena') = Inside(arena) /\ Fair(World, World')
  BY WorldIs DEF Turned
<1>2. IInv'
  BY <1>1, Carry
<1>3. Promised
  BY TurnsPromised, WorldIs DEF Turned
<1> QED
  BY <1>1, <1>2, <1>3 DEF Orderly

\* A step that changes rooms, and of the arena only its current room.
LEMMA RoomsIsOrderly ==
    ASSUME IInv, entry' = entry,
           gone' \in SUBSET Sockets, tracked' \in SUBSET Sockets, joining' \in [Sockets -> Nat],
           cell' \in [DOMAIN entry -> {None} \cup DOMAIN rooms],
           rooms' \in Seq(RoomOf(DOMAIN entry)), Len(rooms') = Len(rooms),
           arena' = arena \/ \E i \in DOMAIN rooms : arena' = [arena EXCEPT !.room = i]
    PROVE  Orderly
<1> DEFINE D == DOMAIN entry
           v == [arena |-> arena', rooms |-> rooms']
<1>1. D \in SUBSET (Nat \ {0}) /\ Good(World, D)
  BY Ids DEF IInv
<1>2. Turned(World, v, D)
  <2>1. /\ Len(rooms') = Len(World.rooms)
        /\ arena' = World.arena \/ \E i \in DOMAIN World.rooms : arena' = [World.arena EXCEPT !.room = i]
    BY WorldIs
  <2>2. /\ Turned(World, v, D)
        /\ arena'.champion = World.arena.champion /\ arena'.challenger = World.arena.challenger
    BY <1>1, <2>1, RoomsStepIs
  <2> QED
    BY <2>2, WorldIs
<1>3. World' = v
  BY DEF World
<1> QED
  BY <1>2, <1>3, TurnedIsOrderly

LEMMA JoinStartStep == ASSUME IInv, NEW s \in Sockets, JoinStart(s) PROVE Orderly
<1>1. rooms \in Seq(RoomOf(DOMAIN entry))
  BY WorldIs DEF IInv, Good, Typed
<1>2. joining' \in [Sockets -> Nat]
  BY DEF IInv, Base, JoinStart
<1> QED
  BY <1>1, <1>2, RoomsIsOrderly DEF IInv, Base, JoinStart

LEMMA JoinFailsStep == ASSUME IInv, NEW s \in Sockets, JoinFails(s) PROVE Orderly
<1>1. rooms \in Seq(RoomOf(DOMAIN entry))
  BY WorldIs DEF IInv, Good, Typed
<1>2. joining' \in [Sockets -> Nat]
  BY DEF IInv, Base, JoinFails
<1> QED
  BY <1>1, <1>2, RoomsIsOrderly DEF IInv, Base, JoinFails

\* A room in another status.
LEMMA StatusIs ==
    ASSUME NEW D, NEW rs \in Seq(RoomOf(D)), NEW i \in DOMAIN rs, NEW x,
           [rs[i] EXCEPT !.status = x] \in RoomOf(D)
    PROVE  LET r == [rs EXCEPT ![i].status = x] IN r \in Seq(RoomOf(D)) /\ Len(r) = Len(rs)
<1> DEFINE g == [rs[i] EXCEPT !.status = x]
<1>1. g \in RoomOf(D) /\ DOMAIN rs = 1..Len(rs)
  BY SeqFacts
<1>2. [rs EXCEPT ![i].status = x] = [rs EXCEPT ![i] = g]
  OBVIOUS
<1> HIDE DEF g
<1> QED
  BY <1>1, <1>2

\* A match that is over.
LEMMA EndedIs ==
    ASSUME NEW D, NEW rs \in Seq(RoomOf(D)), NEW i \in DOMAIN rs, NEW x \in {"finalized", "failed"}
    PROVE  LET r == [rs EXCEPT ![i].status = x] IN r \in Seq(RoomOf(D)) /\ Len(r) = Len(rs)
<1>1. rs[i] \in RoomOf(D)
  BY SeqFacts
<1>2. [rs[i] EXCEPT !.status = x] \in RoomOf(D)
  BY <1>1 DEF RoomOf, Open
<1> QED
  BY <1>2, StatusIs

LEMMA StartDoneStep == ASSUME IInv, NEW i \in DOMAIN rooms, StartDone(i) PROVE Orderly
<1> DEFINE g == [rooms[i] EXCEPT !.status = "in_progress", !.before = Opened]
<1>1. /\ rooms \in Seq(RoomOf(DOMAIN entry)) /\ rooms[i] \in RoomOf(DOMAIN entry)
      /\ DOMAIN rooms = 1..Len(rooms)
  BY WorldIs, SeqFacts DEF IInv, Good, Typed
<1>2. Opened \in SUBSET Nat
  BY <1>1 DEF Opened
<1>3. g \in RoomOf(DOMAIN entry)
  BY <1>1, <1>2 DEF RoomOf, Open, StartDone
<1>4. rooms' = [rooms EXCEPT ![i] = g]
  BY DEF StartDone
<1> HIDE DEF g
<1>5. rooms' \in Seq(RoomOf(DOMAIN entry)) /\ Len(rooms') = Len(rooms)
  BY <1>1, <1>3, <1>4
<1> QED
  BY <1>5, RoomsIsOrderly DEF IInv, Base, StartDone

\* A player comes back: its object has another of its sockets, and that is all.
LEMMA ReconnectStep == ASSUME IInv, NEW s \in Sockets, Reconnect(s) PROVE Orderly
<1> DEFINE D == DOMAIN entry
           u == owner[s]
           l == LineOf(arena)
<1>1. /\ D \in SUBSET (Nat \ {0}) /\ Good(World, D) /\ rooms \in Seq(RoomOf(D))
      /\ entry \in Seq([user : Users, socket : Sockets])
  BY Ids, WorldIs DEF IInv, Base, Good, Typed
<1>2. PICK i \in ActiveRooms(u) : entry' = [entry EXCEPT ![SeatOf(i, u)].socket = s]
  BY DEF Reconnect
<1> DEFINE x == SeatOf(i, u)
<1>3. x \in D /\ UserAt(x) = u
  <2>1. i \in DOMAIN rooms /\ \E t \in Sides : UserAt(rooms[i].seat[t]) = u
    BY <1>2 DEF ActiveRooms
  <2>2. rooms[i].seat \in [Sides -> D]
    BY <1>1, <2>1, SeqFacts DEF RoomOf
  <2> QED
    BY <2>1, <2>2 DEF SeatOf, Sides
<1> HIDE DEF x
<1> DEFINE g == [entry[x] EXCEPT !.socket = s]
<1>4. /\ g \in [user : Users, socket : Sockets]
      /\ g.user = entry[x].user /\ g.socket = s
  <2> DEFINE Rec == [user : Users, socket : Sockets]
  <2>1. entry \in Seq(Rec)
    BY <1>1
  <2> HIDE DEF Rec
  <2>2. entry[x] \in Rec
    BY <2>1, <1>3, SeqFacts
  <2>3. entry[x] \in [user : Users, socket : Sockets]
    BY <2>2 DEF Rec
  <2> QED
    BY <2>3
<1>5. entry' = [entry EXCEPT ![x] = g]
  BY <1>2 DEF x
<1> HIDE DEF g
<1>6. entry' \in Seq([user : Users, socket : Sockets]) /\ DOMAIN entry' = D
  BY <1>1, <1>3, <1>4, <1>5
<1>7. \A e \in D : entry'[e].user = entry[e].user /\ entry'[e].socket \in {entry[e].socket, s}
      /\ (entry'[e].socket = entry[e].socket \/ e = x)
  BY <1>1, <1>3, <1>4, <1>5
<1>8. UNCHANGED <<gone, tracked, joining, cell, arena, rooms>> /\ World' = World
  BY DEF Reconnect, World
<1>9. l \in Seq(D) /\ Inside(arena) \subseteq D
  BY BarType
<1>10. IInv'
  <2>1. Base'
    BY <1>6, <1>8 DEF IInv, Base
  <2>2. Apart(arena)'
    BY <1>7, <1>8, <1>9 DEF IInv, Apart, UserAt
  <2>3. Owned(DOMAIN entry)'
    <3>1. \A e \in D : entry[e].user = owner[entry[e].socket]
      BY DEF IInv, Owned
    <3>2. entry'[x].user = u /\ entry'[x].socket = s
      BY <1>1, <1>3, <1>4, <1>5 DEF UserAt
    <3>3. \A e \in D : entry'[e].user = owner[entry'[e].socket]
      BY <1>7, <3>1, <3>2
    <3> QED
      BY <1>6, <3>3 DEF Owned
  <2>4. Good(World, DOMAIN entry)'
    BY <1>1, <1>6, <1>8
  <2> QED
    BY <2>1, <2>2, <2>3, <2>4 DEF IInv
<1>11. Fair(World, World')
  <2>1. Turned(World, [arena |-> arena, rooms |-> rooms], D)
    BY <1>1, WorldIs, RoomsStepIs
  <2> QED
    BY <1>8, <2>1 DEF Turned, World
<1>12. Promised
  <2>1. lineBar = Named(entry, l) /\ lineBar' = Named(entry', l)
    BY <1>8, BarIs
  <2>2. \A k \in DOMAIN l : l[k] \in D
    BY <1>9, SeqFacts
  <2> HIDE DEF l
  <2>3. Named(entry', l) = Named(entry, l)
    BY <1>7, <2>2 DEF Named
  <2> QED
    BY <2>1, <2>3 DEF Promised
<1> QED
  BY <1>8, <1>10, <1>11, <1>12 DEF Orderly

LEMMA EndsInPlace ==
    ASSUME IInv, NEW i \in DOMAIN rooms, NEW x \in {"finalized", "failed"},
           rooms' = [rooms EXCEPT ![i].status = x],
           UNCHANGED <<gone, tracked, joining, entry, cell, arena>>
    PROVE  Orderly
<1>1. rooms \in Seq(RoomOf(DOMAIN entry))
  BY WorldIs DEF IInv, Good, Typed
<1>2. rooms' \in Seq(RoomOf(DOMAIN entry)) /\ Len(rooms') = Len(rooms)
  BY <1>1, EndedIs
<1> QED
  BY <1>2, RoomsIsOrderly DEF IInv, Base

LEMMA RestartStep == Restart => IInv'
<1> SUFFICES ASSUME Restart
             PROVE  IInv'
  OBVIOUS
<1>1. /\ World' = [arena |-> EmptyArena, rooms |-> <<>>] /\ entry' = <<>> /\ arena' = EmptyArena
      /\ DOMAIN entry' = {}
  BY DEF Restart, World
<1>2. Inside(EmptyArena) = {}
  BY DEF Inside, EmptyArena, Rng
<1>3. Good([arena |-> EmptyArena, rooms |-> <<>>], {})
  BY DEF Good, Typed, ArenaOf, RoomOf, Distinct, Once, Rng, Idle, EmptyArena, None
<1>4. Base'
  BY <1>1 DEF Base, Restart
<1> QED
  BY <1>1, <1>2, <1>3, <1>4 DEF IInv, Apart, Owned

LEMMA StartFailsStep == ASSUME IInv, NEW i \in DOMAIN rooms, StartFails(i) PROVE Orderly \/ Restart
<1>1. CASE rooms[i].caught
  <2>1. /\ rooms' = [rooms EXCEPT ![i].status = "failed"]
        /\ UNCHANGED <<gone, tracked, joining, entry, cell, arena>>
    BY <1>1 DEF StartFails
  <2> QED
    BY <2>1, EndsInPlace
<1>2. CASE ~rooms[i].caught
  BY <1>2 DEF StartFails
<1> QED
  BY <1>1, <1>2

LEMMA OpponentIs == \A s \in Sides : Opponent(s) \in Sides /\ Opponent(s) # s
<1> SUFFICES ASSUME NEW s \in Sides
             PROVE  Opponent(s) \in Sides /\ Opponent(s) # s
  OBVIOUS
<1>1. \E t \in Sides : t # s
  BY DEF Sides
<1> QED
  BY <1>1 DEF Opponent

\* A round of a room that is played: nobody gets past two wins.
LEMMA RoundIs ==
    ASSUME NEW D, NEW g \in RoomOf(D), g.status = "in_progress",
           NEW wins, NEW result,
           wins = [s \in Sides |-> g.wins[s] + (IF s = result THEN 1 ELSE 0)],
           NEW status,
           status = IF MatchResult(wins["player1"], wins["player2"]).isComplete
                    THEN "finalizing" ELSE g.status
    PROVE  [g EXCEPT !.wins = wins, !.status = status] \in RoomOf(D)
<1>1. g.wins \in [Sides -> 0..1]
  BY DEF RoomOf, Open
<1>2. wins \in [Sides -> 0..2]
  BY <1>1
<1>3. status \in Open => status = "in_progress" /\ wins \in [Sides -> 0..1]
  <2> SUFFICES ASSUME status \in Open
               PROVE  status = "in_progress" /\ wins \in [Sides -> 0..1]
    OBVIOUS
  <2>1. ~MatchResult(wins["player1"], wins["player2"]).isComplete /\ status = "in_progress"
    BY DEF Open
  <2>2. ~(wins["player1"] >= 2) /\ ~(wins["player2"] >= 2)
    BY <2>1 DEF MatchResult
  <2>3. wins["player1"] \in 0..1 /\ wins["player2"] \in 0..1
    BY <1>2, <2>2 DEF Sides
  <2> QED
    BY <1>2, <2>1, <2>3 DEF Sides
<1>4. status \in {"finalizing", "in_progress"}
  OBVIOUS
<1> QED
  BY <1>2, <1>3, <1>4 DEF RoomOf, Open

LEMMA SubmitMoveStep ==
    ASSUME IInv, NEW i \in DOMAIN rooms, NEW e \in DOMAIN entry, SubmitMove(i, e)
    PROVE  Orderly
<1> DEFINE D == DOMAIN entry
           R == DOMAIN rooms
           o == OtherAt(i, e)
           g == rooms[i]
<1>1. /\ rooms \in Seq(RoomOf(D)) /\ g \in RoomOf(D) /\ cell \in [D -> {None} \cup R]
      /\ g.status = "in_progress"
  BY WorldIs, SeqFacts DEF IInv, Base, Good, Typed, SubmitMove, MayMove
<1>2. o \in D
  <2>1. SideAt(i, e) \in Sides
    BY DEF SubmitMove, MayMove, SideAt
  <2>2. g.seat \in [Sides -> D]
    BY <1>1 DEF RoomOf
  <2> QED
    BY <2>1, <2>2, OpponentIs DEF OtherAt
<1> HIDE DEF o
<1>3. UNCHANGED <<gone, tracked, joining, entry, arena>>
  BY DEF SubmitMove
<1>4. CASE FirstMove(i, e)
  <2>1. cell' \in [D -> {None} \cup R] /\ rooms' = rooms
    BY <1>1, <1>4 DEF FirstMove
  <2> QED
    BY <1>1, <1>3, <2>1, RoomsIsOrderly DEF IInv, Base
<1>5. ASSUME NEW result, SecondMove(i, e, result)
      PROVE  Orderly
  <2> DEFINE wins == [s \in Sides |-> g.wins[s] + (IF s = result THEN 1 ELSE 0)]
             over == MatchResult(wins["player1"], wins["player2"]).isComplete
             status == IF over THEN "finalizing" ELSE g.status
             h == [g EXCEPT !.wins = wins, !.status = status]
  <2>1. h \in RoomOf(D)
    BY <1>1, RoundIs
  <2>2. /\ cell' = IF over THEN [cell EXCEPT ![e] = i] ELSE [cell EXCEPT ![e] = None, ![o] = None]
        /\ rooms' = [rooms EXCEPT ![i].wins = wins,
                                  ![i].status = IF over THEN "finalizing" ELSE @]
    BY <1>5 DEF SecondMove, o
  <2> HIDE DEF over, wins
  <2>3. rooms' = [rooms EXCEPT ![i] = h]
    BY <2>2
  <2>4. cell' \in [D -> {None} \cup R]
    BY <1>1, <1>2, <2>2
  <2> HIDE DEF h
  <2>5. rooms' \in Seq(RoomOf(D)) /\ Len(rooms') = Len(rooms)
    BY <1>1, <2>1, <2>3
  <2> QED
    BY <1>3, <2>4, <2>5, RoomsIsOrderly DEF IInv, Base
<1> QED
  BY <1>4, <1>5 DEF SubmitMove

LEMMA BecomesIs == \A w, D : Becomes(w) /\ Typed(w, D) => World' = w
BY DEF Becomes, Typed, World

LEMMA NotifyMatchEndStep == ASSUME IInv, NEW i \in DOMAIN rooms, NotifyMatchEnd(i) PROVE Orderly
<1> DEFINE D == DOMAIN entry
           r == [rooms EXCEPT ![i].status = "finalized"]
           w == [arena |-> arena, rooms |-> r]
           v == MatchEnd(w, WinnerOf(i), TRUE)
           z == IF arena.room = i THEN v ELSE w
<1>1. D \in SUBSET (Nat \ {0}) /\ Good(World, D) /\ rooms \in Seq(RoomOf(D))
  BY Ids, WorldIs DEF IInv, Good, Typed
<1>2. r \in Seq(RoomOf(D)) /\ Len(r) = Len(rooms) /\ DOMAIN r = DOMAIN rooms
  <2>1. r \in Seq(RoomOf(D)) /\ Len(r) = Len(rooms)
    BY <1>1, EndedIs
  <2>2. DOMAIN r = DOMAIN rooms
    OBVIOUS
  <2> QED
    BY <2>1, <2>2
<1>3. Becomes(z) /\ UNCHANGED <<gone, tracked, joining, entry, cell>>
  <2>1. [World EXCEPT !.rooms[i].status = "finalized"] = w
    BY DEF World
  <2> QED
    BY <2>1 DEF NotifyMatchEnd
<1> HIDE DEF r
<1>4. Turned(World, w, D) /\ w.arena = arena /\ w.rooms = r
  <2>1. /\ Len(r) = Len(World.rooms)
        /\ arena = World.arena \/ \E k \in DOMAIN World.rooms : arena = [World.arena EXCEPT !.room = k]
    BY <1>2, WorldIs
  <2>2. /\ Turned(World, w, D)
        /\ arena.champion = World.arena.champion /\ arena.challenger = World.arena.challenger
    BY <1>1, <1>2, <2>1, RoomsStepIs
  <2> QED
    BY <2>2
<1> HIDE DEF w
<1>5. Turned(World, z, D)
  <2>1. CASE z = w
    BY <1>4, <2>1
  <2>2. CASE z = v /\ Seated(arena)
    <3>1. Turned(w, v, D)
      BY <1>1, <1>4, <2>2, MatchEndIs DEF Turned
    <3> HIDE DEF v, z
    <3>2. Fair(World, v)
      BY <1>2, <1>4, <3>1, WorldIs DEF Turned, Fair
    <3>3. Turned(World, v, D)
      BY <1>2, <1>4, <3>1, <3>2, WorldIs DEF Turned
    <3> QED
      BY <2>2, <3>3
  <2>3. CASE z = v /\ ~Seated(arena)
    <3>1. arena.champion = None
      BY <1>1, <2>3, WorldIs DEF Good, Idle
    <3>2. v = w
      BY <1>4, <3>1 DEF MatchEnd
    <3> QED
      BY <1>4, <2>3, <3>1, <3>2
  <2> QED
    BY <2>1, <2>2, <2>3
<1> HIDE DEF z
<1>6. World' = z
  BY <1>3, <1>5, BecomesIs DEF Turned, Good
<1> QED
  BY <1>3, <1>5, <1>6, TurnedIsOrderly DEF IInv, Base

LEMMA FinalizeStep == ASSUME IInv, NEW i \in DOMAIN rooms, Finalize(i) PROVE Orderly
<1>1. CASE FinalizePractice(i)
  BY <1>1, EndsInPlace DEF FinalizePractice
<1>2. CASE FinalizeFails(i)
  BY <1>2, EndsInPlace DEF FinalizeFails
<1>3. CASE NotifyMatchEnd(i)
  BY <1>3, NotifyMatchEndStep
<1> QED
  BY <1>1, <1>2, <1>3 DEF Finalize

\* Someone is taken out of the queue, by leaving or by the loss of a socket.
LEMMA CutIsOrderly ==
    ASSUME IInv, entry' = entry,
           gone' \in SUBSET Sockets, tracked' \in SUBSET Sockets, joining' \in [Sockets -> Nat],
           cell' \in [DOMAIN entry -> {None} \cup DOMAIN rooms],
           NEW k \in DOMAIN arena.queue, World' = Requeued(World, Cut(arena.queue, k)),
           NEW s \in Sockets, owner[s] = UserAt(arena.queue[k]), Leave(s) \/ Disconnect(s)
    PROVE  Orderly
<1> DEFINE D == DOMAIN entry
           v == Requeued(World, Cut(arena.queue, k))
<1>1. D \in SUBSET (Nat \ {0}) /\ Good(World, D)
  BY Ids DEF IInv
<1>2. /\ Good(v, D) /\ v.rooms = rooms
      /\ Inside(v.arena) = Inside(arena) \ {arena.queue[k]}
      /\ Fair(World, v)
      /\ Departs(LineOf(arena), LineOf(v.arena))
  <2> DEFINE u == Requeued(World, Cut(World.arena.queue, k))
  <2>1. k \in DOMAIN World.arena.queue
    BY WorldIs
  <2>2. /\ Good(u, D)
        /\ u.rooms = World.rooms
        /\ Inside(u.arena) = Inside(World.arena) \ {World.arena.queue[k]}
        /\ Fair(World, u)
        /\ Departs(LineOf(World.arena), LineOf(u.arena))
    BY <1>1, <2>1, CutIs
  <2>3. u = v
    BY WorldIs
  <2> HIDE DEF u, v
  <2> QED
    BY <2>2, <2>3, WorldIs
<1> HIDE DEF v
<1>3. /\ World' = v /\ v.arena = arena' /\ v.rooms = rooms'
      /\ Len(rooms) \in Nat /\ rooms' = rooms
  <2>1. World' = v
    BY DEF v
  <2> QED
    BY <1>1, <1>2, <2>1, WorldIs DEF Good, Typed
<1>4. IInv'
  <2>1. /\ Len(rooms) <= Len(rooms') /\ Good(World', D)
        /\ Inside(arena') \subseteq Inside(arena)
    BY <1>2, <1>3
  <2> QED
    BY <2>1, Carry
<1>5. Left
  <2>1. arena.queue[k] \in Waiting
    BY DEF Waiting
  <2>2. Inside(arena) \subseteq Inside(arena') \cup {arena.queue[k]}
    BY <1>2, <1>3
  <2> QED
    BY <2>1, <2>2 DEF Left
<1>6. Promised
  BY <1>2, <1>3, DepartsPromised
<1> QED
  BY <1>2, <1>3, <1>4, <1>5, <1>6 DEF Orderly

LEMMA LeaveStep == ASSUME IInv, NEW s \in Sockets, Leave(s) PROVE Orderly
<1> DEFINE D == DOMAIN entry
           q == arena.queue
           u == owner[s]
<1>1. q \in Seq(D) /\ rooms \in Seq(RoomOf(D)) /\ arena \in ArenaOf(D, DOMAIN rooms)
  BY WorldIs DEF IInv, Good, Typed, ArenaOf
<1>2. /\ arena' = [arena EXCEPT !.queue = Without(q, u)]
      /\ tracked' \in SUBSET Sockets
      /\ UNCHANGED <<gone, joining, entry, cell, rooms>>
  BY DEF Leave, IInv, Base
<1>3. CASE \A k \in DOMAIN q : UserAt(q[k]) # u
  <2>1. Without(q, u) = q
    BY <1>1, <1>3, WithoutNobody
  <2>2. arena' = arena
    BY <1>1, <1>2, <2>1 DEF ArenaOf
  <2> QED
    BY <1>1, <1>2, <2>2, RoomsIsOrderly DEF IInv, Base
<1>4. ASSUME NEW x \in DOMAIN q, UserAt(q[x]) = u
      PROVE  Orderly
  <2> DEFINE c == Cut(q, x)
  <2>1. Without(q, u) = c
    <3>1. \A k \in DOMAIN q : UserAt(q[k]) = UserAt(q[x]) => k = x
      BY IInvHolds DEF OneSeatPerUser
    <3> QED
      BY <1>1, <1>4, <3>1, WithoutOne
  <2> HIDE DEF c
  <2>2. arena' = [arena EXCEPT !.queue = c] /\ rooms' = rooms
    BY <1>2, <2>1
  <2>3. World' = Requeued(World, c)
    BY <2>2 DEF World, Requeued
  <2> QED
    BY <1>2, <1>4, <2>3, CutIsOrderly DEF IInv, Base, c
<1> QED
  BY <1>3, <1>4

LEMMA DisconnectStep == ASSUME IInv, NEW s \in Sockets, Disconnect(s) PROVE Orderly
<1> DEFINE D == DOMAIN entry
           q == arena.queue
           v == PlayerDisconnect(World, s)
           out == {k \in DOMAIN q : Holds(q[k], s)}
<1>1. /\ D \in SUBSET (Nat \ {0}) /\ Good(World, D) /\ Apart(World.arena) /\ Owned(D)
      /\ rooms \in Seq(RoomOf(D)) /\ q \in Seq(D)
  BY Ids, WorldIs DEF IInv, Good, Typed, ArenaOf
<1>2. /\ gone' \in SUBSET Sockets /\ tracked' \in SUBSET Sockets
      /\ UNCHANGED <<joining, entry, cell>>
  BY DEF Disconnect, IInv, Base
<1>3. CASE s \notin tracked
  <2>1. UNCHANGED <<arena, rooms>>
    BY <1>3 DEF Disconnect
  <2> QED
    BY <1>1, <1>2, <2>1, RoomsIsOrderly DEF IInv, Base
<1>4. CASE s \in tracked
  <2>1. Becomes(v)
    BY <1>4 DEF Disconnect, Forfeit
  <2> HIDE DEF v
  <2>2. /\ out # {} => \E k \in out : v = Requeued(World, Cut(q, k))
        /\ out = {} => /\ Turned(World, v, D)
                       /\ Seated(arena) => v.arena.champion = IF Holds(arena.champion, s)
                                                              THEN arena.challenger
                                                              ELSE arena.champion
    BY <1>1, DisconnectIs, WorldIs DEF v
  <2>3. CASE out # {}
    <3>1. PICK k \in out : v = Requeued(World, Cut(q, k))
      BY <2>2, <2>3
    <3>2. k \in DOMAIN q /\ q[k] \in D /\ owner[s] = UserAt(q[k])
      BY <1>1 DEF Owned, Holds, UserAt
    <3>3. Typed(v, D)
      BY <1>1, <3>1, <3>2, CutIs, WorldIs DEF Good
    <3>4. World' = Requeued(World, Cut(q, k))
      BY <2>1, <3>1, <3>3, BecomesIs
    <3> QED
      BY <1>2, <3>2, <3>4, CutIsOrderly DEF IInv, Base
  <2>4. CASE out = {}
    <3>1. World' = v
      BY <2>1, <2>2, <2>4, BecomesIs DEF Turned, Good
    <3> QED
      BY <1>2, <2>2, <2>4, <3>1, TurnedIsOrderly DEF IInv, Base
  <2> QED
    BY <2>3, <2>4
<1> QED
  BY <1>3, <1>4

LEMMA LongerIs ==
    ASSUME NEW n \in Nat, NEW S, NEW f \in [1..n -> S], NEW c \in S
    PROVE  Append(f, c) \in [(1..n) \cup {n + 1} -> S]
<1> DEFINE g == Append(f, c)
<1>1. f \in Seq(S) /\ Len(f) = n
  OBVIOUS
<1>2. g \in Seq(S) /\ Len(g) = n + 1
  BY <1>1, AppendProperties
<1>3. 1..(n + 1) = (1..n) \cup {n + 1}
  OBVIOUS
<1> HIDE DEF g
<1>4. g \in [1..(n + 1) -> S]
  BY <1>2
<1> QED
  BY <1>3, <1>4 DEF g

\* The late half of a join: the entry is new, and its user is not in the arena.
LEMMA JoinStep == ASSUME IInv, NEW s \in Sockets, Join(s) PROVE Orderly
<1> DEFINE D == DOMAIN entry
           q == arena.queue
           x == Len(entry) + 1
           E == D \cup {x}
           v == TryStart(Requeued(World, Append(q, x)), TRUE)
<1>1. /\ D \in SUBSET (Nat \ {0}) /\ Good(World, D)
      /\ rooms \in Seq(RoomOf(D)) /\ q \in Seq(D) /\ arena \in ArenaOf(D, DOMAIN rooms)
      /\ Len(entry) \in Nat /\ D = 1..Len(entry) /\ Base
  BY Ids, WorldIs, SeqFacts DEF IInv, Base, Good, Typed, ArenaOf
<1>2. gone' = gone /\ joining' \in [Sockets -> Nat]
  BY <1>1 DEF Base, Join
<1>3. CASE AlreadyIn(owner[s])
  <2>1. UNCHANGED <<tracked, entry, cell, arena, rooms>>
    BY <1>3 DEF Join
  <2> QED
    BY <1>1, <1>2, <2>1, RoomsIsOrderly DEF Base
<1>4. CASE ~AlreadyIn(owner[s])
  <2> DEFINE n == [user |-> owner[s], socket |-> s]
  <2>1. /\ entry' = Append(entry, n) /\ cell' = Append(cell, None)
        /\ tracked' = tracked \cup {s} /\ Becomes(v)
    <3>1. [World EXCEPT !.arena.queue = Append(@, x)] = Requeued(World, Append(q, x))
      BY DEF World, Requeued
    <3> QED
      BY <1>4, <3>1 DEF Join
  <2> HIDE DEF v
  <2>2. E \in SUBSET (Nat \ {0}) /\ x \in E /\ Good(World, E) /\ x \notin D
    BY <1>1, Widen
  <2>3. \A e \in Inside(arena) : e \in D /\ UserAt(e) # owner[s]
    <3>1. Inside(arena) \subseteq D
      BY <1>1 DEF Inside, Rng, ArenaOf
    <3> QED
      BY <1>4, <3>1, WorldIs DEF AlreadyIn
  <2>4. /\ Good(v, E)
        /\ Inside(v.arena) = Inside(arena) \cup {x}
        /\ LineOf(v.arena) = Append(LineOf(arena), x)
        /\ Len(rooms) <= Len(v.rooms)
        /\ Fair(World, v)
    <3> DEFINE u == TryStart(Requeued(World, Append(World.arena.queue, x)), TRUE)
    <3>1. x \notin Inside(World.arena) /\ TRUE \in BOOLEAN
      BY <2>2, <2>3, WorldIs
    <3> HIDE DEF x, E
    <3>2. /\ Good(u, E)
          /\ Inside(u.arena) = Inside(World.arena) \cup {x}
          /\ LineOf(u.arena) = Append(LineOf(World.arena), x)
          /\ Len(World.rooms) <= Len(u.rooms)
          /\ Fair(World, u)
      BY <2>2, <3>1, JoinIs
    <3>3. u = v
      BY WorldIs DEF v
    <3> HIDE DEF u
    <3> QED
      BY <3>2, <3>3, WorldIs
  <2>5. World' = v /\ v.arena = arena' /\ v.rooms = rooms'
    BY <2>1, <2>4, BecomesIs, WorldIs DEF Good
  <2>6. /\ n \in [user : Users, socket : Sockets] /\ n.user = owner[s] /\ n.socket = s
    BY SquadArenaAssumption
  <2> HIDE DEF n
  <2>7. /\ entry' \in Seq([user : Users, socket : Sockets]) /\ DOMAIN entry' = E
        /\ entry'[x] = n /\ \A e \in D : entry'[e] = entry[e]
    BY <1>1, <2>1, <2>6 DEF Base
  <2>8. cell' \in [E -> {None} \cup DOMAIN rooms']
    <3>1. DOMAIN rooms \subseteq DOMAIN rooms'
      BY <1>1, <2>4, <2>5 DEF Good, Typed
    <3>2. cell \in [1..Len(entry) -> {None} \cup DOMAIN rooms']
      BY <1>1, <3>1 DEF Base
    <3> QED
      BY <1>1, <2>1, <3>2, LongerIs
  <2>9. Base'
    BY <1>1, <1>2, <2>1, <2>7, <2>8 DEF Base
  <2>10. Apart(arena)'
    <3> SUFFICES ASSUME NEW e \in Inside(arena) \cup {x}, NEW f \in Inside(arena) \cup {x},
                        entry'[e].user = entry'[f].user
                 PROVE  e = f
      BY <2>4, <2>5 DEF Apart, UserAt
    <3>1. entry'[x].user = owner[s]
      BY <2>6, <2>7
    <3>2. \A g \in Inside(arena) : entry'[g].user = UserAt(g) /\ UserAt(g) # owner[s]
      BY <2>3, <2>7 DEF UserAt
    <3> QED
      BY <3>1, <3>2 DEF IInv, Apart
  <2>11. Owned(DOMAIN entry)'
    BY <2>6, <2>7 DEF IInv, Owned
  <2>12. IInv'
    BY <2>4, <2>5, <2>7, <2>9, <2>10, <2>11 DEF IInv
  <2>13. Promised
    <3>1. owner[s] \in Users /\ entry'[x].user = owner[s]
      BY <2>6, <2>7, SquadArenaAssumption
    <3>2. LineOf(arena') = Append(LineOf(arena), x)
      BY <2>4, <2>5
    <3> HIDE DEF x
    <3> QED
      BY <2>3, <2>7, <3>1, <3>2, ComesPromised
  <2> QED
    BY <2>4, <2>5, <2>12, <2>13 DEF Orderly
<1> QED
  BY <1>3, <1>4

LEMMA StutterStep == IInv /\ UNCHANGED vars => Orderly
<1>1. IInv => rooms \in Seq(RoomOf(DOMAIN entry))
  BY WorldIs DEF IInv, Good, Typed
<1> QED
  BY <1>1, RoomsIsOrderly DEF vars, IInv, Base

\* Every step is orderly but the crash.
LEMMA NextStep == IInv /\ [Next]_vars => Orderly \/ Restart
<1> SUFFICES ASSUME IInv, [Next]_vars
             PROVE  Orderly \/ Restart
  OBVIOUS
<1>1. ASSUME NEW s \in Sockets, JoinStart(s) \/ JoinFails(s) \/ Join(s) \/ Leave(s) \/ Disconnect(s)
      PROVE  Orderly
  BY <1>1, JoinStartStep, JoinFailsStep, JoinStep, LeaveStep, DisconnectStep
<1>2. ASSUME NEW i \in DOMAIN rooms, StartDone(i) \/ StartFails(i) \/ Finalize(i)
      PROVE  Orderly \/ Restart
  BY <1>2, StartDoneStep, StartFailsStep, FinalizeStep
<1>3. ASSUME NEW i \in DOMAIN rooms, NEW e \in DOMAIN entry, SubmitMove(i, e)
      PROVE  Orderly
  BY <1>3, SubmitMoveStep
<1>4. ASSUME NEW s \in Sockets, Reconnect(s)
      PROVE  Orderly
  BY <1>4, ReconnectStep
<1>5. CASE UNCHANGED vars
  BY <1>5, StutterStep
<1> QED
  BY <1>1, <1>2, <1>3, <1>4, <1>5 DEF Next

----------------------------------------------------------------------------
(* The theorems.                                                           *)

\* The arena keeps the inductive invariant: it starts empty, and every step is
\* orderly or takes it back to where it started.
THEOREM Inductive == Spec => []IInv
<1>1. Init => IInv
  <2> SUFFICES ASSUME Init
               PROVE  IInv
    OBVIOUS
  <2>1. /\ World = [arena |-> EmptyArena, rooms |-> <<>>] /\ entry = <<>> /\ arena = EmptyArena
        /\ DOMAIN entry = {}
    BY DEF Init, World
  <2>2. Inside(EmptyArena) = {}
    BY DEF Inside, EmptyArena, Rng
  <2>3. Good([arena |-> EmptyArena, rooms |-> <<>>], {})
    BY DEF Good, Typed, ArenaOf, RoomOf, Distinct, Once, Rng, Idle, EmptyArena, None
  <2>4. Base
    BY <2>1 DEF Base, Init
  <2> QED
    BY <2>1, <2>2, <2>3, <2>4 DEF IInv, Apart, Owned
<1>2. IInv /\ [Next]_vars => IInv'
  BY NextStep, RestartStep DEF Orderly
<1> QED
  BY <1>1, <1>2, PTL DEF Spec

\* Every queue, seat and current room refers to an entry and a room that exist,
\* and nobody gets past two wins.
THEOREM TypeCorrect == Spec => []TypeOK
BY Inductive, IInvHolds, PTL

\* Nobody is in the arena twice, however many sockets a user joins from and
\* however the answers of the database come in.
THEOREM OneSeat == Spec => []OneSeatPerUser
BY Inductive, IInvHolds, PTL

\* Between two steps the arena is at rest with at most one who waits, or it has
\* a champion, a challenger and a match.
THEOREM ArenaIsShaped == Spec => []ArenaShape
BY Inductive, IInvHolds, PTL

\* Nobody drops out of the arena but from the queue, by its own doing.
THEOREM NobodyIsLost == Spec => NobodyVanishes
<1>1. IInv /\ [Next]_vars =>
        [\A e \in Waiting \cup Playing :
            \/ e \in (Waiting \cup Playing)'
            \/ e \in Waiting /\ \E s \in Sockets : owner[s] = UserAt(e) /\ (Leave(s) \/ Disconnect(s))
            \/ Restart]_vars
  <2> SUFFICES ASSUME IInv, [Next]_vars, NEW e \in Waiting \cup Playing, ~Restart
               PROVE  \/ e \in (Waiting \cup Playing)'
                      \/ /\ e \in Waiting
                         /\ \E s \in Sockets : owner[s] = UserAt(e) /\ (Leave(s) \/ Disconnect(s))
    OBVIOUS
  <2>1. Inside(arena) \subseteq Inside(arena') \/ Left
    BY NextStep DEF Orderly
  <2> QED
    BY <2>1, WorldIs DEF Left
<1> QED
  BY <1>1, Inductive, PTL DEF Spec, NobodyVanishes

\* First come, first served, through joins, departures, match ends and forfeits.
THEOREM TheQueueIsFair == Spec => QueueIsFair
<1>1. IInv /\ [Next]_vars =>
        [\A e \in Waiting :
            /\ \A f \in Waiting : Before(arena.queue, e, f) => ~Before(arena'.queue, f, e)
            /\ e \in Waiting' => \A i \in DOMAIN rooms' \ DOMAIN rooms :
                                    Before(arena.queue, rooms'[i].seat["player2"], e)]_vars
  <2> SUFFICES ASSUME IInv, [Next]_vars, NEW e \in Waiting
               PROVE  /\ \A f \in Waiting :
                            Before(arena.queue, e, f) => ~Before(arena'.queue, f, e)
                      /\ e \in Waiting' => \A i \in DOMAIN rooms' \ DOMAIN rooms :
                                              Before(arena.queue, rooms'[i].seat["player2"], e)
    OBVIOUS
  <2>1. Waiting = Rng(arena.queue) /\ Waiting' = Rng(arena'.queue)
    BY DEF Waiting, Rng
  <2>2. CASE Orderly
    BY <2>1, <2>2, WorldIs DEF Orderly, Fair
  <2>3. CASE Restart
    <3>1. arena'.queue = <<>>
      BY <2>3 DEF Restart, EmptyArena
    <3>2. Waiting' = {} /\ \A f : ~Before(arena'.queue, f, e)
      BY <2>1, <3>1 DEF Rng, Before
    <3> QED
      BY <3>2
  <2> QED
    BY <2>2, <2>3, NextStep
<1> QED
  BY <1>1, Inductive, PTL DEF Spec, QueueIsFair

\* Seen by users, the arena is one line in which the first two play and the
\* loser of a match goes to the end.
THEOREM Refinement == Spec => ImplementsKingOfTheHill
<1>1. Init => Promise!Init
  <2> SUFFICES ASSUME Init
               PROVE  Promise!Init
    OBVIOUS
  <2>1. Line = <<>>
    BY ConcatEmptySeq DEF Init, EmptyArena, Line
  <2> QED
    BY <2>1 DEF lineBar, Promise!Init
<1>2. IInv /\ [Next]_vars => [Promise!Next]_lineBar
  <2> SUFFICES ASSUME IInv, [Next]_vars
               PROVE  Promise!Next \/ lineBar' = lineBar
    OBVIOUS
  <2>1. CASE Orderly
    BY <2>1 DEF Orderly, Promised
  <2>2. CASE Restart
    <3>1. Line' = <<>>
      BY <2>2, ConcatEmptySeq DEF Restart, EmptyArena, Line
    <3>2. lineBar' = <<>>
      BY <3>1 DEF lineBar
    <3> QED
      BY <3>2 DEF Promise!Next, Promise!Close
  <2> QED
    BY <2>1, <2>2, NextStep
<1> QED
  BY <1>1, <1>2, Inductive, PTL DEF Spec, ImplementsKingOfTheHill, Promise!Spec

\* When the socket in a seat disconnects and is tracked, its player loses the
\* match and its opponent has the throne, whatever game:reconnect did before.
THEOREM QuittersLose == Spec => QuitterLoses
<1>1. IInv /\ [Next]_vars =>
        [\A s \in tracked, e \in Playing :
            Holds(e, s) /\ Disconnect(s) => arena'.champion \in Playing \ {e}]_vars
  <2> SUFFICES ASSUME IInv, NEW s \in tracked, NEW e \in Playing, Holds(e, s), Disconnect(s)
               PROVE  arena'.champion \in Playing \ {e}
    OBVIOUS
  <2> DEFINE D == DOMAIN entry
             q == arena.queue
             v == PlayerDisconnect(World, s)
             out == {k \in DOMAIN q : Holds(q[k], s)}
  <2>1. /\ D \in SUBSET (Nat \ {0}) /\ Good(World, D) /\ Apart(World.arena) /\ Owned(D)
        /\ q \in Seq(D) /\ arena \in ArenaOf(D, DOMAIN rooms) /\ Distinct(arena)
    BY Ids, WorldIs DEF IInv, Good, Typed, ArenaOf
  <2>2. e \in D /\ e \in Inside(arena) /\ e \notin Rng(q) /\ UserAt(e) = owner[s]
    BY <2>1 DEF Playing, ArenaOf, Inside, Distinct, Owned, Holds, UserAt
  <2>3. \A f \in Inside(arena) : f \in D /\ Holds(f, s) => f = e
    BY <2>1, <2>2, WorldIs DEF Apart, Owned, Holds, UserAt
  <2>4. out = {}
    <3> SUFFICES ASSUME NEW k \in DOMAIN q, Holds(q[k], s)
                 PROVE  FALSE
      OBVIOUS
    <3>1. q[k] \in D /\ q[k] \in Rng(q) /\ q[k] \in Inside(arena)
      BY <2>1 DEF Rng, Inside
    <3> QED
      BY <2>2, <2>3, <3>1
  <2>5. Seated(arena)
    BY <2>1, WorldIs DEF Good, Idle, Playing
  <2>6. Becomes(v)
    BY DEF Disconnect, Forfeit
  <2> HIDE DEF v
  <2>7. v.arena.champion = IF Holds(arena.champion, s) THEN arena.challenger ELSE arena.champion
    BY <2>1, <2>4, <2>5, DisconnectIs, WorldIs DEF v
  <2>8. arena'.champion = v.arena.champion
    BY <2>6 DEF Becomes
  <2>9. /\ arena.champion \in D /\ arena.champion \in Inside(arena)
        /\ arena.challenger # arena.champion
        /\ arena.champion \in Playing /\ arena.challenger \in Playing
        /\ e = arena.champion \/ e = arena.challenger
    BY <2>1, <2>5 DEF Seated, Playing, ArenaOf, Inside, Distinct
  <2> QED
    BY <2>3, <2>7, <2>8, <2>9
<1> QED
  BY <1>1, Inductive, PTL DEF Spec, QuitterLoses

=============================================================================
