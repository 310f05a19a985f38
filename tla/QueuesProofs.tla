---------------------------- MODULE QueuesProofs ----------------------------
(***************************************************************************)
(* The queues of the two processes, for any lengths and limits:            *)
(*   - the engine's LineBuffers and the ByteBudget they share: no byte     *)
(*     leaks, no limit is passed, and each buffer is a Backlog;            *)
(*   - chunked uploads: what is handed on is the file as sent, once, and   *)
(*     an open session keeps its bytes, whatever else works on it;         *)
(*   - the walks through the network's history: none is left over.         *)
(* The three share no variable: each part has an invariant of its own.     *)
(***************************************************************************)
EXTENDS LineBuffer, Uploads, Chathistory, SequenceTheorems, WellFoundedInduction, TLAPS

-----------------------------------------------------------------------------
(* Loops and sums.                                                         *)

\* What holds at 0 and is handed on by each number holds up to n.
LEMMA Climb ==
    ASSUME NEW n \in Nat, NEW S, 0 \in S, \A i \in 0 .. n - 1 : i \in S => i + 1 \in S
    PROVE  \A i \in 0 .. n : i \in S
<1> DEFINE T == {i \in 0 .. n : i \notin S}
<1>1. CASE T = {}
  BY <1>1
<1>2. CASE T # {}
  <2>1. T \subseteq Nat
    OBVIOUS
  <2>2. IsWellFoundedOn(OpToRel(<, Nat), Nat)
    BY NatLessThanWellFounded
  <2>3. PICK x \in T : \A y \in T : ~(<<y, x>> \in OpToRel(<, Nat))
    BY <1>2, <2>1, <2>2, WFMin
  <2>r. OpToRel(<, Nat) = {r \in Nat \X Nat : r[1] < r[2]}
    BY Zenon DEF OpToRel
  <2>4. \A y \in T : ~(y < x)
    <3>1. \A y \in T : ~(<<y, x>> \in {r \in Nat \X Nat : r[1] < r[2]})
      BY <2>3, <2>r, Zenon
    <3>2. \A y \in T : <<y, x>> \in Nat \X Nat
      OBVIOUS
    <3> QED BY <3>1, <3>2
  <2>x. x \in 0 .. n /\ x \notin S
    BY <2>3
  <2>n. x # 0
    BY <2>x
  <2>5. x - 1 \in 0 .. n - 1 /\ x - 1 \in 0 .. n /\ (x - 1) + 1 = x /\ x - 1 < x
    BY ONLY n \in Nat, x \in 0 .. n, x # 0, <2>x, <2>n
  <2>6. x - 1 \notin T
    BY <2>4, <2>5
  <2> QED BY <2>x, <2>5, <2>6
<1> QED BY <1>1, <1>2

CanRun(M, F, m, n) == \E it \in [0 .. n -> M] :
                         /\ it[0] = m
                         /\ \A i \in 1 .. n : it[i] = F[it[i - 1]]

\* A loop that stays within M can be run n times.
LEMMA Runs ==
    ASSUME NEW M, NEW F \in [M -> M], NEW m \in M, NEW n \in Nat
    PROVE  CanRun(M, F, m, n)
<1> DEFINE Good(k) == \E it \in [0 .. k -> M] :
                         it[0] = m /\ \A i \in 1 .. k : it[i] = F[it[i - 1]]
           S == {k \in 0 .. n : Good(k)}
<1>1. 0 \in S
  <2> DEFINE it == [i \in 0 .. 0 |-> m]
  <2>1. it \in [0 .. 0 -> M] /\ it[0] = m /\ \A i \in 1 .. 0 : it[i] = F[it[i - 1]]
    OBVIOUS
  <2> HIDE DEF it
  <2>2. Good(0)
    BY <2>1
  <2> QED BY <2>2
<1>2. ASSUME NEW k \in 0 .. n - 1, k \in S PROVE k + 1 \in S
  <2>1. PICK it \in [0 .. k -> M] : it[0] = m /\ \A i \in 1 .. k : it[i] = F[it[i - 1]]
    BY <1>2
  <2> DEFINE r == [i \in 0 .. k + 1 |-> IF i = k + 1 THEN F[it[k]] ELSE it[i]]
  <2>2. r \in [0 .. k + 1 -> M]
    BY <2>1
  <2>3. r[0] = m /\ r[k + 1] = F[it[k]] /\ \A i \in 0 .. k : r[i] = it[i]
    BY <2>1
  <2> HIDE DEF r
  <2>4. ASSUME NEW i \in 1 .. k + 1 PROVE r[i] = F[r[i - 1]]
    <3>1. CASE i = k + 1
      BY <2>3, <3>1
    <3>2. CASE i # k + 1
      <4>1. i \in 1 .. k /\ i \in 0 .. k /\ i - 1 \in 0 .. k
        BY <3>2
      <4> QED BY <2>1, <2>3, <4>1
    <3> QED BY <3>1, <3>2
  <2>5. Good(k + 1)
    BY <2>2, <2>3, <2>4
  <2> QED BY <2>5
<1> HIDE DEF Good
<1>3. \A k \in 0 .. n : k \in S
  <2> HIDE DEF S
  <2> QED BY <1>1, <1>2, Climb
<1>4. Good(n)
  BY <1>3
<1> QED BY <1>4 DEF Good, CanRun

\* The sum of a sequence, by the sums of its beginnings.
Sums(f, s) == /\ s \in [0 .. Len(f) -> Int] /\ s[0] = 0
              /\ \A i \in 1 .. Len(f) : s[i] = s[i - 1] + f[i]

\* There are such sums.
LEMMA SumsExist ==
    ASSUME NEW f \in Seq(Int)
    PROVE  \E s : Sums(f, s)
<1> DEFINE Good(k) == \E s \in [0 .. k -> Int] :
                         s[0] = 0 /\ \A i \in 1 .. k : s[i] = s[i - 1] + f[i]
           n == Len(f)
           S == {k \in 0 .. n : Good(k)}
<1>0. n \in Nat /\ \A i \in 1 .. n : f[i] \in Int
  BY LenProperties, ElementOfSeq
<1> HIDE DEF n
<1>1. 0 \in S
  <2> DEFINE s == [i \in 0 .. 0 |-> 0]
  <2>1. s \in [0 .. 0 -> Int] /\ s[0] = 0 /\ \A i \in 1 .. 0 : s[i] = s[i - 1] + f[i]
    OBVIOUS
  <2> HIDE DEF s
  <2>2. Good(0)
    BY <2>1
  <2> QED BY <1>0, <2>2
<1>2. ASSUME NEW k \in 0 .. n - 1, k \in S PROVE k + 1 \in S
  <2>1. PICK s \in [0 .. k -> Int] : s[0] = 0 /\ \A i \in 1 .. k : s[i] = s[i - 1] + f[i]
    BY <1>2
  <2> DEFINE r == [i \in 0 .. k + 1 |-> IF i = k + 1 THEN s[k] + f[k + 1] ELSE s[i]]
  <2>0. k \in Nat /\ k + 1 \in 1 .. n /\ s[k] + f[k + 1] \in Int
    BY <1>0, <2>1
  <2>2. r \in [0 .. k + 1 -> Int]
    BY <2>0, <2>1
  <2>3. r[0] = 0 /\ r[k + 1] = s[k] + f[k + 1] /\ \A i \in 0 .. k : r[i] = s[i]
    BY <2>0, <2>1
  <2> HIDE DEF r
  <2>4. ASSUME NEW i \in 1 .. k + 1 PROVE r[i] = r[i - 1] + f[i]
    <3>1. CASE i = k + 1
      BY <2>0, <2>3, <3>1
    <3>2. CASE i # k + 1
      <4>1. i \in 1 .. k /\ i \in 0 .. k /\ i - 1 \in 0 .. k
        BY <2>0, <3>2
      <4> QED BY <2>1, <2>3, <4>1
    <3> QED BY <3>1, <3>2
  <2>5. Good(k + 1)
    BY <2>2, <2>3, <2>4
  <2>6. k + 1 \in 0 .. n
    BY <2>0
  <2> QED BY ONLY <2>5, <2>6
<1> HIDE DEF Good
<1>3. \A k \in 0 .. n : k \in S
  <2> HIDE DEF S
  <2> QED BY <1>0, <1>1, <1>2, Climb
<1>4. Good(n)
  BY <1>0, <1>3
<1> QED BY <1>4 DEF Good, Sums, n

\* There is one only, and its last is the total.
LEMMA SumsAreTotal ==
    ASSUME NEW f \in Seq(Int), NEW s, Sums(f, s)
    PROVE  Total(f) = s[Len(f)]
<1> DEFINE n == Len(f)
           G(r) == r = [i \in 0 .. n |-> IF i = 0 THEN 0 ELSE r[i - 1] + f[i]]
<1>0. n \in Nat
  BY LenProperties
<1>1. s = [i \in 0 .. n |-> IF i = 0 THEN 0 ELSE s[i - 1] + f[i]]
  <2>1. \A i \in 0 .. n : i # 0 => i \in 1 .. n
    BY <1>0
  <2> QED BY <2>1 DEF Sums
<1>2. PICK r : G(r) /\ Total(f) = r[n]
  <2>1. \E r : r = [i \in 0 .. n |-> IF i = 0 THEN 0 ELSE r[i - 1] + f[i]]
    BY <1>1
  <2>2. \E r : r = [i \in 0 .. n |-> IF i = 0 THEN 0 ELSE r[i - 1] + f[i]] /\ Total(f) = r[n]
    BY <2>1, Zenon DEF Total
  <2> QED BY <2>2
<1>3. r[0] = 0 /\ \A i \in 1 .. n : r[i] = r[i - 1] + f[i]
  <2>1. \A i \in 0 .. n : r[i] = IF i = 0 THEN 0 ELSE r[i - 1] + f[i]
    BY <1>2
  <2>2. 0 \in 0 .. n /\ \A i \in 1 .. n : i \in 0 .. n /\ i # 0
    BY <1>0
  <2> QED BY <2>1, <2>2
<1> DEFINE S == {i \in 0 .. n : r[i] = s[i]}
<1>4. 0 \in S
  BY <1>0, <1>3 DEF Sums
<1>5. ASSUME NEW i \in 0 .. n - 1, i \in S PROVE i + 1 \in S
  <2>1. i + 1 \in 1 .. n /\ (i + 1) - 1 = i /\ i + 1 \in 0 .. n
    BY <1>0
  <2>2. r[i + 1] = r[i] + f[i + 1] /\ s[i + 1] = s[i] + f[i + 1]
    BY <1>3, <2>1 DEF Sums
  <2> QED BY <1>5, <2>1, <2>2
<1>6. \A i \in 0 .. n : i \in S
  <2> HIDE DEF S, n
  <2> QED BY <1>0, <1>4, <1>5, Climb
<1>7. n \in S
  BY <1>0, <1>6
<1> QED BY <1>2, <1>7

\* The total of two sequences in a row.
LEMMA TotalConcat ==
    ASSUME NEW f \in Seq(Int), NEW g \in Seq(Int)
    PROVE  Total(f \o g) = Total(f) + Total(g)
<1> DEFINE h == f \o g
           n == Len(f)
           k == Len(g)
<1>1. PICK s : Sums(f, s)
  BY SumsExist
<1>2. PICK r : Sums(g, r)
  BY SumsExist
<1>3. /\ h \in Seq(Int) /\ Len(h) = n + k /\ n \in Nat /\ k \in Nat
      /\ \A i \in 1 .. n + k : h[i] = IF i <= n THEN f[i] ELSE g[i - n]
  BY ConcatProperties, LenProperties
<1>4. /\ s \in [0 .. n -> Int] /\ s[0] = 0 /\ \A i \in 1 .. n : s[i] = s[i - 1] + f[i]
      /\ r \in [0 .. k -> Int] /\ r[0] = 0 /\ \A i \in 1 .. k : r[i] = r[i - 1] + g[i]
  BY <1>1, <1>2 DEF Sums
<1>5. Total(f) = s[n] /\ Total(g) = r[k]
  BY <1>1, <1>2, SumsAreTotal
<1> HIDE DEF h, n, k
<1> DEFINE q == [i \in 0 .. n + k |-> IF i <= n THEN s[i] ELSE s[n] + r[i - n]]
<1>6. q \in [0 .. n + k -> Int]
  <2> SUFFICES ASSUME NEW i \in 0 .. n + k PROVE (IF i <= n THEN s[i] ELSE s[n] + r[i - n]) \in Int
    OBVIOUS
  <2>1. CASE i <= n
    <3>1. i \in 0 .. n
      BY <2>1
    <3> QED BY <1>4, <2>1, <3>1
  <2>2. CASE ~(i <= n)
    <3>1. n \in 0 .. n /\ i - n \in 0 .. k
      BY <1>3, <2>2
    <3>2. s[n] \in Int /\ r[i - n] \in Int
      BY <1>4, <3>1
    <3> QED BY <2>2, <3>2
  <2> QED BY <2>1, <2>2
<1>7. \A i \in 0 .. n + k : q[i] = IF i <= n THEN s[i] ELSE s[n] + r[i - n]
  OBVIOUS
<1> HIDE DEF q
<1>8. ASSUME NEW i \in 1 .. n + k PROVE q[i] = q[i - 1] + h[i]
  <2>0. i \in 0 .. n + k /\ i - 1 \in 0 .. n + k
    BY <1>3
  <2>1. CASE i <= n
    <3>1. i \in 1 .. n /\ i - 1 <= n
      BY <1>3, <2>1
    <3> QED BY <1>3, <1>4, <1>7, <2>0, <2>1, <3>1
  <2>2. CASE i = n + 1
    <3>1. 1 \in 1 .. k /\ i - n = 1 /\ i - 1 = n /\ ~(i <= n) /\ n \in 0 .. n /\ 1 - 1 = 0
      BY <1>3, <2>2
    <3>a. q[i] = s[n] + r[i - n] /\ h[i] = g[i - n]
      BY <1>3, <1>7, <2>0, <3>1
    <3>b. q[n] = s[n]
      <4>1. n \in 0 .. n + k /\ n <= n
        BY ONLY <1>3
      <4> QED BY ONLY <1>7, <4>1
    <3>2. q[i] = s[n] + r[1] /\ q[i - 1] = s[n] /\ h[i] = g[1] /\ r[1] = r[1 - 1] + g[1]
      BY <1>4, <3>1, <3>a, <3>b
    <3>3. 1 \in 0 .. k /\ s[n] \in Int /\ r[1] \in Int
      BY <1>3, <1>4, <3>1
    <3>4. r[1] = g[1]
      <4>1. Len(g) = k /\ g[1] \in Int
        BY <3>1, ElementOfSeq DEF k
      <4> QED BY <1>4, <3>1, <3>2, <4>1
    <3> QED BY <3>2, <3>4
  <2>3. CASE i > n + 1
    <3> DEFINE j == i - n
    <3>1. j \in 1 .. k /\ j - 1 \in 0 .. k /\ (i - 1) - n = j - 1 /\ ~(i <= n) /\ ~(i - 1 <= n)
          /\ n \in 0 .. n /\ j \in 0 .. k
      BY <1>3, <2>3
    <3>2. q[i] = s[n] + r[j] /\ q[i - 1] = s[n] + r[j - 1] /\ h[i] = g[j] /\ r[j] = r[j - 1] + g[j]
      BY <1>3, <1>4, <1>7, <2>0, <3>1
    <3>3. s[n] \in Int /\ r[j] \in Int /\ r[j - 1] \in Int /\ g[j] \in Int
      <4>1. g[j] \in Int
        BY <3>1, ElementOfSeq DEF k
      <4> QED BY <1>4, <3>1, <4>1
    <3> HIDE DEF j
    <3> QED BY <3>2, <3>3
  <2> QED BY <1>3, <2>1, <2>2, <2>3
<1>9. q[0] = 0 /\ q[n + k] = s[n] + r[k]
  <2>1. 0 \in 0 .. n + k /\ n + k \in 0 .. n + k /\ 0 <= n
    BY <1>3
  <2>2. q[0] = 0
    BY <1>4, <1>7, <2>1
  <2>3. CASE k = 0
    <3>1. n + k <= n /\ n + k = n /\ n \in 0 .. n
      BY <1>3, <2>3
    <3>2. s[n] \in Int
      BY <1>4, <3>1
    <3> QED BY <1>4, <1>7, <2>1, <2>2, <2>3, <3>1, <3>2
  <2>4. CASE k # 0
    <3>1. ~(n + k <= n) /\ (n + k) - n = k
      BY <1>3, <2>4
    <3> QED BY <1>7, <2>1, <2>2, <3>1
  <2> QED BY <2>3, <2>4
<1>10. Sums(h, q)
  BY <1>3, <1>6, <1>8, <1>9 DEF Sums
<1>11. Total(h) = q[n + k]
  BY <1>3, <1>10, SumsAreTotal
<1> QED BY <1>5, <1>9, <1>11 DEF h

\* Nothing sums to 0.
LEMMA TotalNone == Total(<<>>) = 0
<1> DEFINE f == <<>>
           s == [i \in 0 .. 0 |-> 0]
<1>1. f \in Seq(Int) /\ Len(f) = 0
  OBVIOUS
<1>2. s \in [0 .. 0 -> Int] /\ s[0] = 0
  OBVIOUS
<1> HIDE DEF f, s
<1>3. Sums(f, s)
  BY <1>1, <1>2 DEF Sums
<1>4. Total(f) = s[0]
  BY <1>1, <1>3, SumsAreTotal
<1> QED BY <1>2, <1>4 DEF f

\* One number sums to itself.
LEMMA TotalOne == ASSUME NEW x \in Int PROVE Total(<<x>>) = x
<1> DEFINE f == <<x>>
           s == [i \in 0 .. 1 |-> IF i = 0 THEN 0 ELSE x]
<1>1. f \in Seq(Int) /\ Len(f) = 1 /\ f[1] = x
  OBVIOUS
<1>2. s \in [0 .. 1 -> Int] /\ s[0] = 0 /\ s[1] = x
  OBVIOUS
<1> HIDE DEF f, s
<1>3. Sums(f, s)
  <2>1. \A i \in 1 .. 1 : i = 1 /\ i - 1 = 0
    OBVIOUS
  <2> QED BY <1>1, <1>2, <2>1 DEF Sums
<1>4. Total(f) = s[1]
  BY <1>1, <1>3, SumsAreTotal
<1> QED BY <1>2, <1>4 DEF f

\* Of what is added to one of the numbers the total has as much more.
LEMMA TotalAt ==
    ASSUME NEW f \in Seq(Int), NEW g \in Seq(Int), Len(g) = Len(f), NEW b \in 1 .. Len(f),
           \A i \in 1 .. Len(f) : i # b => g[i] = f[i]
    PROVE  Total(g) = Total(f) + (g[b] - f[b])
<1> DEFINE n == Len(f)
           d == g[b] - f[b]
<1>1. PICK s : Sums(f, s)
  BY SumsExist
<1>2. /\ n \in Nat /\ s \in [0 .. n -> Int] /\ s[0] = 0
      /\ \A i \in 1 .. n : s[i] = s[i - 1] + f[i]
      /\ \A i \in 1 .. n : f[i] \in Int /\ g[i] \in Int
  BY <1>1, LenProperties, ElementOfSeq DEF Sums
<1>3. Total(f) = s[n]
  BY <1>1, SumsAreTotal
<1>4. b \in 1 .. n /\ f[b] \in Int /\ g[b] \in Int /\ d \in Int /\ g[b] = f[b] + d
  BY <1>2
<1>x. \A i \in 1 .. n : i # b => g[i] = f[i]
  OBVIOUS
<1> HIDE DEF d, n
<1> DEFINE r == [i \in 0 .. n |-> IF i < b THEN s[i] ELSE s[i] + d]
<1>5. r \in [0 .. n -> Int] /\ \A i \in 0 .. n : r[i] = IF i < b THEN s[i] ELSE s[i] + d
  <2>1. \A i \in 0 .. n : s[i] \in Int
    BY <1>2
  <2> QED BY <1>4, <2>1
<1> HIDE DEF r
<1>6. ASSUME NEW i \in 1 .. n PROVE r[i] = r[i - 1] + g[i]
  <2>n. i \in 0 .. n /\ i - 1 \in 0 .. n
    BY <1>2
  <2>0. i \in 0 .. n /\ i - 1 \in 0 .. n /\ s[i] = s[i - 1] + f[i] /\ s[i - 1] \in Int
        /\ f[i] \in Int /\ g[i] \in Int
    BY <1>2, <2>n
  <2>1. CASE i < b
    <3>1. i - 1 < b /\ i # b
      BY <1>2, <1>4, <2>1
    <3>2. r[i] = s[i] /\ r[i - 1] = s[i - 1] /\ g[i] = f[i]
      BY <1>5, <1>x, <2>0, <2>1, <3>1
    <3> QED BY <2>0, <3>2
  <2>2. CASE i = b
    <3>1. i - 1 < b /\ ~(i < b)
      BY <1>2, <1>4, <2>2
    <3>2. r[i] = s[i] + d /\ r[i - 1] = s[i - 1] /\ g[i] = f[i] + d
      BY <1>4, <1>5, <2>0, <2>2, <3>1
    <3> QED BY ONLY <1>4, <2>0, <3>2
  <2>3. CASE i > b
    <3>1. ~(i - 1 < b) /\ ~(i < b) /\ i # b
      BY <1>2, <1>4, <2>3
    <3>2. r[i] = s[i] + d /\ r[i - 1] = s[i - 1] + d /\ g[i] = f[i]
      BY <1>5, <1>x, <2>0, <3>1
    <3>3. s[i] + d = (s[i - 1] + d) + f[i]
      BY ONLY <1>4, <2>0
    <3> QED BY <3>2, <3>3
  <2> QED BY <1>4, <2>1, <2>2, <2>3
<1>7. r[0] = 0 /\ r[n] = s[n] + d
  <2>1. 0 \in 0 .. n /\ n \in 0 .. n /\ 0 < b /\ ~(n < b)
    BY <1>2, <1>4
  <2> QED BY <1>2, <1>5, <2>1
<1>l. Len(g) = n
  BY DEF n
<1>8. Sums(g, r)
  BY <1>5, <1>6, <1>7, <1>l DEF Sums
<1>9. Total(g) = r[n]
  BY <1>8, <1>l, SumsAreTotal
<1> QED BY <1>3, <1>7, <1>9 DEF d, n

\* The total of natural numbers is one, and none of them is more.
LEMMA TotalNat ==
    ASSUME NEW f \in Seq(Nat)
    PROVE  /\ f \in Seq(Int) /\ Total(f) \in Nat
           /\ \A i \in 1 .. Len(f) : f[i] <= Total(f)
<1> DEFINE n == Len(f)
<1>0. f \in Seq(Int)
  BY SeqMonotonic
<1>1. PICK s : Sums(f, s)
  BY <1>0, SumsExist
<1>2. /\ n \in Nat /\ s \in [0 .. n -> Int] /\ s[0] = 0
      /\ \A i \in 1 .. n : s[i] = s[i - 1] + f[i] /\ f[i] \in Nat
  BY <1>1, LenProperties, ElementOfSeq DEF Sums
<1>3. Total(f) = s[n]
  BY <1>0, <1>1, SumsAreTotal
<1> HIDE DEF n
<1> DEFINE S == {k \in 0 .. n : s[k] \in Nat /\ \A i \in 1 .. k : f[i] <= s[k]}
<1>4. 0 \in S
  BY <1>2
<1>5. ASSUME NEW k \in 0 .. n - 1, k \in S PROVE k + 1 \in S
  <2>1. k + 1 \in 1 .. n /\ k + 1 \in 0 .. n /\ (k + 1) - 1 = k
    BY <1>2
  <2>2. s[k + 1] = s[k] + f[k + 1] /\ f[k + 1] \in Nat /\ s[k] \in Nat
        /\ \A i \in 1 .. k : f[i] <= s[k]
    BY <1>2, <1>5, <2>1
  <2>3. ASSUME NEW i \in 1 .. k + 1 PROVE f[i] <= s[k + 1]
    <3>1. CASE i = k + 1
      BY <2>2, <3>1
    <3>2. CASE i # k + 1
      <4>1. i \in 1 .. k /\ i \in 1 .. n
        BY <1>2, <2>1, <3>2
      <4>2. f[i] \in Nat
        BY <1>2, <4>1
      <4> QED BY <2>2, <4>1, <4>2
    <3> QED BY <3>1, <3>2
  <2>4. s[k + 1] \in Nat
    BY <2>2
  <2> QED BY <2>1, <2>3, <2>4
<1>6. \A k \in 0 .. n : k \in S
  <2> HIDE DEF S
  <2> QED BY <1>2, <1>4, <1>5, Climb
<1>7. n \in S
  BY <1>2, <1>6
<1> QED BY <1>0, <1>3, <1>7 DEF n

-----------------------------------------------------------------------------
(* The bytes of some lines, and the lines an ack releases.                 *)

\* A line has a size and a number.
LEMMA LineNumbers == \A l \in Line : l.size \in Nat /\ l.seq \in 1 .. MaxSeq
<1>1. \A l \in Line : l.size \in Sizes /\ l.seq \in 1 .. MaxSeq
  BY DEF Line
<1> QED BY <1>1, BufferConstants

\* The sizes of some lines are numbers.
LEMMA BytesOf ==
    ASSUME NEW lines \in Seq(Line)
    PROVE  LET sizes == [i \in DOMAIN lines |-> lines[i].size]
           IN  /\ sizes \in Seq(Nat) /\ sizes \in Seq(Int) /\ Len(sizes) = Len(lines)
               /\ \A i \in 1 .. Len(lines) : sizes[i] = lines[i].size
               /\ Bytes(lines) = Total(sizes) /\ Bytes(lines) \in Nat
<1> DEFINE sizes == [i \in DOMAIN lines |-> lines[i].size]
           n == Len(lines)
<1>1. n \in Nat /\ DOMAIN lines = 1 .. n /\ \A i \in 1 .. n : lines[i] \in Line
  BY LenProperties, ElementOfSeq
<1>2. \A i \in 1 .. n : lines[i].size \in Nat
  BY <1>1, LineNumbers
<1> HIDE DEF n
<1>3. sizes \in [1 .. n -> Nat] /\ \A i \in 1 .. n : sizes[i] = lines[i].size
  BY <1>1, <1>2
<1>b. Bytes(lines) = Total(sizes)
  BY DEF Bytes
<1> HIDE DEF sizes
<1>4. sizes \in Seq(Nat)
  BY <1>1, <1>3, IsASeq
<1>5. sizes \in Seq(Int) /\ Total(sizes) \in Nat
  BY <1>4, TotalNat
<1>6. Len(sizes) = n
  BY <1>1, <1>3, <1>4, LenProperties
<1> QED BY <1>3, <1>4, <1>5, <1>6, <1>b DEF sizes, n

\* Lines in a row have the bytes of both.
LEMMA BytesConcat ==
    ASSUME NEW lines \in Seq(Line), NEW others \in Seq(Line)
    PROVE  Bytes(lines \o others) = Bytes(lines) + Bytes(others)
<1> DEFINE both == lines \o others
           f == [i \in DOMAIN lines |-> lines[i].size]
           g == [i \in DOMAIN others |-> others[i].size]
           h == [i \in DOMAIN both |-> both[i].size]
           n == Len(lines)
           k == Len(others)
<1>1. both \in Seq(Line)
  BY ConcatProperties
<1>2. /\ f \in Seq(Int) /\ Len(f) = n /\ Bytes(lines) = Total(f)
      /\ \A i \in 1 .. n : f[i] = lines[i].size
  BY BytesOf
<1>3. /\ g \in Seq(Int) /\ Len(g) = k /\ Bytes(others) = Total(g)
      /\ \A i \in 1 .. k : g[i] = others[i].size
  BY BytesOf
<1>4. /\ h \in Seq(Int) /\ Len(h) = Len(both) /\ Bytes(both) = Total(h)
      /\ \A i \in 1 .. Len(both) : h[i] = both[i].size
  BY <1>1, BytesOf
<1>5. /\ Len(both) = n + k /\ n \in Nat /\ k \in Nat
      /\ \A i \in 1 .. n + k : both[i] = IF i <= n THEN lines[i] ELSE others[i - n]
  BY ConcatProperties, LenProperties
<1> HIDE DEF f, g, h, n, k, both
<1>6. /\ f \o g \in Seq(Int) /\ Len(f \o g) = n + k
      /\ \A i \in 1 .. n + k : (f \o g)[i] = IF i <= n THEN f[i] ELSE g[i - n]
  BY <1>2, <1>3, ConcatProperties
<1>7. ASSUME NEW i \in 1 .. n + k PROVE (f \o g)[i] = h[i]
  <2>1. CASE i <= n
    <3>1. i \in 1 .. n
      BY <1>5, <2>1
    <3> QED BY <1>2, <1>4, <1>5, <1>6, <2>1, <3>1
  <2>2. CASE ~(i <= n)
    <3>1. i - n \in 1 .. k
      BY <1>5, <2>2
    <3> QED BY <1>3, <1>4, <1>5, <1>6, <2>2, <3>1
  <2> QED BY <2>1, <2>2
<1>8. f \o g = h
  BY <1>4, <1>5, <1>6, <1>7, SeqEqual
<1> QED BY <1>2, <1>3, <1>4, <1>8, TotalConcat DEF both

\* One more line, or one less, counts for its size.
LEMMA BytesByOne ==
    ASSUME NEW lines \in Seq(Line)
    PROVE  /\ \A l \in Line : Bytes(Append(lines, l)) = Bytes(lines) + l.size
           /\ lines # <<>> => Bytes(Tail(lines)) = Bytes(lines) - Head(lines).size
           /\ Bytes(<<>>) = 0
<1>0. ASSUME NEW l \in Line PROVE <<l>> \in Seq(Line) /\ Bytes(<<l>>) = l.size
  <2> DEFINE one == <<l>>
             sizes == [i \in DOMAIN one |-> one[i].size]
  <2>1. one \in Seq(Line) /\ Len(one) = 1 /\ one[1] = l
    OBVIOUS
  <2>2. sizes \in Seq(Int) /\ Len(sizes) = 1 /\ sizes[1] = l.size /\ Bytes(one) = Total(sizes)
    <3> HIDE DEF one
    <3>1. /\ sizes \in Seq(Int) /\ Len(sizes) = Len(one) /\ Bytes(one) = Total(sizes)
          /\ \A i \in 1 .. Len(one) : sizes[i] = one[i].size
      BY <2>1, BytesOf
    <3> QED BY <2>1, <3>1
  <2> HIDE DEF sizes
  <2>3. sizes = <<l.size>> /\ l.size \in Int
    <3>1. l.size \in Int
      BY LineNumbers
    <3>2. <<l.size>> \in Seq(Int) /\ Len(<<l.size>>) = 1 /\ <<l.size>>[1] = l.size
      BY <3>1
    <3>3. \A i \in 1 .. Len(sizes) : sizes[i] = <<l.size>>[i]
      BY <2>2, <3>2
    <3> HIDE DEF one
    <3> QED BY <2>2, <3>1, <3>2, <3>3, SeqEqual
  <2>4. Bytes(one) = l.size
    BY <2>2, <2>3, TotalOne
  <2> QED BY <2>1, <2>4
<1>1. ASSUME NEW l \in Line PROVE Bytes(Append(lines, l)) = Bytes(lines) + l.size
  <2>1. Append(lines, l) = lines \o <<l>>
    BY AppendIsConcat
  <2> QED BY <1>0, <2>1, BytesConcat
<1>2. ASSUME lines # <<>> PROVE Bytes(Tail(lines)) = Bytes(lines) - Head(lines).size
  <2>1. Head(lines) \in Line /\ Tail(lines) \in Seq(Line) /\ lines = <<Head(lines)>> \o Tail(lines)
    BY <1>2, HeadTailProperties, ConcatProperties
  <2>2. Bytes(lines) = Bytes(<<Head(lines)>>) + Bytes(Tail(lines))
    BY <1>0, <2>1, BytesConcat
  <2>3. Bytes(<<Head(lines)>>) = Head(lines).size /\ Head(lines).size \in Int
    BY <1>0, <2>1, LineNumbers
  <2>4. Bytes(Tail(lines)) \in Nat
    BY <2>1, BytesOf
  <2> QED BY <2>2, <2>3, <2>4
<1>3. Bytes(<<>>) = 0
  <2> DEFINE none == <<>>
             sizes == [i \in DOMAIN none |-> none[i].size]
  <2>1. none \in Seq(Line) /\ Len(none) = 0
    OBVIOUS
  <2> HIDE DEF none
  <2>2. sizes \in Seq(Int) /\ Len(sizes) = 0 /\ Bytes(none) = Total(sizes)
    BY <2>1, BytesOf
  <2> HIDE DEF sizes
  <2>3. sizes = <<>>
    BY <2>2, EmptySeq
  <2> QED BY <2>2, <2>3, TotalNone DEF none
<1> QED BY <1>1, <1>2, <1>3

-----------------------------------------------------------------------------
(* What the two shedding loops keep of the buffers' memory, given the      *)
(* next line numbers ns.                                                   *)

\* A set of numbers has a least one.
LEMMA Least ==
    ASSUME NEW S \in SUBSET Nat, S # {}
    PROVE  \E x \in S : \A y \in S : x <= y
<1>1. IsWellFoundedOn(OpToRel(<, Nat), Nat)
  BY NatLessThanWellFounded
<1>2. PICK x \in S : \A y \in S : ~(<<y, x>> \in OpToRel(<, Nat))
  BY <1>1, WFMin
<1>3. OpToRel(<, Nat) = {r \in Nat \X Nat : r[1] < r[2]}
  BY Zenon DEF OpToRel
<1>4. ASSUME NEW y \in S PROVE x <= y
  <2>1. ~(<<y, x>> \in {r \in Nat \X Nat : r[1] < r[2]})
    BY <1>2, <1>3, Zenon
  <2>2. x \in Nat /\ y \in Nat /\ <<y, x>> \in Nat \X Nat
    OBVIOUS
  <2> QED BY <2>1, <2>2
<1> QED BY <1>4

Holes  == [first : Nat, last : Nat]
Memory == [lines : [Buffers -> Seq(Line)], bytes : [Buffers -> Int],
           gap : [Buffers -> Holes], used : Int]

\* The counters count, the lines are numbered without a break, and a hole
\* lies among the lines received.
Counted(m) == /\ \A b \in Buffers : m.bytes[b] = Bytes(m.lines[b])
              /\ m.used = Total(m.bytes)
Numbered(m, ns) == \A b \in Buffers : \A j \in 1 .. Len(m.lines[b]) :
                      m.lines[b][j].seq = ns[b] - Len(m.lines[b]) + (j - 1)
Holed(m, ns) == \A b \in Buffers : /\ m.gap[b].last < ns[b]
                                   /\ m.gap[b].last # 0 => m.gap[b].first >= 1

Kept(ns) == {m \in Memory : Counted(m) /\ Numbered(m, ns) /\ Holed(m, ns)}

Numbers == [Buffers -> Nat \ {0}]

\* x is m with the oldest lines of c shed, if any: what Shed makes of a backlog.
Shorter(m, x, ns, c) ==
    LET k == Len(m.lines[c]) - Len(x.lines[c]) IN
    /\ k \in Nat
    /\ k = 0 \/ k < Len(m.lines[c])
    /\ x.gap[c] = IF k = 0 THEN m.gap[c]
                  ELSE [first |-> IF m.gap[c].last = 0 THEN ns[c] - Len(m.lines[c])
                                  ELSE m.gap[c].first,
                        last  |-> ns[c] - Len(x.lines[c]) - 1]

Same(m, x, c) == /\ x.lines[c] = m.lines[c]
                 /\ x.bytes[c] = m.bytes[c]
                 /\ x.gap[c] = m.gap[c]

\* The fields of a kept memory.
LEMMA KeptTypes ==
    ASSUME NEW ns \in Numbers, NEW m \in Kept(ns), NEW b \in Buffers
    PROVE  /\ m.lines[b] \in Seq(Line) /\ Len(m.lines[b]) \in Nat
           /\ m.bytes[b] \in Nat /\ m.bytes[b] = Bytes(m.lines[b])
           /\ m.gap[b] \in Holes /\ m.gap[b].first \in Nat /\ m.gap[b].last \in Nat
           /\ m.bytes \in Seq(Nat) /\ Len(m.bytes) = NumBuffers
           /\ m.used \in Nat
           /\ m.bytes[b] <= m.used
           /\ ns[b] \in Nat \ {0}
           /\ ns[b] - Len(m.lines[b]) \in Nat \ {0}
<1>1. /\ m.lines \in [Buffers -> Seq(Line)] /\ m.bytes \in [Buffers -> Int]
      /\ m.gap \in [Buffers -> Holes] /\ m.used \in Int
      /\ Counted(m) /\ Numbered(m, ns) /\ Holed(m, ns)
  BY DEF Kept, Memory
<1>2. \A c \in Buffers : m.bytes[c] = Bytes(m.lines[c]) /\ m.lines[c] \in Seq(Line)
  BY <1>1 DEF Counted
<1>3. \A c \in Buffers : m.bytes[c] \in Nat
  BY <1>2, BytesOf
<1>4. NumBuffers \in Nat /\ Buffers = 1 .. NumBuffers
  BY BufferConstants DEF Buffers
<1>5. m.bytes \in [1 .. NumBuffers -> Nat]
  BY <1>1, <1>3, <1>4
<1>6. m.bytes \in Seq(Nat) /\ Len(m.bytes) = NumBuffers
  BY <1>4, <1>5, IsASeq
<1>7. m.used \in Nat /\ m.bytes[b] <= m.used
  BY <1>1, <1>4, <1>6, TotalNat DEF Counted
<1>8. m.lines[b] \in Seq(Line) /\ Len(m.lines[b]) \in Nat /\ ns[b] \in Nat \ {0}
  BY <1>1, LenProperties DEF Numbers
<1>9. m.gap[b] \in Holes /\ m.gap[b].first \in Nat /\ m.gap[b].last \in Nat
  BY <1>1 DEF Holes
<1>10. ns[b] - Len(m.lines[b]) \in Nat \ {0}
  <2>1. CASE Len(m.lines[b]) = 0
    BY <1>8, <2>1
  <2>2. CASE Len(m.lines[b]) # 0
    <3>1. 1 \in 1 .. Len(m.lines[b])
      BY <1>8, <2>2
    <3>2. m.lines[b][1].seq = ns[b] - Len(m.lines[b]) + (1 - 1)
      BY <1>1, <3>1 DEF Numbered
    <3>3. m.lines[b][1] \in Line
      BY <1>8, <3>1, ElementOfSeq
    <3>4. m.lines[b][1].seq \in Nat \ {0}
      BY <3>3, LineNumbers
    <3> QED BY <1>8, <3>2, <3>4
  <2> QED BY <2>1, <2>2
<1> QED BY <1>2, <1>3, <1>6, <1>7, <1>8, <1>9, <1>10

\* A buffer that is left alone has lost no line.
LEMMA ShorterOnce ==
    ASSUME NEW ns \in Numbers, NEW m \in Kept(ns), NEW x \in Kept(ns), NEW c \in Buffers,
           Same(m, x, c)
    PROVE  Shorter(m, x, ns, c)
<1>1. Len(m.lines[c]) \in Nat
  BY KeptTypes
<1> QED BY <1>1 DEF Same, Shorter

\* To shed and shed again is to shed.
LEMMA ShorterStill ==
    ASSUME NEW ns \in Numbers, NEW m \in Kept(ns), NEW x \in Kept(ns), NEW y \in Kept(ns),
           NEW c \in Buffers, Shorter(m, x, ns, c), Shorter(x, y, ns, c)
    PROVE  Shorter(m, y, ns, c)
<1> DEFINE lm == Len(m.lines[c])
           lx == Len(x.lines[c])
           ly == Len(y.lines[c])
           n == ns[c]
<1>1. /\ lm \in Nat /\ lx \in Nat /\ ly \in Nat /\ n \in Nat
      /\ n - lm \in Nat \ {0} /\ n - lx \in Nat \ {0} /\ n - ly \in Nat \ {0}
  BY KeptTypes
<1>2. /\ lm - lx \in Nat /\ (lm - lx = 0 \/ lm - lx < lm)
      /\ x.gap[c] = IF lm - lx = 0 THEN m.gap[c]
                    ELSE [first |-> IF m.gap[c].last = 0 THEN n - lm ELSE m.gap[c].first,
                          last |-> n - lx - 1]
  BY DEF Shorter
<1>3. /\ lx - ly \in Nat /\ (lx - ly = 0 \/ lx - ly < lx)
      /\ y.gap[c] = IF lx - ly = 0 THEN x.gap[c]
                    ELSE [first |-> IF x.gap[c].last = 0 THEN n - lx ELSE x.gap[c].first,
                          last |-> n - ly - 1]
  BY DEF Shorter
<1> SUFFICES /\ lm - ly \in Nat /\ (lm - ly = 0 \/ lm - ly < lm)
             /\ y.gap[c] = IF lm - ly = 0 THEN m.gap[c]
                           ELSE [first |-> IF m.gap[c].last = 0 THEN n - lm ELSE m.gap[c].first,
                                 last |-> n - ly - 1]
  BY DEF Shorter
<1> HIDE DEF lm, lx, ly, n
<1>4. CASE lm - lx = 0
  BY <1>1, <1>2, <1>3, <1>4
<1>5. CASE lm - lx # 0
  <2>1. lm - lx \in Nat /\ lm - lx < lm /\ lm - lx > 0 /\ lm - ly \in Nat /\ lm - ly # 0
    BY <1>1, <1>2, <1>3, <1>5
  <2>2. CASE lx - ly = 0
    <3>1. lx = ly /\ y.gap[c] = x.gap[c]
      BY <1>1, <1>3, <2>2
    <3> QED BY <1>2, <1>5, <2>1, <3>1
  <2>3. CASE lx - ly # 0
    <3>1. n - lx - 1 # 0
      BY <1>1, <2>1
    <3>2. x.gap[c].last = n - lx - 1
          /\ x.gap[c].first = IF m.gap[c].last = 0 THEN n - lm ELSE m.gap[c].first
      BY <1>2, <1>5
    <3>3. y.gap[c] = [first |-> IF m.gap[c].last = 0 THEN n - lm ELSE m.gap[c].first,
                      last |-> n - ly - 1]
      BY <1>3, <2>3, <3>1, <3>2
    <3>4. lm - ly < lm
      BY <1>1, <1>3, <2>1, <2>3
    <3> QED BY <2>1, <3>3, <3>4
  <2> QED BY <2>2, <2>3
<1> QED BY <1>4, <1>5

\* The sequence of the buffers' byte counters, one of them changed.
LEMMA CountsAt ==
    ASSUME NEW f \in Seq(Nat), Len(f) = NumBuffers, NEW g \in [Buffers -> Nat], NEW b \in Buffers,
           \A c \in Buffers : c # b => g[c] = f[c]
    PROVE  g \in Seq(Nat) /\ Len(g) = NumBuffers /\ Total(g) = Total(f) + (g[b] - f[b])
<1>1. NumBuffers \in Nat /\ Buffers = 1 .. NumBuffers
  BY BufferConstants DEF Buffers
<1>2. g \in Seq(Nat) /\ Len(g) = NumBuffers
  BY <1>1, IsASeq
<1>3. f \in Seq(Int) /\ g \in Seq(Int)
  BY <1>2, TotalNat
<1>4. b \in 1 .. Len(f) /\ \A i \in 1 .. Len(f) : i # b => g[i] = f[i]
  BY <1>1
<1> HIDE DEF Buffers
<1>5. Total(g) = Total(f) + (g[b] - f[b])
  BY <1>2, <1>3, <1>4, TotalAt
<1> QED BY <1>2, <1>5

\* A memory whose parts keep together.
LEMMA KeptAgain ==
    ASSUME NEW ns \in Numbers, NEW m \in Kept(ns), NEW b \in Buffers, NEW x, NEW n2 \in Numbers,
           x \in Memory,
           \A c \in Buffers : c # b => Same(m, x, c) /\ n2[c] = ns[c],
           x.bytes[b] = Bytes(x.lines[b]),
           x.used = m.used + (x.bytes[b] - m.bytes[b]),
           \A j \in 1 .. Len(x.lines[b]) : x.lines[b][j].seq = n2[b] - Len(x.lines[b]) + (j - 1),
           x.gap[b].last < n2[b],
           x.gap[b].last # 0 => x.gap[b].first >= 1
    PROVE  x \in Kept(n2)
<1>1. /\ x.lines \in [Buffers -> Seq(Line)] /\ x.bytes \in [Buffers -> Int]
      /\ m.lines \in [Buffers -> Seq(Line)] /\ m.bytes \in [Buffers -> Int]
      /\ Counted(m) /\ Numbered(m, ns) /\ Holed(m, ns)
  BY DEF Kept, Memory
<1>2. \A c \in Buffers : x.bytes[c] = Bytes(x.lines[c])
  <2> TAKE c \in Buffers
  <2>1. CASE c = b
    BY <2>1
  <2>2. CASE c # b
    BY <1>1, <2>2 DEF Same, Counted
  <2> QED BY <2>1, <2>2
<1>3. \A c \in Buffers : x.bytes[c] \in Nat
  BY <1>1, <1>2, BytesOf
<1>4. x.bytes \in [Buffers -> Nat]
  BY <1>1, <1>3
<1>5. m.bytes \in Seq(Nat) /\ Len(m.bytes) = NumBuffers
  BY KeptTypes
<1>6. \A c \in Buffers : c # b => x.bytes[c] = m.bytes[c]
  BY DEF Same
<1>7. Total(x.bytes) = Total(m.bytes) + (x.bytes[b] - m.bytes[b])
  BY <1>4, <1>5, <1>6, CountsAt
<1>8. Counted(x)
  BY <1>1, <1>2, <1>7 DEF Counted
<1>9. Numbered(x, n2)
  <2> SUFFICES ASSUME NEW c \in Buffers, NEW j \in 1 .. Len(x.lines[c])
               PROVE  x.lines[c][j].seq = n2[c] - Len(x.lines[c]) + (j - 1)
    BY DEF Numbered
  <2>1. CASE c = b
    BY <2>1
  <2>2. CASE c # b
    <3>1. x.lines[c] = m.lines[c] /\ n2[c] = ns[c]
      BY <2>2 DEF Same
    <3> QED BY <1>1, <3>1 DEF Numbered
  <2> QED BY <2>1, <2>2
<1>10. Holed(x, n2)
  <2> SUFFICES ASSUME NEW c \in Buffers
               PROVE  x.gap[c].last < n2[c] /\ (x.gap[c].last # 0 => x.gap[c].first >= 1)
    BY DEF Holed
  <2>1. CASE c = b
    BY <2>1
  <2>2. CASE c # b
    <3>1. x.gap[c] = m.gap[c] /\ n2[c] = ns[c]
      BY <2>2 DEF Same
    <3> QED BY <1>1, <3>1 DEF Holed
  <2> QED BY <2>1, <2>2
<1> QED BY <1>8, <1>9, <1>10 DEF Kept

\* LineBuffer.dropOldest, of a buffer that keeps a line.
LEMMA Dropped ==
    ASSUME NEW ns \in Numbers, NEW m \in Kept(ns), NEW b \in Buffers, Len(m.lines[b]) > 1
    PROVE  LET x == DropOldest(m, b) IN
           /\ x \in Kept(ns)
           /\ \A c \in Buffers : Shorter(m, x, ns, c)
           /\ \A c \in Buffers : c # b => Same(m, x, c)
           /\ Len(x.lines[b]) = Len(m.lines[b]) - 1
           /\ x.bytes[b] <= m.bytes[b]
<1> DEFINE x == DropOldest(m, b)
           l == m.lines[b]
           old == Head(l)
           hole == [first |-> IF m.gap[b].last = 0 THEN old.seq ELSE m.gap[b].first,
                    last  |-> old.seq]
<1>0. m \in Memory /\ Counted(m) /\ Numbered(m, ns) /\ Holed(m, ns)
  BY DEF Kept
<1>k. /\ l \in Seq(Line) /\ Len(l) \in Nat /\ m.bytes[b] \in Nat /\ m.bytes[b] = Bytes(l)
      /\ m.gap[b] \in Holes /\ m.gap[b].first \in Nat /\ m.gap[b].last \in Nat
      /\ m.used \in Nat /\ ns[b] \in Nat \ {0} /\ ns[b] - Len(l) \in Nat \ {0}
  BY KeptTypes
<1>1. /\ l # <<>> /\ old \in Line /\ Tail(l) \in Seq(Line) /\ Len(Tail(l)) = Len(l) - 1
      /\ \A j \in 1 .. Len(Tail(l)) : Tail(l)[j] = l[j + 1]
      /\ old = l[1]
  <2>1. l # <<>>
    BY <1>k, EmptySeq
  <2>2. old = l[1]
    OBVIOUS
  <2> HIDE DEF l
  <2> QED BY <1>k, <2>1, <2>2, HeadTailProperties
<1>2. old.size \in Nat /\ old.seq \in 1 .. MaxSeq /\ old.seq = ns[b] - Len(l)
  <2>1. l[1].seq = ns[b] - Len(l) + (1 - 1)
    BY <1>0, <1>k DEF Numbered
  <2> QED BY <1>1, <1>k, <2>1, LineNumbers
<1>3. hole \in Holes
  BY <1>2, <1>k DEF Holes
<1>4. /\ x.lines = [m.lines EXCEPT ![b] = Tail(l)]
      /\ x.bytes = [m.bytes EXCEPT ![b] = @ - old.size]
      /\ x.gap = [m.gap EXCEPT ![b] = hole]
      /\ x.used = m.used - old.size
  <2>1. m = [lines |-> m.lines, bytes |-> m.bytes, gap |-> m.gap, used |-> m.used]
    BY <1>0 DEF Memory
  <2>2. x.lines = [m.lines EXCEPT ![b] = Tail(l)]
    BY <2>1 DEF DropOldest
  <2>3. x.bytes = [m.bytes EXCEPT ![b] = @ - old.size]
    BY <2>1 DEF DropOldest
  <2>4. x.gap = [m.gap EXCEPT ![b] = hole]
    BY <2>1 DEF DropOldest
  <2>5. x.used = m.used - old.size
    BY <2>1 DEF DropOldest
  <2> QED BY <2>2, <2>3, <2>4, <2>5
<1>5. x \in Memory
  <2> DEFINE m1 == [m EXCEPT !.lines = [m.lines EXCEPT ![b] = Tail(l)]]
             m2 == [m1 EXCEPT !.bytes = [m.bytes EXCEPT ![b] = @ - old.size]]
             m3 == [m2 EXCEPT !.used = m.used - old.size]
             m4 == [m3 EXCEPT !.gap = [m.gap EXCEPT ![b] = hole]]
  <2>1. [m.lines EXCEPT ![b] = Tail(l)] \in [Buffers -> Seq(Line)]
    BY <1>0, <1>1 DEF Memory
  <2>2. [m.bytes EXCEPT ![b] = @ - old.size] \in [Buffers -> Int]
    BY <1>0, <1>2 DEF Memory
  <2>3. m.used - old.size \in Int
    BY <1>0, <1>2 DEF Memory
  <2>4. [m.gap EXCEPT ![b] = hole] \in [Buffers -> Holes]
    BY <1>0, <1>3 DEF Memory
  <2>5. x = m4
    BY Zenon DEF DropOldest
  <2> HIDE DEF x, old, hole
  <2>6. m1 \in Memory
    BY <1>0, <2>1 DEF Memory
  <2> HIDE DEF m1
  <2>7. m2 \in Memory
    BY <2>2, <2>6 DEF Memory
  <2> HIDE DEF m2
  <2>8. m3 \in Memory
    BY <2>3, <2>7 DEF Memory
  <2> HIDE DEF m3
  <2>9. m4 \in Memory
    BY <2>4, <2>8 DEF Memory
  <2> QED BY <2>5, <2>9
<1> HIDE DEF x, hole, old
<1>6. /\ x.lines[b] = Tail(l) /\ x.bytes[b] = m.bytes[b] - old.size
      /\ x.gap[b] = hole /\ x.used = m.used - old.size
      /\ \A c \in Buffers : c # b => Same(m, x, c)
  BY <1>0, <1>4 DEF Same, Memory
<1>7. x.bytes[b] = Bytes(x.lines[b])
  BY <1>1, <1>6, <1>k, BytesByOne DEF old
<1>8. x.used = m.used + (x.bytes[b] - m.bytes[b])
  BY <1>2, <1>6, <1>k
<1>9. ASSUME NEW j \in 1 .. Len(x.lines[b])
      PROVE  x.lines[b][j].seq = ns[b] - Len(x.lines[b]) + (j - 1)
  <2>1. j \in 1 .. Len(Tail(l)) /\ j + 1 \in 1 .. Len(l) /\ j \in Nat
    BY <1>1, <1>6, <1>k
  <2>2. x.lines[b][j] = l[j + 1]
    BY <1>1, <1>6, <2>1
  <2>3. l[j + 1].seq = ns[b] - Len(l) + ((j + 1) - 1)
    BY <1>0, <2>1 DEF Numbered
  <2> QED BY <1>1, <1>6, <1>k, <2>1, <2>2, <2>3
<1>10. x.gap[b].last < ns[b] /\ (x.gap[b].last # 0 => x.gap[b].first >= 1)
  <2>1. m.gap[b].last # 0 => m.gap[b].first >= 1
    BY <1>0 DEF Holed
  <2> QED BY <1>2, <1>6, <1>k, <2>1 DEF hole
<1>11. x \in Kept(ns)
  BY <1>5, <1>6, <1>7, <1>8, <1>9, <1>10, KeptAgain
<1>12. Len(x.lines[b]) = Len(l) - 1 /\ x.bytes[b] <= m.bytes[b]
  BY <1>1, <1>2, <1>6, <1>k
<1>13. Shorter(m, x, ns, b)
  <2>1. Len(m.lines[b]) - Len(x.lines[b]) = 1 /\ 1 < Len(m.lines[b])
    BY <1>12, <1>k
  <2>2. ns[b] - Len(x.lines[b]) - 1 = old.seq
    BY <1>2, <1>12, <1>k
  <2> QED BY <1>2, <1>6, <2>1, <2>2 DEF Shorter, hole
<1>14. ASSUME NEW c \in Buffers PROVE Shorter(m, x, ns, c)
  <2>1. CASE c = b
    BY <1>13, <2>1
  <2>2. CASE c # b
    BY <1>6, <1>11, <2>2, ShorterOnce
  <2> QED BY <2>1, <2>2
<1> QED BY <1>6, <1>11, <1>12, <1>14 DEF x, l

\* A turn of push's while stays within the kept memories.
LEMMA TrimOnceKeeps ==
    ASSUME NEW ns \in Numbers, NEW m \in Kept(ns), NEW b \in Buffers
    PROVE  TrimOnce(m, b) \in Kept(ns)
<1>1. CASE Len(m.lines[b]) > 1 /\ m.bytes[b] > MaxBytes
  <2>1. DropOldest(m, b) \in Kept(ns)
    BY <1>1, Dropped
  <2> QED BY <1>1, <2>1 DEF TrimOnce
<1>2. CASE ~(Len(m.lines[b]) > 1 /\ m.bytes[b] > MaxBytes)
  BY <1>2 DEF TrimOnce
<1> QED BY <1>1, <1>2

\* The turns of push's while.
LEMMA TrimTurns ==
    ASSUME NEW ns \in Numbers, NEW m \in Kept(ns), NEW b \in Buffers
    PROVE  \E it : /\ it[0] = m
                   /\ \A i \in 1 .. Len(m.lines[b]) : it[i] = TrimOnce(it[i - 1], b)
                   /\ Trim(m, b) = it[Len(m.lines[b])]
<1> DEFINE n == Len(m.lines[b])
           K == Kept(ns)
           F == [s \in K |-> TrimOnce(s, b)]
<1>0. n \in Nat
  BY KeptTypes
<1>t. Trim(m, b) = LET it[i \in 0 .. n] == IF i = 0 THEN m ELSE TrimOnce(it[i - 1], b) IN it[n]
  BY DEF Trim, Iterate
<1> HIDE DEF n
<1>1. F \in [K -> K] /\ \A s \in K : F[s] = TrimOnce(s, b)
  BY TrimOnceKeeps
<1> HIDE DEF F, K
<1>2. m \in K
  BY DEF K
<1>3. PICK it \in [0 .. n -> K] : it[0] = m /\ \A i \in 1 .. n : it[i] = F[it[i - 1]]
  <2>1. CanRun(K, F, m, n)
    BY <1>0, <1>1, <1>2, Runs
  <2> QED BY <2>1 DEF CanRun
<1>4. it = [i \in 0 .. n |-> IF i = 0 THEN m ELSE TrimOnce(it[i - 1], b)]
  <2>1. ASSUME NEW i \in 0 .. n PROVE it[i] = IF i = 0 THEN m ELSE TrimOnce(it[i - 1], b)
    <3>1. CASE i = 0
      BY <1>3, <3>1
    <3>2. CASE i # 0
      <4>1. i \in 1 .. n /\ i - 1 \in 0 .. n
        BY <1>0, <3>2
      <4>2. it[i - 1] \in K /\ it[i] = F[it[i - 1]]
        BY <1>3, <4>1
      <4> QED BY <1>1, <3>2, <4>2
    <3> QED BY <3>1, <3>2
  <2> QED BY <1>3, <2>1
<1>5. \E r : r = [i \in 0 .. n |-> IF i = 0 THEN m ELSE TrimOnce(r[i - 1], b)]
  BY <1>4
<1>6. \E r : /\ r = [i \in 0 .. n |-> IF i = 0 THEN m ELSE TrimOnce(r[i - 1], b)]
             /\ Trim(m, b) = r[n]
  BY <1>5, <1>t, Zenon
<1>7. PICK r : /\ r = [i \in 0 .. n |-> IF i = 0 THEN m ELSE TrimOnce(r[i - 1], b)]
               /\ Trim(m, b) = r[n]
  BY <1>6
<1>8. \A i \in 0 .. n : r[i] = IF i = 0 THEN m ELSE TrimOnce(r[i - 1], b)
  BY <1>7
<1>9. 0 \in 0 .. n /\ \A i \in 1 .. n : i \in 0 .. n /\ i # 0
  BY <1>0
<1>10. r[0] = m /\ \A i \in 1 .. n : r[i] = TrimOnce(r[i - 1], b)
  BY <1>8, <1>9
<1> QED BY <1>7, <1>10 DEF n

\* LineBuffer.push's while: what it leaves fits, or is one line.
LEMMA Trimmed ==
    ASSUME NEW ns \in Numbers, NEW m \in Kept(ns), NEW b \in Buffers
    PROVE  LET x == Trim(m, b) IN
           /\ x \in Kept(ns)
           /\ Shorter(m, x, ns, b)
           /\ \A c \in Buffers : c # b => Same(m, x, c)
           /\ Len(x.lines[b]) <= 1 \/ x.bytes[b] <= MaxBytes
<1> DEFINE n == Len(m.lines[b])
           Fits(x) == Len(x.lines[b]) <= 1 \/ x.bytes[b] <= MaxBytes
           Fine(x) == /\ x \in Kept(ns)
                      /\ Shorter(m, x, ns, b)
                      /\ \A c \in Buffers : c # b => Same(m, x, c)
<1>1. PICK it : /\ it[0] = m
                /\ \A i \in 1 .. n : it[i] = TrimOnce(it[i - 1], b)
                /\ Trim(m, b) = it[n]
  BY TrimTurns
<1>n. n \in Nat /\ MaxBytes \in Nat
  BY KeptTypes, BufferConstants
<1> DEFINE S == {i \in 0 .. n : Fine(it[i]) /\ (Fits(it[i]) \/ Len(it[i].lines[b]) = n - i)}
<1>2. 0 \in S
  <2>1. Fine(m)
    <3>1. \A c \in Buffers : Same(m, m, c)
      BY DEF Same
    <3> QED BY <3>1, ShorterOnce
  <2>2. Len(it[0].lines[b]) = n - 0
    BY <1>1, <1>n
  <2> HIDE DEF Fine, Fits
  <2> QED BY <1>1, <1>n, <2>1, <2>2
<1>3. ASSUME NEW i \in 0 .. n - 1, i \in S PROVE i + 1 \in S
  <2> DEFINE x == it[i]
             y == it[i + 1]
  <2>1. i + 1 \in 1 .. n /\ i + 1 \in 0 .. n /\ (i + 1) - 1 = i
    BY <1>n
  <2>2. y = TrimOnce(x, b)
    BY <1>1, <2>1
  <2>3. Fine(x) /\ (Fits(x) \/ Len(x.lines[b]) = n - i)
    BY <1>3
  <2>4. Len(x.lines[b]) \in Nat /\ x.bytes[b] \in Nat
    BY <2>3, KeptTypes
  <2>5. Fine(y) /\ (Fits(y) \/ Len(y.lines[b]) = n - (i + 1))
    <3> HIDE DEF x, y
    <3>1. CASE Fits(x)
      <4>1. y = x
        BY <1>n, <2>2, <2>4, <3>1 DEF TrimOnce
      <4> HIDE DEF Fine, Fits
      <4> QED BY <2>3, <3>1, <4>1
    <3>2. CASE ~Fits(x)
      <4>1. Len(x.lines[b]) > 1 /\ x.bytes[b] > MaxBytes /\ Len(x.lines[b]) = n - i
        BY <1>n, <2>3, <2>4, <3>2
      <4>2. y = DropOldest(x, b)
        BY <2>2, <4>1 DEF TrimOnce
      <4>3. /\ y \in Kept(ns)
            /\ Shorter(x, y, ns, b)
            /\ \A c \in Buffers : c # b => Same(x, y, c)
            /\ Len(y.lines[b]) = Len(x.lines[b]) - 1
        BY <2>3, <4>1, <4>2, Dropped
      <4>4. Shorter(m, y, ns, b)
        BY <2>3, <4>3, ShorterStill
      <4>5. \A c \in Buffers : c # b => Same(m, y, c)
        BY <2>3, <4>3 DEF Same
      <4>6. Len(y.lines[b]) = n - (i + 1)
        BY <1>n, <2>1, <4>1, <4>3
      <4> QED BY <4>3, <4>4, <4>5, <4>6
    <3> QED BY <3>1, <3>2
  <2> HIDE DEF Fine, Fits
  <2> QED BY <2>1, <2>5
<1>4. \A i \in 0 .. n : i \in S
  <2> HIDE DEF S, n
  <2> QED BY <1>2, <1>3, <1>n, Climb
<1>5. n \in 0 .. n
  BY <1>n
<1>6. Fine(it[n]) /\ (Fits(it[n]) \/ Len(it[n].lines[b]) = n - n)
  <2> HIDE DEF Fine, Fits
  <2> QED BY <1>4, <1>5
<1>7. Fits(it[n])
  <2>1. n - n <= 1
    BY <1>n
  <2> QED BY <1>6, <2>1
<1> QED BY <1>1, <1>6, <1>7

\* There is a largest of the buffers that have lines to shed.
LEMMA LargestIsThere ==
    ASSUME NEW ns \in Numbers, NEW m \in Kept(ns), Registered \subseteq Buffers, Multi(m) # {}
    PROVE  /\ Largest(m) \in Registered /\ Largest(m) \in Buffers
           /\ Len(m.lines[Largest(m)]) > 1
<1>1. \A c \in Multi(m) : /\ c \in Registered /\ c \in Buffers /\ c \in Nat
                          /\ Len(m.lines[c]) > 1
  BY BufferConstants DEF Multi, Buffers
<1>2. \A c \in Multi(m) : m.bytes[c] \in Nat /\ m.used - m.bytes[c] \in Nat
  <2> TAKE c \in Multi(m)
  <2>1. m.bytes[c] \in Nat /\ m.used \in Nat /\ m.bytes[c] <= m.used
    BY <1>1, KeptTypes
  <2> QED BY <2>1
<1>u. m.used \in Nat
  <2>1. PICK c \in Multi(m) : TRUE
    OBVIOUS
  <2> QED BY <1>1, <2>1, KeptTypes
<1> DEFINE R == {m.used - m.bytes[c] : c \in Multi(m)}
<1>3. R \in SUBSET Nat /\ R # {}
  BY <1>2
<1>4. PICK r \in R : \A y \in R : r <= y
  BY <1>3, Least
<1> DEFINE T == {c \in Multi(m) : m.used - m.bytes[c] = r}
<1>5. T \in SUBSET Nat /\ T # {}
  BY <1>1, <1>4
<1>6. PICK b \in T : \A c \in T : b <= c
  BY <1>5, Least
<1>7. b \in Multi(m) /\ b \in Nat /\ m.used - m.bytes[b] = r /\ m.bytes[b] \in Nat
  BY <1>1, <1>2, <1>6
<1>8. ASSUME NEW c \in Multi(m)
      PROVE  m.bytes[c] < m.bytes[b] \/ (m.bytes[c] = m.bytes[b] /\ b <= c)
  <2>1. r <= m.used - m.bytes[c]
    BY <1>4
  <2>2. m.bytes[c] \in Nat
    BY <1>2
  <2>3. CASE m.bytes[c] = m.bytes[b]
    <3>1. c \in T
      BY <1>7, <2>3
    <3> QED BY <1>6, <2>3, <3>1
  <2>4. CASE m.bytes[c] # m.bytes[b]
    BY <1>7, <1>u, <2>1, <2>2, <2>4
  <2> QED BY <2>3, <2>4
<1> HIDE DEF T, R
<1>9. Largest(m) \in Multi(m)
  <2>1. \E x \in Multi(m) :
           \A c \in Multi(m) : \/ m.bytes[c] < m.bytes[x]
                               \/ m.bytes[c] = m.bytes[x] /\ x <= c
    BY <1>7, <1>8
  <2> QED BY <2>1, Zenon DEF Largest
<1> QED BY <1>1, <1>9

Capped(m) == \A b \in Registered : m.bytes[b] <= MaxBytes \/ Len(m.lines[b]) = 1

\* Nothing to reclaim, or nothing left to shed.
Settled(m) == m.used <= BudgetMax \/ Multi(m) = {}

\* What the loop of ReclaimOnce keeps of the memory m it began with.
Reclaimed(m, x, ns) ==
    /\ x \in Kept(ns) /\ Capped(x)
    /\ \A c \in Buffers : Shorter(m, x, ns, c)
    /\ \A c \in Buffers \ Registered : Same(m, x, c)

\* The count of all lines bounds each backlog, so Reclaim takes turns enough.
LEMMA LinesCounted ==
    ASSUME NEW ns \in Numbers, NEW m \in Kept(ns)
    PROVE  /\ TotalLines(m) \in Nat
           /\ \A b \in Buffers : Len(m.lines[b]) <= TotalLines(m)
<1> DEFINE f == [b \in Buffers |-> Len(m.lines[b])]
<1>1. NumBuffers \in Nat /\ Buffers = 1 .. NumBuffers
  BY BufferConstants DEF Buffers
<1>2. \A b \in Buffers : Len(m.lines[b]) \in Nat
  BY KeptTypes
<1>3. f \in [Buffers -> Nat] /\ \A b \in Buffers : f[b] = Len(m.lines[b])
  BY <1>2
<1>t. TotalLines(m) = Total(f)
  BY DEF TotalLines
<1> HIDE DEF f
<1>4. f \in Seq(Nat) /\ Len(f) = NumBuffers
  BY <1>1, <1>3, IsASeq
<1>5. Total(f) \in Nat /\ \A b \in 1 .. NumBuffers : f[b] <= Total(f)
  BY <1>4, TotalNat
<1> QED BY <1>1, <1>3, <1>5, <1>t

\* A shed line is one line less.
LEMMA OneLineLess ==
    ASSUME NEW ns \in Numbers, NEW m \in Kept(ns), NEW x \in Kept(ns), NEW b \in Buffers,
           \A c \in Buffers : c # b => Same(m, x, c),
           Len(x.lines[b]) = Len(m.lines[b]) - 1
    PROVE  TotalLines(x) = TotalLines(m) - 1
<1> DEFINE f == [c \in Buffers |-> Len(m.lines[c])]
           g == [c \in Buffers |-> Len(x.lines[c])]
<1>1. NumBuffers \in Nat /\ Buffers = 1 .. NumBuffers
  BY BufferConstants DEF Buffers
<1>2. \A c \in Buffers : Len(m.lines[c]) \in Nat /\ Len(x.lines[c]) \in Nat
  BY KeptTypes
<1>3. /\ f \in [Buffers -> Nat] /\ g \in [Buffers -> Nat]
      /\ f[b] = Len(m.lines[b]) /\ g[b] = Len(x.lines[b])
      /\ \A c \in Buffers : c # b => g[c] = f[c]
  BY <1>2 DEF Same
<1>t. TotalLines(m) = Total(f) /\ TotalLines(x) = Total(g)
  BY DEF TotalLines
<1> HIDE DEF f, g
<1>4. f \in Seq(Nat) /\ Len(f) = NumBuffers
  BY <1>1, <1>3, IsASeq
<1>5. Total(g) = Total(f) + (g[b] - f[b]) /\ Total(f) \in Nat
  BY <1>3, <1>4, CountsAt, TotalNat
<1> QED BY <1>2, <1>3, <1>5, <1>t

\* A turn of Reclaim keeps the accounts.
LEMMA ReclaimOnceKeeps ==
    ASSUME NEW ns \in Numbers, NEW m \in Kept(ns), Registered \subseteq Buffers
    PROVE  ReclaimOnce(m) \in Kept(ns)
<1>1. CASE m.used > BudgetMax /\ Multi(m) # {}
  <2>1. DropOldest(m, Largest(m)) \in Kept(ns)
    BY <1>1, LargestIsThere, Dropped
  <2> QED BY <1>1, <2>1 DEF ReclaimOnce
<1>2. CASE ~(m.used > BudgetMax /\ Multi(m) # {})
  BY <1>2 DEF ReclaimOnce
<1> QED BY <1>1, <1>2

\* The turns of reclaim's while.
LEMMA ReclaimTurns ==
    ASSUME NEW ns \in Numbers, NEW m \in Kept(ns), Registered \subseteq Buffers
    PROVE  \E it : /\ it[0] = m
                   /\ \A i \in 1 .. TotalLines(m) : it[i] = ReclaimOnce(it[i - 1])
                   /\ Reclaim(m) = it[TotalLines(m)]
<1> DEFINE n == TotalLines(m)
           K == Kept(ns)
           F == [s \in K |-> ReclaimOnce(s)]
<1>0. n \in Nat
  BY LinesCounted
<1>t. Reclaim(m) = LET it[i \in 0 .. n] == IF i = 0 THEN m ELSE ReclaimOnce(it[i - 1]) IN it[n]
  BY DEF Reclaim, Iterate
<1> HIDE DEF n
<1>1. F \in [K -> K] /\ \A s \in K : F[s] = ReclaimOnce(s)
  BY ReclaimOnceKeeps
<1> HIDE DEF F, K
<1>2. m \in K
  BY DEF K
<1>3. PICK it \in [0 .. n -> K] : it[0] = m /\ \A i \in 1 .. n : it[i] = F[it[i - 1]]
  <2>1. CanRun(K, F, m, n)
    BY <1>0, <1>1, <1>2, Runs
  <2> QED BY <2>1 DEF CanRun
<1>4. it = [i \in 0 .. n |-> IF i = 0 THEN m ELSE ReclaimOnce(it[i - 1])]
  <2>1. ASSUME NEW i \in 0 .. n PROVE it[i] = IF i = 0 THEN m ELSE ReclaimOnce(it[i - 1])
    <3>1. CASE i = 0
      BY <1>3, <3>1
    <3>2. CASE i # 0
      <4>1. i \in 1 .. n /\ i - 1 \in 0 .. n
        BY <1>0, <3>2
      <4>2. it[i - 1] \in K /\ it[i] = F[it[i - 1]]
        BY <1>3, <4>1
      <4> QED BY <1>1, <3>2, <4>2
    <3> QED BY <3>1, <3>2
  <2> QED BY <1>3, <2>1
<1>5. \E r : r = [i \in 0 .. n |-> IF i = 0 THEN m ELSE ReclaimOnce(r[i - 1])]
  BY <1>4
<1>6. \E r : /\ r = [i \in 0 .. n |-> IF i = 0 THEN m ELSE ReclaimOnce(r[i - 1])]
             /\ Reclaim(m) = r[n]
  BY <1>5, <1>t, Zenon
<1>7. PICK r : /\ r = [i \in 0 .. n |-> IF i = 0 THEN m ELSE ReclaimOnce(r[i - 1])]
               /\ Reclaim(m) = r[n]
  BY <1>6
<1>8. \A i \in 0 .. n : r[i] = IF i = 0 THEN m ELSE ReclaimOnce(r[i - 1])
  BY <1>7
<1>9. 0 \in 0 .. n /\ \A i \in 1 .. n : i \in 0 .. n /\ i # 0
  BY <1>0
<1>10. r[0] = m /\ \A i \in 1 .. n : r[i] = ReclaimOnce(r[i - 1])
  BY <1>8, <1>9
<1> QED BY <1>7, <1>10 DEF n

\* ByteBudget.reclaim: it ends, and then the total fits or nothing is left to
\* shed; whom it sheds from keeps a line, and nobody else loses any.
LEMMA ReclaimedAll ==
    ASSUME NEW ns \in Numbers, NEW m \in Kept(ns), Registered \subseteq Buffers, Capped(m)
    PROVE  Reclaimed(m, Reclaim(m), ns) /\ Settled(Reclaim(m))
<1> DEFINE n == TotalLines(m)
<1>1. PICK it : /\ it[0] = m
                /\ \A i \in 1 .. n : it[i] = ReclaimOnce(it[i - 1])
                /\ Reclaim(m) = it[n]
  BY ReclaimTurns
<1>n. n \in Nat
  BY LinesCounted
<1> HIDE DEF n
<1> DEFINE S == {i \in 0 .. n : /\ Reclaimed(m, it[i], ns)
                                /\ Settled(it[i]) \/ TotalLines(it[i]) = n - i}
<1>2. 0 \in S
  <2>1. \A c \in Buffers : Same(m, m, c)
    BY DEF Same
  <2>2. \A c \in Buffers : Shorter(m, m, ns, c)
    BY <2>1, ShorterOnce
  <2>3. Reclaimed(m, m, ns)
    BY <2>1, <2>2 DEF Reclaimed
  <2>4. TotalLines(it[0]) = n - 0
    BY <1>1, <1>n DEF n
  <2> QED BY <1>1, <1>n, <2>3, <2>4
<1>3. ASSUME NEW i \in 0 .. n - 1, i \in S PROVE i + 1 \in S
  <2> DEFINE x == it[i]
             y == it[i + 1]
             b == Largest(x)
  <2>1. i + 1 \in 1 .. n /\ i + 1 \in 0 .. n /\ (i + 1) - 1 = i
    BY <1>n
  <2>2. y = ReclaimOnce(x)
    BY <1>1, <2>1
  <2>3. Reclaimed(m, x, ns) /\ (Settled(x) \/ TotalLines(x) = n - i)
    BY <1>3
  <2> HIDE DEF x, y
  <2>k. x \in Kept(ns)
    BY <2>3 DEF Reclaimed
  <2>u. x.used \in Nat /\ BudgetMax \in Nat
    <3>1. \E c \in Buffers : TRUE
      BY BufferConstants DEF Buffers
    <3> QED BY <2>k, <3>1, KeptTypes, BufferConstants
  <2>4. Reclaimed(m, y, ns) /\ (Settled(y) \/ TotalLines(y) = n - (i + 1))
    <3>1. CASE Settled(x)
      <4>1. y = x
        BY <2>2, <2>u, <3>1 DEF ReclaimOnce, Settled
      <4> QED BY <2>3, <3>1, <4>1
    <3>2. CASE ~Settled(x)
      <4>1. x.used > BudgetMax /\ Multi(x) # {} /\ TotalLines(x) = n - i
        BY <2>3, <2>u, <3>2 DEF Settled
      <4>2. y = DropOldest(x, b)
        BY <2>2, <4>1 DEF ReclaimOnce
      <4>3. b \in Registered /\ b \in Buffers /\ Len(x.lines[b]) > 1
        BY <2>k, <4>1, LargestIsThere
      <4> HIDE DEF b
      <4>4. /\ y \in Kept(ns)
            /\ \A c \in Buffers : Shorter(x, y, ns, c)
            /\ \A c \in Buffers : c # b => Same(x, y, c)
            /\ Len(y.lines[b]) = Len(x.lines[b]) - 1
            /\ y.bytes[b] <= x.bytes[b]
        BY <2>k, <4>2, <4>3, Dropped
      <4>5. TotalLines(y) = n - (i + 1)
        <5>1. TotalLines(y) = TotalLines(x) - 1
          BY <2>k, <4>3, <4>4, OneLineLess
        <5> QED BY <1>n, <2>1, <4>1, <5>1
      <4>6. \A c \in Buffers : Shorter(m, y, ns, c)
        <5> TAKE c \in Buffers
        <5>1. Shorter(m, x, ns, c) /\ Shorter(x, y, ns, c)
          BY <2>3, <4>4 DEF Reclaimed
        <5> QED BY <2>k, <4>4, <5>1, ShorterStill
      <4>7. \A c \in Buffers \ Registered : Same(m, y, c)
        BY <2>3, <4>3, <4>4 DEF Reclaimed, Same
      <4>8. Capped(y)
        <5> SUFFICES ASSUME NEW c \in Registered
                     PROVE  y.bytes[c] <= MaxBytes \/ Len(y.lines[c]) = 1
          BY DEF Capped
        <5>1. c \in Buffers /\ (x.bytes[c] <= MaxBytes \/ Len(x.lines[c]) = 1)
          BY <2>3 DEF Reclaimed, Capped
        <5>2. CASE c = b
          <6>1. x.bytes[b] <= MaxBytes
            <7>1. Len(x.lines[b]) \in Nat
              BY <2>k, <4>3, KeptTypes
            <7>2. Len(x.lines[b]) # 1
              <8>1. \A k \in Nat : k > 1 => k # 1
                OBVIOUS
              <8>2. Len(x.lines[b]) > 1
                BY <4>3
              <8> QED BY ONLY <7>1, <8>1, <8>2
            <7> QED BY <5>1, <5>2, <7>2
          <6>2. x.bytes[b] \in Nat /\ y.bytes[b] \in Nat /\ MaxBytes \in Nat
            BY <2>k, <4>3, <4>4, KeptTypes, BufferConstants
          <6> QED BY <4>4, <5>2, <6>1, <6>2
        <5>3. CASE c # b
          BY <4>4, <5>1, <5>3 DEF Same
        <5> QED BY <5>2, <5>3
      <4> QED BY <4>4, <4>5, <4>6, <4>7, <4>8 DEF Reclaimed
    <3> QED BY <3>1, <3>2
  <2> QED BY <2>1, <2>4 DEF y
<1>4. \A i \in 0 .. n : i \in S
  <2> HIDE DEF S
  <2> QED BY <1>2, <1>3, <1>n, Climb
<1>5. n \in 0 .. n
  BY <1>n
<1>6. Reclaimed(m, it[n], ns) /\ (Settled(it[n]) \/ TotalLines(it[n]) = n - n)
  BY <1>4, <1>5
<1>7. Settled(it[n])
  <2>1. CASE TotalLines(it[n]) = n - n
    <3>1. it[n] \in Kept(ns) /\ TotalLines(it[n]) = 0
      BY <1>n, <1>6, <2>1 DEF Reclaimed
    <3>2. \A b \in Buffers : Len(it[n].lines[b]) <= 0 /\ Len(it[n].lines[b]) \in Nat
      BY <3>1, LinesCounted, KeptTypes
    <3>3. Multi(it[n]) = {}
      <4>1. \A b \in Registered : ~(Len(it[n].lines[b]) > 1)
        BY <3>2
      <4> QED BY <4>1 DEF Multi
    <3> QED BY <3>3 DEF Settled
  <2> QED BY <1>6, <2>1
<1> QED BY <1>1, <1>6, <1>7

-----------------------------------------------------------------------------
(* The inductive invariant of the buffers.                                 *)

\* Nothing leaks, both ceilings hold, lines are numbered up to nextSeq, and
\* only a registered buffer holds lines.
BuffersInv ==
    /\ mem \in Kept(nextSeq) /\ Capped(mem) /\ Settled(mem)
    /\ nextSeq \in [Buffers -> 1 .. MaxSeq + 1]
    /\ created \in 0 .. NumBuffers /\ disposed \subseteq 1 .. created
    /\ acked \in [Buffers -> Nat] /\ \A b \in Buffers : acked[b] < nextSeq[b]
    /\ told \in [Buffers -> SUBSET (1 .. MaxSeq)]
    /\ \A b \in Buffers \ Registered : mem.lines[b] = <<>>

\* What the steps need of the invariant.
LEMMA RegisteredBuffers ==
    ASSUME BuffersInv
    PROVE  Registered \subseteq Buffers /\ nextSeq \in Numbers /\ MaxSeq \in Nat
<1>1. created \in 0 .. NumBuffers /\ NumBuffers \in Nat /\ MaxSeq \in Nat
  BY BufferConstants DEF BuffersInv
<1>2. Registered \subseteq Buffers
  BY <1>1 DEF Registered, Buffers
<1>3. nextSeq \in Numbers
  BY <1>1 DEF BuffersInv, Numbers
<1> QED BY <1>1, <1>2, <1>3

\* The memory with one more line (push, before it sheds).
LEMMA StoredIsKept ==
    ASSUME BuffersInv, NEW b \in Buffers, NEW size \in Sizes, nextSeq[b] <= MaxSeq,
           NEW n2, n2 = [nextSeq EXCEPT ![b] = @ + 1]
    PROVE  LET x == Stored(b, size) IN
           /\ n2 \in Numbers /\ n2[b] = nextSeq[b] + 1
           /\ \A c \in Buffers : c # b => n2[c] = nextSeq[c] /\ Same(mem, x, c)
           /\ x \in Kept(n2)
           /\ x.gap[b] = mem.gap[b]
           /\ Len(x.lines[b]) = Len(mem.lines[b]) + 1
<1> DEFINE x == Stored(b, size)
           l == mem.lines[b]
           line == [seq |-> nextSeq[b], size |-> size]
<1>r. nextSeq \in Numbers /\ MaxSeq \in Nat /\ mem \in Kept(nextSeq)
  BY RegisteredBuffers DEF BuffersInv
<1>0. mem \in Memory /\ Counted(mem) /\ Numbered(mem, nextSeq) /\ Holed(mem, nextSeq)
  BY <1>r DEF Kept
<1>k. /\ l \in Seq(Line) /\ Len(l) \in Nat /\ mem.bytes[b] \in Nat /\ mem.bytes[b] = Bytes(l)
      /\ mem.used \in Nat /\ nextSeq[b] \in Nat \ {0}
  BY <1>r, KeptTypes
<1>1. line \in Line /\ size \in Nat /\ line.size = size /\ line.seq = nextSeq[b]
  <2>1. nextSeq[b] \in 1 .. MaxSeq
    BY <1>k, <1>r
  <2> QED BY <2>1, BufferConstants DEF Line
<1>2. n2 \in Numbers /\ n2[b] = nextSeq[b] + 1 /\ \A c \in Buffers : c # b => n2[c] = nextSeq[c]
  BY <1>k, <1>r DEF Numbers
<1>3. /\ Append(l, line) \in Seq(Line) /\ Len(Append(l, line)) = Len(l) + 1
      /\ \A j \in 1 .. Len(l) : Append(l, line)[j] = l[j]
      /\ Append(l, line)[Len(l) + 1] = line
  <2> HIDE DEF l, line
  <2> QED BY <1>1, <1>k, AppendProperties
<1>4. /\ x.lines = [mem.lines EXCEPT ![b] = Append(l, line)]
      /\ x.bytes = [mem.bytes EXCEPT ![b] = @ + size]
      /\ x.gap = mem.gap
      /\ x.used = mem.used + size
  <2>1. mem = [lines |-> mem.lines, bytes |-> mem.bytes, gap |-> mem.gap, used |-> mem.used]
    BY <1>0 DEF Memory
  <2>2. x.lines = [mem.lines EXCEPT ![b] = Append(l, line)]
    BY <2>1 DEF Stored
  <2>3. x.bytes = [mem.bytes EXCEPT ![b] = @ + size]
    BY <2>1 DEF Stored
  <2>4. x.gap = mem.gap
    BY <2>1 DEF Stored
  <2>5. x.used = mem.used + size
    BY <2>1 DEF Stored
  <2> QED BY <2>2, <2>3, <2>4, <2>5
<1>5. x \in Memory
  <2> DEFINE m1 == [mem EXCEPT !.lines = [mem.lines EXCEPT ![b] = Append(l, line)]]
             m2 == [m1 EXCEPT !.bytes = [mem.bytes EXCEPT ![b] = @ + size]]
             m3 == [m2 EXCEPT !.used = mem.used + size]
  <2>1. [mem.lines EXCEPT ![b] = Append(l, line)] \in [Buffers -> Seq(Line)]
    BY <1>0, <1>3 DEF Memory
  <2>2. [mem.bytes EXCEPT ![b] = @ + size] \in [Buffers -> Int]
    BY <1>0, <1>1 DEF Memory
  <2>3. mem.used + size \in Int
    BY <1>0, <1>1 DEF Memory
  <2>5. x = m3
    BY Zenon DEF Stored
  <2> HIDE DEF x, line
  <2>6. m1 \in Memory
    BY <1>0, <2>1 DEF Memory
  <2> HIDE DEF m1
  <2>7. m2 \in Memory
    BY <2>2, <2>6 DEF Memory
  <2> HIDE DEF m2
  <2>8. m3 \in Memory
    BY <2>3, <2>7 DEF Memory
  <2> QED BY <2>5, <2>8
<1> HIDE DEF x, line
<1>6. /\ x.lines[b] = Append(l, line) /\ x.bytes[b] = mem.bytes[b] + size
      /\ x.gap[b] = mem.gap[b] /\ x.used = mem.used + size
      /\ \A c \in Buffers : c # b => Same(mem, x, c)
  BY <1>0, <1>4 DEF Same, Memory
<1>7. x.bytes[b] = Bytes(x.lines[b])
  BY <1>1, <1>6, <1>k, BytesByOne
<1>8. x.used = mem.used + (x.bytes[b] - mem.bytes[b])
  BY <1>1, <1>6, <1>k
<1>9. ASSUME NEW j \in 1 .. Len(x.lines[b])
      PROVE  x.lines[b][j].seq = n2[b] - Len(x.lines[b]) + (j - 1)
  <2>1. j \in 1 .. Len(l) + 1 /\ j \in Nat
    BY <1>3, <1>6, <1>k
  <2>k. n2[b] - Len(x.lines[b]) = nextSeq[b] - Len(l)
    <3>1. \A p, q \in Nat : (p + 1) - (q + 1) = p - q
      OBVIOUS
    <3>2. n2[b] = nextSeq[b] + 1 /\ Len(x.lines[b]) = Len(l) + 1
      BY <1>2, <1>3, <1>6
    <3> QED BY <1>k, <3>1, <3>2
  <2>2. CASE j \in 1 .. Len(l)
    <3>1. x.lines[b][j] = l[j] /\ l[j].seq = nextSeq[b] - Len(l) + (j - 1)
      BY <1>0, <1>3, <1>6, <2>2 DEF Numbered
    <3> QED BY <2>k, <3>1
  <2>3. CASE j = Len(l) + 1
    <3>1. x.lines[b][j].seq = nextSeq[b]
      BY <1>1, <1>3, <1>6, <2>3
    <3>2. \A p, q \in Nat : p = p - q + ((q + 1) - 1)
      OBVIOUS
    <3>3. nextSeq[b] = nextSeq[b] - Len(l) + (j - 1)
      BY <1>k, <2>3, <3>2
    <3> QED BY <2>k, <3>1, <3>3
  <2> QED BY <1>k, <2>1, <2>2, <2>3
<1>10. x.gap[b].last < n2[b] /\ (x.gap[b].last # 0 => x.gap[b].first >= 1)
  <2>1. mem.gap[b].last < nextSeq[b] /\ (mem.gap[b].last # 0 => mem.gap[b].first >= 1)
    BY <1>0 DEF Holed
  <2>2. mem.gap[b].last \in Nat
    BY <1>r, KeptTypes
  <2> QED BY <1>2, <1>6, <1>k, <2>1, <2>2
<1>11. x \in Kept(n2)
  <2>1. \A c \in Buffers : c # b => Same(mem, x, c) /\ n2[c] = nextSeq[c]
    BY <1>2, <1>6
  <2>2. \A j \in 1 .. Len(x.lines[b]) : x.lines[b][j].seq = n2[b] - Len(x.lines[b]) + (j - 1)
    BY <1>9
  <2>3. n2 \in Numbers /\ nextSeq \in Numbers /\ mem \in Kept(nextSeq) /\ b \in Buffers
    BY <1>2, <1>r
  <2>4. x.gap[b].last < n2[b]
    BY <1>10
  <2>5. x.gap[b].last # 0 => x.gap[b].first >= 1
    BY <1>10
  <2> QED BY ONLY <1>5, <1>7, <1>8, <2>1, <2>2, <2>3, <2>4, <2>5, KeptAgain
<1> QED BY <1>2, <1>3, <1>6, <1>11 DEF x, l

\* A buffer as a backlog.
View(m, ns, c) == [first |-> ns[c] - Len(m.lines[c]), next |-> ns[c], gap |-> m.gap[c]]

\* What sheds lines sheds them as a backlog does.
LEMMA ShorterIsShed ==
    ASSUME NEW ns \in Numbers, NEW m \in Kept(ns), NEW x \in Kept(ns), NEW c \in Buffers,
           Shorter(m, x, ns, c)
    PROVE  \E k \in Nat : /\ View(x, ns, c) = Abstraction(c)!Shed(View(m, ns, c), k)
                          /\ k = 0 \/ k \in Abstraction(c)!ShedCounts(View(m, ns, c))
<1> DEFINE lm == Len(m.lines[c])
           lx == Len(x.lines[c])
           k == lm - lx
           v == View(m, ns, c)
<1>1. /\ lm \in Nat /\ lx \in Nat /\ ns[c] \in Nat
  BY KeptTypes
<1>2. /\ k \in Nat /\ (k = 0 \/ k < lm)
      /\ x.gap[c] = IF k = 0 THEN m.gap[c]
                    ELSE [first |-> IF m.gap[c].last = 0 THEN ns[c] - lm ELSE m.gap[c].first,
                          last |-> ns[c] - lx - 1]
  BY DEF Shorter
<1>3. v = [first |-> ns[c] - lm, next |-> ns[c], gap |-> m.gap[c]]
  BY DEF View
<1>4. View(x, ns, c) = [first |-> ns[c] - lx, next |-> ns[c], gap |-> x.gap[c]]
  BY DEF View
<1> HIDE DEF lm, lx, v
<1>n. lx = lm - k
  BY <1>1
<1>5. View(x, ns, c) = Abstraction(c)!Shed(v, k)
  <2>1. CASE k = 0
    <3>1. lx = lm
      BY <1>1, <2>1
    <3> QED BY <1>2, <1>3, <1>4, <2>1, <3>1 DEF Abstraction!Shed
  <2>2. CASE k # 0
    <3>1. ns[c] - lx = (ns[c] - lm) + k /\ ns[c] - lx - 1 = (ns[c] - lm) + k - 1
      BY <1>1
    <3>2. x.gap[c] = [first |-> IF v.gap.last = 0 THEN v.first ELSE v.gap.first,
                      last |-> v.first + k - 1]
      BY <1>2, <1>3, <2>2, <3>1
    <3>3. Abstraction(c)!Shed(v, k)
            = [first |-> v.first + k, next |-> v.next,
               gap |-> [first |-> IF v.gap.last = 0 THEN v.first ELSE v.gap.first,
                        last |-> v.first + k - 1]]
      <4> HIDE DEF k
      <4> QED BY <1>3, <2>2 DEF Abstraction!Shed
    <3> QED BY <1>3, <1>4, <3>1, <3>2, <3>3
  <2> QED BY <2>1, <2>2
<1>6. k = 0 \/ k \in Abstraction(c)!ShedCounts(v)
  <2>1. v.next - v.first = lm
    BY <1>1, <1>3
  <2> QED BY <1>1, <1>2, <2>1 DEF Abstraction!ShedCounts, Abstraction!PendingLen
<1> QED BY <1>2, <1>5, <1>6 DEF v

Backlogs == \A c \in Buffers : Abstraction(c)!Next \/ UNCHANGED Abstraction(c)!vars

\* A buffer whose view and history stay put does not move as a backlog.
LEMMA StaysPut ==
    ASSUME NEW c \in Buffers, View(mem', nextSeq', c) = View(mem, nextSeq, c),
           acked'[c] = acked[c], told'[c] = told[c], (c \in disposed') = (c \in disposed)
    PROVE  UNCHANGED Abstraction(c)!vars
BY DEF View, Abstraction!vars

\* Another's line sheds from a registered buffer, or leaves it.
LEMMA Squeezed ==
    ASSUME BuffersInv, NEW c \in Buffers, UNCHANGED <<disposed, acked, told>>,
           nextSeq'[c] = nextSeq[c],
           NEW k \in Nat,
           View(mem', nextSeq', c) = Abstraction(c)!Shed(View(mem, nextSeq, c), k),
           k = 0 \/ (c \notin disposed /\ k \in Abstraction(c)!ShedCounts(View(mem, nextSeq, c)))
    PROVE  Abstraction(c)!Next \/ UNCHANGED Abstraction(c)!vars
<1>1. CASE k = 0
  <2>1. View(mem', nextSeq', c) = View(mem, nextSeq, c)
    BY <1>1 DEF Abstraction!Shed
  <2> QED BY <2>1, StaysPut
<1>2. CASE k # 0
  <2>1. Abstraction(c)!Squeeze
    BY <1>2 DEF Abstraction!Squeeze, View
  <2> QED BY <2>1 DEF Abstraction!Next
<1> QED BY <1>1, <1>2

\* A pushed line is received.
LEMMA Received ==
    ASSUME BuffersInv, NEW b \in Buffers, UNCHANGED <<disposed, acked, told>>, b \notin disposed,
           NEW v, v = [View(mem, nextSeq, b) EXCEPT !.next = @ + 1],
           NEW k \in Abstraction(b)!ShedCounts(v),
           View(mem', nextSeq', b) = Abstraction(b)!Shed(v, k)
    PROVE  Abstraction(b)!Next
<1>1. v = Abstraction(b)!Pushed(View(mem, nextSeq, b))
  BY DEF Abstraction!Pushed
<1>2. Abstraction(b)!Receive
  BY <1>1 DEF Abstraction!Receive, View
<1> QED BY <1>2 DEF Abstraction!Next

\* A line arrives: its own backlog sheds to its ceiling, then whichever is
\* longest while the budget is passed (LineBuffer.push, ByteBudget.reclaim).
LEMMA PushStep ==
    ASSUME BuffersInv, NEW b \in Buffers, NEW size \in Sizes, Push(b, size)
    PROVE  BuffersInv' /\ Backlogs
<1> DEFINE n2 == [nextSeq EXCEPT ![b] = @ + 1]
           x == Stored(b, size)
           y == Trim(x, b)
           z == Reclaim(y)
<1>1. /\ b \in Registered /\ nextSeq[b] <= MaxSeq /\ mem' = z /\ nextSeq' = n2
      /\ UNCHANGED <<created, disposed, acked, told>>
  BY DEF Push
<1>r. Registered \subseteq Buffers /\ nextSeq \in Numbers /\ MaxSeq \in Nat /\ mem \in Kept(nextSeq)
  BY RegisteredBuffers DEF BuffersInv
<1>2. /\ n2 \in Numbers /\ n2[b] = nextSeq[b] + 1
      /\ \A c \in Buffers : c # b => n2[c] = nextSeq[c] /\ Same(mem, x, c)
      /\ x \in Kept(n2)
      /\ x.gap[b] = mem.gap[b]
      /\ Len(x.lines[b]) = Len(mem.lines[b]) + 1
  <2> HIDE DEF x
  <2> QED BY <1>1, StoredIsKept DEF x
<1>t. nextSeq' \in [Buffers -> 1 .. MaxSeq + 1] /\ \A c \in Buffers : acked[c] < n2[c]
  <2>1. nextSeq \in [Buffers -> 1 .. MaxSeq + 1] /\ nextSeq[b] + 1 \in 1 .. MaxSeq + 1
    <3>1. nextSeq[b] \in 1 .. MaxSeq + 1
      BY DEF BuffersInv
    <3> QED BY <1>1, <1>r, <3>1 DEF BuffersInv
  <2>2. \A c \in Buffers : n2[c] \in Nat /\ nextSeq[c] \in Nat /\ nextSeq[c] <= n2[c] /\ acked[c] \in Nat
    BY <1>2, <1>r DEF Numbers, BuffersInv
  <2>3. \A c \in Buffers : acked[c] < nextSeq[c]
    BY DEF BuffersInv
  <2>4. \A c \in Buffers : acked[c] < n2[c]
    BY <2>2, <2>3
  <2> QED BY <1>1, <2>1, <2>4
<1> HIDE DEF n2, x
<1>3. /\ y \in Kept(n2)
      /\ Shorter(x, y, n2, b)
      /\ \A c \in Buffers : c # b => Same(x, y, c)
      /\ Len(y.lines[b]) <= 1 \/ y.bytes[b] <= MaxBytes
  BY <1>2, Trimmed
<1> HIDE DEF y
<1>l. /\ Len(mem.lines[b]) \in Nat /\ Len(x.lines[b]) \in Nat /\ Len(y.lines[b]) \in Nat
      /\ nextSeq[b] \in Nat
  BY <1>2, <1>3, <1>r, KeptTypes
<1>4. Capped(y)
  <2> SUFFICES ASSUME NEW c \in Registered
               PROVE  y.bytes[c] <= MaxBytes \/ Len(y.lines[c]) = 1
    BY DEF Capped
  <2>1. CASE c = b
    <3>1. Len(y.lines[b]) # 0
      <4> DEFINE lx == Len(x.lines[b])
                 ly == Len(y.lines[b])
                 lm == Len(mem.lines[b])
      <4>1. lx - ly = 0 \/ lx - ly < lx
        BY <1>3 DEF Shorter
      <4>2. lx = lm + 1
        BY <1>2
      <4>3. lm \in Nat /\ lx \in Nat /\ ly \in Nat
        BY <1>l
      <4> HIDE DEF lx, ly, lm
      <4>4. ly # 0
        BY <4>1, <4>2, <4>3
      <4> QED BY <4>4 DEF ly
    <3>2. \A n \in Nat : n <= 1 /\ n # 0 => n = 1
      OBVIOUS
    <3>3. Len(y.lines[b]) <= 1 => Len(y.lines[b]) = 1
      BY ONLY <1>l, <3>1, <3>2
    <3> QED BY <1>3, <2>1, <3>3
  <2>2. CASE c # b
    <3>1. c \in Buffers
      BY <1>r
    <3>2. Same(mem, x, c) /\ Same(x, y, c)
      BY <1>2, <1>3, <2>2, <3>1
    <3>3. mem.bytes[c] <= MaxBytes \/ Len(mem.lines[c]) = 1
      BY DEF BuffersInv, Capped
    <3> QED BY <3>2, <3>3 DEF Same
  <2> QED BY <2>1, <2>2
<1>5. Reclaimed(y, z, n2) /\ Settled(z)
  BY <1>2, <1>3, <1>4, <1>r, ReclaimedAll
<1> HIDE DEF z
<1>6. /\ z \in Kept(n2) /\ Capped(z)
      /\ \A c \in Buffers : Shorter(y, z, n2, c)
      /\ \A c \in Buffers \ Registered : Same(y, z, c)
  BY <1>5 DEF Reclaimed
<1>7. \A c \in Buffers : Shorter(x, z, n2, c)
  <2> TAKE c \in Buffers
  <2>1. Shorter(x, y, n2, c)
    <3>1. CASE c = b
      BY <1>3, <3>1
    <3>2. CASE c # b
      BY <1>2, <1>3, <3>2, ShorterOnce
    <3> QED BY <3>1, <3>2
  <2> QED BY <1>2, <1>3, <1>6, <2>1, ShorterStill
<1>8. \A c \in Buffers \ Registered : Same(mem, z, c)
  <2> TAKE c \in Buffers \ Registered
  <2>1. c # b
    BY <1>1
  <2>2. Same(mem, x, c) /\ Same(x, y, c) /\ Same(y, z, c)
    BY <1>2, <1>3, <1>6, <2>1
  <2> QED BY <2>2 DEF Same
<1>9. BuffersInv'
  <2>1. Registered' = Registered
    BY <1>1 DEF Registered
  <2>2. Capped(mem)' /\ Settled(mem)'
    BY <1>1, <1>5, <1>6, <2>1 DEF Capped, Settled, Multi
  <2>3. (mem \in Kept(nextSeq))'
    BY <1>1, <1>6
  <2>4. \A c \in Buffers \ Registered' : mem'.lines[c] = <<>>
    BY <1>1, <1>8, <2>1 DEF BuffersInv, Same
  <2>5. \A c \in Buffers : acked'[c] < nextSeq'[c]
    BY <1>1, <1>t
  <2>6. acked' \in [Buffers -> Nat] /\ told' \in [Buffers -> SUBSET (1 .. MaxSeq)]
        /\ created' \in 0 .. NumBuffers /\ disposed' \subseteq 1 .. created'
    BY <1>1 DEF BuffersInv
  <2> QED BY <1>t, <2>2, <2>3, <2>4, <2>5, <2>6 DEF BuffersInv
<1>10. ASSUME NEW c \in Buffers PROVE Abstraction(c)!Next \/ UNCHANGED Abstraction(c)!vars
  <2>1. PICK k \in Nat : /\ View(z, n2, c) = Abstraction(c)!Shed(View(x, n2, c), k)
                         /\ k = 0 \/ k \in Abstraction(c)!ShedCounts(View(x, n2, c))
    BY <1>2, <1>6, <1>7, ShorterIsShed
  <2>2. CASE c = b
    <3>1. View(x, n2, b) = [View(mem, nextSeq, b) EXCEPT !.next = @ + 1]
      <4>1. n2[b] - Len(x.lines[b]) = nextSeq[b] - Len(mem.lines[b])
        <5>1. \A p, q \in Nat : (p + 1) - (q + 1) = p - q
          OBVIOUS
        <5> QED BY <1>2, <1>l, <5>1
      <4> QED BY <1>2, <4>1 DEF View
    <3>2. k \in Abstraction(b)!ShedCounts(View(x, n2, b))
      <4>1. CASE k = 0
        <5> DEFINE lx == Len(x.lines[b])
        <5>1. lx \in Nat /\ lx >= 1 /\ n2[b] \in Nat
          <6>1. \A q \in Nat : q + 1 >= 1
            OBVIOUS
          <6> QED BY <1>2, <1>l, <6>1
        <5>2. View(x, n2, b).next - View(x, n2, b).first = lx
          BY <5>1 DEF View
        <5> HIDE DEF lx
        <5> QED BY <4>1, <5>1, <5>2 DEF Abstraction!ShedCounts, Abstraction!PendingLen
      <4> QED BY <2>1, <2>2, <4>1
    <3>3. View(mem', nextSeq', b) = Abstraction(b)!Shed(View(x, n2, b), k)
      BY <1>1, <2>1, <2>2
    <3>4. b \notin disposed
      BY <1>1 DEF Registered
    <3>5. Abstraction(b)!Next
      BY <1>1, <3>1, <3>2, <3>3, <3>4, Received
    <3> QED BY <2>2, <3>5
  <2>3. CASE c # b
    <3>1. n2[c] = nextSeq[c] /\ Same(mem, x, c)
      BY <1>2, <2>3
    <3>2. View(x, n2, c) = View(mem, nextSeq, c)
      BY <3>1 DEF View, Same
    <3>3. CASE c \in Registered
      <4>1. c \notin disposed
        BY <3>3 DEF Registered
      <4> QED BY <1>1, <2>1, <3>1, <3>2, <4>1, Squeezed
    <3>4. CASE c \notin Registered
      <4>1. View(z, n2, c) = View(mem, nextSeq, c)
        BY <1>8, <3>1, <3>4 DEF View, Same
      <4> QED BY <1>1, <4>1, StaysPut
    <3> QED BY <3>3, <3>4
  <2> QED BY <2>2, <2>3
<1> QED BY <1>9, <1>10 DEF Backlogs

\* A connection opens (the constructor of LineBuffer).
LEMMA CreateStep ==
    ASSUME BuffersInv, Create
    PROVE  BuffersInv' /\ Backlogs
<1>1. /\ created < NumBuffers /\ created' = created + 1
      /\ UNCHANGED <<mem, nextSeq, disposed, acked, told>>
  BY DEF Create
<1>2. created \in Nat /\ created \in 0 .. NumBuffers /\ disposed \subseteq 1 .. created
      /\ NumBuffers \in Nat
  BY BufferConstants DEF BuffersInv
<1>r. nextSeq \in Numbers /\ mem \in Kept(nextSeq)
  BY RegisteredBuffers DEF BuffersInv
<1>3. /\ Registered' = Registered \union {created + 1}
      /\ created + 1 \in Buffers /\ created + 1 \notin Registered
  BY <1>1, <1>2 DEF Registered, Buffers
<1>4. mem.lines[created + 1] = <<>> /\ mem.bytes[created + 1] = 0 /\ Len(mem.lines[created + 1]) = 0
  <2>1. mem.lines[created + 1] = <<>>
    BY <1>3 DEF BuffersInv
  <2>2. mem.bytes[created + 1] = Bytes(mem.lines[created + 1])
    BY <1>3, <1>r, KeptTypes
  <2>3. Bytes(<<>>) = 0 /\ Len(<<>>) = 0
    <3>1. <<>> \in Seq(Line)
      OBVIOUS
    <3> QED BY <3>1, BytesByOne
  <2> QED BY <2>1, <2>2, <2>3
<1>5. Capped(mem)'
  <2>1. 0 <= MaxBytes
    BY BufferConstants
  <2> QED BY <1>1, <1>3, <1>4, <2>1 DEF Capped, BuffersInv
<1>6. Settled(mem)'
  <2>1. Multi(mem)' = Multi(mem)
    BY <1>1, <1>3, <1>4 DEF Multi
  <2> QED BY <1>1, <2>1 DEF Settled, BuffersInv
<1>7. BuffersInv'
  <2>1. created' \in 0 .. NumBuffers /\ disposed' \subseteq 1 .. created'
    BY <1>1, <1>2
  <2> QED BY <1>1, <1>3, <1>5, <1>6, <2>1 DEF BuffersInv
<1>8. ASSUME NEW c \in Buffers PROVE UNCHANGED Abstraction(c)!vars
  BY <1>1, StaysPut DEF View
<1> QED BY <1>7, <1>8 DEF Backlogs

\* The hole is told (LineBuffer.takeGap).
LEMMA TakeGapStep ==
    ASSUME BuffersInv, NEW b \in Buffers, TakeGap(b)
    PROVE  BuffersInv' /\ Backlogs
<1>1. /\ b \in Registered /\ mem.gap[b].last # 0
      /\ told' = [told EXCEPT ![b] = @ \union (mem.gap[b].first .. mem.gap[b].last)]
      /\ mem' = [mem EXCEPT !.gap[b] = NoGap]
      /\ UNCHANGED <<nextSeq, created, disposed, acked>>
  BY DEF TakeGap
<1>r. nextSeq \in Numbers /\ mem \in Kept(nextSeq) /\ MaxSeq \in Nat
  BY RegisteredBuffers DEF BuffersInv
<1>0. mem \in Memory /\ Counted(mem) /\ Numbered(mem, nextSeq) /\ Holed(mem, nextSeq)
  BY <1>r DEF Kept
<1>2. NoGap \in Holes /\ NoGap.last = 0
  BY DEF NoGap, Holes
<1>3. /\ mem' \in Memory /\ mem'.lines = mem.lines /\ mem'.bytes = mem.bytes
      /\ mem'.used = mem.used /\ mem'.gap = [mem.gap EXCEPT ![b] = NoGap]
  <2>1. [mem.gap EXCEPT ![b] = NoGap] \in [Buffers -> Holes]
    BY <1>0, <1>2 DEF Memory
  <2>2. mem' = [mem EXCEPT !.gap = [mem.gap EXCEPT ![b] = NoGap]]
    BY <1>1
  <2> QED BY <1>0, <2>1, <2>2 DEF Memory
<1>4. mem'.gap[b] = NoGap /\ \A c \in Buffers : c # b => mem'.gap[c] = mem.gap[c]
  BY <1>0, <1>3 DEF Memory
<1>5. Counted(mem') /\ Numbered(mem', nextSeq)
  BY <1>0, <1>3 DEF Counted, Numbered
<1>6. Holed(mem', nextSeq)
  <2> SUFFICES ASSUME NEW c \in Buffers
               PROVE  mem'.gap[c].last < nextSeq[c] /\ (mem'.gap[c].last # 0 => mem'.gap[c].first >= 1)
    BY DEF Holed
  <2>1. CASE c = b
    <3>1. nextSeq[b] \in Nat \ {0}
      BY <1>r DEF Numbers
    <3> QED BY <1>2, <1>4, <2>1, <3>1
  <2>2. CASE c # b
    BY <1>0, <1>4, <2>2 DEF Holed
  <2> QED BY <2>1, <2>2
<1>7. told' \in [Buffers -> SUBSET (1 .. MaxSeq)]
  <2>1. /\ mem.gap[b].first \in Nat /\ mem.gap[b].last \in Nat
        /\ mem.gap[b].first >= 1 /\ mem.gap[b].last < nextSeq[b]
    BY <1>0, <1>1, <1>r, KeptTypes DEF Holed
  <2>2. nextSeq[b] \in 1 .. MaxSeq + 1
    BY DEF BuffersInv
  <2>3. (mem.gap[b].first .. mem.gap[b].last) \subseteq 1 .. MaxSeq
    BY <1>r, <2>1, <2>2
  <2> QED BY <1>1, <2>3 DEF BuffersInv
<1>8. BuffersInv'
  <2>1. Registered' = Registered
    BY <1>1 DEF Registered
  <2>2. Capped(mem)' /\ Settled(mem)'
    BY <1>3, <2>1 DEF Capped, Settled, Multi, BuffersInv
  <2>3. (mem \in Kept(nextSeq))'
    BY <1>1, <1>3, <1>5, <1>6 DEF Kept
  <2> QED BY <1>1, <1>3, <1>7, <2>1, <2>2, <2>3 DEF BuffersInv
<1>9. ASSUME NEW c \in Buffers PROVE Abstraction(c)!Next \/ UNCHANGED Abstraction(c)!vars
  <2>1. CASE c = b
    <3>1. View(mem', nextSeq', b) = Abstraction(b)!GapTaken(View(mem, nextSeq, b))
      BY <1>1, <1>3, <1>4 DEF View, Abstraction!GapTaken, Abstraction!NoGap, NoGap
    <3>2. told'[b] = told[b] \union Abstraction(b)!GapSeqs(View(mem, nextSeq, b))
      <4>1. told'[b] = told[b] \union (mem.gap[b].first .. mem.gap[b].last)
        BY <1>1 DEF BuffersInv
      <4> QED BY <1>1, <4>1 DEF View, Abstraction!GapSeqs
    <3>3. b \notin disposed
      BY <1>1 DEF Registered
    <3>4. Abstraction(b)!TakeGap
      BY <1>1, <3>1, <3>2, <3>3 DEF Abstraction!TakeGap, View
    <3> QED BY <2>1, <3>4 DEF Abstraction!Next
  <2>2. CASE c # b
    <3>1. View(mem', nextSeq', c) = View(mem, nextSeq, c)
      BY <1>1, <1>3, <1>4, <2>2 DEF View
    <3>2. told'[c] = told[c]
      BY <1>1, <2>2 DEF BuffersInv
    <3> QED BY <1>1, <3>1, <3>2, StaysPut
  <2> QED BY <2>1, <2>2
<1> QED BY <1>8, <1>9 DEF Backlogs

\* Of fewer bytes and fewer lines nothing more is left to reclaim.
LEMMA SettledStill ==
    ASSUME NEW m \in Kept(nextSeq), NEW x \in Kept(nextSeq), nextSeq \in Numbers,
           NEW R, R \subseteq Registered, Registered \subseteq Buffers,
           Settled(m), x.used <= m.used,
           \A c \in R : Len(x.lines[c]) <= Len(m.lines[c])
    PROVE  x.used <= BudgetMax \/ {c \in R : Len(x.lines[c]) > 1} = {}
<1>1. CASE m.used <= BudgetMax
  <2>0. \E c \in Buffers : TRUE
    BY BufferConstants DEF Buffers
  <2>1. PICK c \in Buffers : TRUE
    BY <2>0
  <2>2. m.used \in Nat /\ x.used \in Nat /\ BudgetMax \in Nat
    BY <2>1, KeptTypes, BufferConstants
  <2> QED BY <1>1, <2>2
<1>2. CASE Multi(m) = {}
  <2>1. \A p, q \in Nat : p <= q /\ ~(q > 1) => ~(p > 1)
    OBVIOUS
  <2>2. ASSUME NEW c \in R PROVE ~(Len(x.lines[c]) > 1)
    <3>1. c \in Registered /\ c \in Buffers
      OBVIOUS
    <3>2. ~(Len(m.lines[c]) > 1)
      BY <1>2, <3>1 DEF Multi
    <3>3. Len(m.lines[c]) \in Nat /\ Len(x.lines[c]) \in Nat
      BY <3>1, KeptTypes
    <3> QED BY <2>1, <3>2, <3>3
  <2> QED BY <2>2
<1> QED BY <1>1, <1>2 DEF Settled

\* A connection ends, and its bytes go back (LineBuffer.dispose).
LEMMA DisposeStep ==
    ASSUME BuffersInv, NEW b \in Buffers, Dispose(b)
    PROVE  BuffersInv' /\ Backlogs
<1>1. /\ b \in Registered
      /\ mem' = [mem EXCEPT !.lines[b] = <<>>,
                            !.bytes[b] = 0,
                            !.used     = @ - mem.bytes[b]]
      /\ disposed' = disposed \union {b}
      /\ UNCHANGED <<nextSeq, created, acked, told>>
  BY DEF Dispose
<1>r. nextSeq \in Numbers /\ mem \in Kept(nextSeq) /\ MaxSeq \in Nat /\ Registered \subseteq Buffers
  BY RegisteredBuffers DEF BuffersInv
<1>0. mem \in Memory /\ Counted(mem) /\ Numbered(mem, nextSeq) /\ Holed(mem, nextSeq)
  BY <1>r DEF Kept
<1>k. mem.bytes[b] \in Nat /\ mem.used \in Nat /\ nextSeq[b] \in Nat
  BY <1>r, KeptTypes
<1>e. <<>> \in Seq(Line) /\ Len(<<>>) = 0 /\ Bytes(<<>>) = 0
  <2>1. <<>> \in Seq(Line) /\ Len(<<>>) = 0
    OBVIOUS
  <2> QED BY <2>1, BytesByOne
<1> DEFINE m1 == [mem EXCEPT !.lines = [mem.lines EXCEPT ![b] = <<>>]]
           m2 == [m1 EXCEPT !.bytes = [mem.bytes EXCEPT ![b] = 0]]
           m3 == [m2 EXCEPT !.used = mem.used - mem.bytes[b]]
<1>2. mem' = m3
  <2>1. mem = [lines |-> mem.lines, bytes |-> mem.bytes, gap |-> mem.gap, used |-> mem.used]
    BY <1>0 DEF Memory
  <2> QED BY <1>1, <2>1, Zenon
<1>3. m1 \in Memory /\ m1.lines = [mem.lines EXCEPT ![b] = <<>>] /\ m1.bytes = mem.bytes
      /\ m1.gap = mem.gap /\ m1.used = mem.used
  <2>1. [mem.lines EXCEPT ![b] = <<>>] \in [Buffers -> Seq(Line)]
    BY <1>0, <1>e DEF Memory
  <2> QED BY <1>0, <2>1 DEF Memory
<1> HIDE DEF m1
<1>4. m2 \in Memory /\ m2.lines = m1.lines /\ m2.bytes = [mem.bytes EXCEPT ![b] = 0]
      /\ m2.gap = mem.gap /\ m2.used = mem.used
  <2>1. [mem.bytes EXCEPT ![b] = 0] \in [Buffers -> Int]
    BY <1>0 DEF Memory
  <2> QED BY <1>3, <2>1 DEF Memory
<1> HIDE DEF m2
<1>5. mem' \in Memory /\ mem'.lines = [mem.lines EXCEPT ![b] = <<>>]
      /\ mem'.bytes = [mem.bytes EXCEPT ![b] = 0]
      /\ mem'.gap = mem.gap /\ mem'.used = mem.used - mem.bytes[b]
  <2>1. m3 \in Memory /\ m3.lines = m2.lines /\ m3.bytes = m2.bytes /\ m3.gap = m2.gap
        /\ m3.used = mem.used - mem.bytes[b]
    <3>1. mem.used - mem.bytes[b] \in Int /\ m2 \in Memory
      BY <1>4, <1>k
    <3> QED BY ONLY <3>1 DEF Memory
  <2> QED BY <1>2, <1>3, <1>4, <2>1
<1>6. /\ mem'.lines[b] = <<>> /\ mem'.bytes[b] = 0 /\ mem'.gap[b] = mem.gap[b]
      /\ \A c \in Buffers : c # b => Same(mem, mem', c)
  BY <1>0, <1>5 DEF Same, Memory
<1>7. mem' \in Kept(nextSeq)
  <2>1. mem'.bytes[b] = Bytes(mem'.lines[b])
    BY <1>6, <1>e
  <2>2. mem'.used = mem.used + (mem'.bytes[b] - mem.bytes[b])
    BY <1>5, <1>6, <1>k
  <2>3. \A j \in 1 .. Len(mem'.lines[b]) :
           mem'.lines[b][j].seq = nextSeq[b] - Len(mem'.lines[b]) + (j - 1)
    BY <1>6, <1>e
  <2>4. mem'.gap[b].last < nextSeq[b]
    BY <1>0, <1>6 DEF Holed
  <2>5. mem'.gap[b].last # 0 => mem'.gap[b].first >= 1
    BY <1>0, <1>6 DEF Holed
  <2>6. \A c \in Buffers : c # b => Same(mem, mem', c) /\ nextSeq[c] = nextSeq[c]
    BY <1>6
  <2>7. mem' \in Memory /\ b \in Buffers /\ nextSeq \in Numbers /\ mem \in Kept(nextSeq)
    BY <1>5, <1>r
  <2> QED BY ONLY <2>1, <2>2, <2>3, <2>4, <2>5, <2>6, <2>7, KeptAgain
<1>8. Registered' = Registered \ {b}
  BY <1>1 DEF Registered
<1>9. BuffersInv'
  <2>1. Capped(mem)'
    BY <1>6, <1>8, <1>r DEF Capped, BuffersInv, Same
  <2>2. Settled(mem)'
    <3> DEFINE x == mem'
               R == Registered'
    <3>1. \A c \in R : c # b /\ c \in Buffers /\ x.lines[c] = mem.lines[c]
      BY <1>6, <1>8, <1>r DEF Same
    <3>2. \A c \in R : Len(x.lines[c]) <= Len(mem.lines[c])
      <4>1. \A c \in R : Len(mem.lines[c]) \in Nat
        BY <1>r, <3>1, KeptTypes
      <4> QED BY <3>1, <4>1
    <3>3. x.used <= mem.used
      BY <1>5, <1>k
    <3>4. x \in Kept(nextSeq) /\ R \subseteq Registered /\ Settled(mem)
      BY <1>7, <1>8 DEF BuffersInv
    <3> HIDE DEF x, R
    <3>5. x.used <= BudgetMax \/ {c \in R : Len(x.lines[c]) > 1} = {}
      BY <1>r, <3>2, <3>3, <3>4, SettledStill
    <3> QED BY <3>5 DEF x, R, Settled, Multi
  <2>3. (mem \in Kept(nextSeq))'
    BY <1>1, <1>7
  <2>4. \A c \in Buffers \ Registered' : mem'.lines[c] = <<>>
    BY <1>6, <1>8 DEF BuffersInv, Same
  <2>5. disposed' \subseteq 1 .. created'
    BY <1>1 DEF BuffersInv, Registered
  <2> QED BY <1>1, <2>1, <2>2, <2>3, <2>4, <2>5 DEF BuffersInv
<1>10. ASSUME NEW c \in Buffers PROVE Abstraction(c)!Next \/ UNCHANGED Abstraction(c)!vars
  <2>1. CASE c = b
    <3>1. View(mem', nextSeq', b) = [View(mem, nextSeq, b) EXCEPT !.first = View(mem, nextSeq, b).next]
      BY <1>1, <1>6, <1>e, <1>k DEF View
    <3>2. b \notin disposed /\ b \in disposed'
      BY <1>1 DEF Registered
    <3>3. Abstraction(b)!Dispose
      BY <1>1, <3>1, <3>2 DEF Abstraction!Dispose, View
    <3> QED BY <2>1, <3>3 DEF Abstraction!Next
  <2>2. CASE c # b
    <3>1. View(mem', nextSeq', c) = View(mem, nextSeq, c)
      BY <1>1, <1>6, <2>2 DEF View, Same
    <3>2. (c \in disposed') = (c \in disposed)
      BY <1>1, <2>2
    <3> QED BY <1>1, <3>1, <3>2, StaysPut
  <2> QED BY <2>1, <2>2
<1> QED BY <1>9, <1>10 DEF Backlogs

\* How many lines at the front an ack of q releases, of lines numbered from f.
LEMMA LeadingIs ==
    ASSUME NEW lines \in Seq(Line), NEW f \in Nat, NEW q \in Nat,
           \A j \in 1 .. Len(lines) : lines[j].seq = f + (j - 1)
    PROVE  /\ Leading(lines, q) \in 0 .. Len(lines)
           /\ f + Leading(lines, q) = IF q < f THEN f
                                      ELSE IF q < f + Len(lines) THEN q + 1 ELSE f + Len(lines)
<1> DEFINE len == Len(lines)
           End(n) == /\ \A i \in 1 .. n : Releases(lines[i], q)
                     /\ n < len => ~Releases(lines[n + 1], q)
           k == IF q < f THEN 0 ELSE IF q < f + len THEN q + 1 - f ELSE len
           n == Leading(lines, q)
<1>0. len \in Nat
  BY LenProperties
<1>1. n = CHOOSE x \in 0 .. len : End(x)
  BY Zenon DEF Leading
<1> HIDE DEF len, n
<1>l. \A j \in 1 .. len : lines[j].seq = f + (j - 1)
  BY DEF len
<1>2. k \in 0 .. len /\ k \in Nat
  BY <1>0
<1>r. \A i \in 1 .. len : Releases(lines[i], q) <=> f + (i - 1) <= q
  BY <1>l DEF Releases
<1>3. End(k)
  <2>1. ASSUME NEW i \in 1 .. k PROVE Releases(lines[i], q)
    <3>1. i \in 1 .. len /\ f + (i - 1) <= q
      BY <1>0, <1>2
    <3> QED BY <1>r, <3>1
  <2>2. ASSUME k < len PROVE ~Releases(lines[k + 1], q)
    <3>1. k + 1 \in 1 .. len /\ ~(f + ((k + 1) - 1) <= q)
      BY <1>0, <1>2, <2>2
    <3> QED BY <1>r, <3>1
  <2> HIDE DEF k
  <2> QED BY <2>1, <2>2
<1>4. n \in 0 .. len /\ End(n)
  <2>1. \E x \in 0 .. len : End(x)
    BY <1>2, <1>3
  <2> HIDE DEF End
  <2> QED BY <1>1, <2>1, Zenon
<1>5. n = k
  <2>1. ~(n < k)
    <3> SUFFICES ASSUME n < k PROVE FALSE
      OBVIOUS
    <3>1. n + 1 \in 1 .. k /\ n < len
      <4> HIDE DEF End
      <4> QED BY <1>0, <1>2, <1>4
    <3>2. Releases(lines[n + 1], q)
      <4> HIDE DEF k
      <4> QED BY <1>3, <3>1
    <3> QED BY <1>4, <3>1, <3>2
  <2>2. ~(k < n)
    <3> SUFFICES ASSUME k < n PROVE FALSE
      OBVIOUS
    <3>1. k + 1 \in 1 .. n /\ k < len
      <4> HIDE DEF End, k
      <4>1. n \in 0 .. len /\ len \in Nat /\ k \in Nat /\ k < n
        BY <1>0, <1>2, <1>4
      <4> QED BY ONLY <4>1
    <3>2. ~Releases(lines[k + 1], q)
      <4> HIDE DEF k
      <4> QED BY <1>3, <3>1
    <3> QED BY <1>4, <3>1, <3>2
  <2>3. n \in Nat
    <3> HIDE DEF End, k
    <3> QED BY <1>0, <1>4
  <2> HIDE DEF End, k
  <2> QED BY <1>2, <2>1, <2>2, <2>3
<1>6. f + k = IF q < f THEN f ELSE IF q < f + len THEN q + 1 ELSE f + len
  BY <1>0
<1> HIDE DEF End, k
<1> QED BY <1>4, <1>5, <1>6 DEF n, len

\* What an ack leaves of the lines.
LEMMA Released ==
    ASSUME NEW lines \in Seq(Line), NEW n \in 0 .. Len(lines)
    PROVE  LET rest == SubSeq(lines, n + 1, Len(lines)) IN
           /\ rest \in Seq(Line) /\ Len(rest) = Len(lines) - n
           /\ \A j \in 1 .. Len(rest) : rest[j] = lines[n + j]
           /\ Bytes(SubSeq(lines, 1, n)) \in Nat
           /\ Bytes(rest) = Bytes(lines) - Bytes(SubSeq(lines, 1, n))
<1> DEFINE len == Len(lines)
           rest == SubSeq(lines, n + 1, len)
           front == SubSeq(lines, 1, n)
<1>0. len \in Nat /\ \A i \in 1 .. len : lines[i] \in Line
  BY LenProperties, ElementOfSeq
<1>f. SubSeq(lines, 1, len) = lines
  BY SubSeqFull
<1>c. front \o rest = SubSeq(lines, 1, len)
  <2>1. 1 \in 1 .. Len(lines) + 1 /\ n \in 1 - 1 .. Len(lines) /\ len \in n .. Len(lines)
    BY <1>0
  <2> HIDE DEF len
  <2> QED BY <2>1, ConcatAdjacentSubSeq
<1>l. len = Len(lines)
  OBVIOUS
<1> HIDE DEF len
<1>1. n \in Nat /\ n + 1 \in Int /\ 1 \in Int /\ n <= len
  BY <1>0, <1>l
<1>2. /\ rest \in Seq(Line)
      /\ Len(rest) = IF n + 1 <= len THEN len - (n + 1) + 1 ELSE 0
      /\ \A i \in 1 .. len - (n + 1) + 1 : rest[i] = lines[(n + 1) + i - 1]
  <2>1. \A i \in n + 1 .. len : lines[i] \in Line
    BY <1>0, <1>1
  <2> QED BY <1>0, <1>1, <2>1, SubSeqProperties
<1>3. front \in Seq(Line)
  <2>1. \A i \in 1 .. n : lines[i] \in Line
    BY <1>0, <1>1
  <2> QED BY <1>1, <2>1, SubSeqProperties
<1> HIDE DEF rest, front
<1>4. Len(rest) = len - n
  BY <1>0, <1>1, <1>2
<1>5. \A j \in 1 .. Len(rest) : rest[j] = lines[n + j]
  <2> TAKE j \in 1 .. Len(rest)
  <2>1. j \in 1 .. len - (n + 1) + 1 /\ (n + 1) + j - 1 = n + j
    BY <1>0, <1>1, <1>4
  <2> QED BY <1>2, <2>1
<1>6. Bytes(lines) = Bytes(front) + Bytes(rest)
  BY <1>2, <1>3, <1>c, <1>f, BytesConcat
<1>7. Bytes(front) \in Nat /\ Bytes(rest) \in Nat
  BY <1>2, <1>3, BytesOf
<1>8. Bytes(rest) = Bytes(lines) - Bytes(front)
  BY <1>6, <1>7
<1> QED BY <1>2, <1>4, <1>5, <1>7, <1>8 DEF rest, front, len

\* An ack shrinks the hole, or forgets it.
LEMMA AckGapIs ==
    ASSUME NEW g \in Holes, NEW q \in Nat, NEW n \in Nat, g.last < n, g.last # 0 => g.first >= 1
    PROVE  /\ AckGap(g, q) \in Holes /\ AckGap(g, q).last < n
           /\ AckGap(g, q).last # 0 => AckGap(g, q).first >= 1
           /\ q >= n => AckGap(g, q) = NoGap /\ AckGap(g, n) = NoGap
<1>1. g.first \in Nat /\ g.last \in Nat /\ NoGap \in Holes /\ NoGap.last = 0
  BY DEF Holes, NoGap
<1>2. [g EXCEPT !.first = q + 1] \in Holes /\ [g EXCEPT !.first = q + 1].last = g.last
      /\ [g EXCEPT !.first = q + 1].first = q + 1
  BY DEF Holes
<1>3. CASE q >= g.last
  BY <1>1, <1>3 DEF AckGap
<1>4. CASE ~(q >= g.last) /\ q >= g.first
  <2>1. AckGap(g, q) = [g EXCEPT !.first = q + 1]
    BY <1>4 DEF AckGap
  <2>2. ~(q >= n)
    BY <1>1, <1>4
  <2> QED BY <1>1, <1>2, <2>1, <2>2
<1>5. CASE ~(q >= g.last) /\ ~(q >= g.first)
  <2>1. AckGap(g, q) = g
    BY <1>5 DEF AckGap
  <2>2. ~(q >= n)
    BY <1>1, <1>5
  <2> QED BY <1>1, <2>1, <2>2
<1> QED BY <1>3, <1>4, <1>5

\* The memory after an ack.
LEMMA AckedMemory ==
    ASSUME BuffersInv, NEW b \in Buffers, NEW q \in Nat, Ack(b, q)
    PROVE  /\ mem' \in Kept(nextSeq)
           /\ \A c \in Buffers : c # b => Same(mem, mem', c)
           /\ Len(mem'.lines[b]) = Len(mem.lines[b]) - Leading(mem.lines[b], q)
           /\ Leading(mem.lines[b], q) \in 0 .. Len(mem.lines[b])
           /\ mem'.gap[b] = AckGap(mem.gap[b], q)
           /\ mem'.used <= mem.used /\ mem'.bytes[b] <= mem.bytes[b]
           /\ View(mem, nextSeq, b).first + Leading(mem.lines[b], q)
                = IF q < View(mem, nextSeq, b).first THEN View(mem, nextSeq, b).first
                  ELSE IF q < nextSeq[b] THEN q + 1 ELSE nextSeq[b]
<1> DEFINE l == mem.lines[b]
           n == Leading(l, q)
           freed == Bytes(SubSeq(l, 1, n))
           rest == SubSeq(l, n + 1, Len(l))
           hole == AckGap(mem.gap[b], q)
           f == nextSeq[b] - Len(l)
<1>1. mem' = [mem EXCEPT !.lines[b] = rest,
                         !.bytes[b] = @ - freed,
                         !.used     = @ - freed,
                         !.gap[b]   = AckGap(@, q)]
  BY DEF Ack
<1>r. nextSeq \in Numbers /\ mem \in Kept(nextSeq)
  BY RegisteredBuffers DEF BuffersInv
<1>0. mem \in Memory /\ Counted(mem) /\ Numbered(mem, nextSeq) /\ Holed(mem, nextSeq)
  BY <1>r DEF Kept
<1>k. /\ l \in Seq(Line) /\ Len(l) \in Nat /\ mem.bytes[b] \in Nat /\ mem.bytes[b] = Bytes(l)
      /\ mem.gap[b] \in Holes /\ mem.used \in Nat /\ mem.bytes[b] <= mem.used
      /\ nextSeq[b] \in Nat /\ f \in Nat \ {0}
  BY <1>r, KeptTypes
<1>2. /\ n \in 0 .. Len(l)
      /\ f + n = IF q < f THEN f ELSE IF q < f + Len(l) THEN q + 1 ELSE f + Len(l)
  <2>1. \A j \in 1 .. Len(l) : l[j].seq = f + (j - 1)
    BY <1>0 DEF Numbered
  <2> HIDE DEF l, f
  <2> QED BY <1>k, <2>1, LeadingIs
<1>3. /\ rest \in Seq(Line) /\ Len(rest) = Len(l) - n
      /\ \A j \in 1 .. Len(rest) : rest[j] = l[n + j]
      /\ freed \in Nat
      /\ Bytes(rest) = Bytes(l) - freed
  <2> HIDE DEF l, n
  <2> QED BY <1>2, <1>k, Released
<1>g. /\ hole \in Holes /\ hole.last < nextSeq[b]
      /\ hole.last # 0 => hole.first >= 1
  <2>1. mem.gap[b].last < nextSeq[b] /\ (mem.gap[b].last # 0 => mem.gap[b].first >= 1)
    BY <1>0 DEF Holed
  <2> QED BY <1>k, <2>1, AckGapIs
<1> HIDE DEF n, freed, rest
<1> DEFINE m1 == [mem EXCEPT !.lines = [mem.lines EXCEPT ![b] = rest]]
           m2 == [m1 EXCEPT !.bytes = [mem.bytes EXCEPT ![b] = @ - freed]]
           m3 == [m2 EXCEPT !.used = mem.used - freed]
           m4 == [m3 EXCEPT !.gap = [mem.gap EXCEPT ![b] = hole]]
<1>4. mem' = m4
  <2>1. mem = [lines |-> mem.lines, bytes |-> mem.bytes, gap |-> mem.gap, used |-> mem.used]
    BY <1>0 DEF Memory
  <2> QED BY <1>1, <2>1, Zenon
<1> HIDE DEF hole
<1>a. m1 \in Memory /\ m1.lines = [mem.lines EXCEPT ![b] = rest] /\ m1.bytes = mem.bytes
      /\ m1.gap = mem.gap /\ m1.used = mem.used
  <2>1. [mem.lines EXCEPT ![b] = rest] \in [Buffers -> Seq(Line)]
    BY <1>0, <1>3 DEF Memory
  <2> QED BY <1>0, <2>1 DEF Memory
<1> HIDE DEF m1
<1>b. m2 \in Memory /\ m2.lines = m1.lines /\ m2.bytes = [mem.bytes EXCEPT ![b] = @ - freed]
      /\ m2.gap = mem.gap /\ m2.used = mem.used
  <2>1. [mem.bytes EXCEPT ![b] = @ - freed] \in [Buffers -> Int]
    BY <1>0, <1>3 DEF Memory
  <2> QED BY <1>a, <2>1 DEF Memory
<1> HIDE DEF m2
<1>c. m3 \in Memory /\ m3.lines = m2.lines /\ m3.bytes = m2.bytes /\ m3.gap = mem.gap
      /\ m3.used = mem.used - freed
  <2>1. mem.used - freed \in Int /\ m2 \in Memory
    BY <1>3, <1>b, <1>k
  <2>2. m3 \in Memory /\ m3.lines = m2.lines /\ m3.bytes = m2.bytes /\ m3.gap = m2.gap
        /\ m3.used = mem.used - freed
    BY ONLY <2>1 DEF Memory
  <2> QED BY <1>b, <2>2
<1> HIDE DEF m3
<1>d. m4 \in Memory /\ m4.lines = m3.lines /\ m4.bytes = m3.bytes
      /\ m4.gap = [mem.gap EXCEPT ![b] = hole] /\ m4.used = m3.used
  <2>1. [mem.gap EXCEPT ![b] = hole] \in [Buffers -> Holes]
    BY <1>0, <1>g DEF Memory
  <2> QED BY <1>c, <2>1 DEF Memory
<1> HIDE DEF m4
<1>5. /\ mem' \in Memory
      /\ mem'.lines = [mem.lines EXCEPT ![b] = rest]
      /\ mem'.bytes = [mem.bytes EXCEPT ![b] = @ - freed]
      /\ mem'.gap = [mem.gap EXCEPT ![b] = hole]
      /\ mem'.used = mem.used - freed
  BY <1>4, <1>a, <1>b, <1>c, <1>d
<1>6. /\ mem'.lines[b] = rest /\ mem'.bytes[b] = mem.bytes[b] - freed /\ mem'.gap[b] = hole
      /\ \A c \in Buffers : c # b => Same(mem, mem', c)
  BY <1>0, <1>5 DEF Same, Memory
<1>7. mem' \in Kept(nextSeq)
  <2>1. mem'.bytes[b] = Bytes(mem'.lines[b])
    BY <1>3, <1>6, <1>k
  <2>2. mem'.used = mem.used + (mem'.bytes[b] - mem.bytes[b])
    BY <1>3, <1>5, <1>6, <1>k
  <2>3. \A j \in 1 .. Len(mem'.lines[b]) :
           mem'.lines[b][j].seq = nextSeq[b] - Len(mem'.lines[b]) + (j - 1)
    <3> DEFINE len == Len(l)
               lr == Len(rest)
    <3>0. lr = len - n /\ len \in Nat /\ n \in 0 .. len
      BY <1>2, <1>3, <1>k
    <3> SUFFICES ASSUME NEW j \in 1 .. lr
                 PROVE  rest[j].seq = nextSeq[b] - lr + (j - 1)
      BY <1>6
    <3>1. rest[j] = l[n + j]
      BY <1>3
    <3>s. \A i \in 1 .. len : l[i].seq = nextSeq[b] - len + (i - 1)
      BY <1>0 DEF Numbered
    <3> HIDE DEF len, lr, l, f
    <3>2. n + j \in 1 .. len /\ j \in Nat /\ n \in Nat
      BY <3>0
    <3>3. l[n + j].seq = nextSeq[b] - len + ((n + j) - 1)
      BY <3>2, <3>s
    <3> QED BY <1>k, <3>0, <3>1, <3>2, <3>3
  <2>4. mem'.gap[b].last < nextSeq[b]
    BY <1>6, <1>g
  <2>5. mem'.gap[b].last # 0 => mem'.gap[b].first >= 1
    BY <1>6, <1>g
  <2>6. \A c \in Buffers : c # b => Same(mem, mem', c) /\ nextSeq[c] = nextSeq[c]
    BY <1>6
  <2>7. mem' \in Memory /\ b \in Buffers /\ nextSeq \in Numbers /\ mem \in Kept(nextSeq)
    BY <1>5, <1>r
  <2> QED BY ONLY <2>1, <2>2, <2>3, <2>4, <2>5, <2>6, <2>7, KeptAgain
<1>8. mem'.used <= mem.used /\ mem'.bytes[b] <= mem.bytes[b]
  BY <1>3, <1>5, <1>6, <1>k
<1>9. View(mem, nextSeq, b).first = f /\ f + Len(l) = nextSeq[b]
  BY <1>k DEF View
<1>10. Len(mem'.lines[b]) = Len(l) - n
  BY <1>3, <1>6
<1> HIDE DEF l, f
<1>11. View(mem, nextSeq, b).first + n
         = IF q < View(mem, nextSeq, b).first THEN View(mem, nextSeq, b).first
           ELSE IF q < nextSeq[b] THEN q + 1 ELSE nextSeq[b]
  BY <1>2, <1>9
<1> QED BY <1>2, <1>6, <1>7, <1>8, <1>10, <1>11 DEF n, l, hole

\* The lines up to q are let go of (LineBuffer.ack).
LEMMA AckStep ==
    ASSUME BuffersInv, NEW b \in Buffers, NEW q \in 1 .. MaxSeq, Ack(b, q)
    PROVE  BuffersInv' /\ Backlogs
<1> DEFINE n == Leading(mem.lines[b], q)
           v == View(mem, nextSeq, b)
           w == View(mem', nextSeq', b)
           lm == Len(mem.lines[b])
           lx == Len(mem'.lines[b])
           ns == nextSeq[b]
           p == IF q <= ns THEN q ELSE ns
<1>1. /\ b \in Registered
      /\ acked' = [acked EXCEPT ![b] = Reached(b, q)]
      /\ UNCHANGED <<nextSeq, created, disposed, told>>
  BY DEF Ack
<1>r. nextSeq \in Numbers /\ mem \in Kept(nextSeq) /\ MaxSeq \in Nat /\ Registered \subseteq Buffers
  BY RegisteredBuffers DEF BuffersInv
<1>q. q \in Nat
  BY <1>r
<1>2. /\ mem' \in Kept(nextSeq)
      /\ \A c \in Buffers : c # b => Same(mem, mem', c)
      /\ lx = lm - n /\ n \in 0 .. lm
      /\ mem'.gap[b] = AckGap(mem.gap[b], q)
      /\ mem'.used <= mem.used /\ mem'.bytes[b] <= mem.bytes[b]
      /\ v.first + n = IF q < v.first THEN v.first ELSE IF q < ns THEN q + 1 ELSE ns
  BY <1>q, AckedMemory
<1>k. /\ lm \in Nat /\ lx \in Nat /\ ns \in Nat \ {0} /\ ns - lm \in Nat \ {0}
      /\ mem.gap[b] \in Holes /\ mem.bytes[b] \in Nat /\ mem'.bytes[b] \in Nat
      /\ mem'.lines[b] \in Seq(Line) /\ mem'.bytes[b] = Bytes(mem'.lines[b])
      /\ acked[b] \in Nat /\ acked[b] < ns /\ MaxBytes \in Nat
  <2>1. acked[b] \in Nat /\ acked[b] < ns
    BY DEF BuffersInv
  <2>2. MaxBytes \in Nat
    BY BufferConstants
  <2> QED BY <1>2, <1>r, <2>1, <2>2, KeptTypes
<1>3. Registered' = Registered
  BY <1>1 DEF Registered
<1>4. Capped(mem)'
  <2> SUFFICES ASSUME NEW c \in Registered
               PROVE  mem'.bytes[c] <= MaxBytes \/ Len(mem'.lines[c]) = 1
    BY <1>3 DEF Capped
  <2>0. mem.bytes[c] <= MaxBytes \/ Len(mem.lines[c]) = 1
    BY DEF BuffersInv, Capped
  <2>1. CASE c # b
    <3>1. c \in Buffers
      BY <1>r
    <3> QED BY <1>2, <2>0, <2>1, <3>1 DEF Same
  <2>2. CASE c = b
    <3>1. CASE mem.bytes[b] <= MaxBytes
      BY <1>2, <1>k, <2>2, <3>1
    <3>2. CASE lm = 1
      <4> HIDE DEF lm, lx, n
      <4>1. lx = 1 \/ lx = 0
        BY <1>2, <1>k, <3>2
      <4>2. ASSUME lx = 0 PROVE mem'.bytes[b] = 0
        <5>1. mem'.lines[b] = <<>>
          BY <1>k, <4>2, EmptySeq DEF lx
        <5>2. <<>> \in Seq(Line)
          OBVIOUS
        <5> QED BY <1>k, <5>1, <5>2, BytesByOne
      <4> QED BY <1>k, <2>2, <4>1, <4>2 DEF lx
    <3> QED BY <2>0, <2>2, <3>1, <3>2
  <2> QED BY <2>1, <2>2
<1>5. Settled(mem)'
  <2> DEFINE x == mem'
  <2>1. \A c \in Registered : Len(x.lines[c]) <= Len(mem.lines[c])
    <3> TAKE c \in Registered
    <3>1. c \in Buffers
      BY <1>r
    <3>2. CASE c = b
      <4> HIDE DEF n
      <4>1. lx <= lm
        <5> HIDE DEF lx, lm
        <5> QED BY <1>2, <1>k
      <4> QED BY <3>2, <4>1
    <3>3. CASE c # b
      <4>1. x.lines[c] = mem.lines[c]
        BY <1>2, <3>1, <3>3 DEF Same
      <4>2. Len(mem.lines[c]) \in Nat
        BY <1>r, <3>1, KeptTypes
      <4> QED BY <4>1, <4>2
    <3> QED BY <3>2, <3>3
  <2>2. x.used <= mem.used /\ x \in Kept(nextSeq) /\ Settled(mem)
    BY <1>2 DEF BuffersInv
  <2> HIDE DEF x
  <2>3. Registered \subseteq Registered
    OBVIOUS
  <2>4. x.used <= BudgetMax \/ {c \in Registered : Len(x.lines[c]) > 1} = {}
    BY <1>r, <2>1, <2>2, <2>3, SettledStill
  <2> QED BY <1>3, <2>4 DEF x, Settled, Multi
<1>6. Reached(b, q) \in Nat /\ Reached(b, q) < ns
  BY <1>k, <1>q DEF Reached
<1>7. BuffersInv'
  <2>1. (mem \in Kept(nextSeq))'
    BY <1>1, <1>2
  <2>2. \A c \in Buffers \ Registered' : mem'.lines[c] = <<>>
    BY <1>1, <1>2, <1>3 DEF BuffersInv, Same
  <2>3. acked' \in [Buffers -> Nat] /\ \A c \in Buffers : acked'[c] < nextSeq'[c]
    <3>1. acked \in [Buffers -> Nat] /\ \A c \in Buffers : acked[c] < nextSeq[c]
      BY DEF BuffersInv
    <3> QED BY <1>1, <1>6, <3>1
  <2>4. told' \in [Buffers -> SUBSET (1 .. MaxSeq)]
        /\ nextSeq' \in [Buffers -> 1 .. MaxSeq + 1]
        /\ created' \in 0 .. NumBuffers /\ disposed' \subseteq 1 .. created'
    BY <1>1 DEF BuffersInv
  <2> QED BY <1>4, <1>5, <2>1, <2>2, <2>3, <2>4 DEF BuffersInv
<1>8. ASSUME NEW c \in Buffers PROVE Abstraction(c)!Next \/ UNCHANGED Abstraction(c)!vars
  <2>1. CASE c = b
    <3>v. v = [first |-> ns - lm, next |-> ns, gap |-> mem.gap[b]]
      BY DEF View
    <3>w. w = [first |-> ns - lx, next |-> ns, gap |-> mem'.gap[b]]
      BY <1>1 DEF View
    <3>p. p \in 0 .. ns /\ p \in Nat
      BY <1>k, <1>q
    <3>1. ns - lx = IF p < v.first THEN v.first ELSE IF p < v.next THEN p + 1 ELSE v.next
      <4> HIDE DEF lm, lx, n, v
      <4>1. ns - lx = v.first + n /\ v.first = ns - lm /\ v.next = ns
        BY <1>2, <1>k, <3>v
      <4>2. CASE q <= ns
        BY <1>2, <1>k, <1>q, <4>1, <4>2
      <4>3. CASE ~(q <= ns)
        BY <1>2, <1>k, <1>q, <4>1, <4>3
      <4> QED BY <4>2, <4>3
    <3>2. mem'.gap[b] = AckGap(mem.gap[b], p)
      <4>1. mem.gap[b].last < ns /\ (mem.gap[b].last # 0 => mem.gap[b].first >= 1)
        BY <1>r DEF Kept, Holed
      <4>2. CASE q <= ns
        BY <1>2, <4>2
      <4>3. CASE ~(q <= ns)
        <5>1. q >= ns
          BY <1>k, <1>q, <4>3
        <5>2. AckGap(mem.gap[b], q) = NoGap /\ AckGap(mem.gap[b], ns) = NoGap
          BY <1>k, <1>q, <4>1, <5>1, AckGapIs
        <5> QED BY <1>2, <4>3, <5>2
      <4> QED BY <4>2, <4>3
    <3>3. w = Abstraction(b)!Acked(v, p)
      <4> HIDE DEF lm, lx, v, w, p
      <4>1. Abstraction(b)!AckedGap(v.gap, p) = AckGap(mem.gap[b], p)
        BY <3>v DEF Abstraction!AckedGap, AckGap, Abstraction!NoGap, NoGap
      <4>2. Abstraction(b)!Acked(v, p)
              = [first |-> IF p < v.first THEN v.first ELSE IF p < v.next THEN p + 1 ELSE v.next,
                 next |-> v.next, gap |-> Abstraction(b)!AckedGap(v.gap, p)]
        <5> DEFINE a == IF p < v.first THEN v.first ELSE IF p < v.next THEN p + 1 ELSE v.next
                   h == Abstraction(b)!AckedGap(v.gap, p)
                   u == [v EXCEPT !.first = a]
        <5>1. Abstraction(b)!Acked(v, p) = [u EXCEPT !.gap = h]
          BY Zenon DEF Abstraction!Acked
        <5>2. v.next = ns
          BY <3>v
        <5> HIDE DEF a, h
        <5>3. u = [first |-> a, next |-> ns, gap |-> mem.gap[b]]
          BY <3>v
        <5> HIDE DEF u
        <5>4. [u EXCEPT !.gap = h] = [first |-> a, next |-> ns, gap |-> h]
          BY <5>3
        <5> QED BY <5>1, <5>2, <5>4 DEF a, h
      <4> QED BY <3>v, <3>w, <3>1, <3>2, <4>1, <4>2
    <3>4. acked'[b] = Abstraction(b)!Reached(p)
      <4>1. acked'[b] = Reached(b, q)
        BY <1>1 DEF BuffersInv
      <4>2. Abstraction(b)!Reached(p)
              = LET covered == IF p < ns - 1 THEN p ELSE ns - 1
                IN  IF covered > acked[b] THEN covered ELSE acked[b]
        BY DEF Abstraction!Reached, Abstraction!LastSeq
      <4>3. (IF p < ns - 1 THEN p ELSE ns - 1) = (IF q < ns THEN q ELSE ns - 1)
        BY <1>k, <1>q
      <4> HIDE DEF p
      <4> QED BY <4>1, <4>2, <4>3 DEF Reached
    <3>5. b \notin disposed
      BY <1>1 DEF Registered
    <3>6. Abstraction(b)!Ack
      <4> HIDE DEF p, ns
      <4> QED BY <1>1, <3>p, <3>3, <3>4, <3>5 DEF Abstraction!Ack, View, ns
    <3> QED BY <2>1, <3>6 DEF Abstraction!Next
  <2>2. CASE c # b
    <3>1. View(mem', nextSeq', c) = View(mem, nextSeq, c)
      BY <1>1, <1>2, <2>2 DEF View, Same
    <3>2. acked'[c] = acked[c]
      BY <1>1, <2>2 DEF BuffersInv
    <3> QED BY <1>1, <3>1, <3>2, StaysPut
  <2> QED BY <2>1, <2>2
<1> QED BY <1>7, <1>8 DEF Backlogs

\* Empty backlogs and an empty budget.
LEMMA BuffersStart == BuffersInit => BuffersInv /\ \A b \in Buffers : Abstraction(b)!Init
<1> SUFFICES ASSUME BuffersInit PROVE BuffersInv /\ \A b \in Buffers : Abstraction(b)!Init
  OBVIOUS
<1>1. /\ mem.lines = [b \in Buffers |-> <<>>] /\ mem.bytes = [b \in Buffers |-> 0]
      /\ mem.gap = [b \in Buffers |-> NoGap] /\ mem.used = 0
      /\ nextSeq = [b \in Buffers |-> 1] /\ created = 0 /\ disposed = {}
      /\ acked = [b \in Buffers |-> 0] /\ told = [b \in Buffers |-> {}]
  BY DEF BuffersInit
<1>2. Registered = {}
  BY <1>1 DEF Registered
<1>3. <<>> \in Seq(Line) /\ Len(<<>>) = 0 /\ Bytes(<<>>) = 0
  <2>1. <<>> \in Seq(Line) /\ Len(<<>>) = 0
    OBVIOUS
  <2> QED BY <2>1, BytesByOne
<1>4. NumBuffers \in Nat /\ Buffers = 1 .. NumBuffers /\ MaxSeq \in Nat /\ BudgetMax \in Nat
  BY BufferConstants DEF Buffers
<1>5. Total(mem.bytes) = 0
  <2> DEFINE f == mem.bytes
             s == [i \in 0 .. NumBuffers |-> 0]
  <2>1. f \in Seq(Int) /\ Len(f) = NumBuffers /\ \A i \in 1 .. NumBuffers : f[i] = 0
    <3>1. f \in [1 .. NumBuffers -> Int] /\ \A i \in 1 .. NumBuffers : f[i] = 0
      BY <1>1, <1>4
    <3> HIDE DEF f
    <3> QED BY <1>4, <3>1, IsASeq
  <2>2. s \in [0 .. NumBuffers -> Int] /\ \A i \in 0 .. NumBuffers : s[i] = 0
    OBVIOUS
  <2>3. 0 \in 0 .. NumBuffers /\ NumBuffers \in 0 .. NumBuffers
        /\ \A i \in 1 .. NumBuffers : i \in 0 .. NumBuffers /\ i - 1 \in 0 .. NumBuffers
    BY <1>4
  <2> HIDE DEF f, s
  <2>4. Sums(f, s)
    <3>1. \A i \in 1 .. NumBuffers : s[i] = s[i - 1] + f[i]
      BY <2>1, <2>2, <2>3
    <3> QED BY <2>1, <2>2, <2>3, <3>1 DEF Sums
  <2>5. Total(f) = s[NumBuffers]
    BY <2>1, <2>4, SumsAreTotal
  <2> QED BY <2>2, <2>3, <2>5 DEF f
<1>6. mem \in Memory
  <2>1. NoGap \in Holes
    BY DEF NoGap, Holes
  <2> QED BY <1>3, <2>1 DEF BuffersInit, Memory
<1>7. mem \in Kept(nextSeq)
  <2>1. Counted(mem)
    BY <1>1, <1>3, <1>5 DEF Counted
  <2>2. Numbered(mem, nextSeq) /\ Holed(mem, nextSeq)
    BY <1>1, <1>3 DEF Numbered, Holed, NoGap
  <2> QED BY <1>6, <2>1, <2>2 DEF Kept
<1>8. Capped(mem) /\ Settled(mem)
  BY <1>1, <1>2, <1>4 DEF Capped, Settled
<1>9. BuffersInv
  BY <1>1, <1>2, <1>4, <1>7, <1>8 DEF BuffersInv
<1>10. ASSUME NEW b \in Buffers PROVE Abstraction(b)!Init
  BY <1>1, <1>3 DEF Abstraction!Init, Abstraction!EmptyBuffer, Abstraction!NoGap, NoGap
<1> QED BY <1>9, <1>10

\* Every operation keeps the invariant and is, for each buffer, a step of its
\* Backlog or none.
LEMMA BuffersStep == BuffersInv /\ [BuffersNext]_bufferVars => BuffersInv' /\ Backlogs
<1> SUFFICES ASSUME BuffersInv, [BuffersNext]_bufferVars PROVE BuffersInv' /\ Backlogs
  OBVIOUS
<1>1. CASE Create
  BY <1>1, CreateStep
<1>2. ASSUME NEW b \in Buffers, NEW size \in Sizes, Push(b, size) PROVE BuffersInv' /\ Backlogs
  BY <1>2, PushStep
<1>3. ASSUME NEW b \in Buffers, NEW q \in 1 .. MaxSeq, Ack(b, q) PROVE BuffersInv' /\ Backlogs
  BY <1>3, AckStep
<1>4. ASSUME NEW b \in Buffers, TakeGap(b) PROVE BuffersInv' /\ Backlogs
  BY <1>4, TakeGapStep
<1>5. ASSUME NEW b \in Buffers, Dispose(b) PROVE BuffersInv' /\ Backlogs
  BY <1>5, DisposeStep
<1>6. CASE UNCHANGED bufferVars
  <2>1. UNCHANGED <<mem, nextSeq, created, disposed, acked, told>>
    BY <1>6 DEF bufferVars
  <2>2. BuffersInv'
    BY <2>1 DEF BuffersInv, Capped, Settled, Multi, Registered
  <2>3. ASSUME NEW c \in Buffers PROVE UNCHANGED Abstraction(c)!vars
    BY <2>1, StaysPut DEF View
  <2> QED BY <2>2, <2>3 DEF Backlogs
<1> QED BY <1>1, <1>2, <1>3, <1>4, <1>5, <1>6 DEF BuffersNext

\* The accounts of the buffers hold in every state: types, counters, line
\* numbers without a break, holes below the next number (lineBuffer.ts).
THEOREM BuffersKeepTypes == BuffersSpec => [](BuffersInv /\ BuffersTypeOK)
<1>1. BuffersInv => BuffersTypeOK
  <2> SUFFICES ASSUME BuffersInv PROVE BuffersTypeOK
    OBVIOUS
  <2>1. nextSeq \in Numbers /\ mem \in Kept(nextSeq) /\ MaxSeq \in Nat
    BY RegisteredBuffers DEF BuffersInv
  <2>2. mem \in Memory
    BY <2>1 DEF Kept
  <2>3. \A b \in Buffers : mem.lines[b] \in Seq(Line) /\ mem.bytes[b] \in Nat
    BY <2>1, KeptTypes
  <2>4. mem.used \in Nat
    <3>1. \E b \in Buffers : TRUE
      BY BufferConstants DEF Buffers
    <3> QED BY <2>1, <3>1, KeptTypes
  <2>5. mem.bytes \in [Buffers -> Nat]
    BY <2>2, <2>3 DEF Memory
  <2>6. acked \in [Buffers -> 0 .. MaxSeq]
    <3>0. /\ acked \in [Buffers -> Nat] /\ \A b \in Buffers : acked[b] < nextSeq[b]
          /\ nextSeq \in [Buffers -> 1 .. MaxSeq + 1]
      BY DEF BuffersInv
    <3>1. \A b \in Buffers : acked[b] \in Nat /\ acked[b] < nextSeq[b] /\ nextSeq[b] \in 1 .. MaxSeq + 1
      BY <3>0
    <3>2. \A b \in Buffers : acked[b] \in 0 .. MaxSeq
      BY <2>1, <3>1
    <3> QED BY <3>2 DEF BuffersInv
  <2> QED BY <2>3, <2>4, <2>5, <2>6 DEF BuffersInv, BuffersTypeOK
<1> QED BY <1>1, BuffersStart, BuffersStep, PTL DEF BuffersSpec

\* Whatever is pushed, shed, acked and disposed of, in any order and on any
\* number of connections, `bytes' and `used' are what the lines held add up to
\* (push, dropOldest, ack and dispose in lineBuffer.ts).
THEOREM NoBytesLeak == BuffersSpec => []BudgetAccounted
<1>1. BuffersInv => BudgetAccounted
  <2> SUFFICES ASSUME BuffersInv PROVE BudgetAccounted
    OBVIOUS
  <2>1. mem \in Memory /\ Counted(mem)
    BY DEF BuffersInv, Kept
  <2>2. mem.bytes = [b \in Buffers |-> Bytes(mem.lines[b])]
    BY <2>1 DEF Memory, Counted
  <2> QED BY <2>1, <2>2 DEF BudgetAccounted, Counted
<1> QED BY <1>1, BuffersStart, BuffersStep, PTL DEF BuffersSpec

\* For any sizes and ceilings, every operation ends with the budget kept or
\* nothing left to shed, and each backlog within its own ceiling or down to one
\* line: the two whiles of push and ByteBudget.reclaim (lineBuffer.ts).
THEOREM BacklogsStayBounded == BuffersSpec => []BudgetBound
<1>1. BuffersInv => BudgetBound
  <2> SUFFICES ASSUME BuffersInv PROVE BudgetBound
    OBVIOUS
  <2>1. Capped(mem) /\ Settled(mem) /\ mem \in Kept(nextSeq)
        /\ Registered \subseteq Buffers /\ nextSeq \in Numbers
    BY RegisteredBuffers DEF BuffersInv
  <2>2. ASSUME Multi(mem) = {}, NEW b \in Registered PROVE Len(mem.lines[b]) <= 1
    <3>1. ~(Len(mem.lines[b]) > 1)
      BY <2>2 DEF Multi
    <3>2. Len(mem.lines[b]) \in Nat
      BY <2>1, KeptTypes
    <3>3. \A k \in Nat : ~(k > 1) => k <= 1
      OBVIOUS
    <3> QED BY <3>1, <3>2, <3>3
  <2> QED BY <2>1, <2>2 DEF BudgetBound, Capped, Settled
<1> QED BY <1>1, BuffersStart, BuffersStep, PTL DEF BuffersSpec

\* Each buffer implements Backlog, for any number of buffers that shed one
\* another's lines through the budget: what PromisesProofs proves of a backlog
\* holds of every LineBuffer (lineBuffer.ts).
THEOREM EveryBufferKeepsItsPromise == BuffersSpec => EveryBufferIsABacklog
<1>1. BuffersInit => \A b \in Buffers : Abstraction(b)!Init
  BY BuffersStart
<1>2. BuffersInv /\ [BuffersNext]_bufferVars
        => [\A b \in Buffers :
               Abstraction(b)!Next \/ UNCHANGED Abstraction(b)!vars]_bufferVars
  BY BuffersStep DEF Backlogs
<1> QED BY <1>1, <1>2, BuffersStart, BuffersStep, PTL DEF BuffersSpec, EveryBufferIsABacklog

-----------------------------------------------------------------------------
(* Chunked uploads: the invariant.                                         *)

RowSet == [state : {"none", "open", "processing", "done"}, fresh : BOOLEAN]
FileSet == [there : BOOLEAN, bytes : Seq(Int), fresh : BOOLEAN]
BodySet == [from : Nat, next : Nat, upto : Int, over : BOOLEAN, open : BOOLEAN]

RowsType == rows \in [Sessions -> RowSet]
FilesType == files \in [Sessions -> FileSet]
BodiesType == bodies \in [Sessions -> BodySet] /\ landing \in [Sessions -> Nat]
SetsType == busy \subseteq Sessions /\ using \subseteq Sessions /\ doomed \subseteq Sessions
SweepType == sweep \in [names : SUBSET Sessions, listed : BOOLEAN, at : SUBSET Sessions]
ToldType == handed \in [Sessions -> Seq(Seq(Int))] /\ offsets \in [Sessions -> Int]
CountsType == stops \in Nat /\ errors \in Nat

Types == /\ RowsType /\ FilesType /\ BodiesType /\ SetsType /\ SweepType
         /\ ToldType /\ CountsType

\* An id that was not drawn yet has left no trace.
NoTrace(s) ==
    offsets[s] = -1 =>
        /\ rows[s] = NoRow /\ ~files[s].there /\ handed[s] = <<>>
        /\ s \notin busy /\ s \notin doomed /\ s \notin sweep.names /\ s \notin sweep.at

\* One request at a time, and a byte on its way belongs to it.
OneRequest(s) ==
    /\ bodies[s] # NoBody => s \in busy /\ s \notin using
    /\ landing[s] # 0 => bodies[s] # NoBody
    /\ s \in using => s \in busy /\ rows[s].state # "open"

\* The file of an open session is there, is as sent as far as it goes, and
\* nothing is about to take it away.
Whole(s) ==
    rows[s].state = "open" =>
        /\ files[s].there /\ files[s].bytes = AsSent(Offset(s))
        /\ 0 <= offsets[s] /\ offsets[s] <= Offset(s) /\ handed[s] = <<>>
        /\ s \notin doomed /\ s \notin sweep.at /\ (sweep.listed => s \notin sweep.names)

\* The body being read goes on where the file ends.
GoesOn(s) ==
    rows[s].state = "open" /\ bodies[s] # NoBody =>
        /\ offsets[s] <= bodies[s].from /\ bodies[s].from <= Offset(s)
        /\ landing[s] = 0 => bodies[s].next = Offset(s) + 1
        /\ landing[s] # 0 => landing[s] = Offset(s) + 1 /\ bodies[s].next = Offset(s) + 2

HandedWhole(s) == handed[s] = <<>> \/ handed[s] = <<AsSent(FileSize)>>

Sound(s) == NoTrace(s) /\ OneRequest(s) /\ Whole(s) /\ GoesOn(s) /\ HandedWhole(s)

UploadsInv == Types /\ (BothWritesFailed \/ \A s \in Sessions : Sound(s))

-----------------------------------------------------------------------------
(* A file as sent.                                                         *)

\* It is a sequence of as many bytes.
LEMMA AsSentType ==
    ASSUME NEW n \in Nat
    PROVE  AsSent(n) \in Seq(Int) /\ Len(AsSent(n)) = n
BY DEF AsSent

\* The next byte makes it one longer.
LEMMA AsSentGrows ==
    ASSUME NEW n \in Nat
    PROVE  Append(AsSent(n), n + 1) = AsSent(n + 1)
BY DEF AsSent

-----------------------------------------------------------------------------
(* The types.                                                              *)

\* The initial state has its types.
LEMMA InitTypes == UploadsInit => Types
BY DEF UploadsInit, Types, RowsType, FilesType, BodiesType, SetsType, SweepType, ToldType,
       CountsType, RowSet, FileSet, BodySet, NoRow, NoFile, NoBody, NoSweep

\* A file has a length.
LEMMA OffsetType ==
    ASSUME Types, NEW s \in Sessions
    PROVE  Offset(s) \in Nat
BY DEF Types, FilesType, FileSet, Offset

-----------------------------------------------------------------------------
(* What an action leaves alone.                                            *)

Untouched(t) ==
    /\ rows'[t] = rows[t] /\ files'[t] = files[t] /\ handed'[t] = handed[t]
    /\ offsets'[t] = offsets[t] /\ bodies'[t] = bodies[t] /\ landing'[t] = landing[t]
    /\ (t \in busy' <=> t \in busy) /\ (t \in using' <=> t \in using)
    /\ t \in doomed' => t \in doomed
    /\ t \in sweep'.names => t \in sweep.names
    /\ t \in sweep'.at => t \in sweep.at
    /\ sweep'.listed = sweep.listed

\* A session an action leaves alone stays sound.
LEMMA Elsewhere ==
    ASSUME NEW t \in Sessions, Sound(t), Untouched(t)
    PROVE  Sound(t)'
<1>1. Offset(t)' = Offset(t)
  BY DEF Untouched, Offset
<1>2. NoTrace(t)'
  BY DEF Untouched, Sound, NoTrace
<1>3. OneRequest(t)'
  BY DEF Untouched, Sound, OneRequest, NoBody
<1>4. Whole(t)'
  BY <1>1 DEF Untouched, Sound, Whole, AsSent
<1>5. GoesOn(t)'
  BY <1>1 DEF Untouched, Sound, GoesOn, NoBody
<1>6. HandedWhole(t)'
  BY DEF Untouched, Sound, HandedWhole, AsSent
<1> QED BY <1>2, <1>3, <1>4, <1>5, <1>6 DEF Sound

\* Changes of one field of one record.
LEMMA FieldTypes ==
    /\ \A r \in RowSet, x \in BOOLEAN : [r EXCEPT !.fresh = x] \in RowSet
    /\ \A f \in FileSet, x \in BOOLEAN :
        [f EXCEPT !.fresh = x] \in FileSet /\ [f EXCEPT !.there = x] \in FileSet
    /\ \A f \in FileSet, b \in Seq(Int) : [f EXCEPT !.bytes = b] \in FileSet
    /\ \A b \in BodySet, n \in Nat : [b EXCEPT !.next = n] \in BodySet
    /\ \A b \in BodySet : [b EXCEPT !.open = TRUE] \in BodySet
BY DEF RowSet, FileSet, BodySet

\* Records as the code writes them.
LEMMA RecordTypes ==
    /\ NoRow \in RowSet /\ NoFile \in FileSet /\ NoBody \in BodySet
    /\ \A st \in {"none", "open", "processing", "done"} : Row(st) \in RowSet
    /\ \A f \in FileSet, n \in Nat : Written(f, n) \in FileSet
BY DEF RowSet, FileSet, BodySet, NoRow, NoFile, NoBody, Row, Written

\* A chunk is no longer than an integer says.
LEMMA AllowedType ==
    ASSUME NEW k \in Nat
    PROVE  Min({ChunkBytes, FileSize - k}) \in Int
<1>1. ChunkBytes \in Int /\ FileSize - k \in Int
  BY UploadsConstants
<1>2. \E x \in {ChunkBytes, FileSize - k} : \A y \in {ChunkBytes, FileSize - k} : x <= y
  BY <1>1
<1> QED BY <1>1, <1>2 DEF Min

\* Every step keeps the types.
LEMMA NextTypes == Types /\ [UploadsNext]_uploadVars => Types'
<1> SUFFICES ASSUME Types, [UploadsNext]_uploadVars PROVE Types'
  OBVIOUS
<1> USE DEF Types
<1>1. ASSUME NEW s \in Sessions, CreateUploadSession(s) PROVE Types'
  <2>1. RowsType'
    BY <1>1, RecordTypes DEF CreateUploadSession, RowsType
  <2>2. FilesType'
    BY <1>1 DEF CreateUploadSession, FilesType, Drawn, FileSet
  <2>3. ToldType'
    BY <1>1 DEF CreateUploadSession, ToldType, Drawn
  <2>4. BodiesType' /\ SetsType' /\ SweepType' /\ CountsType'
    BY <1>1 DEF CreateUploadSession, BodiesType, SetsType, SweepType, CountsType
  <2> QED BY <2>1, <2>2, <2>3, <2>4
<1>2. ASSUME NEW s \in Sessions, ChunkBegins(s) PROVE Types'
  <2>1. BodiesType'
    <3>1. Offset(s) \in Nat
      BY OffsetType
    <3>2. ASSUME NEW n, n \in 0 .. Min({ChunkBytes, FileSize - Offset(s)})
          PROVE  Offset(s) + n \in Int
      BY <3>1, <3>2, AllowedType
    <3> QED BY <1>2, <3>1, <3>2 DEF ChunkBegins, BodiesType, BodySet
  <2>2. SetsType'
    BY <1>2 DEF ChunkBegins, SetsType
  <2>3. RowsType' /\ FilesType' /\ SweepType' /\ ToldType' /\ CountsType'
    BY <1>2 DEF ChunkBegins, RowsType, FilesType, SweepType, ToldType, CountsType
  <2> QED BY <2>1, <2>2, <2>3
<1>3. ASSUME NEW s \in Sessions, StreamOpens(s) PROVE Types'
  <2>1. BodiesType'
    BY <1>3, FieldTypes DEF StreamOpens, BodiesType
  <2>2. FilesType'
    BY <1>3, FieldTypes DEF StreamOpens, FilesType
  <2>3. RowsType' /\ SetsType' /\ SweepType' /\ ToldType' /\ CountsType'
    BY <1>3 DEF StreamOpens, RowsType, SetsType, SweepType, ToldType, CountsType
  <2> QED BY <2>1, <2>2, <2>3
<1>4. ASSUME NEW s \in Sessions, ByteArrives(s) PROVE Types'
  <2>1. BodiesType'
    BY <1>4, FieldTypes DEF ByteArrives, BodiesType, BodySet
  <2>2. RowsType' /\ FilesType' /\ SetsType' /\ SweepType' /\ ToldType' /\ CountsType'
    BY <1>4 DEF ByteArrives, RowsType, FilesType, SetsType, SweepType, ToldType, CountsType
  <2> QED BY <2>1, <2>2
<1>5. ASSUME NEW s \in Sessions, ByteLands(s) PROVE Types'
  <2>1. BodiesType'
    BY <1>5 DEF ByteLands, BodiesType
  <2>2. FilesType'
    BY <1>5, RecordTypes DEF ByteLands, FilesType, BodiesType
  <2>3. RowsType' /\ SetsType' /\ SweepType' /\ ToldType' /\ CountsType'
    BY <1>5 DEF ByteLands, RowsType, SetsType, SweepType, ToldType, CountsType
  <2> QED BY <2>1, <2>2, <2>3
<1>6. ASSUME NEW s \in Sessions, ChunkEnds(s) PROVE Types'
  <2>1. FilesType'
    <3>1. files[s] \in FileSet /\ bodies[s] \in BodySet
      BY DEF FilesType, BodiesType
    <3>2. [i \in 1 .. bodies[s].from |->
              IF i <= Len(files[s].bytes) THEN files[s].bytes[i] ELSE 0] \in Seq(Int)
      BY <3>1 DEF FileSet, BodySet
    <3>3. TakenBack(s) \in [Sessions -> FileSet]
      BY <3>1, <3>2, FieldTypes DEF TakenBack, FilesType
    <3> QED BY <1>6, <3>3 DEF ChunkEnds, FilesType
  <2>2. ToldType'
    <3>1. files'[s].bytes \in Seq(Int)
      BY <2>1 DEF FilesType, FileSet
    <3> QED BY <1>6, <3>1 DEF ChunkEnds, ToldType
  <2>3. RowsType'
    BY <1>6, FieldTypes DEF ChunkEnds, RowsType
  <2>4. BodiesType'
    BY <1>6, RecordTypes DEF ChunkEnds, BodiesType
  <2>5. SetsType'
    BY <1>6 DEF ChunkEnds, SetsType
  <2>6. SweepType' /\ CountsType'
    BY <1>6 DEF ChunkEnds, SweepType, CountsType
  <2> QED BY <2>1, <2>2, <2>3, <2>4, <2>5, <2>6
<1>7. ASSUME NEW s \in Sessions, HandsOn(s) PROVE Types'
  <2>1. RowsType'
    BY <1>7, RecordTypes DEF HandsOn, RowsType
  <2>2. SetsType'
    BY <1>7 DEF HandsOn, SetsType
  <2>3. ToldType'
    BY <1>7 DEF HandsOn, ToldType, FilesType, FileSet
  <2>4. FilesType' /\ BodiesType' /\ SweepType' /\ CountsType'
    BY <1>7 DEF HandsOn, FilesType, BodiesType, SweepType, CountsType
  <2> QED BY <2>1, <2>2, <2>3, <2>4
<1>8. ASSUME NEW s \in Sessions, NotHandedOn(s) PROVE Types'
  <2>1. RowsType'
    BY <1>8, RecordTypes DEF NotHandedOn, RowsType
  <2>2. SetsType'
    BY <1>8 DEF NotHandedOn, SetsType
  <2>3. CountsType'
    BY <1>8 DEF NotHandedOn, CountsType, DatabaseFails
  <2>4. FilesType' /\ BodiesType' /\ SweepType' /\ ToldType'
    BY <1>8 DEF NotHandedOn, FilesType, BodiesType, SweepType, ToldType
  <2> QED BY <2>1, <2>2, <2>3, <2>4
<1>9. ASSUME NEW s \in Sessions, Used(s) PROVE Types'
  <2>1. RowsType'
    BY <1>9, RecordTypes DEF Used, RowsType
  <2>2. FilesType'
    BY <1>9, RecordTypes DEF Used, FilesType
  <2>3. SetsType'
    BY <1>9 DEF Used, SetsType
  <2>4. CountsType'
    BY <1>9 DEF Used, CountsType, DatabaseFails
  <2>5. BodiesType' /\ SweepType' /\ ToldType'
    BY <1>9 DEF Used, BodiesType, SweepType, ToldType
  <2> QED BY <2>1, <2>2, <2>3, <2>4, <2>5
<1>10. ASSUME NEW s \in Sessions, Unlinked(s) PROVE Types'
  <2>1. FilesType'
    BY <1>10, RecordTypes DEF Unlinked, FilesType
  <2>2. SetsType'
    BY <1>10 DEF Unlinked, SetsType
  <2>3. RowsType' /\ BodiesType' /\ SweepType' /\ ToldType' /\ CountsType'
    BY <1>10 DEF Unlinked, RowsType, BodiesType, SweepType, ToldType, CountsType
  <2> QED BY <2>1, <2>2, <2>3
<1>11. ASSUME NEW s \in Sessions, AbortUploadSession(s) PROVE Types'
  <2>1. RowsType'
    BY <1>11, RecordTypes DEF AbortUploadSession, RowsType
  <2>2. SetsType'
    BY <1>11 DEF AbortUploadSession, SetsType
  <2>3. FilesType' /\ BodiesType' /\ SweepType' /\ ToldType' /\ CountsType'
    BY <1>11 DEF AbortUploadSession, FilesType, BodiesType, SweepType, ToldType, CountsType
  <2> QED BY <2>1, <2>2, <2>3
<1>12. ASSUME NEW s \in Sessions, AccountDeleted(s) PROVE Types'
  <2>1. RowsType'
    BY <1>12, RecordTypes DEF AccountDeleted, RowsType
  <2>2. FilesType' /\ BodiesType' /\ SetsType' /\ SweepType' /\ ToldType' /\ CountsType'
    BY <1>12 DEF AccountDeleted, FilesType, BodiesType, SetsType, SweepType, ToldType,
                 CountsType
  <2> QED BY <2>1, <2>2
<1>13. ASSUME NEW s \in Sessions, DayPasses(s) PROVE Types'
  <2>1. RowsType'
    BY <1>13, FieldTypes DEF DayPasses, RowsType
  <2>2. FilesType'
    BY <1>13, FieldTypes DEF DayPasses, FilesType
  <2>3. BodiesType' /\ SetsType' /\ SweepType' /\ ToldType' /\ CountsType'
    BY <1>13 DEF DayPasses, BodiesType, SetsType, SweepType, ToldType, CountsType
  <2> QED BY <2>1, <2>2, <2>3
<1>14. ASSUME NEW s \in Sessions, SweepLooks(s) PROVE Types'
  <2>1. SweepType'
    BY <1>14 DEF SweepLooks, SweepType, SetsType
  <2>2. RowsType' /\ FilesType' /\ BodiesType' /\ SetsType' /\ ToldType' /\ CountsType'
    BY <1>14 DEF SweepLooks, RowsType, FilesType, BodiesType, SetsType, ToldType, CountsType
  <2> QED BY <2>1, <2>2
<1>15. ASSUME NEW s \in Sessions, SweepRemoves(s) PROVE Types'
  <2>1. SweepType'
    BY <1>15 DEF SweepRemoves, SweepType
  <2>2. FilesType'
    BY <1>15, RecordTypes DEF SweepRemoves, FilesType
  <2>3. RowsType' /\ BodiesType' /\ SetsType' /\ ToldType' /\ CountsType'
    BY <1>15 DEF SweepRemoves, RowsType, BodiesType, SetsType, ToldType, CountsType
  <2> QED BY <2>1, <2>2, <2>3
<1>16. ASSUME NEW s \in Sessions, EndsInCreate(s) PROVE Types'
  <2>1. FilesType'
    BY <1>16 DEF EndsInCreate, FilesType, Drawn, Stops, FileSet
  <2>2. BodiesType'
    BY <1>16, RecordTypes DEF EndsInCreate, BodiesType, Stops
  <2>3. SetsType'
    BY <1>16 DEF EndsInCreate, SetsType, Stops
  <2>4. SweepType'
    BY <1>16 DEF EndsInCreate, SweepType, Stops, NoSweep
  <2>5. ToldType'
    BY <1>16 DEF EndsInCreate, ToldType, Drawn, Stops
  <2>6. RowsType'
    BY <1>16 DEF EndsInCreate, RowsType, Stops
  <2>7. CountsType'
    BY <1>16 DEF EndsInCreate, CountsType, Stops
  <2> QED BY <2>1, <2>2, <2>3, <2>4, <2>5, <2>6, <2>7
<1>17. CASE SweepBegins
  <2>1. RowsType'
    BY <1>17, RecordTypes DEF SweepBegins, RowsType
  <2>2. SetsType'
    BY <1>17 DEF SweepBegins, SetsType, Stale
  <2>3. SweepType'
    BY <1>17 DEF SweepBegins, SweepType
  <2>4. FilesType' /\ BodiesType' /\ ToldType' /\ CountsType'
    BY <1>17 DEF SweepBegins, FilesType, BodiesType, ToldType, CountsType
  <2> QED BY <2>1, <2>2, <2>3, <2>4
<1>18. CASE SweepLists
  <2>1. SweepType'
    BY <1>18 DEF SweepLists, SweepType, Orphans
  <2>2. RowsType' /\ FilesType' /\ BodiesType' /\ SetsType' /\ ToldType' /\ CountsType'
    BY <1>18 DEF SweepLists, RowsType, FilesType, BodiesType, SetsType, ToldType, CountsType
  <2> QED BY <2>1, <2>2
<1>19. CASE ProcessEnds
  <2>1. FilesType'
    BY <1>19, RecordTypes DEF ProcessEnds, FilesType, BodiesType, Stops
  <2>2. BodiesType'
    BY <1>19, RecordTypes DEF ProcessEnds, BodiesType, Stops
  <2>3. SetsType'
    BY <1>19 DEF ProcessEnds, SetsType, Stops
  <2>4. SweepType'
    BY <1>19 DEF ProcessEnds, SweepType, Stops, NoSweep
  <2>5. ToldType'
    BY <1>19 DEF ProcessEnds, ToldType, Stops
  <2>6. RowsType'
    BY <1>19 DEF ProcessEnds, RowsType, Stops
  <2>7. CountsType'
    BY <1>19 DEF ProcessEnds, CountsType, Stops
  <2> QED BY <2>1, <2>2, <2>3, <2>4, <2>5, <2>6, <2>7
<1>20. CASE UNCHANGED uploadVars
  BY <1>20 DEF uploadVars, RowsType, FilesType, BodiesType, SetsType, SweepType, ToldType,
               CountsType
<1> QED
  BY <1>1, <1>2, <1>3, <1>4, <1>5, <1>6, <1>7, <1>8, <1>9, <1>10, <1>11,
     <1>12, <1>13, <1>14, <1>15, <1>16, <1>17, <1>18, <1>19, <1>20 DEF UploadsNext

-----------------------------------------------------------------------------
(* The invariant is kept.                                                  *)

\* An empty file is as sent as far as it goes.
LEMMA AsSentEmpty == AsSent(0) = <<>>
BY DEF AsSent

\* A created session starts empty, and nothing is after it.
LEMMA CreateUploadSessionSound ==
    ASSUME Types, NEW s \in Sessions, \A t \in Sessions : Sound(t), CreateUploadSession(s)
    PROVE  \A t \in Sessions : Sound(t)'
<1> USE DEF Types, CreateUploadSession, Drawn, Row
<1>1. Sound(s)
  OBVIOUS
<1>2. Offset(s)' = 0
  BY DEF Offset, FilesType, FileSet
<1>3. NoTrace(s)'
  BY <1>1 DEF Sound, NoTrace, ToldType
<1>4. OneRequest(s)'
  BY <1>1 DEF Sound, NoTrace, OneRequest
<1>5. Whole(s)'
  BY <1>1, <1>2, AsSentEmpty DEF Sound, NoTrace, Whole, FilesType, ToldType
<1>6. GoesOn(s)'
  BY <1>1 DEF Sound, GoesOn, NoTrace, OneRequest
<1>7. HandedWhole(s)'
  BY <1>1 DEF Sound, HandedWhole, AsSent
<1>8. ASSUME NEW t \in Sessions, t # s PROVE Untouched(t)
  BY <1>8 DEF Untouched, RowsType, FilesType, BodiesType, SetsType, SweepType, ToldType
<1> QED BY <1>3, <1>4, <1>5, <1>6, <1>7, <1>8, Elsewhere DEF Sound

\* A body begins where the file ends.
LEMMA ChunkBeginsSound ==
    ASSUME Types, NEW s \in Sessions, \A t \in Sessions : Sound(t), ChunkBegins(s)
    PROVE  \A t \in Sessions : Sound(t)'
<1> USE DEF Types, ChunkBegins, NoBody
<1>1. Sound(s)
  OBVIOUS
<1>2. Offset(s)' = Offset(s)
  BY DEF Offset, FilesType, FileSet
<1>3. NoTrace(s)'
  BY <1>1 DEF Sound, NoTrace, Whole
<1>4. OneRequest(s)'
  BY <1>1 DEF Sound, OneRequest
<1>5. Whole(s)'
  BY <1>1, <1>2 DEF Sound, Whole
<1>6. GoesOn(s)'
  BY <1>1, <1>2, OffsetType DEF Sound, GoesOn, OneRequest, Whole
<1>7. HandedWhole(s)'
  BY <1>1 DEF Sound, HandedWhole, AsSent
<1>8. ASSUME NEW t \in Sessions, t # s PROVE Untouched(t)
  BY <1>8 DEF Untouched, RowsType, FilesType, BodiesType, SetsType, SweepType, ToldType
<1> QED BY <1>3, <1>4, <1>5, <1>6, <1>7, <1>8, Elsewhere DEF Sound

\* The file of an open session is there already.
LEMMA StreamOpensSound ==
    ASSUME Types, NEW s \in Sessions, \A t \in Sessions : Sound(t), StreamOpens(s)
    PROVE  \A t \in Sessions : Sound(t)'
<1> USE DEF Types, StreamOpens, NoBody
<1>1. Sound(s)
  OBVIOUS
<1>2. Offset(s)' = Offset(s)
  BY DEF Offset, FilesType, FileSet
<1>3. NoTrace(s)'
  BY <1>1 DEF Sound, NoTrace, OneRequest
<1>4. OneRequest(s)'
  BY <1>1 DEF Sound, OneRequest
<1>5. Whole(s)'
  BY <1>1, <1>2 DEF Sound, Whole
<1>6. GoesOn(s)'
  BY <1>1, <1>2 DEF Sound, GoesOn
<1>7. HandedWhole(s)'
  BY <1>1 DEF Sound, HandedWhole, AsSent
<1>8. ASSUME NEW t \in Sessions, t # s PROVE Untouched(t)
  BY <1>8 DEF Untouched, RowsType, FilesType, BodiesType, SetsType, SweepType, ToldType
<1> QED BY <1>3, <1>4, <1>5, <1>6, <1>7, <1>8, Elsewhere DEF Sound

\* The byte taken is the next one.
LEMMA ByteArrivesSound ==
    ASSUME Types, NEW s \in Sessions, \A t \in Sessions : Sound(t), ByteArrives(s)
    PROVE  \A t \in Sessions : Sound(t)'
<1> USE DEF Types, ByteArrives, NoBody
<1>1. Sound(s)
  OBVIOUS
<1>2. Offset(s)' = Offset(s)
  BY DEF Offset, FilesType, FileSet
<1>3. NoTrace(s)'
  BY <1>1 DEF Sound, NoTrace
<1>4. OneRequest(s)'
  BY <1>1 DEF Sound, OneRequest
<1>5. Whole(s)'
  BY <1>1, <1>2 DEF Sound, Whole
<1>6. GoesOn(s)'
  <2>1. landing'[s] = bodies[s].next /\ bodies'[s].next = bodies[s].next + 1
    BY DEF BodiesType
  <2>2. bodies'[s].from = bodies[s].from /\ bodies[s] # NoBody
    BY DEF BodiesType
  <2> QED BY <1>1, <1>2, <2>1, <2>2, OffsetType DEF Sound, GoesOn, BodiesType, BodySet
<1>7. HandedWhole(s)'
  BY <1>1 DEF Sound, HandedWhole, AsSent
<1>8. ASSUME NEW t \in Sessions, t # s PROVE Untouched(t)
  BY <1>8 DEF Untouched, RowsType, FilesType, BodiesType, SetsType, SweepType, ToldType
<1> QED BY <1>3, <1>4, <1>5, <1>6, <1>7, <1>8, Elsewhere DEF Sound

\* It lands where the file ends.
LEMMA ByteLandsSound ==
    ASSUME Types, NEW s \in Sessions, \A t \in Sessions : Sound(t), ByteLands(s)
    PROVE  \A t \in Sessions : Sound(t)'
<1> USE DEF Types, ByteLands, Written
<1>1. Sound(s)
  OBVIOUS
<1>2. files[s].there => files'[s].bytes = Append(files[s].bytes, landing[s])
  BY DEF FilesType, FileSet
<1>3. NoTrace(s)'
  BY <1>1 DEF Sound, NoTrace
<1>4. OneRequest(s)'
  BY <1>1 DEF Sound, OneRequest
<1>5. Whole(s)'
  <2> SUFFICES ASSUME rows[s].state = "open" PROVE Whole(s)'
    BY DEF Whole
  <2>1. /\ files[s].there /\ files[s].bytes = AsSent(Offset(s))
        /\ landing[s] = Offset(s) + 1
    BY <1>1 DEF Sound, OneRequest, Whole, GoesOn
  <2>2. files'[s].bytes = AsSent(Offset(s) + 1) /\ files'[s].there
    BY <1>2, <2>1, AsSentGrows, OffsetType DEF FilesType
  <2>3. Offset(s)' = Offset(s) + 1
    BY <2>2, OffsetType, AsSentType DEF Offset
  <2> QED BY <1>1, <2>2, <2>3, OffsetType DEF Sound, Whole, AsSent, ToldType
<1>6. GoesOn(s)'
  <2> SUFFICES ASSUME rows[s].state = "open", bodies[s] # NoBody PROVE GoesOn(s)'
    BY DEF GoesOn, NoBody
  <2>1. /\ files[s].there /\ landing[s] = Offset(s) + 1
        /\ bodies[s].next = Offset(s) + 2
    BY <1>1 DEF Sound, Whole, GoesOn
  <2>2. Offset(s)' = Offset(s) + 1
    BY <1>2, <2>1 DEF Offset, FilesType, FileSet, BodiesType
  <2>3. landing'[s] = 0
    BY DEF BodiesType
  <2> QED BY <1>1, <2>1, <2>2, <2>3, OffsetType DEF Sound, GoesOn, ToldType, BodiesType, BodySet
<1>7. HandedWhole(s)'
  BY <1>1 DEF Sound, HandedWhole, AsSent
<1>8. ASSUME NEW t \in Sessions, t # s PROVE Untouched(t)
  BY <1>8 DEF Untouched, RowsType, FilesType, BodiesType, SetsType, SweepType, ToldType
<1> QED BY <1>3, <1>4, <1>5, <1>6, <1>7, <1>8, Elsewhere DEF Sound

\* Nothing is on its way, and what an overlong body brought is cut off.
LEMMA ChunkEndsSound ==
    ASSUME Types, NEW s \in Sessions, \A t \in Sessions : Sound(t), ChunkEnds(s)
    PROVE  \A t \in Sessions : Sound(t)'
<1>0. Types'
  BY NextTypes DEF UploadsNext
<1> USE DEF Types, ChunkEnds, NoBody, FileClosed
<1>1. Sound(s)
  OBVIOUS
<1>2. Offset(s)' \in Nat /\ offsets'[s] = Offset(s)'
  BY <1>0 DEF Offset, FilesType, FileSet, ToldType
<1>3. NoTrace(s)'
  BY <1>1, <1>2 DEF Sound, NoTrace
<1>4. OneRequest(s)'
  BY <1>1 DEF Sound, OneRequest, BodiesType
<1>5. Whole(s)'
  <2> SUFFICES ASSUME rows'[s].state = "open" PROVE Whole(s)'
    BY DEF Whole
  <2>1. rows[s].state = "open" /\ bodies[s] # NoBody
    BY DEF RowsType, RowSet, BodiesType
  <2>2. /\ files[s].there /\ files[s].bytes = AsSent(Offset(s))
        /\ bodies[s].from \in 0 .. Offset(s)
    BY <1>1, <2>1, OffsetType DEF Sound, Whole, GoesOn, BodiesType, BodySet
  <2> DEFINE cut == [i \in 1 .. bodies[s].from |->
                         IF i <= Len(files[s].bytes) THEN files[s].bytes[i] ELSE 0]
  <2>3. files' = files \/ files' = [files EXCEPT ![s].bytes = cut]
    BY DEF TakenBack
  <2>4. cut = AsSent(bodies[s].from)
    <3>1. Len(files[s].bytes) = Offset(s) /\ Offset(s) \in Nat
      BY OffsetType DEF Offset
    <3>2. ASSUME NEW i \in 1 .. bodies[s].from
          PROVE  (IF i <= Len(files[s].bytes) THEN files[s].bytes[i] ELSE 0) = i
      BY <2>2, <3>1 DEF AsSent
    <3> QED BY <3>2 DEF AsSent
  <2> HIDE DEF cut
  <2>5. PICK n \in Nat : files'[s].bytes = AsSent(n)
    <3>1. files'[s].bytes \in {files[s].bytes, cut}
      BY <2>3 DEF FilesType, FileSet
    <3> QED BY <2>2, <2>4, <3>1, OffsetType
  <2>6. files'[s].there
    BY <2>2, <2>3 DEF FilesType, FileSet
  <2>7. Offset(s)' = n
    BY <2>5, AsSentType DEF Offset
  <2> QED BY <1>1, <1>2, <2>1, <2>5, <2>6, <2>7 DEF Sound, Whole, AsSent
<1>6. GoesOn(s)'
  BY DEF GoesOn, BodiesType
<1>7. HandedWhole(s)'
  BY <1>1 DEF Sound, HandedWhole, AsSent
<1>8. ASSUME NEW t \in Sessions, t # s PROVE Untouched(t)
  BY <1>8 DEF TakenBack, Untouched, RowsType, FilesType, BodiesType, SetsType, SweepType,
              ToldType
<1> QED BY <1>3, <1>4, <1>5, <1>6, <1>7, <1>8, Elsewhere DEF Sound

\* A session goes from open to processing with its file whole.
LEMMA HandsOnSound ==
    ASSUME Types, NEW s \in Sessions, \A t \in Sessions : Sound(t), HandsOn(s)
    PROVE  \A t \in Sessions : Sound(t)'
<1> USE DEF Types, HandsOn, Finishes, Row
<1>1. Sound(s)
  OBVIOUS
<1>2. Offset(s)' = Offset(s)
  BY DEF Offset, FilesType, FileSet
<1>3. NoTrace(s)'
  BY <1>1 DEF Sound, NoTrace
<1>4. OneRequest(s)'
  BY <1>1 DEF Sound, OneRequest, RowsType
<1>5. Whole(s)'
  BY <1>1 DEF Sound, Whole, RowsType
<1>6. GoesOn(s)'
  BY <1>1, <1>2 DEF Sound, GoesOn
<1>7. HandedWhole(s)'
  BY <1>1 DEF Sound, HandedWhole, Whole, ToldType
<1>8. ASSUME NEW t \in Sessions, t # s PROVE Untouched(t)
  BY <1>8 DEF Untouched, RowsType, FilesType, BodiesType, SetsType, SweepType, ToldType
<1> QED BY <1>3, <1>4, <1>5, <1>6, <1>7, <1>8, Elsewhere DEF Sound

\* A finish that fails leaves the session open only if its answer fails too.
LEMMA NotHandedOnSound ==
    ASSUME Types, NEW s \in Sessions, \A t \in Sessions : Sound(t), NotHandedOn(s),
           ~BothWritesFailed'
    PROVE  \A t \in Sessions : Sound(t)'
<1> USE DEF Types, NotHandedOn, Finishes, DatabaseFails, Row, BothWritesFailed
<1>1. Sound(s)
  OBVIOUS
<1>2. Offset(s)' = Offset(s)
  BY DEF Offset, FilesType, FileSet
<1>3. NoTrace(s)'
  BY <1>1 DEF Sound, NoTrace
<1>4. OneRequest(s)'
  BY <1>1 DEF Sound, OneRequest
<1>5. Whole(s)'
  <2>1. rows'[s].state = "done"
    BY DEF RowsType, CountsType
  <2> QED BY <2>1 DEF Whole
<1>6. GoesOn(s)'
  BY <1>1, <1>2 DEF Sound, GoesOn
<1>7. HandedWhole(s)'
  BY <1>1 DEF Sound, HandedWhole, AsSent
<1>8. ASSUME NEW t \in Sessions, t # s PROVE Untouched(t)
  BY <1>8 DEF Untouched, RowsType, FilesType, BodiesType, SetsType, SweepType, ToldType
<1> QED BY <1>3, <1>4, <1>5, <1>6, <1>7, <1>8, Elsewhere DEF Sound

\* A file that was used is of a session that is not open.
LEMMA UsedSound ==
    ASSUME Types, NEW s \in Sessions, \A t \in Sessions : Sound(t), Used(s)
    PROVE  \A t \in Sessions : Sound(t)'
<1> USE DEF Types, Used, DatabaseFails, Row, NoRow, NoFile
<1>1. Sound(s)
  OBVIOUS
<1>3. NoTrace(s)'
  BY <1>1 DEF Sound, NoTrace, OneRequest
<1>4. OneRequest(s)'
  BY <1>1 DEF Sound, OneRequest
<1>5. Whole(s)'
  BY <1>1 DEF Sound, OneRequest, Whole, RowsType
<1>6. GoesOn(s)'
  BY <1>1 DEF Sound, GoesOn, OneRequest
<1>7. HandedWhole(s)'
  BY <1>1 DEF Sound, HandedWhole, AsSent
<1>8. ASSUME NEW t \in Sessions, t # s PROVE Untouched(t)
  BY <1>8 DEF Untouched, RowsType, FilesType, BodiesType, SetsType, SweepType, ToldType
<1> QED BY <1>3, <1>4, <1>5, <1>6, <1>7, <1>8, Elsewhere DEF Sound

\* What is unlinked is not of an open session.
LEMMA UnlinkedSound ==
    ASSUME Types, NEW s \in Sessions, \A t \in Sessions : Sound(t), Unlinked(s)
    PROVE  \A t \in Sessions : Sound(t)'
<1> USE DEF Types, Unlinked, NoFile
<1>1. Sound(s)
  OBVIOUS
<1>3. NoTrace(s)'
  BY <1>1 DEF Sound, NoTrace
<1>4. OneRequest(s)'
  BY <1>1 DEF Sound, OneRequest
<1>5. Whole(s)'
  BY <1>1 DEF Sound, Whole
<1>6. GoesOn(s)'
  BY <1>1 DEF Sound, GoesOn, Whole
<1>7. HandedWhole(s)'
  BY <1>1 DEF Sound, HandedWhole, AsSent
<1>8. ASSUME NEW t \in Sessions, t # s PROVE Untouched(t)
  BY <1>8 DEF Untouched, RowsType, FilesType, BodiesType, SetsType, SweepType, ToldType
<1> QED BY <1>3, <1>4, <1>5, <1>6, <1>7, <1>8, Elsewhere DEF Sound

\* With the row gone the file may go.
LEMMA AbortUploadSessionSound ==
    ASSUME Types, NEW s \in Sessions, \A t \in Sessions : Sound(t), AbortUploadSession(s)
    PROVE  \A t \in Sessions : Sound(t)'
<1> USE DEF Types, AbortUploadSession, NoRow
<1>1. Sound(s)
  OBVIOUS
<1>2. Offset(s)' = Offset(s)
  BY DEF Offset, FilesType, FileSet
<1>3. NoTrace(s)'
  <2>1. offsets[s] # -1
    BY <1>1 DEF Sound, NoTrace
  <2> QED BY <2>1 DEF NoTrace
<1>4. OneRequest(s)'
  BY <1>1 DEF Sound, OneRequest
<1>5. Whole(s)'
  BY <1>1 DEF Sound, Whole, RowsType
<1>6. GoesOn(s)'
  BY <1>1, <1>2 DEF Sound, GoesOn
<1>7. HandedWhole(s)'
  BY <1>1 DEF Sound, HandedWhole, AsSent
<1>8. ASSUME NEW t \in Sessions, t # s PROVE Untouched(t)
  BY <1>8 DEF Untouched, RowsType, FilesType, BodiesType, SetsType, SweepType, ToldType
<1> QED BY <1>3, <1>4, <1>5, <1>6, <1>7, <1>8, Elsewhere DEF Sound

\* With the row gone under a request, what it still writes is nobody's.
LEMMA AccountDeletedSound ==
    ASSUME Types, NEW s \in Sessions, \A t \in Sessions : Sound(t), AccountDeleted(s)
    PROVE  \A t \in Sessions : Sound(t)'
<1> USE DEF Types, AccountDeleted, NoRow
<1>1. Sound(s)
  OBVIOUS
<1>2. Offset(s)' = Offset(s)
  BY DEF Offset, FilesType, FileSet
<1>3. NoTrace(s)'
  BY <1>1 DEF Sound, NoTrace
<1>4. OneRequest(s)'
  BY <1>1 DEF Sound, OneRequest
<1>5. Whole(s)'
  BY <1>1, <1>2 DEF Sound, Whole
<1>6. GoesOn(s)'
  BY <1>1, <1>2 DEF Sound, GoesOn
<1>7. HandedWhole(s)'
  BY <1>1 DEF Sound, HandedWhole, AsSent
<1>8. ASSUME NEW t \in Sessions, t # s PROVE Untouched(t)
  BY <1>8 DEF Untouched, RowsType, FilesType, BodiesType, SetsType, SweepType, ToldType
<1> QED BY <1>3, <1>4, <1>5, <1>6, <1>7, <1>8, Elsewhere DEF Sound

\* Age alone changes nothing.
LEMMA DayPassesSound ==
    ASSUME Types, NEW s \in Sessions, \A t \in Sessions : Sound(t), DayPasses(s)
    PROVE  \A t \in Sessions : Sound(t)'
<1> USE DEF Types, DayPasses
<1>1. Sound(s)
  OBVIOUS
<1>2. Offset(s)' = Offset(s)
  BY DEF Offset, FilesType, FileSet
<1>3. NoTrace(s)'
  <2>1. /\ rows'[s].state = rows[s].state /\ files'[s].there = files[s].there
    BY DEF RowsType, FilesType, RowSet, FileSet
  <2>2. rows[s] = NoRow => rows'[s] = NoRow
    BY DEF RowsType, NoRow
  <2> QED BY <1>1, <2>1, <2>2 DEF Sound, NoTrace
<1>4. OneRequest(s)'
  BY <1>1 DEF Sound, OneRequest, RowsType, RowSet
<1>5. Whole(s)'
  <2>1. /\ rows'[s].state = rows[s].state /\ files'[s].there = files[s].there
        /\ files'[s].bytes = files[s].bytes
    BY DEF RowsType, FilesType, RowSet, FileSet
  <2> QED BY <1>1, <1>2, <2>1 DEF Sound, Whole, AsSent
<1>6. GoesOn(s)'
  BY <1>1, <1>2 DEF Sound, GoesOn, RowsType, RowSet
<1>7. HandedWhole(s)'
  BY <1>1 DEF Sound, HandedWhole, AsSent
<1>8. ASSUME NEW t \in Sessions, t # s PROVE Untouched(t)
  BY <1>8 DEF Untouched, RowsType, FilesType, BodiesType, SetsType, SweepType, ToldType
<1> QED BY <1>3, <1>4, <1>5, <1>6, <1>7, <1>8, Elsewhere DEF Sound

\* The sweep looks at a file without a row.
LEMMA SweepLooksSound ==
    ASSUME Types, NEW s \in Sessions, \A t \in Sessions : Sound(t), SweepLooks(s)
    PROVE  \A t \in Sessions : Sound(t)'
<1> USE DEF Types, SweepLooks
<1>1. Sound(s)
  OBVIOUS
<1>2. Offset(s)' = Offset(s)
  BY DEF Offset, FilesType, FileSet
<1>3. NoTrace(s)'
  BY <1>1 DEF Sound, NoTrace
<1>4. OneRequest(s)'
  BY <1>1 DEF Sound, OneRequest
<1>5. Whole(s)'
  BY <1>1 DEF Sound, Whole
<1>6. GoesOn(s)'
  BY <1>1, <1>2 DEF Sound, GoesOn
<1>7. HandedWhole(s)'
  BY <1>1 DEF Sound, HandedWhole, AsSent
<1>8. ASSUME NEW t \in Sessions, t # s PROVE Untouched(t)
  BY <1>8 DEF Untouched, RowsType, FilesType, BodiesType, SetsType, SweepType, ToldType
<1> QED BY <1>3, <1>4, <1>5, <1>6, <1>7, <1>8, Elsewhere DEF Sound

\* What the sweep removes is not of an open session.
LEMMA SweepRemovesSound ==
    ASSUME Types, NEW s \in Sessions, \A t \in Sessions : Sound(t), SweepRemoves(s)
    PROVE  \A t \in Sessions : Sound(t)'
<1> USE DEF Types, SweepRemoves, NoFile
<1>1. Sound(s)
  OBVIOUS
<1>3. NoTrace(s)'
  BY <1>1 DEF Sound, NoTrace
<1>4. OneRequest(s)'
  BY <1>1 DEF Sound, OneRequest
<1>5. Whole(s)'
  BY <1>1 DEF Sound, Whole
<1>6. GoesOn(s)'
  BY <1>1 DEF Sound, GoesOn, Whole
<1>7. HandedWhole(s)'
  BY <1>1 DEF Sound, HandedWhole, AsSent
<1>8. ASSUME NEW t \in Sessions, t # s PROVE Untouched(t)
  BY <1>8 DEF Untouched, RowsType, FilesType, BodiesType, SetsType, SweepType, ToldType
<1> QED BY <1>3, <1>4, <1>5, <1>6, <1>7, <1>8, Elsewhere DEF Sound

\* A file without a row is of no session.
LEMMA EndsInCreateSound ==
    ASSUME Types, NEW s \in Sessions, \A t \in Sessions : Sound(t), EndsInCreate(s)
    PROVE  \A t \in Sessions : Sound(t)'
<1> USE DEF Types, EndsInCreate, Drawn, Stops
<1> SUFFICES ASSUME NEW t \in Sessions PROVE Sound(t)'
  OBVIOUS
<1>1. Sound(t) /\ Sound(s)
  OBVIOUS
<1>2. t # s => files'[t] = files[t] /\ offsets'[t] = offsets[t] /\ Offset(t)' = Offset(t)
  BY DEF FilesType, ToldType, Offset
<1>3. t = s => offsets'[t] = 0 /\ rows'[t] = NoRow
  BY <1>1 DEF Sound, NoTrace, ToldType
<1>4. NoTrace(t)'
  BY <1>1, <1>2, <1>3 DEF Sound, NoTrace, NoSweep
<1>5. OneRequest(t)'
  BY DEF OneRequest
<1>6. Whole(t)'
  BY <1>1, <1>2, <1>3 DEF Sound, Whole, NoRow, NoSweep, AsSent
<1>7. GoesOn(t)'
  BY DEF GoesOn
<1>8. HandedWhole(t)'
  BY <1>1 DEF Sound, HandedWhole, AsSent
<1> QED BY <1>4, <1>5, <1>6, <1>7, <1>8 DEF Sound

\* The sweep takes the rows nobody works on, and their files after them.
LEMMA SweepBeginsSound ==
    ASSUME Types, \A t \in Sessions : Sound(t), SweepBegins
    PROVE  \A t \in Sessions : Sound(t)'
<1> USE DEF Types, SweepBegins, Stale
<1> SUFFICES ASSUME NEW t \in Sessions PROVE Sound(t)'
  OBVIOUS
<1>1. Sound(t) /\ Offset(t)' = Offset(t)
  BY DEF Offset
<1>2. \/ t \notin Stale /\ rows'[t] = rows[t]
      \/ t \notin busy /\ rows'[t] = NoRow
  BY DEF RowsType
<1>3. NoTrace(t)'
  BY <1>1 DEF Sound, NoTrace
<1>4. OneRequest(t)'
  BY <1>1, <1>2 DEF Sound, OneRequest
<1>5. Whole(t)'
  BY <1>1, <1>2 DEF Sound, Whole, NoRow, AsSent
<1>6. GoesOn(t)'
  BY <1>1, <1>2 DEF Sound, GoesOn, NoRow
<1>7. HandedWhole(t)'
  BY <1>1 DEF Sound, HandedWhole, AsSent
<1> QED BY <1>3, <1>4, <1>5, <1>6, <1>7 DEF Sound

\* From the listing on, it is only after files with no row.
LEMMA SweepListsSound ==
    ASSUME Types, \A t \in Sessions : Sound(t), SweepLists
    PROVE  \A t \in Sessions : Sound(t)'
<1> USE DEF Types, SweepLists, Orphans
<1> SUFFICES ASSUME NEW t \in Sessions PROVE Sound(t)'
  OBVIOUS
<1>1. Sound(t) /\ Offset(t)' = Offset(t)
  BY DEF Offset
<1>2. NoTrace(t)'
  BY <1>1 DEF Sound, NoTrace, SweepType
<1>3. OneRequest(t)'
  BY <1>1 DEF Sound, OneRequest, NoBody
<1>4. Whole(t)'
  BY <1>1 DEF Sound, Whole, NoRow, AsSent
<1>5. GoesOn(t)'
  BY <1>1 DEF Sound, GoesOn, NoBody
<1>6. HandedWhole(t)'
  BY <1>1 DEF Sound, HandedWhole, AsSent
<1> QED BY <1>2, <1>3, <1>4, <1>5, <1>6 DEF Sound

\* The byte that reached the disk, or did not, was the next one.
LEMMA ProcessEndsSound ==
    ASSUME Types, \A t \in Sessions : Sound(t), ProcessEnds
    PROVE  \A t \in Sessions : Sound(t)'
<1> USE DEF Types, ProcessEnds, Stops
<1> SUFFICES ASSUME NEW t \in Sessions PROVE Sound(t)'
  OBVIOUS
<1>1. Sound(t)
  OBVIOUS
<1>0. UNCHANGED <<rows, handed, offsets>> /\ doomed' = {} /\ sweep' = NoSweep
  OBVIOUS
<1>2. \/ t \in doomed /\ files'[t] = NoFile
      \/ landing[t] # 0 /\ files[t].there /\ files'[t] = Written(files[t], landing[t])
      \/ files'[t] = files[t]
  OBVIOUS
<1>3. NoTrace(t)'
  BY <1>1, <1>2 DEF Sound, NoTrace, NoSweep, NoFile
<1>4. OneRequest(t)'
  BY DEF OneRequest
<1>5. Whole(t)'
  <2> SUFFICES ASSUME rows[t].state = "open" PROVE Whole(t)'
    BY DEF Whole
  <2> HIDE DEF ProcessEnds, Stops
  <2>1. files[t].bytes = AsSent(Offset(t)) /\ Offset(t) \in Nat
    BY <1>1, OffsetType DEF Sound, Whole
  <2>2. t \notin doomed /\ (landing[t] # 0 => landing[t] = Offset(t) + 1)
    BY <1>1 DEF Sound, OneRequest, Whole, GoesOn
  <2>3. \/ files'[t] = files[t] /\ Offset(t)' = Offset(t)
        \/ /\ files'[t].there /\ files'[t].bytes = AsSent(Offset(t) + 1)
           /\ Offset(t)' = Offset(t) + 1
    <3>1. CASE files'[t] = files[t]
      BY <3>1 DEF Offset
    <3>2. CASE landing[t] # 0 /\ files'[t] = Written(files[t], landing[t])
      <4>1. files'[t].there /\ files'[t].bytes = AsSent(Offset(t) + 1)
        <5>1. files'[t].there /\ files'[t].bytes = Append(files[t].bytes, landing[t])
          BY <3>2 DEF Written
        <5>2. files'[t].bytes = Append(AsSent(Offset(t)), Offset(t) + 1)
          BY <2>1, <2>2, <3>2, <5>1
        <5> QED BY <2>1, <5>1, <5>2, AsSentGrows
      <4> QED BY <2>1, <4>1, AsSentType DEF Offset
    <3> QED BY <1>2, <2>2, <3>1, <3>2
  <2> QED BY <1>0, <1>1, <2>1, <2>3 DEF Sound, Whole, NoSweep, ToldType
<1>6. GoesOn(t)'
  BY DEF GoesOn
<1>7. HandedWhole(t)'
  BY <1>1 DEF Sound, HandedWhole, AsSent
<1> QED BY <1>3, <1>4, <1>5, <1>6, <1>7 DEF Sound

-----------------------------------------------------------------------------
(* The theorems.                                                           *)

\* The invariant holds initially.
LEMMA InitUploadsInv == UploadsInit => UploadsInv
<1> SUFFICES ASSUME UploadsInit PROVE UploadsInv
  OBVIOUS
<1>1. Types
  BY InitTypes
<1>2. ASSUME NEW s \in Sessions PROVE Sound(s)
  BY DEF UploadsInit, Sound, NoTrace, OneRequest, Whole, GoesOn, HandedWhole, NoRow, NoFile,
         NoSweep
<1> QED BY <1>1, <1>2 DEF UploadsInv

\* Database failures are never forgotten.
LEMMA FailuresStay ==
    ASSUME Types, BothWritesFailed, [UploadsNext]_uploadVars
    PROVE  BothWritesFailed'
<1>1. errors' = errors \/ \E n \in 1 .. 2 : DatabaseFails(n)
  <2>1. ASSUME NEW s \in Sessions, NotHandedOn(s) \/ Used(s)
        PROVE  errors' = errors \/ \E n \in 1 .. 2 : DatabaseFails(n)
    BY <2>1 DEF NotHandedOn, Used
  <2>2. ASSUME NEW s \in Sessions,
               \/ CreateUploadSession(s) \/ EndsInCreate(s)
               \/ ChunkBegins(s) \/ StreamOpens(s) \/ ByteArrives(s) \/ ByteLands(s)
               \/ ChunkEnds(s) \/ HandsOn(s)
        PROVE  errors' = errors
    BY <2>2 DEF CreateUploadSession, EndsInCreate, Stops, ChunkBegins, StreamOpens,
                ByteArrives, ByteLands, ChunkEnds, HandsOn
  <2>3. ASSUME NEW s \in Sessions,
               \/ Unlinked(s) \/ AbortUploadSession(s) \/ AccountDeleted(s) \/ DayPasses(s)
               \/ SweepLooks(s) \/ SweepRemoves(s)
        PROVE  errors' = errors
    BY <2>3 DEF Unlinked, AbortUploadSession, AccountDeleted, DayPasses, SweepLooks, SweepRemoves
  <2>4. CASE SweepBegins \/ SweepLists \/ ProcessEnds \/ UNCHANGED uploadVars
    BY <2>4 DEF SweepBegins, SweepLists, ProcessEnds, Stops, uploadVars
  <2> QED BY <2>1, <2>2, <2>3, <2>4 DEF UploadsNext
<1> QED BY <1>1 DEF DatabaseFails, Types, CountsType, BothWritesFailed

\* Every step keeps every session sound, until the database failed twice.
LEMMA NextSound ==
    ASSUME Types, \A s \in Sessions : Sound(s), [UploadsNext]_uploadVars, ~BothWritesFailed'
    PROVE  \A s \in Sessions : Sound(s)'
<1>1. ASSUME NEW s \in Sessions,
             CreateUploadSession(s) \/ EndsInCreate(s)
      PROVE  \A t \in Sessions : Sound(t)'
  BY <1>1, CreateUploadSessionSound, EndsInCreateSound
<1>2. ASSUME NEW s \in Sessions,
             ChunkBegins(s) \/ StreamOpens(s) \/ ByteArrives(s) \/ ByteLands(s) \/ ChunkEnds(s)
      PROVE  \A t \in Sessions : Sound(t)'
  BY <1>2, ChunkBeginsSound, StreamOpensSound, ByteArrivesSound, ByteLandsSound, ChunkEndsSound
<1>3. ASSUME NEW s \in Sessions, HandsOn(s) \/ NotHandedOn(s) \/ Used(s)
      PROVE  \A t \in Sessions : Sound(t)'
  BY <1>3, HandsOnSound, NotHandedOnSound, UsedSound
<1>4. ASSUME NEW s \in Sessions,
             Unlinked(s) \/ AbortUploadSession(s) \/ AccountDeleted(s) \/ DayPasses(s)
      PROVE  \A t \in Sessions : Sound(t)'
  BY <1>4, UnlinkedSound, AbortUploadSessionSound, AccountDeletedSound, DayPassesSound
<1>5. ASSUME NEW s \in Sessions, SweepLooks(s) \/ SweepRemoves(s)
      PROVE  \A t \in Sessions : Sound(t)'
  BY <1>5, SweepLooksSound, SweepRemovesSound
<1>6. CASE SweepBegins \/ SweepLists \/ ProcessEnds
  BY <1>6, SweepBeginsSound, SweepListsSound, ProcessEndsSound
<1>7. CASE UNCHANGED uploadVars
  <2>1. ASSUME NEW t \in Sessions PROVE Untouched(t)
    BY <1>7 DEF uploadVars, Untouched
  <2> QED BY <2>1, Elsewhere
<1> QED BY <1>1, <1>2, <1>3, <1>4, <1>5, <1>6, <1>7 DEF UploadsNext

\* The invariant holds in every state, whatever the sizes and however many
\* sessions, restarts and failures (uploadSessions.ts).
THEOREM UploadsInvariant == UploadsSpec => []UploadsInv
<1>1. UploadsInv /\ [UploadsNext]_uploadVars => UploadsInv'
  <2> SUFFICES ASSUME UploadsInv, [UploadsNext]_uploadVars PROVE UploadsInv'
    OBVIOUS
  <2>1. Types'
    BY NextTypes DEF UploadsInv
  <2>2. BothWritesFailed' \/ \A s \in Sessions : Sound(s)'
    BY FailuresStay, NextSound DEF UploadsInv
  <2> QED BY <2>1, <2>2 DEF UploadsInv
<1> QED BY <1>1, InitUploadsInv, PTL DEF UploadsSpec

\* What is handed on is the file as the client sent it, and it is handed on
\* once, unless the database failed twice (appendUploadChunk and
\* finishUploadSession in uploadSessions.ts).
THEOREM FilesAreHandedOnOnceAsSent == UploadsSpec => []HandedOnceAsSent
<1>1. UploadsInv => HandedOnceAsSent
  BY DEF UploadsInv, Sound, HandedWhole, HandedOnceAsSent
<1> QED BY <1>1, UploadsInvariant, PTL

\* While a session is open nothing takes its file or the bytes the last chunk
\* was answered with, unless the database failed twice (sweepUploadSessions,
\* abortUploadSession and finishUploadSession in uploadSessions.ts).
THEOREM OpenSessionsKeepTheirBytes == UploadsSpec => []OpenKeepsItsBytes
<1>1. UploadsInv => OpenKeepsItsBytes
  <2> SUFFICES ASSUME UploadsInv, ~BothWritesFailed, NEW s \in Sessions, rows[s].state = "open"
               PROVE  files[s].there /\ Offset(s) >= offsets[s]
    BY DEF OpenKeepsItsBytes
  <2>1. files[s].there /\ offsets[s] <= Offset(s)
    BY DEF UploadsInv, Sound, Whole
  <2>2. Offset(s) \in Nat /\ offsets[s] \in Int
    BY OffsetType DEF UploadsInv, Types, ToldType
  <2> QED BY <2>1, <2>2
<1> QED BY <1>1, UploadsInvariant, PTL

-----------------------------------------------------------------------------
(* Walks through the history.                                              *)

\* What is on the wire is a walk, and after a verdict on the cap nothing is
\* asked for and nothing waits: else the next walk to end, or the next link to
\* return, would leave what waits where it is.
OnTheWire == asking # Idle => "walk" \in DOMAIN asking
OverIsOver == ~available => walks = <<>> /\ asking = Idle

HistoryInv == /\ available \in BOOLEAN /\ OnTheWire
              /\ OverIsOver /\ WalkGoesOn

\* next(): what waits goes on the wire, as long as there is anything.
LEMMA ProceedGoesOn ==
    ASSUME NEW waiting, NEW asked, available \/ waiting = <<>>, Proceed(waiting, asked)
    PROVE  /\ OnTheWire'
           /\ asking' = Idle => walks' = <<>>
           /\ waiting = <<>> => walks' = <<>> /\ asking' = Idle
  BY DEF Proceed, OnTheWire, Idle

\* A window that is wanted: it is dropped, waits behind another, or is asked for.
LEMMA EnqueueGoesOn ==
    ASSUME HistoryInv, NEW w, Enqueue(w), available' = available, linked' = linked,
           linked # "down"
    PROVE  HistoryInv'
<1>1. CASE ~available
  BY <1>1 DEF HistoryInv, OnTheWire, OverIsOver, WalkGoesOn, Enqueue
<1>2. CASE available /\ asking # Idle
  BY <1>2 DEF HistoryInv, OnTheWire, OverIsOver, WalkGoesOn, Enqueue
<1>3. CASE available /\ asking = Idle
  <2> DEFINE waiting == Append(walks, w)
  <2>1. Proceed(waiting, atServer)
    BY <1>3 DEF Enqueue
  <2> HIDE DEF waiting
  <2>2. OnTheWire' /\ (asking' = Idle => walks' = <<>>)
    BY <1>3, <2>1, ProceedGoesOn
  <2> QED
    BY <1>3, <2>2 DEF HistoryInv, OverIsOver, WalkGoesOn
<1> QED
  BY <1>1, <1>2, <1>3 DEF HistoryInv

\* Every action keeps the invariant.
LEMMA HistoryStep == HistoryInv /\ [HistoryNext]_historyVars => HistoryInv'
<1> SUFFICES ASSUME HistoryInv, [HistoryNext]_historyVars PROVE HistoryInv'
  OBVIOUS
<1>1. CASE \E t \in Channels : ChannelJoined(t)
  <2>1. PICK t \in Channels : ChannelJoined(t)
    BY <1>1
  <2> DEFINE w == Between(t, Under(Anchor(t)), wanted)
  <2>2. Wants /\ Enqueue(w)
    BY <2>1 DEF ChannelJoined
  <2> HIDE DEF w
  <2> QED
    BY <2>2, EnqueueGoesOn DEF Wants
<1>2. CASE WhenRegistered
  <2> DEFINE w == TargetsWalk(wanted)
  <2>1. Wants /\ Enqueue(w)
    BY <1>2 DEF WhenRegistered
  <2> HIDE DEF w
  <2> QED
    BY <2>1, EnqueueGoesOn DEF Wants
<1>3. CASE ServerAnswers \/ Refuses \/ Ignores
  <2>1. UNCHANGED <<walks, asking, available, linked>>
    BY <1>3 DEF ServerAnswers, Refuses, Ignores, Serves
  <2> QED
    BY <2>1 DEF HistoryInv, OnTheWire, OverIsOver, WalkGoesOn
<1>4. CASE BatchOpens
  <2>1. UNCHANGED <<walks, available, linked>>
    BY <1>4 DEF BatchOpens
  <2>2. CASE asking' = asking
    BY <2>1, <2>2 DEF HistoryInv, OnTheWire, OverIsOver, WalkGoesOn
  <2>3. CASE asking' # asking
    <3> DEFINE r == Head(inbound).req.ref
    <3>1. asking # Idle /\ asking' = [asking EXCEPT !.ref = r]
      BY <1>4, <2>3 DEF BatchOpens, Mine
    <3> HIDE DEF r
    <3>2. DOMAIN asking' = DOMAIN asking
      BY <3>1
    <3>3. OnTheWire' /\ asking' # Idle
      BY <3>1, <3>2 DEF HistoryInv, OnTheWire, Idle
    <3> QED
      BY <2>1, <3>1, <3>3 DEF HistoryInv, OverIsOver, WalkGoesOn
  <2> QED
    BY <2>2, <2>3
<1>5. CASE BatchCloses
  <2>1. UNCHANGED <<available, linked>>
    BY <1>5 DEF BatchCloses
  <2>2. CASE UNCHANGED <<walks, asking>>
    BY <2>1, <2>2 DEF HistoryInv, OnTheWire, OverIsOver, WalkGoesOn
  <2>3. CASE ~UNCHANGED <<walks, asking>>
    <3>1. /\ asking # Idle
          /\ Replied(asking.walk, Page(Head(inbound).req), Head(inbound).last)
      BY <1>5, <2>3 DEF BatchCloses
    <3>2. \E waiting : Proceed(waiting, atServer)
      BY <3>1 DEF Replied
    <3>3. PICK waiting : Proceed(waiting, atServer)
      BY <3>2
    <3>4. available
      BY <3>1 DEF HistoryInv, OverIsOver
    <3>5. OnTheWire' /\ (asking' = Idle => walks' = <<>>)
      BY <3>3, <3>4, ProceedGoesOn
    <3> QED
      BY <2>1, <3>4, <3>5 DEF HistoryInv, OverIsOver, WalkGoesOn
  <2> QED
    BY <2>2, <2>3
<1>6. CASE Fails
  <2>1. UNCHANGED <<available, linked>>
    BY <1>6 DEF Fails, Reads
  <2>2. CASE FailIsFor(Head(inbound).req)
    <3>1. asking # Idle /\ Proceed(walks, atServer)
      BY <1>6, <2>2 DEF Fails, FailIsFor
    <3>2. available
      BY <3>1 DEF HistoryInv, OverIsOver
    <3>3. OnTheWire' /\ (asking' = Idle => walks' = <<>>)
      BY <3>1, <3>2, ProceedGoesOn
    <3> QED
      BY <2>1, <3>2, <3>3 DEF HistoryInv, OverIsOver, WalkGoesOn
  <2>3. CASE ~FailIsFor(Head(inbound).req)
    BY <1>6, <2>1, <2>3 DEF Fails, HistoryInv, OnTheWire, OverIsOver, WalkGoesOn
  <2> QED
    BY <2>2, <2>3
<1>7. CASE TimesOut
  <2> DEFINE strikes == IF asking.ref = 0 THEN unanswered + 1 ELSE unanswered
             over == asking.ref = 0 /\ strikes >= Strikes
             waiting == IF over THEN <<>> ELSE walks
  <2>1. /\ asking # Idle /\ linked' = linked
        /\ available' = (available /\ ~over)
        /\ Proceed(waiting, atServer)
    BY <1>7 DEF TimesOut
  <2>2. over => waiting = <<>>
    OBVIOUS
  <2>3. over \in BOOLEAN
    OBVIOUS
  <2> HIDE DEF over, waiting
  <2>4. available
    BY <2>1 DEF HistoryInv, OverIsOver
  <2>5. /\ OnTheWire' /\ (asking' = Idle => walks' = <<>>)
        /\ over => walks' = <<>> /\ asking' = Idle
    BY <2>1, <2>2, <2>4, ProceedGoesOn
  <2> QED
    BY <2>1, <2>3, <2>4, <2>5 DEF HistoryInv, OverIsOver, WalkGoesOn
<1>8. CASE LinkDrops
  <2>1. /\ linked' = "down" /\ asking' = Idle /\ available' = available
        /\ walks' = Suspend
    BY <1>8 DEF LinkDrops
  <2>2. ~available => walks' = <<>>
    BY <2>1 DEF HistoryInv, OverIsOver, Suspend
  <2> QED
    BY <2>1, <2>2 DEF HistoryInv, OnTheWire, OverIsOver, WalkGoesOn
<1>9. CASE LinkReturns
  BY <1>9 DEF LinkReturns, HistoryInv, OnTheWire, OverIsOver, WalkGoesOn
<1>10. CASE GoesLive
  <2>1. linked' = "live" /\ available' = available /\ ResumeWalks
    BY <1>10 DEF GoesLive
  <2>2. CASE asking = Idle
    <3>1. Proceed(walks, atServer)
      BY <2>1, <2>2 DEF ResumeWalks
    <3>2. available \/ walks = <<>>
      BY DEF HistoryInv, OverIsOver
    <3>3. /\ OnTheWire' /\ (asking' = Idle => walks' = <<>>)
          /\ walks = <<>> => walks' = <<>> /\ asking' = Idle
      BY <3>1, <3>2, ProceedGoesOn
    <3> QED
      BY <2>1, <3>2, <3>3 DEF HistoryInv, OverIsOver, WalkGoesOn
  <2>3. CASE asking # Idle
    BY <2>1, <2>3 DEF ResumeWalks, HistoryInv, OnTheWire, OverIsOver, WalkGoesOn
  <2> QED
    BY <2>2, <2>3
<1>11. CASE SocketGoes
  BY <1>11 DEF SocketGoes, HistoryInv, OnTheWire, OverIsOver, WalkGoesOn
<1>12. CASE UNCHANGED historyVars
  BY <1>12 DEF historyVars, HistoryInv, OnTheWire, OverIsOver, WalkGoesOn
<1> QED
  BY <1>1, <1>2, <1>3, <1>4, <1>5, <1>6, <1>7, <1>8, <1>9, <1>10, <1>11, <1>12
     DEF HistoryNext

\* The invariant holds initially.
LEMMA HistoryStart == HistoryInit => HistoryInv
  BY DEF HistoryInit, HistoryInv, OnTheWire, OverIsOver, WalkGoesOn, Idle

\* While the link is up a walk waits only behind one on the wire, for any
\* histories, limits, windows, losses and refusals (next, resume, suspend,
\* enqueue and ended in chathistoryBackfill.ts).
THEOREM NoWalkIsLeftOver == HistorySpec => []WalkGoesOn
<1>1. HistoryInv => WalkGoesOn
  BY DEF HistoryInv
<1> QED
  BY <1>1, HistoryStart, HistoryStep, PTL DEF HistorySpec

=============================================================================
