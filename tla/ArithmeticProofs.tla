-------------------------- MODULE ArithmeticProofs --------------------------
(***************************************************************************)
(* What the logs of src/aegis-cl-psi are built from, for every input:      *)
(* windows that keep the last four of a log, sums of columns, and hash     *)
(* chains.                                                                 *)
(*                                                                         *)
(* A sum is a recursive function.  What it is for a sequence of any length *)
(* is proved by induction on sets of natural numbers: LeastNat gives every *)
(* nonempty one a least element, so a set that holds 0 and the successor   *)
(* of each of its members holds them all.                                  *)
(***************************************************************************)
EXTENDS Arithmetic, SequenceTheorems, FiniteSetTheorems, WellFoundedInduction, TLAPS

\* A sequence, whatever its elements are.
IsSeq(q) == q \in Seq(Range(q))

\* The last four of a log.
Kept(q)    == AtMost(Len(q), 4)
Newest(q)  == [i \in 1..Kept(q) |-> q[Len(q) - Kept(q) + i]]

-----------------------------------------------------------------------------
(* Sequences and windows. *)

\* A function on 1..n is a sequence of length n.
LEMMA FunctionIsSeq ==
  ASSUME NEW n \in Nat, NEW f, f = [i \in 1..n |-> f[i]]
  PROVE  IsSeq(f) /\ Len(f) = n /\ DOMAIN f = 1..n
  <1>1. DOMAIN f = 1..n
    OBVIOUS
  <1>2. \A i \in 1..n : f[i] \in Range(f)
    BY <1>1 DEF Range
  <1> DEFINE S == Range(f)
  <1>3. \A i \in 1..n : f[i] \in S
    BY <1>2
  <1> HIDE DEF S
  <1>4. f \in [1..n -> S]
    BY <1>3
  <1>5. f \in Seq(S) /\ Len(f) = n
    BY <1>4
  <1> QED
    BY <1>1, <1>5 DEF IsSeq, S

\* What a sequence is, and that it is no more than its elements.
LEMMA SeqFacts ==
  ASSUME NEW q, IsSeq(q)
  PROVE  Len(q) \in Nat /\ DOMAIN q = 1..Len(q) /\ q = [i \in 1..Len(q) |-> q[i]]
  <1> DEFINE S == Range(q)
  <1>1. q \in Seq(S)
    BY DEF IsSeq
  <1> HIDE DEF S
  <1> QED
    BY <1>1

\* Appending to a sequence.
LEMMA AppendSeq ==
  ASSUME NEW q, IsSeq(q), NEW r
  PROVE  /\ Len(q) \in Nat /\ DOMAIN q = 1..Len(q)
         /\ IsSeq(Append(q, r)) /\ Len(Append(q, r)) = Len(q) + 1
         /\ DOMAIN Append(q, r) = 1..(Len(q) + 1)
         /\ \A i \in 1..Len(q) : Append(q, r)[i] = q[i]
         /\ Append(q, r)[Len(q) + 1] = r
  <1> DEFINE S == Range(q) \cup {r}
             a == Append(q, r)
  <1>1. Len(q) \in Nat /\ DOMAIN q = 1..Len(q) /\ q = [i \in 1..Len(q) |-> q[i]]
    BY SeqFacts
  <1>2. \A i \in 1..Len(q) : q[i] \in S
    BY <1>1 DEF Range
  <1>3. r \in S
    OBVIOUS
  <1> HIDE DEF S
  <1>4. q \in Seq(S)
    BY <1>1, <1>2
  <1>5. /\ a \in Seq(S) /\ Len(a) = Len(q) + 1
        /\ \A i \in 1..Len(q) : a[i] = q[i]
        /\ a[Len(q) + 1] = r
    BY <1>3, <1>4, AppendProperties
  <1> HIDE DEF a
  <1>6. a = [i \in 1..(Len(q) + 1) |-> a[i]] /\ Len(q) + 1 \in Nat
    BY <1>1, <1>5
  <1>7. IsSeq(a) /\ DOMAIN a = 1..(Len(q) + 1)
    BY <1>6, FunctionIsSeq
  <1> QED
    BY <1>1, <1>5, <1>7 DEF a

\* The last four of a log, as a sequence.
LEMMA NewestSeq ==
  ASSUME NEW q, IsSeq(q)
  PROVE  /\ Kept(q) \in 0..4 /\ Kept(q) <= Len(q)
         /\ Kept(q) = IF Len(q) > 4 THEN 4 ELSE Len(q)
         /\ IsSeq(Newest(q)) /\ Len(Newest(q)) = Kept(q)
         /\ DOMAIN Newest(q) = 1..Kept(q)
         /\ \A i \in 1..Kept(q) : Newest(q)[i] = q[Len(q) - Kept(q) + i]
  <1>1. Len(q) \in Nat
    BY SeqFacts
  <1>2. Kept(q) \in 0..4 /\ Kept(q) <= Len(q) /\ Kept(q) = IF Len(q) > 4 THEN 4 ELSE Len(q)
    <2>1. PICK n \in Nat : n = Len(q)
      BY <1>1
    <2>2. Kept(q) = IF n > 4 THEN 4 ELSE n
      BY <2>1 DEF Kept, AtMost
    <2> QED BY <2>1, <2>2
  <1> DEFINE w == Newest(q)
             k == Kept(q)
  <1>3. w = [i \in 1..k |-> q[Len(q) - k + i]]
    BY DEF Newest
  <1>4. k \in Nat /\ w = [i \in 1..k |-> w[i]]
    BY <1>2, <1>3
  <1>5. IsSeq(w) /\ Len(w) = k /\ DOMAIN w = 1..k
    BY <1>4, FunctionIsSeq
  <1>6. \A i \in 1..k : w[i] = q[Len(q) - k + i]
    BY <1>3
  <1> QED
    BY <1>2, <1>5, <1>6

\* Sequences of one length with the same elements are equal.
LEMMA SeqsEqual ==
  ASSUME NEW q, IsSeq(q), NEW r, IsSeq(r), Len(q) = Len(r),
         \A i \in 1..Len(q) : q[i] = r[i]
  PROVE  q = r
  <1>1. q = [i \in 1..Len(q) |-> q[i]] /\ r = [i \in 1..Len(r) |-> r[i]]
    BY SeqFacts
  <1> QED
    BY <1>1

\* Dropping the first element.
LEMMA TailSeq ==
  ASSUME NEW q, IsSeq(q), Len(q) > 0
  PROVE  /\ IsSeq(Tail(q)) /\ Len(Tail(q)) = Len(q) - 1
         /\ \A i \in 1..(Len(q) - 1) : Tail(q)[i] = q[i + 1]
  <1> DEFINE S == Range(q)
             t == Tail(q)
  <1>1. q \in Seq(S)
    BY DEF IsSeq
  <1> HIDE DEF S
  <1>2. Len(q) \in Nat /\ q # << >>
    BY <1>1
  <1>3. /\ t \in Seq(S) /\ Len(t) = Len(q) - 1
        /\ \A i \in 1..(Len(q) - 1) : t[i] = q[i + 1]
    BY <1>1, <1>2, HeadTailProperties
  <1> HIDE DEF t
  <1>4. Len(q) - 1 \in Nat /\ t = [i \in 1..(Len(q) - 1) |-> t[i]]
    BY <1>2, <1>3
  <1>5. IsSeq(t)
    BY <1>4, FunctionIsSeq
  <1> QED
    BY <1>3, <1>5 DEF t

\* What a window of at most four becomes.
LEMMA SlideIs ==
  ASSUME NEW w, IsSeq(w), NEW v, NEW t, t = Slide(w, v, 4)
  PROVE  /\ Len(w) < 4 => /\ IsSeq(t) /\ Len(t) = Len(w) + 1 /\ t[Len(w) + 1] = v
                          /\ \A i \in 1..Len(w) : t[i] = w[i]
         /\ Len(w) = 4 => /\ IsSeq(t) /\ Len(t) = 4 /\ t[4] = v
                          /\ \A i \in 1..3 : t[i] = w[i + 1]
  <1>1. PICK a : a = Append(w, v)
    OBVIOUS
  <1>2. PICK k : k = Len(w)
    OBVIOUS
  <1>3. /\ k \in Nat /\ IsSeq(a) /\ Len(a) = k + 1 /\ a[k + 1] = v
        /\ \A i \in 1..k : a[i] = w[i]
    <2>1. /\ Len(w) \in Nat
          /\ IsSeq(Append(w, v)) /\ Len(Append(w, v)) = Len(w) + 1
          /\ \A i \in 1..Len(w) : Append(w, v)[i] = w[i]
          /\ Append(w, v)[Len(w) + 1] = v
      BY AppendSeq
    <2> QED BY <1>1, <1>2, <2>1, Zenon
  <1>4. t = IF Len(a) > 4 THEN Tail(a) ELSE a
    BY <1>1 DEF Slide
  <1>5. CASE k < 4
    <2>1. t = a
      BY <1>3, <1>4, <1>5
    <2> QED BY <1>2, <1>3, <1>5, <2>1
  <1>6. CASE k = 4
    <2>1. Len(a) = 5 /\ t = Tail(a)
      BY <1>3, <1>4, <1>6
    <2>2. Len(a) > 0
      BY <2>1
    <2>3. IsSeq(t) /\ Len(t) = Len(a) - 1 /\ \A i \in 1..(Len(a) - 1) : t[i] = a[i + 1]
      BY <1>3, <2>1, <2>2, TailSeq, Zenon
    <2>4. t[4] = a[5] /\ \A i \in 1..3 : t[i] = a[i + 1] /\ i + 1 \in 1..4
      BY <2>1, <2>3
    <2> QED BY <1>2, <1>3, <1>6, <2>1, <2>3, <2>4
  <1> QED
    BY <1>2, <1>5, <1>6

\* Sliding a window over the last four keeps the last four.
LEMMA SlideNewest ==
  ASSUME NEW q, IsSeq(q), NEW v
  PROVE  Slide(Newest(q), v, 4) = Newest(Append(q, v))
  <1>1. PICK n, w, g, t, z : /\ n = Len(q) /\ w = Newest(q) /\ g = Append(q, v)
                             /\ t = Slide(w, v, 4) /\ z = Newest(g)
    OBVIOUS
  <1>2. n \in Nat /\ IsSeq(g) /\ Len(g) = n + 1 /\ g[n + 1] = v
        /\ \A i \in 1..n : g[i] = q[i]
    <2>1. /\ Len(q) \in Nat
          /\ IsSeq(Append(q, v)) /\ Len(Append(q, v)) = Len(q) + 1
          /\ \A i \in 1..Len(q) : Append(q, v)[i] = q[i]
          /\ Append(q, v)[Len(q) + 1] = v
      BY AppendSeq
    <2> QED BY <1>1, <2>1, Zenon
  <1>3. PICK k : /\ k = (IF Len(q) > 4 THEN 4 ELSE Len(q)) /\ IsSeq(w) /\ Len(w) = k
                 /\ \A i \in 1..k : w[i] = q[Len(q) - k + i]
    BY <1>1, NewestSeq, Zenon
  <1>4. PICK m : /\ m = (IF Len(g) > 4 THEN 4 ELSE Len(g)) /\ IsSeq(z) /\ Len(z) = m
                 /\ \A i \in 1..m : z[i] = g[Len(g) - m + i]
    <2>1. /\ Kept(g) = IF Len(g) > 4 THEN 4 ELSE Len(g)
          /\ IsSeq(Newest(g)) /\ Len(Newest(g)) = Kept(g)
          /\ \A i \in 1..Kept(g) : Newest(g)[i] = g[Len(g) - Kept(g) + i]
      BY <1>2, NewestSeq
    <2> QED BY <1>1, <2>1
  <1>5. /\ Len(w) < 4 => /\ IsSeq(t) /\ Len(t) = Len(w) + 1 /\ t[Len(w) + 1] = v
                         /\ \A i \in 1..Len(w) : t[i] = w[i]
        /\ Len(w) = 4 => /\ IsSeq(t) /\ Len(t) = 4 /\ t[4] = v
                         /\ \A i \in 1..3 : t[i] = w[i + 1]
    <2>1. IsSeq(w) /\ t = Slide(w, v, 4)
      BY <1>1, <1>3
    <2> HIDE <1>1, <1>2, <1>3, <1>4
    <2> QED BY <2>1, SlideIs
  <1>6. CASE n < 4
    <2>1. k = n /\ m = n + 1 /\ Len(w) < 4
      BY <1>1, <1>2, <1>3, <1>4, <1>6
    <2>2. IsSeq(t) /\ Len(t) = Len(z) /\ t[n + 1] = v /\ \A i \in 1..n : t[i] = w[i]
      BY <1>3, <1>4, <1>5, <2>1
    <2>3. ASSUME NEW i \in 1..(n + 1) PROVE t[i] = z[i]
      <3>1. z[i] = g[i]
        BY <1>2, <1>4, <2>1
      <3>2. CASE i = n + 1
        BY <1>2, <2>2, <3>1, <3>2
      <3>3. CASE i \in 1..n
        <4>1. w[i] = q[i]
          <5>1. i \in 1..k /\ n - k + i = i
            BY <1>2, <2>1, <3>3
          <5>2. w[i] = q[n - k + i]
            BY <1>1, <1>3, <5>1
          <5> QED BY <5>1, <5>2
        <4> QED BY <1>2, <2>2, <3>1, <3>3, <4>1
      <3> QED BY <1>2, <3>2, <3>3
    <2>4. t = z
      BY <1>4, <2>1, <2>2, <2>3, SeqsEqual
    <2> QED BY <1>1, <2>4
  <1>7. CASE n >= 4
    <2>1. k = 4 /\ m = 4 /\ Len(w) = 4
      BY <1>1, <1>2, <1>3, <1>4, <1>7
    <2>2. IsSeq(t) /\ Len(t) = 4 /\ t[4] = v /\ \A i \in 1..3 : t[i] = w[i + 1]
      BY <1>5, <2>1
    <2>3. ASSUME NEW i \in 1..4 PROVE t[i] = z[i]
      <3>1. z[i] = g[n - 3 + i]
        <4>1. (n + 1) - 4 + i = n - 3 + i
          BY <1>2
        <4> QED BY <1>2, <1>4, <2>1, <4>1
      <3>2. CASE i = 4
        <4>1. n - 3 + i = n + 1
          BY <1>2, <3>2
        <4> QED BY <1>2, <2>2, <3>1, <3>2, <4>1
      <3>3. CASE i \in 1..3
        <4>1. i + 1 \in 1..4 /\ n - 4 + (i + 1) = n - 3 + i /\ n - 3 + i \in 1..n
          BY <1>2, <1>7, <3>3
        <4>2. w[i + 1] = q[n - 3 + i]
          BY <1>1, <1>3, <2>1, <4>1, ZenonT(30)
        <4> QED BY <1>2, <2>2, <3>1, <3>3, <4>1, <4>2
      <3> QED BY <3>2, <3>3
    <2>4. t = z
      BY <1>4, <2>1, <2>2, <2>3, SeqsEqual
    <2> QED BY <1>1, <2>4
  <1> QED
    BY <1>2, <1>6, <1>7

-----------------------------------------------------------------------------
(* Sums. *)

\* A nonempty set of natural numbers has a least element.
LEMMA LeastNat ==
  ASSUME NEW T, T \subseteq Nat, T # {}
  PROVE  \E n \in T : \A m \in T : n <= m
  <1>1. PICK R : R = OpToRel(<, Nat)
    OBVIOUS
  <1>2. IsWellFoundedOn(R, Nat)
    BY <1>1, NatLessThanWellFounded
  <1>3. PICK n \in T : \A m \in T : ~(<<m, n>> \in R)
    BY <1>2, WFMin
  <1>4. \A a, b \in Nat : a < b => <<a, b>> \in R
    BY <1>1 DEF OpToRel
  <1>5. \A m \in T : n <= m
    <2>1. SUFFICES ASSUME NEW m \in T PROVE n <= m
      OBVIOUS
    <2>2. m \in Nat /\ n \in Nat
      OBVIOUS
    <2>3. ~(m < n)
      BY <1>3, <1>4, <2>2
    <2> QED BY <2>2, <2>3
  <1> QED
    BY <1>5

\* Induction up to n on a set: it holds 0, and with k < n also k + 1.
LEMMA SetInduction ==
  ASSUME NEW n \in Nat, NEW T, 0 \in T, \A k \in 0..(n - 1) : k \in T => k + 1 \in T
  PROVE  \A k \in 0..n : k \in T
  <1>1. PICK U : U = {k \in 0..n : k \notin T}
    OBVIOUS
  <1>2. SUFFICES ASSUME U # {} PROVE FALSE
    BY <1>1
  <1>3. PICK k \in U : \A m \in U : k <= m
    BY <1>1, <1>2, LeastNat
  <1>4. k \in 1..n /\ k - 1 \in 0..(n - 1) /\ (k - 1) + 1 = k
    BY <1>1
  <1>5. k - 1 \notin U
    BY <1>3, <1>4
  <1> QED
    BY <1>1, <1>4, <1>5

\* The function g of partial sums of the first n elements of s.
Partial(s, g, n) == g = [i \in 0..n |-> IF i = 0 THEN 0 ELSE g[i - 1] + s[i]]

\* There is such a function for every n.
LEMMA Partials ==
  ASSUME NEW s, NEW n \in Nat
  PROVE  \E g : Partial(s, g, n)
  <1>1. PICK T : T = {k \in Nat : \E g : Partial(s, g, k)}
    OBVIOUS
  <1>2. 0 \in T
    <2>1. PICK g : g = [i \in 0..0 |-> 0]
      OBVIOUS
    <2>2. Partial(s, g, 0)
      BY <2>1 DEF Partial
    <2> QED BY <1>1, <2>2
  <1>3. ASSUME NEW k \in 0..(n - 1), k \in T PROVE k + 1 \in T
    <2>1. PICK g : Partial(s, g, k)
      BY <1>1, <1>3
    <2>2. PICK h : h = [i \in 0..(k + 1) |-> IF i = k + 1 THEN g[k] + s[k + 1] ELSE g[i]]
      OBVIOUS
    <2>3. \A i \in 0..k : g[i] = IF i = 0 THEN 0 ELSE g[i - 1] + s[i]
      BY <2>1 DEF Partial
    <2>4. \A i \in 0..(k + 1) : h[i] = IF i = 0 THEN 0 ELSE h[i - 1] + s[i]
      BY <2>2, <2>3
    <2>5. Partial(s, h, k + 1)
      BY <2>2, <2>4 DEF Partial
    <2> QED BY <1>1, <2>5
  <1> QED
    BY <1>1, <1>2, <1>3, SetInduction

\* The sum of a sequence is the last of its partial sums.
LEMMA TotalIs ==
  ASSUME NEW s, Len(s) \in Nat
  PROVE  \E g : /\ g[0] = 0 /\ Total(s) = g[Len(s)]
                /\ \A i \in 1..Len(s) : g[i] = g[i - 1] + s[i]
  <1>1. PICK g : g = (CHOOSE f : Partial(s, f, Len(s)))
    OBVIOUS
  <1>2. Partial(s, g, Len(s))
    BY <1>1, Partials
  <1>3. Total(s) = g[Len(s)]
    BY <1>1 DEF Total, Partial
  <1> QED
    BY <1>2, <1>3 DEF Partial

\* The sum of no elements.
LEMMA TotalEmpty ==
  ASSUME NEW s, Len(s) = 0
  PROVE  Total(s) = 0
  BY TotalIs

\* What the partial sums reach is what any function with the same steps does.
LEMMA TotalReaches ==
  ASSUME NEW s, Len(s) \in Nat, NEW h, h[0] = 0,
         \A i \in 1..Len(s) : h[i] = h[i - 1] + s[i]
  PROVE  Total(s) = h[Len(s)]
  <1>1. PICK g : /\ g[0] = 0 /\ Total(s) = g[Len(s)]
                 /\ \A i \in 1..Len(s) : g[i] = g[i - 1] + s[i]
    BY TotalIs
  <1>2. PICK T : T = {i \in 0..Len(s) : g[i] = h[i]}
    OBVIOUS
  <1>3. 0 \in T
    BY <1>1, <1>2
  <1>4. ASSUME NEW k \in 0..(Len(s) - 1), k \in T PROVE k + 1 \in T
    <2>1. k + 1 \in 1..Len(s) /\ (k + 1) - 1 = k /\ k + 1 \in 0..Len(s)
      OBVIOUS
    <2>2. g[k + 1] = g[k] + s[k + 1] /\ h[k + 1] = h[k] + s[k + 1]
      BY <1>1, <2>1
    <2>3. g[k] = h[k]
      BY <1>2, <1>4
    <2> QED BY <1>2, <2>1, <2>2, <2>3
  <1>5. \A k \in 0..Len(s) : k \in T
    BY <1>3, <1>4, SetInduction, Zenon
  <1> QED
    BY <1>1, <1>2, <1>5

\* The sum of integers is one; of natural numbers, too, and none exceeds it.
LEMMA TotalType ==
  ASSUME NEW s, Len(s) \in Nat, \A i \in 1..Len(s) : s[i] \in Int
  PROVE  /\ Total(s) \in Int
         /\ (\A i \in 1..Len(s) : s[i] \in Nat) => Total(s) \in Nat
  <1>1. PICK g : /\ g[0] = 0 /\ Total(s) = g[Len(s)]
                 /\ \A i \in 1..Len(s) : g[i] = g[i - 1] + s[i]
    BY TotalIs
  <1>2. PICK T : T = {i \in 0..Len(s) : /\ g[i] \in Int
                                        /\ (\A j \in 1..Len(s) : s[j] \in Nat) => g[i] \in Nat}
    OBVIOUS
  <1>3. 0 \in T
    BY <1>1, <1>2
  <1>4. ASSUME NEW k \in 0..(Len(s) - 1), k \in T PROVE k + 1 \in T
    <2>1. k + 1 \in 1..Len(s) /\ (k + 1) - 1 = k /\ k + 1 \in 0..Len(s)
      OBVIOUS
    <2>2. g[k + 1] = g[k] + s[k + 1]
      BY <1>1, <2>1
    <2> QED BY <1>2, <1>4, <2>1, <2>2
  <1>5. \A k \in 0..Len(s) : k \in T
    BY <1>3, <1>4, SetInduction, Zenon
  <1> QED
    BY <1>1, <1>2, <1>5

\* The sum of one more element.
LEMMA TotalAppend ==
  ASSUME NEW s, NEW t, Len(s) \in Nat, Len(t) = Len(s) + 1,
         \A i \in 1..Len(s) : t[i] = s[i]
  PROVE  Total(t) = Total(s) + t[Len(t)]
  <1>1. PICK g : /\ g[0] = 0 /\ Total(t) = g[Len(t)]
                 /\ \A i \in 1..Len(t) : g[i] = g[i - 1] + t[i]
    <2>1. Len(t) \in Nat
      OBVIOUS
    <2> QED BY <2>1, TotalIs, Zenon
  <1>2. \A i \in 1..Len(s) : g[i] = g[i - 1] + s[i]
    BY <1>1
  <1>3. Total(s) = g[Len(s)]
    BY <1>1, <1>2, TotalReaches
  <1>4. Len(t) \in 1..Len(t) /\ Len(t) - 1 = Len(s)
    OBVIOUS
  <1>5. g[Len(t)] = g[Len(t) - 1] + t[Len(t)]
    BY <1>1, <1>4
  <1> QED
    BY <1>1, <1>3, <1>4, <1>5

\* A sum of differences telescopes.
LEMMA TotalTelescopes ==
  ASSUME NEW s, Len(s) \in Nat, NEW h, \A i \in 0..Len(s) : h[i] \in Int,
         \A i \in 1..Len(s) : s[i] = h[i] - h[i - 1]
  PROVE  Total(s) = h[Len(s)] - h[0]
  <1>1. PICK g : g = [i \in 0..Len(s) |-> h[i] - h[0]]
    OBVIOUS
  <1>2. g[0] = 0 /\ g[Len(s)] = h[Len(s)] - h[0]
    BY <1>1
  <1>3. ASSUME NEW i \in 1..Len(s) PROVE g[i] = g[i - 1] + s[i]
    <2>1. i \in 0..Len(s) /\ i - 1 \in 0..Len(s)
      OBVIOUS
    <2>2. g[i] = h[i] - h[0] /\ g[i - 1] = h[i - 1] - h[0] /\ s[i] = h[i] - h[i - 1]
      BY <1>1, <1>3, <2>1
    <2>3. h[i] \in Int /\ h[i - 1] \in Int /\ h[0] \in Int
      BY <2>1
    <2> QED BY <2>2, <2>3
  <1> QED
    BY <1>2, <1>3, TotalReaches

\* The sum of sums, element by element.
LEMMA TotalOfSums ==
  ASSUME NEW a, NEW b, NEW c, Len(c) \in Nat, Len(a) = Len(c), Len(b) = Len(c),
         \A i \in 1..Len(c) : a[i] \in Int /\ b[i] \in Int /\ c[i] = a[i] + b[i]
  PROVE  Total(c) = Total(a) + Total(b)
  <1>1. PICK f : /\ f[0] = 0 /\ Total(a) = f[Len(a)]
                 /\ \A i \in 1..Len(a) : f[i] = f[i - 1] + a[i]
    BY TotalIs
  <1>2. PICK g : /\ g[0] = 0 /\ Total(b) = g[Len(b)]
                 /\ \A i \in 1..Len(b) : g[i] = g[i - 1] + b[i]
    BY TotalIs
  <1>3. PICK T : T = {i \in 0..Len(c) : f[i] \in Int /\ g[i] \in Int}
    OBVIOUS
  <1>4. 0 \in T
    BY <1>1, <1>2, <1>3
  <1>5. ASSUME NEW k \in 0..(Len(c) - 1), k \in T PROVE k + 1 \in T
    <2>1. k + 1 \in 1..Len(c) /\ (k + 1) - 1 = k /\ k + 1 \in 0..Len(c)
      OBVIOUS
    <2>2. f[k + 1] = f[k] + a[k + 1] /\ g[k + 1] = g[k] + b[k + 1]
      BY <1>1, <1>2, <2>1
    <2> QED BY <1>3, <1>5, <2>1, <2>2
  <1>6. \A i \in 0..Len(c) : f[i] \in Int /\ g[i] \in Int
    BY <1>3, <1>4, <1>5, SetInduction
  <1>7. PICK h : h = [i \in 0..Len(c) |-> f[i] + g[i]]
    OBVIOUS
  <1>8. h[0] = 0 /\ h[Len(c)] = f[Len(c)] + g[Len(c)]
    BY <1>1, <1>2, <1>7
  <1>9. ASSUME NEW i \in 1..Len(c) PROVE h[i] = h[i - 1] + c[i]
    <2>1. i \in 0..Len(c) /\ i - 1 \in 0..Len(c)
      OBVIOUS
    <2>2. /\ h[i] = f[i] + g[i] /\ h[i - 1] = f[i - 1] + g[i - 1]
          /\ f[i] = f[i - 1] + a[i] /\ g[i] = g[i - 1] + b[i] /\ c[i] = a[i] + b[i]
      BY <1>1, <1>2, <1>7, <1>9, <2>1
    <2>3. /\ f[i - 1] \in Int /\ g[i - 1] \in Int /\ a[i] \in Int /\ b[i] \in Int
      BY <1>6, <1>9, <2>1
    <2> QED BY <2>2, <2>3
  <1>10. Total(c) = h[Len(c)]
    BY <1>8, <1>9, TotalReaches
  <1> QED
    BY <1>1, <1>2, <1>8, <1>10

-----------------------------------------------------------------------------
(* verify_chain on any log that push wrote, whatever its fields F are.     *)

\* A log as push leaves it: integer fields, links and hashes that fit.
IsChain(log, F) ==
    /\ IsSeq(log)
    /\ \A i \in DOMAIN log :
          /\ log[i].data \in [F -> Int]
          /\ log[i] = [data |-> log[i].data, prev |-> PrevStored(log, i),
                       hash |-> Sha256(PrevStored(log, i), log[i].data, F)]

\* An entry of such a log with one field, the link or the hash changed.
Damaged(e, F) == { FieldDamaged(e, f) : f \in F } \cup {PrevDamaged(e), HashDamaged(e)}

\* push keeps a log chained.
THEOREM PushKeepsChain ==
  ASSUME NEW F, NEW log, IsChain(log, F), NEW data \in [F -> Int]
  PROVE  IsChain(ChainPush(log, data, F), F)
  <1> DEFINE e == [data |-> data, prev |-> LastHash(log),
                   hash |-> Sha256(LastHash(log), data, F)]
  <1>1. PICK a, n : a = Append(log, e) /\ n = Len(log)
    OBVIOUS
  <1>2. /\ n \in Nat /\ DOMAIN log = 1..n /\ (log = << >> <=> n = 0)
        /\ IsSeq(a) /\ DOMAIN a = 1..(n + 1) /\ a[n + 1] = e
        /\ \A i \in 1..n : a[i] = log[i]
    <2>1. IsSeq(log)
      BY DEF IsChain
    <2>2. n \in Nat /\ DOMAIN log = 1..n
      BY <1>1, <2>1, SeqFacts
    <2>3. log = << >> <=> n = 0
      <3>1. log \in Seq({ log[i] : i \in DOMAIN log })
        BY <2>1 DEF IsSeq
      <3> QED BY <1>1, <3>1, EmptySeq
    <2>4. /\ IsSeq(Append(log, e))
          /\ DOMAIN Append(log, e) = 1..(Len(log) + 1)
          /\ \A i \in 1..Len(log) : Append(log, e)[i] = log[i]
          /\ Append(log, e)[Len(log) + 1] = e
      <3> HIDE DEF e
      <3> QED BY <2>1, AppendSeq
    <2>5. IsSeq(a) /\ DOMAIN a = 1..(n + 1) /\ a[n + 1] = e
          /\ \A i \in 1..n : a[i] = log[i]
      <3> HIDE DEF e
      <3> QED BY <1>1, <2>4
    <2> QED BY <2>2, <2>3, <2>5
  <1>3. \A i \in 1..n : PrevStored(a, i) = PrevStored(log, i)
    <2>1. \A i \in 1..n : i = 1 \/ i - 1 \in 1..n
      BY <1>2
    <2> QED BY <1>2, <2>1 DEF PrevStored
  <1>4. PrevStored(a, n + 1) = LastHash(log)
    <2>1. CASE n = 0
      BY <1>2, <2>1 DEF PrevStored, LastHash
    <2>2. CASE n > 0
      <3>1. n + 1 # 1 /\ (n + 1) - 1 = n /\ n \in 1..n
        BY <1>2, <2>2
      <3> QED BY <1>1, <1>2, <2>2, <3>1 DEF PrevStored, LastHash
    <2> QED BY <1>2, <2>1, <2>2
  <1>5. e.data = data
    OBVIOUS
  <1>6. a[n + 1].data \in [F -> Int]
        /\ a[n + 1] = [data |-> a[n + 1].data, prev |-> PrevStored(a, n + 1),
                       hash |-> Sha256(PrevStored(a, n + 1), a[n + 1].data, F)]
    BY <1>2, <1>4, <1>5
  <1> HIDE DEF e
  <1>7. \A i \in 1..n :
           /\ a[i].data \in [F -> Int]
           /\ a[i] = [data |-> a[i].data, prev |-> PrevStored(a, i),
                      hash |-> Sha256(PrevStored(a, i), a[i].data, F)]
    BY <1>2, <1>3 DEF IsChain
  <1>8. \A i \in 1..(n + 1) : i = n + 1 \/ i \in 1..n
    BY <1>2
  <1>9. IsChain(a, F)
    BY <1>2, <1>6, <1>7, <1>8 DEF IsChain
  <1> QED
    BY <1>1, <1>9 DEF ChainPush, e

\* verify_chain accepts what push wrote.
THEOREM ChainAccepted ==
  ASSUME NEW F, NEW log, IsChain(log, F)
  PROVE  verify_chain(log, F) = 0
  <1>1. \A i \in DOMAIN log : /\ log[i].prev = PrevStored(log, i)
                              /\ log[i].hash = Sha256(PrevStored(log, i), log[i].data, F)
    BY DEF IsChain
  <1>2. BadEntries(log, F) = {}
    BY <1>1 DEF BadEntries
  <1> QED
    BY <1>2 DEF verify_chain

\* A damaged entry does not fit its chain: no damage reproduces a hash.
LEMMA DamageShows ==
  ASSUME NEW F, NEW e, NEW p, e.data \in [F -> Int],
         e = [data |-> e.data, prev |-> p, hash |-> Sha256(p, e.data, F)],
         p = Genesis \/ \E q, t : p = <<q, t>>,
         NEW d \in Damaged(e, F)
  PROVE  d.prev # p \/ d.hash # Sha256(p, d.data, F)
  <1>1. CASE d = PrevDamaged(e)
    <2>1. d.prev = Flipped
      BY <1>1 DEF PrevDamaged
    <2>2. Flipped # Genesis /\ \A q, t : Flipped # <<q, t>>
      BY DEF Flipped, Genesis
    <2> QED BY <2>1, <2>2
  <1>2. CASE d = HashDamaged(e)
    <2>1. d.hash = Flipped
      BY <1>2 DEF HashDamaged
    <2>2. \A q, t : Flipped # <<q, t>>
      BY DEF Flipped
    <2> QED BY <2>1, <2>2 DEF Sha256
  <1>3. CASE \E f \in F : d = FieldDamaged(e, f)
    <2>1. PICK f \in F : d = FieldDamaged(e, f)
      BY <1>3
    <2>2. PICK g, h : g = e.data /\ h = d.data
      OBVIOUS
    <2>3. h = [g EXCEPT ![f] = g[f] + 1] /\ d.hash = e.hash
      BY <2>1, <2>2 DEF FieldDamaged
    <2>4. g \in [F -> Int] /\ g[f] \in Int /\ h[f] = g[f] + 1
      BY <2>1, <2>2, <2>3
    <2>5. g[f] # h[f]
      BY <2>4
    <2>6. [x \in F |-> g[x]][f] # [x \in F |-> h[x]][f]
      BY <2>1, <2>5
    <2>7. PICK G, H : G = [x \in F |-> g[x]] /\ H = [x \in F |-> h[x]]
      OBVIOUS
    <2>8. G # H
      BY <2>6, <2>7
    <2>9. e.hash = <<p, G>> /\ Sha256(p, d.data, F) = <<p, H>>
      BY <2>2, <2>7 DEF Sha256
    <2> QED BY <2>3, <2>8, <2>9
  <1> QED
    BY <1>1, <1>2, <1>3 DEF Damaged

\* verify_chain names the first damaged entry, whatever was done to the ones
\* after it.
THEOREM DamageNamed ==
  ASSUME NEW F, NEW log, IsChain(log, F), NEW i \in DOMAIN log,
         NEW l, DOMAIN l = DOMAIN log, l[i] \in Damaged(log[i], F),
         \A k \in 1..(i - 1) : l[k] = log[k]
  PROVE  verify_chain(l, F) = i
  <1>1. PICK n \in Nat : DOMAIN log = 1..n
    BY SeqFacts DEF IsChain
  <1>2. i \in 1..n /\ \A k \in 1..(i - 1) : k \in 1..n /\ k < i
    BY <1>1
  <1>3. \A k \in 1..i : PrevStored(l, k) = PrevStored(log, k)
    <2>1. \A k \in 1..i : k = 1 \/ k - 1 \in 1..(i - 1)
      BY <1>2
    <2> QED BY <2>1 DEF PrevStored
  <1>4. PICK p : p = PrevStored(log, i)
    OBVIOUS
  <1>5. p = Genesis \/ \E q, t : p = <<q, t>>
    <2>1. CASE i = 1
      BY <1>4, <2>1 DEF PrevStored
    <2>2. CASE i # 1
      <3>1. i - 1 \in 1..n
        BY <1>2, <2>2
      <3>2. log[i - 1].hash = Sha256(PrevStored(log, i - 1), log[i - 1].data, F)
        BY <1>1, <3>1 DEF IsChain
      <3> QED BY <1>4, <2>2, <3>2 DEF PrevStored, Sha256
    <2> QED BY <2>1, <2>2
  <1>6. l[i].prev # p \/ l[i].hash # Sha256(p, l[i].data, F)
    <2>1. log[i].data \in [F -> Int]
          /\ log[i] = [data |-> log[i].data, prev |-> p, hash |-> Sha256(p, log[i].data, F)]
      BY <1>4 DEF IsChain
    <2> QED BY <1>5, <2>1, DamageShows
  <1>7. PICK bad : bad = BadEntries(l, F)
    OBVIOUS
  <1>8. i \in bad /\ bad \subseteq 1..n
    BY <1>1, <1>2, <1>3, <1>4, <1>6, <1>7 DEF BadEntries
  <1>9. ASSUME NEW k \in bad PROVE i <= k
    <2>1. SUFFICES ASSUME k < i PROVE FALSE
      BY <1>2, <1>8
    <2>2. k \in 1..(i - 1) /\ k \in 1..i
      BY <1>2, <1>8, <2>1
    <2>3. log[k].prev = PrevStored(log, k)
          /\ log[k].hash = Sha256(PrevStored(log, k), log[k].data, F)
      BY <1>1, <1>2, <2>2 DEF IsChain
    <2>4. l[k] = log[k] /\ PrevStored(l, k) = PrevStored(log, k)
      BY <1>3, <2>2
    <2>5. l[k].prev # PrevStored(l, k) \/ l[k].hash # Sha256(PrevStored(l, k), l[k].data, F)
      BY <1>7 DEF BadEntries
    <2> QED BY <2>3, <2>4, <2>5
  <1>10. Min(bad) = i
    <2>1. PICK m : m = Min(bad)
      OBVIOUS
    <2>2. m \in bad /\ \A y \in bad : m <= y
      BY <1>8, <1>9, <2>1 DEF Min
    <2> QED BY <1>2, <1>8, <1>9, <2>1, <2>2
  <1> QED
    BY <1>7, <1>8, <1>10, <1>2 DEF verify_chain

-----------------------------------------------------------------------------
(* Division: shares against thresholds. *)

\* The bounds of a truncated quotient.
LEMMA DivBracket ==
  ASSUME NEW m \in Nat \ {0}, NEW d \in Nat
  PROVE  /\ d \div m \in Nat /\ d \div m <= d
         /\ (d \div m) * m <= d /\ d < ((d \div m) + 1) * m
  <1>1. d = m * (d \div m) + (d % m) /\ d % m \in 0..(m - 1) /\ d \div m \in Nat
    OBVIOUS
  <1>2. PICK q \in Nat, r \in 0..(m - 1) : q = d \div m /\ d = m * q + r
    BY <1>1
  <1>3. q * m = m * q /\ (q + 1) * m = m * q + m /\ q <= m * q
    OBVIOUS
  <1> QED
    BY <1>2, <1>3

\* A quotient reaches k exactly when its dividend reaches k times its divisor,
\* and grows with the dividend.
LEMMA QuotientReaches ==
  ASSUME NEW x \in Nat, NEW m \in Nat \ {0}
  PROVE  /\ x \div m \in Nat /\ x \div m <= x
         /\ \A k \in Nat : (x \div m >= k) <=> (x >= k * m)
         /\ \A y \in 0..x : y \div m \in Nat /\ y \div m <= x \div m
  <1>1. ASSUME NEW z \in Nat
        PROVE  \E q \in Nat : q = z \div m /\ q * m <= z /\ z < (q + 1) * m
    BY DivBracket
  <1>2. ASSUME NEW z \in Nat, NEW k \in Nat
        PROVE  (z \div m >= k) <=> (z >= k * m)
    <2>1. PICK q \in Nat : q = z \div m /\ q * m <= z /\ z < (q + 1) * m
      BY <1>1
    <2>2. ASSUME q >= k PROVE z >= k * m
      <3>1. q * m >= k * m
        BY <2>2
      <3> QED BY <2>1, <3>1
    <2>3. ASSUME q < k PROVE z < k * m
      <3>1. (q + 1) * m <= k * m
        BY <2>3
      <3> QED BY <2>1, <3>1
    <2> QED BY <2>1, <2>2, <2>3
  <1>3. ASSUME NEW y \in 0..x PROVE y \div m \in Nat /\ y \div m <= x \div m
    <2>1. PICK q \in Nat : q = y \div m /\ q * m <= y /\ y < (q + 1) * m
      BY <1>1
    <2>2. x >= q * m
      BY <2>1
    <2> QED BY <1>2, <2>1, <2>2
  <1>4. x \div m \in Nat /\ x \div m <= x
    <2>1. PICK q \in Nat : q = x \div m /\ q * m <= x /\ x < (q + 1) * m
      BY <1>1
    <2>2. q <= q * m
      BY <2>1
    <2> QED BY <2>1, <2>2
  <1> QED
    BY <1>2, <1>3, <1>4

\* The sums of one, two and four numbers.
LEMMA SmallTotals ==
  /\ \A a \in Int : Total(<<a>>) = a
  /\ \A a, b \in Int : Total(<<a, b>>) = a + b
  /\ \A a, b, c, d \in Int : Total(<<a, b, c, d>>) = a + b + c + d
  <1>1. ASSUME NEW a \in Int PROVE Total(<<a>>) = a
    <2>1. PICK s, h : s = <<a>> /\ h = [i \in 0..1 |-> IF i = 0 THEN 0 ELSE a]
      OBVIOUS
    <2>2. /\ Len(s) = 1 /\ h[0] = 0 /\ h[1] = a
          /\ \A i \in 1..1 : h[i] = h[i - 1] + s[i]
      BY <2>1
    <2>3. Len(s) \in Nat /\ \A i \in 1..Len(s) : h[i] = h[i - 1] + s[i]
      BY <2>2
    <2>4. Total(s) = h[Len(s)]
      BY <2>2, <2>3, TotalReaches, Zenon
    <2> QED BY <2>1, <2>2, <2>4
  <1>2. ASSUME NEW a \in Int, NEW b \in Int PROVE Total(<<a, b>>) = a + b
    <2>1. PICK s, h : /\ s = <<a, b>>
                      /\ h = [i \in 0..2 |-> CASE i = 0 -> 0 [] i = 1 -> a [] i = 2 -> a + b]
      OBVIOUS
    <2>2. Len(s) = 2 /\ s[1] = a /\ s[2] = b /\ h[0] = 0 /\ h[1] = a /\ h[2] = a + b
      BY <2>1
    <2>3. Len(s) \in Nat /\ \A i \in 1..Len(s) : h[i] = h[i - 1] + s[i]
      <3>1. \A i \in 1..Len(s) : i = 1 \/ i = 2
        BY <2>2
      <3> QED BY <2>2, <3>1
    <2>4. Total(s) = h[Len(s)]
      BY <2>2, <2>3, TotalReaches, Zenon
    <2> QED BY <2>1, <2>2, <2>4
  <1>3. ASSUME NEW a \in Int, NEW b \in Int, NEW c \in Int, NEW d \in Int
        PROVE  Total(<<a, b, c, d>>) = a + b + c + d
    <2>1. PICK s, h : /\ s = <<a, b, c, d>>
                      /\ h = [i \in 0..4 |-> CASE i = 0 -> 0 [] i = 1 -> a [] i = 2 -> a + b
                                               [] i = 3 -> a + b + c [] i = 4 -> a + b + c + d]
      OBVIOUS
    <2>2. /\ Len(s) = 4 /\ s[1] = a /\ s[2] = b /\ s[3] = c /\ s[4] = d
          /\ h[0] = 0 /\ h[1] = a /\ h[2] = a + b /\ h[3] = a + b + c /\ h[4] = a + b + c + d
      BY <2>1
    <2>3. Len(s) \in Nat /\ \A i \in 1..Len(s) : h[i] = h[i - 1] + s[i]
      <3>1. \A i \in 1..Len(s) : i = 1 \/ i = 2 \/ i = 3 \/ i = 4
        BY <2>2
      <3> QED BY <2>2, <3>1
    <2>4. Total(s) = h[Len(s)]
      BY <2>2, <2>3, TotalReaches, Zenon
    <2> QED BY <2>1, <2>2, <2>4
  <1> QED
    BY <1>1, <1>2, <1>3
=============================================================================
