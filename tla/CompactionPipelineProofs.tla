---------------------- MODULE CompactionPipelineProofs ----------------------
(***************************************************************************)
(* Proofs about CompactionPipeline for any inputs, thresholds and number   *)
(* of epochs, on both of its sides.  The properties compare an epoch with  *)
(* the ones before it; the stages see only what they carry, so the         *)
(* invariant says that each window, the ring of four slots and the streak  *)
(* hold what the rows of the last epochs give.                             *)
(***************************************************************************)
EXTENDS CompactionPipeline, ArithmeticProofs

\* Epoch n - k of a log, or its first.
Since(n, k) == IF n - k > 1 THEN n - k ELSE 1

\* The joint condition of epoch n in the rows q, and whether it got worse.
J(q, n)      == q[n].report.joint
Up(q, n)     == J(q, n) > J(q, Since(n, 3))
Run(q, n, k) == n >= k /\ \A m \in (n - k + 1)..n : Up(q, m)

\* The scores and the comparisons the rows stand for.
Scores(q)  == [m \in 1..Len(q) |-> J(q, m)]
Changes(q) == [m \in 1..(Len(q) - 1) |-> epoch_compare(q[m].report, q[m + 1].report)]

\* A ring of four slots holds the newest scores of the rows.
RingHolds(ring, q) ==
    /\ ring.slots \in [1..4 -> Int]
    /\ ring.head = Len(q) /\ ring.len = Kept(q)
    /\ \A m \in 1..Len(q) : m > Len(q) - 4 => ring.slots[((m - 1) % 4) + 1] = J(q, m)

\* What the stages carry is what the rows of the last epochs give.
Carried ==
    /\ side = "compaction" => carry.momentum = Newest(Scores(rows))
    /\ side = "gossip" => RingHolds(carry.momentum, rows)
    /\ carry.deltas = Newest(Changes(rows))
    /\ carry.streak \in 0..U32Max
    /\ \A k \in 1..3 : carry.streak >= k <=> Run(rows, Len(rows), k)

\* What row n says of its epoch and of those before it.
Judged(q, n) ==
    /\ q[n].report.momentum = J(q, n) - J(q, Since(n, 3))
    /\ q[n].report.dir = 2 <=> Up(q, n)
    /\ q[n].level = 2 <=> (J(q, n) = 3 \/ Run(q, n, 3))
    /\ q[n].level >= 1 <=> (J(q, n) >= 2 \/ Run(q, n, 2))

Shown(q, n) ==
    LET mask == violation_mask(q[n].sla)
    IN  /\ ~q[n].report.chains_valid =>
              mask >= 4 /\ q[n].advice.priority = 0 /\ q[n].condition >= 2
        /\ J(q, n) = 3 => mask % 4 = 3 /\ q[n].condition = 3
        /\ q[n].condition = 0 =>
              \A m \in Since(n, 3)..n : m > 1 => J(q, m) <= J(q, m - 1)

RowTells(q, n) == J(q, n) \in 0..3 /\ Judged(q, n) /\ Shown(q, n)

\* The row r that an epoch adds to the rows q, s being the streak after it.
NewRow(q, r, s) ==
    LET a == Append(q, r)
    IN  /\ r.report.joint \in 0..3 /\ r.report.chains_valid \in BOOLEAN
        /\ r.report.momentum = r.report.joint - J(a, Since(Len(q) + 1, 3))
        /\ r.report.dir = from_delta(r.report.momentum)
        /\ s = IF r.report.dir = 2 THEN SaturatingAdd(carry.streak, 1) ELSE 0
        /\ r.level = AlertLevel(r.report.joint, r.report.dir, s)
        /\ r.sla = sla_append(r.level, r.report)
        /\ ~r.report.chains_valid => r.advice.priority = 0
        /\ r.condition = dashboard_condition(r.level, r.trend.class, sla_compliant(r.sla))
        /\ r.trend.class = 1 =>
              \A i \in DOMAIN Newest(Changes(a)) : ~Newest(Changes(a))[i].worsened

\* An epoch appends such a row and carries on what the longer log gives.
Adds(r) ==
    /\ rows' = Append(rows, r) /\ side' = side
    /\ NewRow(rows, r, carry'.streak)
    /\ carry'.deltas = Newest(Changes(Append(rows, r)))

\* The inductive invariant.
IInv ==
    /\ side \in {"compaction", "gossip"}
    /\ IsSeq(rows)
    /\ Carried
    /\ \A n \in DOMAIN rows : RowTells(rows, n)
-----------------------------------------------------------------------------
(* Rows. *)

\* The model's EpochsBack is Since.
LEMMA EpochsBackIs ==
  ASSUME NEW n \in Int, NEW k \in Int
  PROVE  EpochsBack(n, k) = Since(n, k)
  <1>1. Since(n, k) \in {1, n - k} /\ \A y \in {1, n - k} : Since(n, k) >= y
    BY DEF Since
  <1>2. PICK m : m = Max({1, n - k})
    OBVIOUS
  <1>3. m \in {1, n - k} /\ \A y \in {1, n - k} : m >= y
    BY <1>1, <1>2 DEF Max
  <1>4. m = Since(n, k)
    BY <1>1, <1>3
  <1> QED
    BY <1>2, <1>4 DEF EpochsBack

\* Epochs back are epochs of the log.
LEMMA SinceIn ==
  ASSUME NEW n \in Nat \ {0}, NEW k \in Nat
  PROVE  Since(n, k) \in 1..n
  BY DEF Since

\* What a row says does not change when another is appended.
LEMMA RowsFrame ==
  ASSUME NEW q, IsSeq(q), NEW r, NEW n \in 1..Len(q)
  PROVE  /\ J(Append(q, r), n) = J(q, n)
         /\ Up(Append(q, r), n) <=> Up(q, n)
         /\ \A k \in 1..3 : Run(Append(q, r), n, k) <=> Run(q, n, k)
         /\ RowTells(Append(q, r), n) <=> RowTells(q, n)
  <1>1. PICK a : a = Append(q, r)
    OBVIOUS
  <1>2. Len(q) \in Nat /\ \A i \in 1..Len(q) : a[i] = q[i]
    BY <1>1, AppendSeq
  <1>3. \A m \in 1..n : a[m] = q[m] /\ J(a, m) = J(q, m) /\ Since(m, 3) \in 1..m
    <2>1. \A m \in 1..n : m \in 1..Len(q) /\ m \in Nat \ {0}
      BY <1>2
    <2>2. \A m \in 1..n : Since(m, 3) \in 1..m
      BY <2>1, SinceIn
    <2> QED BY <1>2, <2>1, <2>2 DEF J
  <1>4. \A m \in 1..n : Up(a, m) <=> Up(q, m)
    BY <1>3 DEF Up
  <1>5. \A k \in 1..3 : Run(a, n, k) <=> Run(q, n, k)
    <2>1. SUFFICES ASSUME NEW k \in 1..3 PROVE Run(a, n, k) <=> Run(q, n, k)
      OBVIOUS
    <2>2. n >= k => \A m \in (n - k + 1)..n : m \in 1..n
      OBVIOUS
    <2> QED BY <1>4, <2>2 DEF Run
  <1>6. Judged(a, n) <=> Judged(q, n)
    <2>1. a[n] = q[n] /\ J(a, n) = J(q, n) /\ J(a, Since(n, 3)) = J(q, Since(n, 3))
      BY <1>3
    <2>2. Up(a, n) <=> Up(q, n)
      BY <1>4
    <2> QED BY <1>5, <2>1, <2>2 DEF Judged
  <1>7. Shown(a, n) <=> Shown(q, n)
    <2>1. a[n] = q[n] /\ J(a, n) = J(q, n)
      BY <1>3
    <2>2. \A m \in Since(n, 3)..n : m > 1 => J(a, m) = J(q, m) /\ J(a, m - 1) = J(q, m - 1)
      <3>1. \A m \in Since(n, 3)..n : m > 1 => m \in 1..n /\ m - 1 \in 1..n
        BY <1>3
      <3> QED BY <1>3, <3>1
    <2> QED BY <2>1, <2>2 DEF Shown
  <1> QED
    BY <1>1, <1>3, <1>4, <1>5, <1>6, <1>7 DEF RowTells
\* The scores of a log with one more row.
LEMMA ScoresAppend ==
  ASSUME NEW q, IsSeq(q), NEW r
  PROVE  IsSeq(Scores(q)) /\ Scores(Append(q, r)) = Append(Scores(q), r.report.joint)
  <1>1. PICK a, h, b, z, n : /\ a = Append(q, r) /\ h = Scores(q) /\ n = Len(q)
                             /\ b = Append(h, r.report.joint) /\ z = Scores(a)
    OBVIOUS
  <1>2. /\ n \in Nat /\ Len(a) = n + 1 /\ a[n + 1] = r
        /\ \A i \in 1..n : a[i] = q[i]
    BY <1>1, AppendSeq
  <1>3. h = [m \in 1..n |-> q[m].report.joint]
    BY <1>1 DEF Scores, J
  <1>4. h = [m \in 1..n |-> h[m]] /\ \A m \in 1..n : h[m] = q[m].report.joint
    BY <1>3
  <1>5. IsSeq(h) /\ Len(h) = n
    BY <1>2, <1>4, FunctionIsSeq
  <1>6. /\ IsSeq(b) /\ Len(b) = n + 1 /\ b[n + 1] = r.report.joint
        /\ \A m \in 1..n : b[m] = h[m]
    <2>1. /\ IsSeq(Append(h, r.report.joint)) /\ Len(Append(h, r.report.joint)) = Len(h) + 1
          /\ Append(h, r.report.joint)[Len(h) + 1] = r.report.joint
          /\ \A m \in 1..Len(h) : Append(h, r.report.joint)[m] = h[m]
      BY <1>5, AppendSeq
    <2> QED BY <1>1, <1>5, <2>1, Zenon
  <1>7. z = [m \in 1..(n + 1) |-> a[m].report.joint]
    BY <1>1, <1>2 DEF Scores, J
  <1>8. n + 1 \in Nat /\ z = [m \in 1..(n + 1) |-> z[m]]
        /\ \A m \in 1..(n + 1) : z[m] = a[m].report.joint
    BY <1>2, <1>7
  <1>9. IsSeq(z) /\ Len(z) = n + 1
    BY <1>8, FunctionIsSeq
  <1>10. \A m \in 1..(n + 1) : z[m] = b[m]
    BY <1>2, <1>4, <1>6, <1>8
  <1>11. z = b
    BY <1>6, <1>9, <1>10, SeqsEqual
  <1> QED
    BY <1>1, <1>5, <1>11

\* The comparisons of a log with one more row: none for the first.
LEMMA ChangesAppend ==
  ASSUME NEW q, IsSeq(q), NEW r
  PROVE  /\ IsSeq(Changes(q))
         /\ Len(q) = 0 => Changes(q) = << >> /\ Changes(Append(q, r)) = << >>
         /\ Len(q) > 0 =>
              Changes(Append(q, r)) =
                  Append(Changes(q), epoch_compare(q[Len(q)].report, r.report))
  <1>1. PICK a, h, z, n : /\ a = Append(q, r) /\ h = Changes(q) /\ n = Len(q)
                          /\ z = Changes(a)
    OBVIOUS
  <1>2. /\ n \in Nat /\ Len(a) = n + 1 /\ a[n + 1] = r
        /\ \A i \in 1..n : a[i] = q[i]
    BY <1>1, AppendSeq
  <1>3. h = [m \in 1..(n - 1) |-> epoch_compare(q[m].report, q[m + 1].report)]
    BY <1>1 DEF Changes
  <1>4. z = [m \in 1..n |-> epoch_compare(a[m].report, a[m + 1].report)]
    <2>1. (n + 1) - 1 = n
      BY <1>2
    <2> QED BY <1>1, <1>2, <2>1 DEF Changes
  <1>5. CASE n = 0
    <2>1. h = << >> /\ z = << >>
      BY <1>3, <1>4, <1>5
    <2>2. IsSeq(h)
      BY <2>1 DEF IsSeq
    <2> QED BY <1>1, <1>5, <2>1, <2>2
  <1>6. CASE n > 0
    <2>1. PICK e : e = epoch_compare(q[n].report, r.report)
      OBVIOUS
    <2>2. PICK b : b = Append(h, e)
      OBVIOUS
    <2>3. /\ n - 1 \in Nat /\ h = [m \in 1..(n - 1) |-> h[m]]
          /\ \A m \in 1..(n - 1) : h[m] = epoch_compare(q[m].report, q[m + 1].report)
      BY <1>2, <1>3, <1>6
    <2>4. IsSeq(h) /\ Len(h) = n - 1
      BY <2>3, FunctionIsSeq
    <2>5. /\ IsSeq(b) /\ Len(b) = n /\ b[n] = e
          /\ \A m \in 1..(n - 1) : b[m] = h[m]
      <3>1. /\ IsSeq(Append(h, e)) /\ Len(Append(h, e)) = Len(h) + 1
            /\ Append(h, e)[Len(h) + 1] = e
            /\ \A m \in 1..Len(h) : Append(h, e)[m] = h[m]
        BY <2>4, AppendSeq
      <3>2. (n - 1) + 1 = n
        BY <1>2
      <3> QED BY <2>2, <2>4, <3>1, <3>2, Zenon
    <2>6. /\ z = [m \in 1..n |-> z[m]]
          /\ \A m \in 1..n : z[m] = epoch_compare(a[m].report, a[m + 1].report)
      BY <1>4
    <2>7. IsSeq(z) /\ Len(z) = n
      BY <1>2, <2>6, FunctionIsSeq
    <2>8. ASSUME NEW m \in 1..n PROVE z[m] = b[m]
      <3>1. CASE m = n
        BY <1>2, <2>1, <2>5, <2>6, <3>1
      <3>2. CASE m \in 1..(n - 1)
        <4>1. m \in 1..n /\ m + 1 \in 1..n
          BY <1>2, <3>2
        <4> QED BY <1>2, <2>3, <2>5, <2>6, <3>2, <4>1, SMTT(30)
      <3> QED BY <1>2, <3>1, <3>2
    <2>9. z = b
      BY <2>5, <2>7, <2>8, SeqsEqual
    <2> QED BY <1>1, <1>6, <2>1, <2>2, <2>4, <2>9
  <1> QED
    BY <1>2, <1>5, <1>6

\* The first and the last score of the window over a log.
LEMMA WindowEnds ==
  ASSUME NEW q, IsSeq(q), Len(q) > 0
  PROVE  LET w == Newest(Scores(q))
         IN  w[1] = J(q, Since(Len(q), 3)) /\ w[Len(w)] = J(q, Len(q))
  <1>1. PICK n, h, w : n = Len(q) /\ h = Scores(q) /\ w = Newest(h)
    OBVIOUS
  <1>2. n \in Nat /\ n > 0
    BY <1>1, SeqFacts
  <1>3. h = [m \in 1..n |-> h[m]] /\ \A m \in 1..n : h[m] = J(q, m)
    BY <1>1 DEF Scores
  <1>4. IsSeq(h) /\ Len(h) = n
    BY <1>2, <1>3, FunctionIsSeq
  <1>5. PICK k : /\ k = (IF n > 4 THEN 4 ELSE n) /\ Len(w) = k
                 /\ \A i \in 1..k : w[i] = h[n - k + i]
    <2>1. /\ Kept(h) = IF Len(h) > 4 THEN 4 ELSE Len(h)
          /\ Len(Newest(h)) = Kept(h)
          /\ \A i \in 1..Kept(h) : Newest(h)[i] = h[Len(h) - Kept(h) + i]
      BY <1>4, NewestSeq
    <2> QED BY <1>1, <1>4, <2>1, ZenonT(30)
  <1>6. k \in 1..n /\ n - k + 1 = Since(n, 3) /\ n - k + k = n
    BY <1>2, <1>5 DEF Since
  <1>7. w[1] = h[Since(n, 3)] /\ w[k] = h[n]
    BY <1>2, <1>5, <1>6
  <1>8. Since(n, 3) \in 1..n
    BY <1>2 DEF Since
  <1> QED
    BY <1>1, <1>2, <1>3, <1>5, <1>7, <1>8

\* The four slots of the ring after another score: the slots at its head and
\* behind it hold the newest and the oldest of the last four.
LEMMA RingStep ==
  ASSUME NEW q, IsSeq(q), NEW r, r.report.joint \in Int, NEW ring, RingHolds(ring, q),
         NEW out, out = gossip_momentum_append(ring, r.report.joint)
  PROVE  /\ RingHolds(out.carried, Append(q, r))
         /\ out.record = Momentum(J(Append(q, r), Since(Len(q) + 1, 3)), r.report.joint)
  <1>1. PICK a, n, x : a = Append(q, r) /\ n = Len(q) /\ x = r.report.joint
    OBVIOUS
  <1>2. /\ n \in Nat /\ Len(a) = n + 1 /\ a[n + 1] = r
        /\ \A i \in 1..n : a[i] = q[i]
    BY <1>1, AppendSeq
  <1>3. /\ ring.slots \in [1..4 -> Int] /\ ring.head = n
        /\ ring.len = (IF n > 4 THEN 4 ELSE n)
        /\ \A m \in 1..n : m > n - 4 => ring.slots[((m - 1) % 4) + 1] = J(a, m)
    BY <1>1, <1>2 DEF RingHolds, Kept, AtMost, J
  <1>4. PICK next : next = [slots |-> [ring.slots EXCEPT ![(ring.head % 4) + 1] = x],
                            len |-> AtMost(ring.len + 1, 4),
                            head |-> ring.head + 1]
    OBVIOUS
  <1>5. /\ next.slots = [ring.slots EXCEPT ![(n % 4) + 1] = x]
        /\ next.len = IF n + 1 > 4 THEN 4 ELSE n + 1
        /\ next.head = n + 1
    BY <1>2, <1>3, <1>4 DEF AtMost
  <1>6. (n % 4) + 1 \in 1..4 /\ x \in Int
    BY <1>1, <1>2
  <1>7. next.slots \in [1..4 -> Int] /\ next.slots[(n % 4) + 1] = x
        /\ \A i \in 1..4 : i # (n % 4) + 1 => next.slots[i] = ring.slots[i]
    BY <1>3, <1>5, <1>6
  <1>8. J(a, n + 1) = x
    BY <1>1, <1>2 DEF J
  <1>9. ASSUME NEW m \in 1..(n + 1), m > n + 1 - 4
        PROVE  next.slots[((m - 1) % 4) + 1] = J(a, m)
    <2>1. CASE m = n + 1
      <3>1. m - 1 = n
        BY <1>2, <2>1
      <3> QED BY <1>7, <1>8, <2>1, <3>1
    <2>2. CASE m \in 1..n
      <3>1. m - 1 \in Nat /\ m - 1 < n /\ n - (m - 1) < 4
        BY <1>2, <1>9, <2>2
      <3>2. ((m - 1) % 4) + 1 \in 1..4 /\ (m - 1) % 4 # n % 4
        BY <1>2, <3>1
      <3>3. next.slots[((m - 1) % 4) + 1] = ring.slots[((m - 1) % 4) + 1]
        <4>1. PICK i : i = ((m - 1) % 4) + 1
          OBVIOUS
        <4>2. i \in 1..4 /\ i # (n % 4) + 1
          BY <1>2, <3>1, <3>2, <4>1
        <4> QED BY <1>7, <4>1, <4>2
      <3>4. m > n - 4
        BY <1>2, <1>9
      <3> QED BY <1>3, <2>2, <3>3, <3>4
    <2> QED BY <1>2, <2>1, <2>2
  <1>10. RingHolds(next, a)
    BY <1>2, <1>5, <1>7, <1>9 DEF RingHolds, Kept, AtMost
  <1>11. /\ out.carried = next
         /\ out.record = IF next.len = 1 THEN Momentum(x, x)
                ELSE Momentum(next.slots[IF next.len < 4 THEN 1 ELSE (next.head % 4) + 1],
                              next.slots[((next.head - 1) % 4) + 1])
    BY <1>1, <1>4 DEF gossip_momentum_append
  <1>12. next.slots[((next.head - 1) % 4) + 1] = x
    <2>1. next.head - 1 = n
      BY <1>2, <1>5
    <2> QED BY <1>7, <2>1
  <1>13. CASE n = 0
    <2>1. next.len = 1 /\ Since(n + 1, 3) = n + 1
      BY <1>5, <1>13 DEF Since
    <2> QED BY <1>1, <1>8, <1>10, <1>11, <2>1
  <1>14. CASE n \in 1..2
    <2>1. next.len # 1 /\ next.len < 4 /\ Since(n + 1, 3) = 1
      BY <1>5, <1>14 DEF Since
    <2>2. next.slots[1] = J(a, 1)
      <3>1. 1 \in 1..(n + 1) /\ 1 > n + 1 - 4 /\ ((1 - 1) % 4) + 1 = 1
        BY <1>14
      <3> QED BY <1>9, <3>1
    <2> QED BY <1>1, <1>10, <1>11, <1>12, <2>1, <2>2
  <1>15. CASE n >= 3
    <2>1. next.len = 4 /\ Since(n + 1, 3) = n - 2
      BY <1>2, <1>5, <1>15 DEF Since
    <2>2. next.slots[((n + 1) % 4) + 1] = J(a, n - 2)
      <3>1. n - 2 \in 1..(n + 1) /\ n - 2 > n + 1 - 4 /\ (n - 2) - 1 = n - 3
        BY <1>2, <1>15
      <3>2. (n - 3) % 4 = (n + 1) % 4
        BY <1>2, <1>15
      <3> QED BY <1>9, <3>1, <3>2
    <2> QED BY <1>1, <1>5, <1>10, <1>11, <1>12, <2>1, <2>2
  <1> QED
    BY <1>2, <1>13, <1>14, <1>15
-----------------------------------------------------------------------------
(* Epochs. *)

\* What trend_append carries on, and when it calls a trend improving.
LEMMA TrendImproves ==
  ASSUME NEW q, IsSeq(q), NEW v, NEW out, out = trend_append(Newest(q), v)
  PROVE  /\ out.carried = Newest(Append(q, v))
         /\ out.record.class = 1 =>
              \A i \in DOMAIN out.carried : ~out.carried[i].worsened
  <1>1. PICK w : w = Slide(Newest(q), v, 4)
    OBVIOUS
  <1>2. w = Newest(Append(q, v))
    BY <1>1, SlideNewest
  <1>3. PICK up, size : out.record.class =
            TrendClass(up, Cardinality({ i \in DOMAIN w : w[i].worsened }), size)
    BY <1>1 DEF trend_append
  <1>4. out.carried = w
    BY <1>1 DEF trend_append
  <1>5. PICK W : W = { i \in DOMAIN w : w[i].worsened }
    OBVIOUS
  <1>6. IsFiniteSet(W)
    <2>1. IsSeq(Append(q, v))
      BY AppendSeq
    <2>2. PICK k \in 0..4 : DOMAIN w = 1..k
      BY <1>2, <2>1, NewestSeq
    <2>3. IsFiniteSet(1..k) /\ W \in SUBSET (1..k)
      BY <1>5, <2>2, FS_Interval
    <2> QED BY <2>3, FS_Subset
  <1>7. out.record.class = 1 => Cardinality(W) = 0
    <2>1. PICK down : down = Cardinality(W)
      OBVIOUS
    <2>2. out.record.class = TrendClass(up, down, size)
      BY <1>3, <1>5, <2>1
    <2>3. TrendClass(up, down, size) = 1 => down = 0
      BY DEF TrendClass
    <2> QED BY <2>1, <2>2, <2>3
  <1>8. out.record.class = 1 => W = {}
    BY <1>6, <1>7, FS_EmptySet
  <1> QED
    BY <1>2, <1>4, <1>5, <1>8

\* A report that says of its epoch what the rows so far give.
Fits(report) ==
    /\ report.joint \in 0..3 /\ report.chains_valid \in BOOLEAN
    /\ report.momentum = report.joint - J(Append(rows, [report |-> report]),
                                          Since(Len(rows) + 1, 3))
    /\ report.dir = from_delta(report.momentum)

\* The stages after the report, as either side calls them.
GoesOn(report, momentum, advice) ==
    LET alert == alert_append(carry.streak, report)
        sla == sla_append(alert.level, report)
        trend == IF FirstEpoch THEN [carried |-> << >>, record |-> NoTrend]
                 ELSE trend_append(carry.deltas, epoch_compare(LastReport, report))
    IN  \E capacity, unified, seals :
           Advance(report, momentum, alert, sla, capacity, advice, trend,
                   dashboard_condition(alert.level, trend.record.class, sla_compliant(sla)),
                   unified, seals)

\* What they make of such a report: the row they add and what they carry on.
LEMMA ReportAdds ==
  ASSUME IInv, NEW report, Fits(report), NEW momentum,
         NEW advice, ~report.chains_valid => advice.priority = 0,
         GoesOn(report, momentum, advice)
  PROVE  \E r : Adds(r) /\ r.report = report /\ carry'.momentum = momentum
  <1> DEFINE alert == alert_append(carry.streak, report)
             sla == sla_append(alert.level, report)
             trend == IF FirstEpoch THEN [carried |-> << >>, record |-> NoTrend]
                      ELSE trend_append(carry.deltas, epoch_compare(LastReport, report))
             condition == dashboard_condition(alert.level, trend.record.class,
                                              sla_compliant(sla))
  <1>0. PICK capacity, unified, seals :
           Advance(report, momentum, alert, sla, capacity, advice, trend, condition,
                   unified, seals)
    BY DEF GoesOn
  <1> HIDE DEF alert, trend, sla, condition
  <1>1. PICK r : r = [report |-> report, level |-> alert.level, sla |-> sla,
                      capacity |-> capacity.record, advice |-> advice,
                      trend |-> trend.record, condition |-> condition]
    OBVIOUS
  <1>2. /\ rows' = Append(rows, r) /\ side' = side
        /\ carry'.momentum = momentum /\ carry'.streak = alert.carried
        /\ carry'.deltas = trend.carried
    BY <1>0, <1>1 DEF Advance
  <1>3. /\ r.report = report /\ r.level = alert.level /\ r.sla = sla /\ r.advice = advice
        /\ r.trend = trend.record /\ r.condition = condition
    BY <1>1
  <1>4. PICK a, n, c : a = Append(rows, r) /\ n = Len(rows) + 1 /\ c = Newest(Changes(a))
    OBVIOUS
  <1>5. IsSeq(rows) /\ Len(rows) \in Nat /\ (rows = << >> <=> Len(rows) = 0)
    BY SeqFacts DEF IInv, IsSeq
  <1>6. J(a, Since(n, 3)) = J(Append(rows, [report |-> report]), Since(n, 3))
    <2>1. PICK b : b = Append(rows, [report |-> report])
      OBVIOUS
    <2>2. \A i \in 1..n : a[i].report = b[i].report
      <3>1. /\ \A i \in 1..Len(rows) : a[i] = rows[i]
            /\ a[Len(rows) + 1] = r
        BY <1>4, <1>5, AppendSeq
      <3>2. /\ \A i \in 1..Len(rows) : b[i] = rows[i]
            /\ b[Len(rows) + 1] = [report |-> report]
        BY <1>5, <2>1, AppendSeq
      <3> QED BY <1>3, <1>4, <1>5, <3>1, <3>2
    <2>3. Since(n, 3) \in 1..n
      BY <1>4, <1>5 DEF Since
    <2> QED BY <2>1, <2>2, <2>3 DEF J
  <1>7. /\ trend.carried = c
        /\ trend.record.class = 1 => \A i \in DOMAIN c : ~c[i].worsened
    <2>1. carry.deltas = Newest(Changes(rows)) /\ IsSeq(Changes(rows))
      BY <1>5, ChangesAppend DEF IInv, Carried
    <2>2. CASE Len(rows) = 0
      <3>1. trend = [carried |-> << >>, record |-> NoTrend]
        BY <1>5, <2>2 DEF FirstEpoch, trend
      <3>2. Changes(a) = << >>
        BY <1>4, <1>5, <2>2, ChangesAppend
      <3>3. c = << >>
        BY <1>4, <3>2 DEF Newest, Kept, AtMost
      <3> QED BY <3>1, <3>3 DEF NoTrend
    <2>3. CASE Len(rows) > 0
      <3>1. PICK e : e = epoch_compare(LastReport, report)
        OBVIOUS
      <3>2. trend = trend_append(Newest(Changes(rows)), e)
        BY <1>5, <2>1, <2>3, <3>1 DEF FirstEpoch, trend
      <3>3. Changes(a) = Append(Changes(rows), e)
        BY <1>3, <1>4, <1>5, <2>3, <3>1, ChangesAppend DEF LastReport
      <3> QED BY <1>4, <2>1, <3>2, <3>3, TrendImproves
    <2> QED BY <1>5, <2>2, <2>3
  <1>8. /\ alert.carried = IF report.dir = 2 THEN SaturatingAdd(carry.streak, 1) ELSE 0
        /\ alert.level = AlertLevel(report.joint, report.dir, alert.carried)
    BY DEF alert_append, alert
  <1>9. NewRow(rows, r, alert.carried)
    BY <1>3, <1>4, <1>6, <1>7, <1>8 DEF NewRow, Fits, sla, condition
  <1> QED
    BY <1>2, <1>3, <1>4, <1>7, <1>9 DEF Adds
\* The joint conditions of either side are among the four.
LEMMA JointType ==
  /\ \A grade, cond : joint_from_axes(grade, cond) \in 0..3
  /\ \A grade, class : gossip_joint(grade, class) \in 0..3
  BY DEF joint_from_axes, gossip_joint

\* Advice about a report of broken chains is to repair them.
LEMMA RepairFirst ==
  ASSUME NEW report, NEW streak, report.chains_valid \in BOOLEAN
  PROVE  ~report.chains_valid => /\ recovery_advise(report, streak).priority = 0
                                 /\ gossip_recovery_advise(report, streak).priority = 0
  BY DEF recovery_advise, gossip_recovery_advise, Advice

\* One epoch of the compaction side.
LEMMA CompactionAdds ==
  ASSUME IInv, side = "compaction", NEW inp \in PruneInputs, CompactionEpoch(inp)
  PROVE  \E r : Adds(r) /\ carry'.momentum = Newest(Scores(Append(rows, r)))
  <1> DEFINE unified == tick(carry.unified, inp)
             now == unified[Len(unified)]
             seals == Append(carry.seals, epoch_seal(unified_total(unified, "spsf"),
                                                     unified_total(unified, "health"),
                                                     unified_total(unified, "resonance")))
             health == compaction_health([chains_valid |-> inp.chains_valid, cond |-> inp.cond,
                                          total |-> now.spsf + now.health + now.resonance])
             momentum == momentum_append(carry.momentum, health.joint)
             report == epoch_report(health, momentum.record, 0)
             alert == alert_append(carry.streak, report)
             sla == sla_append(alert.level, report)
             trend == IF FirstEpoch THEN [carried |-> << >>, record |-> NoTrend]
                      ELSE trend_append(carry.deltas, epoch_compare(LastReport, report))
             condition == dashboard_condition(alert.level, trend.record.class,
                                              sla_compliant(sla))
             capacity == capacity_append(carry.totals, report)
             advice == recovery_advise(report, alert.carried)
             a == Append(rows, [report |-> report])
  <1>1. Advance(report, momentum.carried, alert, sla, capacity, advice, trend, condition,
                unified, seals)
    BY DEF CompactionEpoch
  <1> HIDE DEF unified, now, seals
  <1>2. health.joint \in 0..3 /\ health.chains_valid = inp.chains_valid
    BY JointType DEF compaction_health
  <1>3. inp.chains_valid \in BOOLEAN
    BY PipelineAssumption
  <1> HIDE DEF health
  <1>4. /\ report.joint = health.joint /\ report.chains_valid = health.chains_valid
        /\ report.dir = momentum.record.dir /\ report.momentum = momentum.record.momentum
    BY DEF epoch_report
  <1>5. momentum.carried = Newest(Append(Scores(rows), health.joint))
    <2>1. carry.momentum = Newest(Scores(rows)) /\ IsSeq(Scores(rows))
      BY ScoresAppend DEF IInv, Carried
    <2>2. momentum.carried = Slide(carry.momentum, health.joint, 4)
      BY DEF momentum_append
    <2> QED BY <2>1, <2>2, SlideNewest
  <1>6. \A w : momentum.carried = w =>
           momentum.record = Momentum(w[1], w[Len(w)])
    BY DEF momentum_append
  <1> HIDE DEF momentum, report, capacity
  <1>7. IsSeq(rows) /\ Len(rows) \in Nat
    BY SeqFacts DEF IInv
  <1>8. IsSeq(a) /\ Len(a) = Len(rows) + 1 /\ a[Len(rows) + 1].report = report
    BY <1>7, AppendSeq
  <1>9. Scores(a) = Append(Scores(rows), health.joint)
    BY <1>4, <1>7, ScoresAppend
  <1> HIDE DEF a
  <1>10. PICK w : w = Newest(Scores(a))
    OBVIOUS
  <1>11. w[1] = J(a, Since(Len(rows) + 1, 3)) /\ w[Len(w)] = health.joint
    BY <1>4, <1>7, <1>8, <1>10, WindowEnds DEF J
  <1>12. momentum.record = Momentum(w[1], w[Len(w)])
    BY <1>5, <1>6, <1>9, <1>10
  <1>13. /\ report.momentum = health.joint - J(a, Since(Len(rows) + 1, 3))
         /\ report.dir = from_delta(report.momentum)
    BY <1>4, <1>11, <1>12 DEF Momentum
  <1>14. ~health.chains_valid => advice.priority = 0
    BY <1>2, <1>3, <1>4, RepairFirst
  <1>15. PICK r : Adds(r) /\ r.report = report /\ carry'.momentum = momentum.carried
    <2>1. GoesOn(report, momentum.carried, advice)
      BY <1>1 DEF GoesOn
    <2>2. Fits(report)
      BY <1>2, <1>3, <1>4, <1>13 DEF Fits, a
    <2>3. ~report.chains_valid => advice.priority = 0
      BY <1>4, <1>14
    <2> HIDE DEF advice
    <2> QED BY <2>1, <2>2, <2>3, ReportAdds
  <1>16. Scores(Append(rows, r)) = Append(Scores(rows), health.joint)
    BY <1>4, <1>7, <1>15, ScoresAppend
  <1> QED
    BY <1>5, <1>15, <1>16

\* One epoch of the gossip side.
LEMMA GossipAdds ==
  ASSUME IInv, side = "gossip", NEW inp \in GossipInputs, GossipEpoch(inp)
  PROVE  \E r : Adds(r) /\ RingHolds(carry'.momentum, Append(rows, r))
  <1> DEFINE seals == Append(carry.seals,
                             gossip_epoch_seal(inp.class, inp.delivered, inp.missed))
             red_pct == gossip_telemetry_encode(gossip_certify_window(seals, TRUE)).red_pct
             health == gossip_health(inp)
             momentum == gossip_momentum_append(carry.momentum, health.joint)
             report == epoch_report(health, momentum.record, red_pct)
             alert == alert_append(carry.streak, report)
             sla == sla_append(alert.level, report)
             trend == IF FirstEpoch THEN [carried |-> << >>, record |-> NoTrend]
                      ELSE trend_append(carry.deltas, epoch_compare(LastReport, report))
             condition == dashboard_condition(alert.level, trend.record.class,
                                              sla_compliant(sla))
             capacity == gossip_capacity_append(carry.totals, report)
             advice == gossip_recovery_advise(report, alert.carried)
             unified == carry.unified
             a == Append(rows, [report |-> report])
  <1>1. Advance(report, momentum.carried, alert, sla, capacity, advice, trend, condition,
                unified, seals)
    BY DEF GossipEpoch, gossip_epoch_report, gossip_alert_append, gossip_sla_append,
           gossip_trend_append, gossip_epoch_compare, gossip_dashboard_condition
  <1> HIDE DEF unified, seals, red_pct
  <1>2. health.joint \in 0..3 /\ health.chains_valid = inp.chains_valid
    BY JointType DEF gossip_health
  <1>3. inp.chains_valid \in BOOLEAN
    BY PipelineAssumption
  <1> HIDE DEF health
  <1>4. /\ report.joint = health.joint /\ report.chains_valid = health.chains_valid
        /\ report.dir = momentum.record.dir /\ report.momentum = momentum.record.momentum
    BY DEF epoch_report
  <1> HIDE DEF report, capacity
  <1>5. IsSeq(rows) /\ Len(rows) \in Nat /\ RingHolds(carry.momentum, rows)
    BY SeqFacts DEF IInv, Carried
  <1>6. ASSUME NEW r, r.report = report
        PROVE  /\ RingHolds(momentum.carried, Append(rows, r))
               /\ momentum.record = Momentum(J(Append(rows, r), Since(Len(rows) + 1, 3)),
                                             health.joint)
    <2>1. momentum = gossip_momentum_append(carry.momentum, r.report.joint)
      BY <1>4, <1>6
    <2>2. r.report.joint \in Int /\ r.report.joint = health.joint
      BY <1>2, <1>4, <1>6
    <2> HIDE DEF momentum
    <2> QED BY <1>5, <2>1, <2>2, RingStep
  <1> HIDE DEF momentum
  <1>7. /\ report.momentum = health.joint - J(a, Since(Len(rows) + 1, 3))
        /\ report.dir = from_delta(report.momentum)
    <2>1. momentum.record = Momentum(J(a, Since(Len(rows) + 1, 3)), health.joint)
      BY <1>6
    <2> HIDE DEF a
    <2> QED BY <1>4, <2>1 DEF Momentum
  <1>8. ~health.chains_valid => advice.priority = 0
    BY <1>2, <1>3, <1>4, RepairFirst
  <1>9. PICK r : Adds(r) /\ r.report = report /\ carry'.momentum = momentum.carried
    <2>1. GoesOn(report, momentum.carried, advice)
      BY <1>1 DEF GoesOn
    <2>2. Fits(report)
      BY <1>2, <1>3, <1>4, <1>7 DEF Fits, a
    <2>3. ~report.chains_valid => advice.priority = 0
      BY <1>4, <1>8
    <2> HIDE DEF advice
    <2> QED BY <2>1, <2>2, <2>3, ReportAdds
  <1> QED
    BY <1>6, <1>9
-----------------------------------------------------------------------------
(* What an added row says. *)

\* The streak after an epoch counts the unbroken run of rising epochs, as far
\* as an alert looks, and the direction tells whether the epoch is rising.
LEMMA StreakStep ==
  ASSUME IInv, NEW r, Adds(r)
  PROVE  LET a == Append(rows, r)
             n == Len(rows) + 1
         IN  /\ carry'.streak \in 0..U32Max
             /\ r.report.dir = 2 <=> Up(a, n)
             /\ \A k \in 1..3 : carry'.streak >= k <=> Run(a, n, k)
  <1>1. PICK a, n, s, t : /\ a = Append(rows, r) /\ n = Len(rows) + 1
                          /\ s = carry.streak /\ t = carry'.streak
    OBVIOUS
  <1>2. /\ IsSeq(rows) /\ Len(rows) \in Nat /\ n \in Nat \ {0} /\ Len(rows) = n - 1
        /\ a[n] = r /\ \A i \in 1..Len(rows) : a[i] = rows[i]
    BY <1>1, AppendSeq DEF IInv
  <1>3. /\ s \in 0..U32Max
        /\ \A k \in 1..3 : s >= k <=> Run(rows, Len(rows), k)
    BY <1>1 DEF IInv, Carried
  <1>4. /\ r.report.joint \in 0..3 /\ J(a, n) = r.report.joint
        /\ r.report.momentum = r.report.joint - J(a, Since(n, 3))
        /\ r.report.dir = from_delta(r.report.momentum)
        /\ t = IF r.report.dir = 2 THEN SaturatingAdd(s, 1) ELSE 0
    BY <1>1, <1>2 DEF Adds, NewRow, J
  <1>5. J(a, Since(n, 3)) \in 0..3
    <2>1. Since(n, 3) \in 1..n
      BY <1>2 DEF Since
    <2>2. CASE Since(n, 3) = n
      BY <1>4, <2>2
    <2>3. CASE Since(n, 3) \in 1..Len(rows)
      <3>1. DOMAIN rows = 1..Len(rows)
        BY <1>2, SeqFacts
      <3>2. J(rows, Since(n, 3)) \in 0..3
        BY <2>3, <3>1 DEF IInv, RowTells
      <3> QED BY <1>2, <2>3, <3>2 DEF J
    <2> QED BY <1>2, <2>1, <2>2, <2>3
  <1>6. r.report.dir = 2 <=> Up(a, n)
    <2>1. PICK x, y \in 0..3 : x = r.report.joint /\ y = J(a, Since(n, 3))
      BY <1>4, <1>5
    <2>2. Up(a, n) <=> x > y
      BY <1>4, <2>1 DEF Up
    <2>3. r.report.dir = from_delta(x - y)
      BY <1>4, <2>1
    <2> QED BY <2>2, <2>3 DEF from_delta
  <1>7. U32Max \in Nat /\ U32Max >= 3
    BY U32MaxAssumption, PipelineAssumption
  <1>8. t \in 0..U32Max /\ \A k \in 1..3 :
           t >= k <=> (r.report.dir = 2 /\ s + 1 >= k)
    BY <1>3, <1>4, <1>7 DEF SaturatingAdd, AtMost
  <1>9. \A k \in 1..3 : (s + 1 >= k) <=> (k = 1 \/ Run(rows, n - 1, k - 1))
    <2>1. SUFFICES ASSUME NEW k \in 1..3
                   PROVE  (s + 1 >= k) <=> (k = 1 \/ Run(rows, n - 1, k - 1))
      OBVIOUS
    <2>2. CASE k = 1
      BY <1>3, <2>2
    <2>3. CASE k \in 2..3
      <3>1. k - 1 \in 1..3 /\ (s + 1 >= k <=> s >= k - 1)
        BY <1>3, <2>3
      <3> QED BY <1>2, <1>3, <2>3, <3>1
    <2> QED BY <2>2, <2>3
  <1>10. \A k \in 1..3 : Run(a, n, k) <=> (Up(a, n) /\ (k = 1 \/ Run(rows, n - 1, k - 1)))
    <2>1. SUFFICES ASSUME NEW k \in 1..3
                   PROVE  Run(a, n, k) <=> (Up(a, n) /\ (k = 1 \/ Run(rows, n - 1, k - 1)))
      OBVIOUS
    <2>2. \A m \in 1..(n - 1) : Up(a, m) <=> Up(rows, m)
      BY <1>1, <1>2, RowsFrame
    <2>3. CASE k = 1
      BY <1>2, <2>3 DEF Run
    <2>4. CASE k \in 2..3
      <3>1. Run(rows, n - 1, k - 1) <=>
               n >= k /\ \A m \in (n - k + 1)..(n - 1) : Up(rows, m)
        <4>1. (n - 1) - (k - 1) + 1 = n - k + 1 /\ (n - 1 >= k - 1 <=> n >= k)
          BY <1>2, <2>4
        <4> QED BY <4>1 DEF Run
      <3>2. n >= k => /\ \A m \in (n - k + 1)..(n - 1) : m \in 1..(n - 1)
                      /\ \A m \in (n - k + 1)..n : m = n \/ m \in (n - k + 1)..(n - 1)
                      /\ n \in (n - k + 1)..n
                      /\ \A m \in (n - k + 1)..(n - 1) : m \in (n - k + 1)..n
        BY <1>2, <2>4
      <3>3. Run(a, n, k) <=> n >= k /\ \A m \in (n - k + 1)..n : Up(a, m)
        BY DEF Run
      <3> QED BY <2>2, <2>4, <3>1, <3>2, <3>3
    <2> QED BY <2>3, <2>4
  <1>11. \A k \in 1..3 : t >= k <=> Run(a, n, k)
    BY <1>6, <1>8, <1>9, <1>10
  <1> QED
    BY <1>1, <1>6, <1>8, <1>11

\* The alert of an added row is what the history calls for.
LEMMA AddsJudged ==
  ASSUME IInv, NEW r, Adds(r)
  PROVE  Judged(Append(rows, r), Len(rows) + 1)
  <1>1. PICK a, n, t : a = Append(rows, r) /\ n = Len(rows) + 1 /\ t = carry'.streak
    OBVIOUS
  <1>2. a[n] = r /\ J(a, n) = r.report.joint
    <2>1. IsSeq(rows)
      BY DEF IInv
    <2> QED BY <1>1, <2>1, AppendSeq DEF J
  <1>3. /\ t \in 0..U32Max
        /\ r.report.dir = 2 <=> Up(a, n)
        /\ \A k \in 1..3 : t >= k <=> Run(a, n, k)
    BY <1>1, StreakStep
  <1>4. /\ r.report.joint \in 0..3
        /\ r.report.momentum = J(a, n) - J(a, Since(n, 3))
        /\ r.level = AlertLevel(r.report.joint, r.report.dir, t)
        /\ r.report.dir # 2 => t = 0
    BY <1>1, <1>2 DEF Adds, NewRow
  <1>5. /\ t >= 3 <=> Run(a, n, 3)
        /\ t >= 2 <=> Run(a, n, 2)
        /\ t >= 2 => r.report.dir = 2
    BY <1>3, <1>4
  <1>6. /\ r.level = 2 <=> (r.report.joint = 3 \/ Run(a, n, 3))
        /\ r.level >= 1 <=> (r.report.joint >= 2 \/ Run(a, n, 2))
    BY <1>3, <1>4, <1>5 DEF AlertLevel
  <1>7. Judged(a, n)
    BY <1>2, <1>3, <1>4, <1>6 DEF Judged
  <1> QED
    BY <1>1, <1>7

\* Its alarms reach the SLA, the advice and the dashboard, and a thriving
\* dashboard means that none of the last steps got worse.
LEMMA AddsShown ==
  ASSUME IInv, NEW r, Adds(r)
  PROVE  Shown(Append(rows, r), Len(rows) + 1)
  <1>1. PICK a, n : a = Append(rows, r) /\ n = Len(rows) + 1
    OBVIOUS
  <1>2. /\ IsSeq(rows) /\ IsSeq(a) /\ Len(a) = n /\ n \in Nat \ {0} /\ a[n] = r
        /\ \A i \in 1..(n - 1) : a[i] = rows[i] /\ i \in DOMAIN rows
    <2>1. IsSeq(rows)
      BY DEF IInv
    <2>2. /\ Len(rows) \in Nat /\ DOMAIN rows = 1..Len(rows) /\ IsSeq(a)
          /\ Len(a) = Len(rows) + 1 /\ a[Len(rows) + 1] = r
          /\ \A i \in 1..Len(rows) : a[i] = rows[i]
      BY <1>1, <2>1, AppendSeq
    <2>3. n - 1 = Len(rows)
      BY <1>1, <2>2
    <2> QED BY <1>1, <2>1, <2>2, <2>3
  <1>3. /\ r.report.joint \in 0..3 /\ r.report.chains_valid \in BOOLEAN
        /\ r.sla = sla_append(r.level, r.report)
        /\ ~r.report.chains_valid => r.advice.priority = 0
        /\ r.condition = dashboard_condition(r.level, r.trend.class, sla_compliant(r.sla))
        /\ r.trend.class = 1 =>
              \A i \in DOMAIN Newest(Changes(a)) : ~Newest(Changes(a))[i].worsened
    BY <1>1 DEF Adds, NewRow
  <1>4. J(a, n) = r.report.joint /\ (r.report.joint = 3 => r.level = 2)
    BY <1>1, <1>2 DEF J, Adds, NewRow, AlertLevel
  <1>5. /\ r.sla.joint_ok = (r.report.joint <= 1) /\ r.sla.alert_ok = (r.level <= 1)
        /\ r.sla.chains_ok = r.report.chains_valid
    BY <1>3 DEF sla_append
  <1>6. ~r.report.chains_valid => violation_mask(r.sla) >= 4
    BY <1>3, <1>5 DEF violation_mask, Byte
  <1>7. ~r.report.chains_valid => r.condition >= 2
    <2>1. ~r.report.chains_valid => ~sla_compliant(r.sla)
      BY <1>5 DEF sla_compliant
    <2>2. \A level, class : dashboard_condition(level, class, FALSE) >= 2
      BY DEF dashboard_condition
    <2>3. ~r.report.chains_valid => sla_compliant(r.sla) = FALSE
      BY <1>3, <1>5, <2>1 DEF sla_compliant
    <2> QED BY <1>3, <2>2, <2>3
  <1>8. r.report.joint = 3 => violation_mask(r.sla) % 4 = 3 /\ r.condition = 3
    <2>1. SUFFICES ASSUME r.report.joint = 3
                   PROVE  violation_mask(r.sla) % 4 = 3 /\ r.condition = 3
      OBVIOUS
    <2>2. r.level = 2 /\ ~r.sla.joint_ok /\ ~r.sla.alert_ok
      <3>1. r.level = 2 /\ ~(r.report.joint <= 1) /\ ~(r.level <= 1)
        BY <1>4, <2>1
      <3> QED BY <1>5, <3>1
    <2>3. violation_mask(r.sla) \in {3, 7}
      BY <1>3, <1>5, <2>2 DEF violation_mask, Byte
    <2>4. \A mask \in {3, 7} : mask % 4 = 3
      OBVIOUS
    <2>5. r.condition = 3
      BY <1>3, <2>2 DEF dashboard_condition
    <2> QED BY <2>3, <2>4, <2>5
  <1>9. r.condition = 0 => r.trend.class = 1
    BY <1>3 DEF dashboard_condition
  <1>10. ASSUME r.condition = 0, NEW m \in Since(n, 3)..n, m > 1
         PROVE  J(a, m) <= J(a, m - 1)
    <2>1. PICK c, w : c = Changes(a) /\ w = Newest(c)
      OBVIOUS
    <2>2. /\ n - 1 \in Nat /\ c = [i \in 1..(n - 1) |-> c[i]]
          /\ \A i \in 1..(n - 1) : c[i] = epoch_compare(a[i].report, a[i + 1].report)
      BY <1>2, <2>1 DEF Changes
    <2>3. IsSeq(c) /\ Len(c) = n - 1
      BY <2>2, FunctionIsSeq
    <2>4. PICK k : /\ k = (IF n - 1 > 4 THEN 4 ELSE n - 1) /\ DOMAIN w = 1..k
                   /\ \A i \in 1..k : w[i] = c[(n - 1) - k + i]
      <3>1. /\ Kept(c) = IF Len(c) > 4 THEN 4 ELSE Len(c)
            /\ DOMAIN Newest(c) = 1..Kept(c)
            /\ \A i \in 1..Kept(c) : Newest(c)[i] = c[Len(c) - Kept(c) + i]
        BY <2>3, NewestSeq
      <3> QED BY <2>1, <2>3, <3>1
    <2>5. \A i \in 1..k : ~w[i].worsened
      BY <1>3, <1>9, <1>10, <2>1, <2>4
    <2>6. PICK i : i = (m - 1) - (n - 1) + k
      OBVIOUS
    <2>7. i \in 1..k /\ (n - 1) - k + i = m - 1 /\ m - 1 \in 1..(n - 1) /\ (m - 1) + 1 = m
      BY <1>2, <1>10, <2>4, <2>6 DEF Since
    <2>8. ~epoch_compare(a[m - 1].report, a[m].report).worsened
      <3>1. w[i] = c[m - 1] /\ ~w[i].worsened
        BY <2>4, <2>5, <2>7
      <3>2. c[m - 1] = epoch_compare(a[m - 1].report, a[(m - 1) + 1].report)
        BY <2>2, <2>7
      <3> QED BY <2>7, <3>1, <3>2
    <2>9. ~(J(a, m) > J(a, m - 1))
      BY <2>8 DEF epoch_compare, J
    <2>10. J(a, m) \in 0..3 /\ J(a, m - 1) \in 0..3
      <3>1. \A x \in 1..(n - 1) : J(a, x) \in 0..3
        BY <1>2 DEF IInv, RowTells, J
      <3>2. m = n \/ m \in 1..(n - 1)
        BY <1>2, <2>7
      <3> QED BY <1>3, <1>4, <2>7, <3>1, <3>2
    <2> QED BY <2>9, <2>10
  <1>11. Shown(a, n)
    BY <1>2, <1>3, <1>4, <1>6, <1>7, <1>8, <1>10 DEF Shown
  <1> QED
    BY <1>1, <1>11

\* An epoch keeps the invariant.
LEMMA AddsIInv ==
  ASSUME IInv, NEW r, Adds(r),
         side = "compaction" => carry'.momentum = Newest(Scores(Append(rows, r))),
         side = "gossip" => RingHolds(carry'.momentum, Append(rows, r))
  PROVE  IInv'
  <1>1. PICK a, n : a = Append(rows, r) /\ n = Len(rows) + 1
    OBVIOUS
  <1>2. /\ rows' = a /\ side' = side /\ side \in {"compaction", "gossip"}
        /\ carry'.deltas = Newest(Changes(a))
    BY <1>1 DEF Adds, IInv
  <1>3. /\ IsSeq(rows) /\ Len(rows) \in Nat /\ DOMAIN rows = 1..Len(rows)
        /\ IsSeq(a) /\ Len(a) = n /\ DOMAIN a = 1..n /\ a[n] = r
    <2>1. IsSeq(rows)
      BY DEF IInv
    <2> QED BY <1>1, <2>1, AppendSeq
  <1>4. /\ carry'.streak \in 0..U32Max
        /\ \A k \in 1..3 : carry'.streak >= k <=> Run(a, n, k)
    BY <1>1, StreakStep
  <1>5. Carried'
    BY <1>1, <1>2, <1>3, <1>4 DEF Carried
  <1>6. ASSUME NEW m \in 1..n PROVE RowTells(a, m)
    <2>1. CASE m = n
      <3>1. Judged(a, n) /\ Shown(a, n)
        BY <1>1, AddsJudged, AddsShown
      <3>2. J(a, n) \in 0..3
        BY <1>1, <1>3 DEF J, Adds, NewRow
      <3> QED BY <2>1, <3>1, <3>2 DEF RowTells
    <2>2. CASE m \in 1..Len(rows)
      <3>1. RowTells(rows, m)
        BY <1>3, <2>2 DEF IInv
      <3> QED BY <1>1, <1>3, <2>2, <3>1, RowsFrame
    <2> QED BY <1>1, <1>3, <1>6, <2>1, <2>2
  <1> QED
    BY <1>2, <1>3, <1>5, <1>6 DEF IInv

-----------------------------------------------------------------------------
\* No epoch yet: no history.
LEMMA InitIInv == Init => IInv
  <1>1. SUFFICES ASSUME Init PROVE IInv
    OBVIOUS
  <1>2. /\ rows = << >> /\ side \in {"compaction", "gossip"}
        /\ carry.streak = 0 /\ carry.deltas = << >>
        /\ side = "compaction" => carry.momentum = << >>
        /\ side = "gossip" => carry.momentum = EmptyRing
    BY <1>1 DEF Init
  <1>3. IsSeq(rows) /\ Len(rows) = 0 /\ DOMAIN rows = {}
    BY <1>2 DEF IsSeq
  <1>4. Scores(rows) = << >> /\ Changes(rows) = << >> /\ Newest(<< >>) = << >>
    BY <1>2, <1>3 DEF Scores, Changes, Newest, Kept, AtMost
  <1>5. RingHolds(EmptyRing, rows)
    <2>1. Kept(rows) = 0
      BY <1>3 DEF Kept, AtMost
    <2>2. EmptyRing.slots \in [1..4 -> Int] /\ EmptyRing.len = 0 /\ EmptyRing.head = 0
      BY DEF EmptyRing
    <2> QED BY <1>3, <2>1, <2>2 DEF RingHolds
  <1>6. 0 \in 0..U32Max /\ \A k \in 1..3 : ~(0 >= k) /\ ~Run(rows, 0, k)
    BY U32MaxAssumption DEF Run
  <1>7. Carried
    BY <1>2, <1>3, <1>4, <1>5, <1>6 DEF Carried
  <1> QED
    BY <1>2, <1>3, <1>7 DEF IInv

\* The inductive invariant holds in every reachable state.
THEOREM InvariantHolds == Spec => []IInv
  <1>1. ASSUME IInv, Next PROVE IInv'
    <2>1. CASE side = "compaction" /\ \E inp \in PruneInputs : CompactionEpoch(inp)
      <3>1. PICK r : Adds(r) /\ carry'.momentum = Newest(Scores(Append(rows, r)))
        BY <1>1, <2>1, CompactionAdds
      <3> QED BY <1>1, <2>1, <3>1, AddsIInv
    <2>2. CASE side = "gossip" /\ \E inp \in GossipInputs : GossipEpoch(inp)
      <3>1. PICK r : Adds(r) /\ RingHolds(carry'.momentum, Append(rows, r))
        BY <1>1, <2>2, GossipAdds
      <3> QED BY <1>1, <2>2, <3>1, AddsIInv
    <2> QED BY <1>1, <2>1, <2>2 DEF Next
  <1>2. ASSUME IInv, UNCHANGED vars PROVE IInv'
    BY <1>2 DEF IInv, Carried, vars
  <1> QED
    BY <1>1, <1>2, InitIInv, PTL DEF Spec

\* Momentum and alerts are what the history of joint conditions calls for, on
\* either side and over any number of epochs.
THEOREM AlarmsCorrect == Spec => []AlarmsFollowHistory
  <1>1. ASSUME IInv PROVE AlarmsFollowHistory
    <2>1. SUFFICES ASSUME NEW n \in DOMAIN rows
          PROVE  LET run(k) == n >= k /\ \A m \in (n - k + 1)..n : Rising(m)
                 IN  /\ rows[n].report.momentum = Joint(n) - Joint(EpochsBack(n, 3))
                     /\ rows[n].report.dir = 2 <=> Rising(n)
                     /\ rows[n].level = 2 <=> (Joint(n) = 3 \/ run(3))
                     /\ rows[n].level >= 1 <=> (Joint(n) >= 2 \/ run(2))
      BY DEF AlarmsFollowHistory, MomentumFromHistory, AlertFromHistory
    <2>2. n \in Nat \ {0} /\ Judged(rows, n)
      BY <1>1, SeqFacts DEF IInv, RowTells
    <2>3. \A m \in Int : Rising(m) <=> Up(rows, m)
      BY EpochsBackIs DEF Rising, Up, Joint, J
    <2>4. \A k \in 2..3 : Run(rows, n, k) <=>
             (n >= k /\ \A m \in (n - k + 1)..n : Rising(m))
      BY <2>2, <2>3 DEF Run
    <2>5. EpochsBack(n, 3) = Since(n, 3) /\ Joint(n) = J(rows, n)
          /\ Joint(Since(n, 3)) = J(rows, Since(n, 3))
      BY <2>2, EpochsBackIs DEF Joint, J
    <2> QED
      BY <2>2, <2>3, <2>4, <2>5 DEF Judged
  <1> QED
    BY <1>1, InvariantHolds, PTL

\* Broken chains and critical conditions reach the SLA, the advice and the
\* dashboard, and the dashboard shows thriving only after four steps of which
\* none got worse.
THEOREM DashboardCorrect == Spec => []AlarmReachesDashboard
  <1>1. ASSUME IInv PROVE AlarmReachesDashboard
    <2>1. ASSUME NEW n \in DOMAIN rows
          PROVE  n \in Int /\ Shown(rows, n) /\ EpochsBack(n, 3) = Since(n, 3)
      <3>1. n \in Int /\ Shown(rows, n)
        BY <1>1, SeqFacts DEF IInv, RowTells
      <3> QED BY <3>1, EpochsBackIs
    <2> QED
      BY <2>1 DEF AlarmReachesDashboard, Shown, Joint, J
  <1> QED
    BY <1>1, InvariantHolds, PTL

-----------------------------------------------------------------------------
(* Totals.  A second invariant: what the planner's window, the manager's   *)
(* log and the seals hold of the totals the rows report.                   *)

P(q, n)   == q[n].report.total
Totals(q) == [m \in 1..Len(q) |-> P(q, m)]

\* What is left until the ceiling, seen from epoch n.
Bracketed(q, n, ceiling) ==
    LET c == q[n].capacity
        reach(k) == P(q, n) + k * c.mean
        steps == n - Since(n, 3)
    IN  /\ c.at_capacity => c.left = 0
        /\ ~c.at_capacity /\ c.left # Never =>
             reach(c.left) <= ceiling /\ reach(c.left + 1) > ceiling
        /\ c.left = Never =>
             P(q, n) - P(q, Since(n, 3)) < (IF steps > 1 THEN steps ELSE 1)

Netted(q, n) ==
    /\ q[n].trend.net = P(q, n) - P(q, Since(n, 4))
    /\ q[n].trend.up + q[n].trend.down <= 2 * (n - Since(n, 4))

Balanced(q, n, ceiling) == P(q, n) \in Nat /\ Netted(q, n) /\ Bracketed(q, n, ceiling)

\* The manager's record m is what epoch m pruned, the last seal its sums.
Counts3(e) == e.spsf \in Nat /\ e.health \in Nat /\ e.resonance \in Nat
SealOf(unified) == epoch_seal(unified_total(unified, "spsf"), unified_total(unified, "health"),
                              unified_total(unified, "resonance"))
PruneSealed(unified, seals, q) ==
    /\ IsSeq(unified) /\ Len(unified) = Len(q)
    /\ \A m \in 1..Len(q) :
          Counts3(unified[m]) /\ P(q, m) = unified[m].spsf + unified[m].health + unified[m].resonance
    /\ IsSeq(seals) /\ Len(seals) = Len(q)
    /\ Len(q) > 0 => seals[Len(q)] = SealOf(unified)

\* The gossip seal m is what epoch m delivered, and its class.
GossipSealed(seals, q) ==
    /\ IsSeq(seals) /\ Len(seals) = Len(q)
    /\ \A m \in 1..Len(q) :
          /\ seals[m].delivered = P(q, m)
          /\ seals[m].red \in {0, 1} /\ seals[m].yellow \in {0, 1} /\ seals[m].green \in {0, 1}
          /\ seals[m].red + seals[m].yellow + seals[m].green = 1

Books ==
    /\ carry.totals = Newest(Totals(rows))
    /\ \A n \in DOMAIN rows : Balanced(rows, n, Ceiling)
    /\ side = "compaction" => PruneSealed(carry.unified, carry.seals, rows)
    /\ side = "gossip" => GossipSealed(carry.seals, rows)

\* The row r that an epoch books.
Booked(r) ==
    LET w == Slide(carry.totals, r.report.total, 4)
    IN  /\ rows' = Append(rows, r) /\ side' = side
        /\ r.report.total \in Nat
        /\ carry'.totals = w /\ r.capacity = Projection(w, Ceiling)
        /\ r.trend = IF FirstEpoch THEN NoTrend
                     ELSE trend_append(carry.deltas, epoch_compare(LastReport, r.report)).record

-----------------------------------------------------------------------------
\* What Projection makes of a window that ends in x, s steps after y.
Pace(x, y, s, C) ==
    LET mean == IF s < 1 THEN 0 ELSE TruncDiv(x - y, s)
    IN  [mean |-> mean, at_capacity |-> x >= C,
         left |-> IF x >= C THEN 0
                  ELSE IF mean <= 0 THEN Never
                  ELSE AtMost((C - x) \div mean, U32Max)]

\* The projection from the last total x, the first y and the steps between.
LEMMA ProjectionBracket ==
  ASSUME NEW x \in Nat, NEW y \in Nat, NEW s \in Nat, s = 0 => x = y,
         NEW C \in Nat \ {0}, C < U32Max, NEW c,
         c = Pace(x, y, s, C)
  PROVE  /\ c.at_capacity => c.left = 0
         /\ ~c.at_capacity /\ c.left # Never =>
              x + c.left * c.mean <= C /\ x + (c.left + 1) * c.mean > C
         /\ c.left = Never => x - y < (IF s > 1 THEN s ELSE 1)
  <1>1. PICK mean : mean = IF s < 1 THEN 0 ELSE TruncDiv(x - y, s)
    OBVIOUS
  <1>2. U32Max \in Nat \ {0}
    BY U32MaxAssumption
  <1>3. /\ c.mean = mean /\ c.at_capacity = (x >= C)
        /\ c.left = IF x >= C THEN 0
                    ELSE IF mean <= 0 THEN Never
                    ELSE AtMost((C - x) \div mean, U32Max)
    BY <1>1 DEF Pace
  <1>4. mean \in Int /\ (mean <= 0 => x - y < (IF s > 1 THEN s ELSE 1))
    <2>1. CASE s < 1
      BY <1>1, <2>1
    <2>2. CASE s >= 1 /\ x - y >= 0
      <3>1. mean = (x - y) \div s /\ x - y \in Nat /\ s \in Nat \ {0}
        BY <1>1, <2>2 DEF TruncDiv
      <3>2. mean \in Nat /\ x - y < (mean + 1) * s
        BY <3>1, DivBracket
      <3>3. mean = 0 => (mean + 1) * s = s
        OBVIOUS
      <3> QED BY <2>2, <3>2, <3>3
    <2>3. CASE s >= 1 /\ x - y < 0
      <3>1. mean = -((-(x - y)) \div s) /\ -(x - y) \in Nat /\ s \in Nat \ {0}
        BY <1>1, <2>3 DEF TruncDiv
      <3>2. (-(x - y)) \div s \in Nat
        BY <3>1, DivBracket
      <3> QED BY <2>3, <3>1, <3>2
    <2> QED BY <2>1, <2>2, <2>3
  <1>5. CASE x >= C
    BY <1>2, <1>3, <1>5 DEF Never
  <1>6. CASE x < C /\ mean <= 0
    BY <1>3, <1>4, <1>6
  <1>7. CASE x < C /\ mean > 0
    <2>1. PICK d, k : d = C - x /\ k = d \div mean
      OBVIOUS
    <2>2. mean \in Nat \ {0} /\ d \in Nat /\ d < U32Max
      BY <1>2, <1>4, <1>7, <2>1
    <2>3. k \in Nat /\ k <= d /\ k * mean <= d /\ d < (k + 1) * mean
      BY <2>1, <2>2, DivBracket
    <2>4. c.left = k /\ k # Never
      BY <1>2, <1>3, <1>7, <2>1, <2>2, <2>3 DEF AtMost, Never
    <2>5. PICK u, v \in Int : u = k * mean /\ v = (k + 1) * mean
      BY <2>2, <2>3
    <2>6. x + u <= C /\ x + v > C
      BY <2>1, <2>2, <2>3, <2>5
    <2> QED BY <1>3, <1>7, <2>4, <2>5, <2>6
  <1> QED
    BY <1>4, <1>5, <1>6, <1>7

\* The totals of a log with one more row.
LEMMA TotalsAppend ==
  ASSUME NEW q, IsSeq(q), NEW r
  PROVE  IsSeq(Totals(q)) /\ Totals(Append(q, r)) = Append(Totals(q), r.report.total)
  <1>1. PICK a, h, b, z, n : /\ a = Append(q, r) /\ h = Totals(q) /\ n = Len(q)
                             /\ b = Append(h, r.report.total) /\ z = Totals(a)
    OBVIOUS
  <1>2. /\ n \in Nat /\ Len(a) = n + 1 /\ a[n + 1] = r
        /\ \A i \in 1..n : a[i] = q[i]
    BY <1>1, AppendSeq
  <1>3. h = [m \in 1..n |-> q[m].report.total]
    BY <1>1 DEF Totals, P
  <1>4. h = [m \in 1..n |-> h[m]] /\ \A m \in 1..n : h[m] = q[m].report.total
    BY <1>3
  <1>5. IsSeq(h) /\ Len(h) = n
    BY <1>2, <1>4, FunctionIsSeq
  <1>6. /\ IsSeq(b) /\ Len(b) = n + 1 /\ b[n + 1] = r.report.total
        /\ \A m \in 1..n : b[m] = h[m]
    <2>1. /\ IsSeq(Append(h, r.report.total)) /\ Len(Append(h, r.report.total)) = Len(h) + 1
          /\ Append(h, r.report.total)[Len(h) + 1] = r.report.total
          /\ \A m \in 1..Len(h) : Append(h, r.report.total)[m] = h[m]
      BY <1>5, AppendSeq
    <2> QED BY <1>1, <1>5, <2>1, Zenon
  <1>7. z = [m \in 1..(n + 1) |-> a[m].report.total]
    BY <1>1, <1>2 DEF Totals, P
  <1>8. n + 1 \in Nat /\ z = [m \in 1..(n + 1) |-> z[m]]
        /\ \A m \in 1..(n + 1) : z[m] = a[m].report.total
    BY <1>2, <1>7
  <1>9. IsSeq(z) /\ Len(z) = n + 1
    BY <1>8, FunctionIsSeq
  <1>10. \A m \in 1..(n + 1) : z[m] = b[m]
    BY <1>2, <1>4, <1>6, <1>8
  <1>11. z = b
    BY <1>6, <1>9, <1>10, SeqsEqual
  <1> QED
    BY <1>1, <1>5, <1>11

\* The window over the totals of a log: its length, first and last total.
LEMMA TotalsWindow ==
  ASSUME NEW q, IsSeq(q), Len(q) > 0
  PROVE  LET w == Newest(Totals(q))
         IN  /\ Len(w) = Len(q) - Since(Len(q), 3) + 1
             /\ w[1] = P(q, Since(Len(q), 3)) /\ w[Len(w)] = P(q, Len(q))
  <1>1. PICK n, h, w : n = Len(q) /\ h = Totals(q) /\ w = Newest(h)
    OBVIOUS
  <1>2. n \in Nat /\ n > 0
    BY <1>1, SeqFacts
  <1>3. h = [m \in 1..n |-> h[m]] /\ \A m \in 1..n : h[m] = P(q, m)
    BY <1>1 DEF Totals
  <1>4. IsSeq(h) /\ Len(h) = n
    BY <1>2, <1>3, FunctionIsSeq
  <1>5. PICK k : /\ k = (IF n > 4 THEN 4 ELSE n) /\ Len(w) = k
                 /\ \A i \in 1..k : w[i] = h[n - k + i]
    <2>1. /\ Kept(h) = IF Len(h) > 4 THEN 4 ELSE Len(h)
          /\ Len(Newest(h)) = Kept(h)
          /\ \A i \in 1..Kept(h) : Newest(h)[i] = h[Len(h) - Kept(h) + i]
      BY <1>4, NewestSeq
    <2> QED BY <1>1, <1>4, <2>1, ZenonT(30)
  <1>6. k \in 1..n /\ n - k + 1 = Since(n, 3) /\ n - k + k = n
    BY <1>2, <1>5 DEF Since
  <1>7. w[1] = h[Since(n, 3)] /\ w[k] = h[n]
    <2>1. 1 \in 1..k /\ k \in 1..k
      BY <1>6
    <2> QED BY <1>5, <1>6, <2>1, Zenon
  <1>8. Since(n, 3) \in 1..n /\ n \in 1..n
    BY <1>2 DEF Since
  <1>9. Len(w) = n - Since(n, 3) + 1
    <2>1. PICK s \in 1..n : s = Since(n, 3)
      BY <1>8
    <2> QED BY <1>2, <1>5, <1>6, <2>1
  <1>10. w[1] = P(q, Since(n, 3)) /\ w[Len(w)] = P(q, n)
    BY <1>3, <1>5, <1>7, <1>8, Zenon
  <1> QED
    BY <1>1, <1>9, <1>10

\* The comparisons in the trend's window add up to the difference of the
\* totals at its ends, and at most all of them improve and all worsen.
LEMMA TrendNets ==
  ASSUME NEW a, IsSeq(a), Len(a) > 1, \A m \in 1..Len(a) : P(a, m) \in Int
  PROVE  LET w == Newest(Changes(a))
             n == Len(a)
         IN  /\ Total([i \in DOMAIN w |-> w[i].total_delta]) = P(a, n) - P(a, Since(n, 4))
             /\ Cardinality({ i \in DOMAIN w : w[i].improved })
                  + Cardinality({ i \in DOMAIN w : w[i].worsened }) <= 2 * (n - Since(n, 4))
  <1>1. PICK n, c, w : n = Len(a) /\ c = Changes(a) /\ w = Newest(c)
    OBVIOUS
  <1>2. n \in Nat /\ n > 1 /\ n - 1 \in Nat
    BY <1>1, SeqFacts
  <1>3. /\ c = [m \in 1..(n - 1) |-> c[m]]
        /\ \A m \in 1..(n - 1) : c[m] = epoch_compare(a[m].report, a[m + 1].report)
    BY <1>1 DEF Changes
  <1>4. IsSeq(c) /\ Len(c) = n - 1
    BY <1>2, <1>3, FunctionIsSeq
  <1>5. PICK k : /\ k = (IF n - 1 > 4 THEN 4 ELSE n - 1) /\ DOMAIN w = 1..k
                 /\ \A i \in 1..k : w[i] = c[(n - 1) - k + i]
    <2>1. /\ Kept(c) = IF Len(c) > 4 THEN 4 ELSE Len(c)
          /\ DOMAIN Newest(c) = 1..Kept(c)
          /\ \A i \in 1..Kept(c) : Newest(c)[i] = c[Len(c) - Kept(c) + i]
      BY <1>4, NewestSeq
    <2> QED BY <1>1, <1>4, <2>1, ZenonT(30)
  <1>6. k \in 1..4 /\ k <= n - 1 /\ n - k = Since(n, 4)
    BY <1>2, <1>5 DEF Since
  <1>7. PICK s : s = [i \in 1..k |-> w[i].total_delta]
    OBVIOUS
  <1>8. Len(s) = k
    <2>1. k \in Nat /\ s = [i \in 1..k |-> s[i]]
      BY <1>6, <1>7
    <2> QED BY <2>1, FunctionIsSeq
  <1>9. PICK h : h = [i \in 0..k |-> P(a, n - k + i)]
    OBVIOUS
  <1>10. \A i \in 0..k : n - k + i \in 1..n /\ h[i] = P(a, n - k + i) /\ h[i] \in Int
    <2>1. \A i \in 0..k : n - k + i \in 1..n
      BY <1>2, <1>6
    <2> QED BY <1>1, <1>9, <2>1
  <1>11. ASSUME NEW i \in 1..k PROVE s[i] = h[i] - h[i - 1]
    <2>1. /\ (n - 1) - k + i \in 1..(n - 1) /\ i - 1 \in 0..k /\ i \in 0..k
          /\ ((n - 1) - k + i) + 1 = n - k + i /\ (n - 1) - k + i = n - k + (i - 1)
      BY <1>2, <1>6
    <2>2. PICK j : j = n - k + (i - 1)
      OBVIOUS
    <2>3. w[i] = c[j] /\ j \in 1..(n - 1) /\ j + 1 = n - k + i
      BY <1>5, <2>1, <2>2
    <2>4. w[i] = epoch_compare(a[j].report, a[j + 1].report)
      BY <1>3, <2>3
    <2>5. w[i].total_delta = P(a, j + 1) - P(a, j)
      BY <2>4 DEF epoch_compare, P
    <2>6. s[i] = P(a, n - k + i) - P(a, n - k + (i - 1))
      BY <1>7, <2>2, <2>3, <2>5
    <2> QED BY <1>10, <2>1, <2>6
  <1>12. Total(s) = h[k] - h[0]
    <2>1. k \in Nat /\ \A i \in 0..k : h[i] \in Int
      BY <1>6, <1>10
    <2> QED BY <1>8, <1>11, <2>1, TotalTelescopes
  <1>13. Total([i \in DOMAIN w |-> w[i].total_delta]) = P(a, n) - P(a, Since(n, 4))
    <2>1. h[k] = P(a, n) /\ h[0] = P(a, Since(n, 4))
      <3>1. n - k + k = n /\ n - k + 0 = n - k /\ k \in 0..k /\ 0 \in 0..k
        BY <1>2, <1>6
      <3> QED BY <1>6, <1>10, <3>1
    <2> QED BY <1>5, <1>7, <1>12, <2>1
  <1>14. \A S \in SUBSET (1..k) : Cardinality(S) \in 0..k
    <2>1. IsFiniteSet(1..k) /\ Cardinality(1..k) = IF 1 > k THEN 0 ELSE k - 1 + 1
      <3>1. 1 \in Int /\ k \in Int
        BY <1>6
      <3> QED BY <3>1, FS_Interval, Zenon
    <2>2. Cardinality(1..k) = k
      BY <1>6, <2>1
    <2>3. SUFFICES ASSUME NEW S \in SUBSET (1..k) PROVE Cardinality(S) \in 0..k
      OBVIOUS
    <2>4. IsFiniteSet(S) /\ Cardinality(S) <= Cardinality(1..k)
      BY <2>1, <2>3, FS_Subset, Zenon
    <2>5. Cardinality(S) \in Nat
      BY <2>4, FS_CardinalityType
    <2> QED BY <1>6, <2>2, <2>4, <2>5
  <1>15. /\ Cardinality({ i \in DOMAIN w : w[i].improved }) \in 0..k
         /\ Cardinality({ i \in DOMAIN w : w[i].worsened }) \in 0..k
    <2>1. PICK U, V : U = { i \in DOMAIN w : w[i].improved } /\ V = { i \in DOMAIN w : w[i].worsened }
      OBVIOUS
    <2>2. U \in SUBSET (1..k) /\ V \in SUBSET (1..k)
      BY <1>5, <2>1
    <2> QED BY <1>14, <2>1, <2>2
  <1>16. n - Since(n, 4) = k
    BY <1>2, <1>6
  <1>17. /\ Cardinality({ i \in DOMAIN w : w[i].improved })
              + Cardinality({ i \in DOMAIN w : w[i].worsened }) <= 2 * (n - Since(n, 4))
    <2>1. PICK u, v \in 0..k : /\ u = Cardinality({ i \in DOMAIN w : w[i].improved })
                               /\ v = Cardinality({ i \in DOMAIN w : w[i].worsened })
      BY <1>15
    <2> QED BY <1>6, <1>16, <2>1
  <1> QED
    BY <1>1, <1>13, <1>17

\* The accounts of an epoch do not change when another is appended.
LEMMA TotalsFrame ==
  ASSUME NEW q, IsSeq(q), NEW r, NEW n \in 1..Len(q), NEW ceiling
  PROVE  /\ P(Append(q, r), n) = P(q, n)
         /\ Balanced(Append(q, r), n, ceiling) <=> Balanced(q, n, ceiling)
  <1>1. PICK a : a = Append(q, r)
    OBVIOUS
  <1>2. Len(q) \in Nat /\ \A i \in 1..Len(q) : a[i] = q[i]
    BY <1>1, AppendSeq
  <1>3. \A m \in 1..n : a[m] = q[m] /\ P(a, m) = P(q, m)
    BY <1>2 DEF P
  <1>4. n \in 1..n /\ Since(n, 3) \in 1..n /\ Since(n, 4) \in 1..n
    BY <1>2 DEF Since
  <1>5. /\ a[n] = q[n] /\ P(a, n) = P(q, n)
        /\ P(a, Since(n, 3)) = P(q, Since(n, 3)) /\ P(a, Since(n, 4)) = P(q, Since(n, 4))
    BY <1>3, <1>4
  <1> QED
    BY <1>1, <1>5, Zenon DEF Balanced, Netted, Bracketed

\* A ceiling is a number that Never exceeds.
LEMMA CeilingFits == Ceiling \in Nat \ {0} /\ Ceiling < U32Max
  BY ThresholdsAssumption DEF Ceiling

\* An epoch that is booked keeps the accounts.
LEMMA BookedBalances ==
  ASSUME IInv, Books, NEW r, Booked(r)
  PROVE  LET a == Append(rows, r)
         IN  /\ carry'.totals = Newest(Totals(a))
             /\ \A n \in 1..(Len(rows) + 1) : Balanced(a, n, Ceiling)
  <1>1. PICK a, n, t : a = Append(rows, r) /\ n = Len(rows) + 1 /\ t = r.report.total
    OBVIOUS
  <1>2. /\ IsSeq(rows) /\ Len(rows) \in Nat /\ DOMAIN rows = 1..Len(rows)
        /\ IsSeq(a) /\ Len(a) = n /\ a[n] = r /\ n \in Nat \ {0}
    <2>1. IsSeq(rows)
      BY DEF IInv
    <2> QED BY <1>1, <2>1, AppendSeq
  <1>3. \A m \in 1..Len(rows) : P(a, m) = P(rows, m) /\ Balanced(a, m, Ceiling)
    BY <1>1, <1>2, TotalsFrame DEF Books
  <1>4. P(a, n) = t /\ t \in Nat
    BY <1>1, <1>2 DEF P, Booked
  <1>5. \A m \in 1..n : P(a, m) \in Nat
    <2>1. \A m \in 1..Len(rows) : P(a, m) \in Nat
      BY <1>3 DEF Balanced
    <2>2. \A m \in 1..n : m = n \/ m \in 1..Len(rows)
      BY <1>1, <1>2
    <2> QED BY <1>4, <2>1, <2>2
  <1>6. PICK w : w = Slide(carry.totals, t, 4)
    OBVIOUS
  <1>7. w = Newest(Totals(a))
    <2>1. IsSeq(Totals(rows)) /\ Totals(a) = Append(Totals(rows), t)
      BY <1>1, <1>2, TotalsAppend
    <2>2. carry.totals = Newest(Totals(rows))
      BY DEF Books
    <2>3. Slide(Newest(Totals(rows)), t, 4) = Newest(Append(Totals(rows), t))
      BY <2>1, SlideNewest
    <2> QED BY <1>6, <2>1, <2>2, <2>3, Zenon
  <1>8. PICK b, s : b = Since(n, 3) /\ s = n - b
    OBVIOUS
  <1>9. b \in 1..n /\ s \in Nat /\ (s = 0 => b = n)
    BY <1>2, <1>8 DEF Since
  <1>10. Len(w) = s + 1 /\ w[1] = P(a, b) /\ w[Len(w)] = P(a, n)
    <2>1. /\ Len(w) = n - Since(n, 3) + 1
          /\ w[1] = P(a, Since(n, 3)) /\ w[Len(w)] = P(a, n)
      <3>1. LET z == Newest(Totals(a))
            IN  /\ Len(z) = Len(a) - Since(Len(a), 3) + 1
                /\ z[1] = P(a, Since(Len(a), 3)) /\ z[Len(z)] = P(a, Len(a))
        BY <1>2, TotalsWindow
      <3> QED BY <1>2, <1>7, <3>1, Zenon
    <2> QED BY <1>2, <1>8, <1>9, <2>1
  <1>11. Bracketed(a, n, Ceiling)
    <2>1. PICK x, y, C : x = P(a, n) /\ y = P(a, b) /\ C = Ceiling
      OBVIOUS
    <2>2. x \in Nat /\ y \in Nat /\ (s = 0 => x = y) /\ C \in Nat \ {0} /\ C < U32Max
      BY <1>2, <1>5, <1>9, <2>1, CeilingFits
    <2>3. PICK c : c = r.capacity
      OBVIOUS
    <2>4. c = Projection(w, C)
      BY <1>1, <1>6, <2>1, <2>3 DEF Booked
    <2>5. (Len(w) < 2) = (s < 1) /\ Len(w) - 1 = s
      BY <1>9, <1>10
    <2>6. c = Pace(x, y, s, C)
      <3>1. w[Len(w)] = x /\ w[1] = y
        BY <1>10, <2>1
      <3> QED BY <2>4, <2>5, <3>1, Zenon DEF Projection, Pace
    <2>7. /\ c.at_capacity => c.left = 0
          /\ ~c.at_capacity /\ c.left # Never =>
               x + c.left * c.mean <= C /\ x + (c.left + 1) * c.mean > C
          /\ c.left = Never => x - y < (IF s > 1 THEN s ELSE 1)
      BY <1>9, <2>2, <2>6, ProjectionBracket
    <2>8. a[n].capacity = c
      BY <1>2, <2>3
    <2> QED BY <1>8, <2>1, <2>7, <2>8, Zenon DEF Bracketed
  <1>12. Netted(a, n)
    <2>1. a[n].trend = r.trend
      BY <1>2
    <2>2. CASE Len(rows) = 0
      <3>1. n = 1 /\ Since(n, 4) = 1
        BY <1>1, <2>2 DEF Since
      <3>2. FirstEpoch
        BY <1>2, <2>2 DEF FirstEpoch, IsSeq
      <3>3. r.trend = NoTrend
        BY <3>2 DEF Booked
      <3>4. P(a, 1) \in Nat
        BY <1>5, <3>1
      <3> QED BY <2>1, <3>1, <3>3, <3>4 DEF Netted, NoTrend
    <2>3. CASE Len(rows) > 0
      <3>1. ~FirstEpoch
        BY <2>3 DEF FirstEpoch
      <3>2. PICK v : v = epoch_compare(LastReport, r.report)
        OBVIOUS
      <3>3. PICK z : z = Slide(carry.deltas, v, 4)
        OBVIOUS
      <3>4. /\ r.trend.net = Total([i \in DOMAIN z |-> z[i].total_delta])
            /\ r.trend.up = Cardinality({ i \in DOMAIN z : z[i].improved })
            /\ r.trend.down = Cardinality({ i \in DOMAIN z : z[i].worsened })
        BY <3>1, <3>2, <3>3, SMTT(40) DEF Booked, trend_append
      <3>5. z = Newest(Changes(a))
        <4>1. carry.deltas = Newest(Changes(rows))
          BY DEF IInv, Carried
        <4>2. IsSeq(Changes(rows)) /\ Changes(a) = Append(Changes(rows), v)
          BY <1>1, <1>2, <2>3, <3>2, ChangesAppend DEF LastReport
        <4>3. Slide(Newest(Changes(rows)), v, 4) = Newest(Append(Changes(rows), v))
          BY <4>2, SlideNewest
        <4> QED BY <3>3, <4>1, <4>2, <4>3, Zenon
      <3>6. Len(a) > 1 /\ \A m \in 1..Len(a) : P(a, m) \in Int
        BY <1>1, <1>2, <1>5, <2>3
      <3>7. LET y == Newest(Changes(a))
                k == Len(a)
            IN  /\ Total([i \in DOMAIN y |-> y[i].total_delta]) = P(a, k) - P(a, Since(k, 4))
                /\ Cardinality({ i \in DOMAIN y : y[i].improved })
                     + Cardinality({ i \in DOMAIN y : y[i].worsened }) <= 2 * (k - Since(k, 4))
        BY <1>2, <3>6, TrendNets
      <3>8. /\ Total([i \in DOMAIN z |-> z[i].total_delta]) = P(a, n) - P(a, Since(n, 4))
            /\ Cardinality({ i \in DOMAIN z : z[i].improved })
                 + Cardinality({ i \in DOMAIN z : z[i].worsened }) <= 2 * (n - Since(n, 4))
        BY <1>2, <3>5, <3>7, Zenon
      <3> QED BY <2>1, <3>4, <3>8, Zenon DEF Netted
    <2> QED BY <1>2, <2>2, <2>3
  <1>13. ASSUME NEW m \in 1..n PROVE Balanced(a, m, Ceiling)
    <2>1. Balanced(a, n, Ceiling)
      BY <1>4, <1>11, <1>12 DEF Balanced
    <2>2. m = n \/ m \in 1..Len(rows)
      BY <1>1, <1>2
    <2> QED BY <1>3, <2>1, <2>2
  <1>14. carry'.totals = w
    BY <1>1, <1>6 DEF Booked
  <1> QED
    BY <1>1, <1>7, <1>13, <1>14

\* What either family's stages book of such a report.
LEMMA ReportBooked ==
  ASSUME IInv, NEW report, report.total \in Nat, NEW momentum, NEW alert, NEW sla,
         NEW advice, NEW condition, NEW unified, NEW seals,
         NEW trend, NEW capacity,
         trend = IF FirstEpoch THEN [carried |-> << >>, record |-> NoTrend]
                 ELSE trend_append(carry.deltas, epoch_compare(LastReport, report)),
         capacity = [carried |-> Slide(carry.totals, report.total, 4),
                     record |-> Projection(Slide(carry.totals, report.total, 4), Ceiling)],
         Advance(report, momentum, alert, sla, capacity, advice, trend, condition,
                 unified, seals)
  PROVE  \E r : /\ Booked(r) /\ r.report = report
                /\ carry'.unified = unified /\ carry'.seals = seals
  <1>1. PICK r : r = [report |-> report, level |-> alert.level, sla |-> sla,
                      capacity |-> capacity.record, advice |-> advice,
                      trend |-> trend.record, condition |-> condition]
    OBVIOUS
  <1>2. /\ rows' = Append(rows, r) /\ side' = side
        /\ carry'.totals = capacity.carried
        /\ carry'.unified = unified /\ carry'.seals = seals
    BY <1>1 DEF Advance
  <1>3. /\ r.report = report /\ r.capacity = capacity.record /\ r.trend = trend.record
    BY <1>1
  <1>4. trend.record = IF FirstEpoch THEN NoTrend
                       ELSE trend_append(carry.deltas, epoch_compare(LastReport, report)).record
    OBVIOUS
  <1>5. Booked(r)
    BY <1>2, <1>3, <1>4 DEF Booked
  <1> QED
    BY <1>2, <1>3, <1>5

\* Pruned entries are counted in natural numbers.
LEMMA PrunedIsNat ==
  ASSUME NEW entries, NEW retain, Len(entries) \in Nat, retain \in Nat
  PROVE  pruned_count(entries, retain) \in Nat
  BY DEF pruned_count, SaturatingSub

\* One epoch of the compaction side.
LEMMA CompactionBooked ==
  ASSUME IInv, Books, side = "compaction", NEW inp \in PruneInputs, CompactionEpoch(inp)
  PROVE  \E r : Booked(r) /\ PruneSealed(carry'.unified, carry'.seals, Append(rows, r))
  <1> DEFINE unified == tick(carry.unified, inp)
             now == unified[Len(unified)]
             seals == Append(carry.seals, epoch_seal(unified_total(unified, "spsf"),
                                                     unified_total(unified, "health"),
                                                     unified_total(unified, "resonance")))
             health == compaction_health([chains_valid |-> inp.chains_valid, cond |-> inp.cond,
                                          total |-> now.spsf + now.health + now.resonance])
             momentum == momentum_append(carry.momentum, health.joint)
             report == epoch_report(health, momentum.record, 0)
             alert == alert_append(carry.streak, report)
             sla == sla_append(alert.level, report)
             trend == IF FirstEpoch THEN [carried |-> << >>, record |-> NoTrend]
                      ELSE trend_append(carry.deltas, epoch_compare(LastReport, report))
             condition == dashboard_condition(alert.level, trend.record.class,
                                              sla_compliant(sla))
             capacity == capacity_append(carry.totals, report)
             advice == recovery_advise(report, alert.carried)
  <1>1. Advance(report, momentum.carried, alert, sla, capacity, advice, trend, condition,
                unified, seals)
    BY DEF CompactionEpoch
  <1>2. PruneSealed(carry.unified, carry.seals, rows)
    BY DEF Books
  <1>3. PICK e : /\ unified = Append(carry.unified, e) /\ Counts3(e)
    <2>1. PICK e : e = [spsf |-> compact(inp.spsf, inp.retain).pruned_count,
                        health |-> compact_health(inp.health, inp.retain).pruned_count,
                        resonance |-> compact_resonance(inp.resonance, inp.retain).pruned_count]
      OBVIOUS
    <2>2. /\ e.spsf = pruned_count(inp.spsf, inp.retain)
          /\ e.health = pruned_count(inp.health, inp.retain)
          /\ e.resonance = pruned_count(inp.resonance, inp.retain)
      BY <2>1 DEF compact, compact_health, compact_resonance
    <2>3. /\ Len(inp.spsf) \in Nat /\ Len(inp.health) \in Nat /\ Len(inp.resonance) \in Nat
          /\ inp.retain \in Nat
      BY PipelineAssumption
    <2>4. Counts3(e)
      BY <2>2, <2>3, PrunedIsNat DEF Counts3
    <2> QED BY <2>1, <2>4 DEF tick
  <1>4. PICK u : u = Append(carry.unified, e)
    OBVIOUS
  <1>5. /\ IsSeq(u) /\ Len(u) = Len(rows) + 1 /\ u[Len(rows) + 1] = e
        /\ \A m \in 1..Len(rows) : u[m] = carry.unified[m]
    <2>1. IsSeq(carry.unified) /\ Len(carry.unified) = Len(rows)
      BY <1>2 DEF PruneSealed
    <2>2. /\ IsSeq(Append(carry.unified, e))
          /\ Len(Append(carry.unified, e)) = Len(carry.unified) + 1
          /\ Append(carry.unified, e)[Len(carry.unified) + 1] = e
          /\ \A m \in 1..Len(carry.unified) : Append(carry.unified, e)[m] = carry.unified[m]
      BY <2>1, AppendSeq
    <2> QED BY <1>4, <2>1, <2>2, Zenon
  <1>6. now = e
    BY <1>3, <1>4, <1>5
  <1>7. seals = Append(carry.seals, SealOf(u))
    BY <1>3, <1>4 DEF SealOf
  <1>8. PICK g : g = Append(carry.seals, SealOf(u))
    OBVIOUS
  <1>9. IsSeq(g) /\ Len(g) = Len(rows) + 1 /\ g[Len(rows) + 1] = SealOf(u)
    <2>1. IsSeq(carry.seals) /\ Len(carry.seals) = Len(rows)
      BY <1>2 DEF PruneSealed
    <2>2. PICK v : v = SealOf(u)
      OBVIOUS
    <2>3. /\ IsSeq(Append(carry.seals, v))
          /\ Len(Append(carry.seals, v)) = Len(carry.seals) + 1
          /\ Append(carry.seals, v)[Len(carry.seals) + 1] = v
      BY <2>1, AppendSeq
    <2> QED BY <1>8, <2>1, <2>2, <2>3, Zenon
  <1> HIDE DEF unified, now, seals
  <1>10. report.total = e.spsf + e.health + e.resonance
    BY <1>6 DEF epoch_report, compaction_health
  <1>11. report.total \in Nat
    BY <1>3, <1>10 DEF Counts3
  <1>12. capacity = [carried |-> Slide(carry.totals, report.total, 4),
                     record |-> Projection(Slide(carry.totals, report.total, 4), Ceiling)]
    BY DEF capacity_append, Ceiling
  <1>13. PICK r : /\ Booked(r) /\ r.report = report
                  /\ carry'.unified = unified /\ carry'.seals = seals
    <2> HIDE DEF momentum, report, capacity, advice, sla, condition, alert
    <2> QED BY <1>1, <1>11, <1>12, ReportBooked
  <1> HIDE DEF report
  <1>14. PICK a : a = Append(rows, r)
    OBVIOUS
  <1>15. /\ Len(rows) \in Nat /\ IsSeq(rows) /\ Len(a) = Len(rows) + 1 /\ a[Len(rows) + 1] = r
         /\ \A m \in 1..Len(rows) : P(a, m) = P(rows, m)
    <2>1. IsSeq(rows)
      BY DEF IInv
    <2> QED BY <1>14, <2>1, AppendSeq, TotalsFrame
  <1>16. ASSUME NEW m \in 1..(Len(rows) + 1)
         PROVE  Counts3(u[m]) /\ P(a, m) = u[m].spsf + u[m].health + u[m].resonance
    <2>1. CASE m = Len(rows) + 1
      <3>1. u[m] = e /\ P(a, m) = report.total
        BY <1>5, <1>13, <1>15, <2>1 DEF P
      <3> QED BY <1>3, <1>10, <3>1
    <2>2. CASE m \in 1..Len(rows)
      <3>1. /\ Counts3(carry.unified[m])
            /\ P(rows, m) = carry.unified[m].spsf + carry.unified[m].health
                              + carry.unified[m].resonance
        BY <1>2, <2>2 DEF PruneSealed
      <3> QED BY <1>5, <1>15, <2>2, <3>1
    <2> QED BY <1>15, <2>1, <2>2
  <1>17. PruneSealed(u, g, a)
    BY <1>5, <1>9, <1>15, <1>16 DEF PruneSealed
  <1>18. carry'.unified = u /\ carry'.seals = g
    BY <1>3, <1>4, <1>7, <1>8, <1>13
  <1> QED
    BY <1>13, <1>14, <1>17, <1>18

\* One epoch of the gossip side.
LEMMA GossipBooked ==
  ASSUME IInv, Books, side = "gossip", NEW inp \in GossipInputs, GossipEpoch(inp)
  PROVE  \E r : Booked(r) /\ GossipSealed(carry'.seals, Append(rows, r))
  <1> DEFINE e == gossip_epoch_seal(inp.class, inp.delivered, inp.missed)
             seals == Append(carry.seals, e)
             red_pct == gossip_telemetry_encode(gossip_certify_window(seals, TRUE)).red_pct
             health == gossip_health(inp)
             momentum == gossip_momentum_append(carry.momentum, health.joint)
             report == epoch_report(health, momentum.record, red_pct)
             alert == alert_append(carry.streak, report)
             sla == sla_append(alert.level, report)
             trend == IF FirstEpoch THEN [carried |-> << >>, record |-> NoTrend]
                      ELSE trend_append(carry.deltas, epoch_compare(LastReport, report))
             condition == dashboard_condition(alert.level, trend.record.class,
                                              sla_compliant(sla))
             capacity == gossip_capacity_append(carry.totals, report)
             advice == gossip_recovery_advise(report, alert.carried)
             unified == carry.unified
  <1>1. Advance(report, momentum.carried, alert, sla, capacity, advice, trend, condition,
                unified, seals)
    BY DEF GossipEpoch, gossip_epoch_report, gossip_alert_append, gossip_sla_append,
           gossip_trend_append, gossip_epoch_compare, gossip_dashboard_condition
  <1>2. GossipSealed(carry.seals, rows)
    BY DEF Books
  <1>3. inp.class \in 0..2 /\ inp.delivered \in Nat
    BY PipelineAssumption
  <1>4. /\ e.delivered = inp.delivered
        /\ e.red \in {0, 1} /\ e.yellow \in {0, 1} /\ e.green \in {0, 1}
        /\ e.red + e.yellow + e.green = 1
    BY <1>3 DEF gossip_epoch_seal, Byte
  <1> HIDE DEF e
  <1>5. /\ IsSeq(seals) /\ Len(seals) = Len(rows) + 1 /\ seals[Len(rows) + 1] = e
        /\ \A m \in 1..Len(rows) : seals[m] = carry.seals[m]
    <2>1. IsSeq(carry.seals) /\ Len(carry.seals) = Len(rows)
      BY <1>2 DEF GossipSealed
    <2>2. /\ IsSeq(Append(carry.seals, e))
          /\ Len(Append(carry.seals, e)) = Len(carry.seals) + 1
          /\ Append(carry.seals, e)[Len(carry.seals) + 1] = e
          /\ \A m \in 1..Len(carry.seals) : Append(carry.seals, e)[m] = carry.seals[m]
      BY <2>1, AppendSeq
    <2> QED BY <2>1, <2>2, Zenon
  <1> HIDE DEF seals, red_pct
  <1>6. report.total = inp.delivered
    BY DEF epoch_report, gossip_health
  <1>7. capacity = [carried |-> Slide(carry.totals, report.total, 4),
                    record |-> Projection(Slide(carry.totals, report.total, 4), Ceiling)]
    BY DEF gossip_capacity_append, Ceiling
  <1>8. PICK r : /\ Booked(r) /\ r.report = report /\ carry'.seals = seals
    <2>1. report.total \in Nat
      BY <1>3, <1>6
    <2> HIDE DEF momentum, report, capacity, advice, sla, condition, alert
    <2> QED BY <1>1, <1>7, <2>1, ReportBooked
  <1> HIDE DEF report
  <1>9. PICK a : a = Append(rows, r)
    OBVIOUS
  <1>10. /\ Len(rows) \in Nat /\ IsSeq(rows) /\ Len(a) = Len(rows) + 1 /\ a[Len(rows) + 1] = r
         /\ \A m \in 1..Len(rows) : P(a, m) = P(rows, m)
    <2>1. IsSeq(rows)
      BY DEF IInv
    <2> QED BY <1>9, <2>1, AppendSeq, TotalsFrame
  <1>11. ASSUME NEW m \in 1..(Len(rows) + 1)
         PROVE  /\ seals[m].delivered = P(a, m)
                /\ seals[m].red \in {0, 1} /\ seals[m].yellow \in {0, 1}
                /\ seals[m].green \in {0, 1}
                /\ seals[m].red + seals[m].yellow + seals[m].green = 1
    <2>1. CASE m = Len(rows) + 1
      <3>1. seals[m] = e /\ P(a, m) = inp.delivered
        BY <1>5, <1>6, <1>8, <1>10, <2>1 DEF P
      <3> QED BY <1>4, <3>1
    <2>2. CASE m \in 1..Len(rows)
      BY <1>2, <1>5, <1>10, <2>2 DEF GossipSealed
    <2> QED BY <1>10, <2>1, <2>2
  <1>12. GossipSealed(seals, a)
    BY <1>5, <1>10, <1>11 DEF GossipSealed
  <1> QED
    BY <1>8, <1>9, <1>12

\* An epoch keeps the books.
LEMMA BookedBooks ==
  ASSUME IInv, Books, NEW r, Booked(r),
         side = "compaction" => PruneSealed(carry'.unified, carry'.seals, Append(rows, r)),
         side = "gossip" => GossipSealed(carry'.seals, Append(rows, r))
  PROVE  Books'
  <1>1. PICK a : a = Append(rows, r)
    OBVIOUS
  <1>2. rows' = a /\ side' = side /\ DOMAIN a = 1..(Len(rows) + 1)
    <2>1. IsSeq(rows)
      BY DEF IInv
    <2> QED BY <1>1, <2>1, AppendSeq DEF Booked
  <1>3. Ceiling' = Ceiling
    BY <1>2 DEF Ceiling
  <1>4. carry'.totals = Newest(Totals(a))
    BY <1>1, BookedBalances
  <1>5. \A n \in DOMAIN a : Balanced(a, n, Ceiling)
    BY <1>1, <1>2, BookedBalances
  <1> QED
    BY <1>1, <1>2, <1>3, <1>4, <1>5 DEF Books

\* No epoch yet: empty books.
LEMMA InitBooks == Init => Books
  <1>1. SUFFICES ASSUME Init PROVE Books
    OBVIOUS
  <1>2. /\ rows = << >> /\ carry.totals = << >> /\ carry.unified = << >> /\ carry.seals = << >>
    BY <1>1 DEF Init
  <1>3. IsSeq(<< >>) /\ Len(rows) = 0 /\ DOMAIN rows = {}
    BY <1>2 DEF IsSeq
  <1>4. Totals(rows) = << >> /\ Newest(<< >>) = << >>
    BY <1>2, <1>3 DEF Totals, Newest, Kept, AtMost
  <1>5. PruneSealed(<< >>, << >>, rows) /\ GossipSealed(<< >>, rows)
    BY <1>2, <1>3 DEF PruneSealed, GossipSealed
  <1> QED
    BY <1>2, <1>3, <1>4, <1>5 DEF Books

\* The books are right in every reachable state.
THEOREM BooksHold == Spec => []Books
  <1>1. ASSUME IInv, Books, Next PROVE Books'
    <2>1. CASE side = "compaction" /\ \E inp \in PruneInputs : CompactionEpoch(inp)
      <3>1. PICK r : Booked(r) /\ PruneSealed(carry'.unified, carry'.seals, Append(rows, r))
        BY <1>1, <2>1, CompactionBooked
      <3> QED BY <1>1, <2>1, <3>1, BookedBooks
    <2>2. CASE side = "gossip" /\ \E inp \in GossipInputs : GossipEpoch(inp)
      <3>1. PICK r : Booked(r) /\ GossipSealed(carry'.seals, Append(rows, r))
        BY <1>1, <2>2, GossipBooked
      <3> QED BY <1>1, <2>2, <3>1, BookedBooks
    <2> QED BY <1>1, <2>1, <2>2 DEF Next
  <1>2. ASSUME Books, UNCHANGED vars PROVE Books'
    BY <1>2 DEF Books, Ceiling, vars
  <1> QED
    BY <1>1, <1>2, InitBooks, InvariantHolds, PTL DEF Spec

-----------------------------------------------------------------------------
(* Certificates. *)

\* A number within its width is what its bits say.
LEMMA WrapFits ==
  ASSUME NEW m \in Nat, NEW n \in 0..m
  PROVE  n % (m + 1) = n
  OBVIOUS

\* What Share says of parts that fit.
Percent(part, whole) == AtMost((part * 100) \div whole, 100)

\* Three parts of a whole, in whole percents, lose less than three.
LEMMA ThreeShares ==
  ASSUME NEW a \in Nat, NEW b \in Nat, NEW c \in Nat, NEW t \in Nat \ {0}, a + b + c = t
  PROVE  Percent(a, t) + Percent(b, t) + Percent(c, t) \in 98..100
  <1>1. PICK i, j, k : i = (a * 100) \div t /\ j = (b * 100) \div t /\ k = (c * 100) \div t
    OBVIOUS
  <1>2. a * 100 \in Nat /\ b * 100 \in Nat /\ c * 100 \in Nat
    OBVIOUS
  <1>3. /\ i \in Nat /\ i * t <= a * 100 /\ a * 100 < (i + 1) * t
        /\ j \in Nat /\ j * t <= b * 100 /\ b * 100 < (j + 1) * t
        /\ k \in Nat /\ k * t <= c * 100 /\ c * 100 < (k + 1) * t
    <2>1. ASSUME NEW x \in Nat
          PROVE  x \div t \in Nat /\ (x \div t) * t <= x /\ x < ((x \div t) + 1) * t
      BY DivBracket, Zenon
    <2>2. \A x \in Nat : \A y : y = x \div t => y \in Nat /\ y * t <= x /\ x < (y + 1) * t
      BY <2>1, Zenon
    <2> QED BY <1>1, <1>2, <2>2, Zenon
  <1>4. PICK q \in Nat : q = i + j + k
    BY <1>3
  <1>5. /\ i * t \in Nat /\ j * t \in Nat /\ k * t \in Nat
        /\ (i + 1) * t = i * t + t /\ (j + 1) * t = j * t + t /\ (k + 1) * t = k * t + t
        /\ q * t = i * t + j * t + k * t
    BY <1>3, <1>4
  <1>6. PICK p \in Nat : p = q * t
    BY <1>4
  <1>7. p <= 100 * t /\ 100 * t < p + 3 * t
    BY <1>3, <1>5, <1>6
  <1>8. q <= 100
    <2>1. SUFFICES ASSUME q > 100 PROVE FALSE
      BY <1>4
    <2>2. PICK d \in Nat : q = 101 + d
      <3>1. q - 101 \in Nat /\ q = 101 + (q - 101)
        BY <1>4, <2>1
      <3> QED BY <3>1
    <2>3. q * t = 101 * t + d * t /\ d * t \in Nat
      BY <2>2
    <2> QED BY <1>6, <1>7, <2>3
  <1>9. q >= 98
    <2>1. SUFFICES ASSUME q < 98 PROVE FALSE
      BY <1>4
    <2>2. PICK d \in Nat : d + q = 97
      <3>1. 97 - q \in Nat /\ (97 - q) + q = 97
        BY <1>4, <2>1
      <3> QED BY <3>1
    <2>3. d * t + q * t = 97 * t /\ d * t \in Nat
      <3>1. d * t + q * t = (d + q) * t /\ d * t \in Nat
        BY <1>4, <2>2
      <3> QED BY <2>2, <3>1
    <2> QED BY <1>6, <1>7, <2>3
  <1>10. i <= 100 /\ j <= 100 /\ k <= 100
    BY <1>3, <1>4, <1>8
  <1>11. Percent(a, t) = i /\ Percent(b, t) = j /\ Percent(c, t) = k
    BY <1>1, <1>3, <1>10 DEF AtMost, Percent
  <1> QED
    BY <1>4, <1>8, <1>9, <1>11

\* Three columns of n counts and the column of their sums.
Columns(n, a, b, c, d) ==
    /\ a = [i \in 1..n |-> a[i]] /\ b = [i \in 1..n |-> b[i]]
    /\ c = [i \in 1..n |-> c[i]] /\ d = [i \in 1..n |-> d[i]]
    /\ \A i \in 1..n : /\ a[i] \in Nat /\ b[i] \in Nat /\ c[i] \in Nat
                       /\ d[i] = a[i] + b[i] + c[i]

\* The sum of three columns.
LEMMA ThreeColumns ==
  ASSUME NEW n \in Nat, NEW a, NEW b, NEW c, NEW d, Columns(n, a, b, c, d)
  PROVE  /\ Total(a) \in Nat /\ Total(b) \in Nat /\ Total(c) \in Nat
         /\ Total(d) = Total(a) + Total(b) + Total(c)
  <1> USE DEF Columns
  <1>1. PICK e : e = [i \in 1..n |-> a[i] + b[i]]
    OBVIOUS
  <1>2. e = [i \in 1..n |-> e[i]] /\ \A i \in 1..n : e[i] = a[i] + b[i]
    BY <1>1
  <1>3. Len(a) = n /\ Len(b) = n /\ Len(c) = n
    BY FunctionIsSeq
  <1>4. Len(d) = n /\ Len(e) = n
    BY <1>2, FunctionIsSeq
  <1>5. /\ Total(a) \in Nat /\ Total(b) \in Nat /\ Total(c) \in Nat
    BY <1>3, TotalType
  <1>6. Total(e) = Total(a) + Total(b)
    <2>1. /\ Len(e) \in Nat /\ Len(a) = Len(e) /\ Len(b) = Len(e)
          /\ \A i \in 1..Len(e) : a[i] \in Int /\ b[i] \in Int /\ e[i] = a[i] + b[i]
      BY <1>2, <1>3, <1>4
    <2> QED BY <2>1, TotalOfSums, Zenon
  <1>7. Total(d) = Total(e) + Total(c)
    <2>1. /\ Len(d) \in Nat /\ Len(e) = Len(d) /\ Len(c) = Len(d)
          /\ \A i \in 1..Len(d) : e[i] \in Int /\ c[i] \in Int /\ d[i] = e[i] + c[i]
      BY <1>2, <1>3, <1>4
    <2> QED BY <2>1, TotalOfSums, Zenon
  <1> QED
    BY <1>5, <1>6, <1>7

\* The sum of n ones.
LEMMA TotalOfOnes ==
  ASSUME NEW n \in Nat, NEW d, d = [i \in 1..n |-> d[i]], \A i \in 1..n : d[i] = 1
  PROVE  Total(d) = n
  <1>1. PICK h : h = [i \in 0..n |-> i]
    OBVIOUS
  <1>2. /\ \A i \in 0..n : h[i] = i
        /\ \A i \in 1..n : i - 1 \in 0..n /\ i \in 0..n
        /\ n \in 0..n /\ 0 \in 0..n
    BY <1>1
  <1>3. Len(d) = n
    BY FunctionIsSeq
  <1>4. \A i \in 1..n : d[i] = h[i] - h[i - 1]
    BY <1>2
  <1>5. Total(d) = h[n] - h[0]
    BY <1>2, <1>3, <1>4, TotalTelescopes
  <1> QED
    BY <1>2, <1>5

\* What the compaction side certifies.
LEMMA PruneCertified ==
  ASSUME IInv, Books, side = "compaction", rows # << >>
  PROVE  LET all == Total([n \in DOMAIN rows |-> PruneTotal(n)])
             cert == certify_window(carry.seals, TRUE)
             frame == telemetry_encode(cert)
         IN  /\ all <= U64Max => cert.totals.total = all
             /\ all \in 1..(U64Max \div 100) =>
                  frame.spsf_pct + frame.health_pct + frame.res_pct \in 98..100
  <1>1. PICK n, u, d : n = Len(rows) /\ u = carry.unified /\ d = [m \in 1..n |-> PruneTotal(m)]
    OBVIOUS
  <1>2. /\ n \in Nat \ {0} /\ DOMAIN rows = 1..n
        /\ IsSeq(u) /\ Len(u) = n /\ DOMAIN u = 1..n
        /\ \A m \in 1..n : Counts3(u[m]) /\ P(rows, m) = u[m].spsf + u[m].health + u[m].resonance
    <2>1. IsSeq(rows) /\ PruneSealed(u, carry.seals, rows)
      BY <1>1 DEF IInv, Books
    <2>2. n \in Nat /\ DOMAIN rows = 1..n
      BY <1>1, <2>1, SeqFacts
    <2>3. n # 0
      BY <1>1, <2>1 DEF IsSeq
    <2> QED BY <1>1, <2>1, <2>2, <2>3, SeqFacts DEF PruneSealed
  <1>3. IsSeq(carry.seals) /\ Len(carry.seals) = n /\ carry.seals[n] = SealOf(u)
    BY <1>1, <1>2 DEF Books, PruneSealed
  <1>4. PICK a, b, c : /\ a = [i \in DOMAIN u |-> u[i]["spsf"]]
                       /\ b = [i \in DOMAIN u |-> u[i]["health"]]
                       /\ c = [i \in DOMAIN u |-> u[i]["resonance"]]
    OBVIOUS
  <1>5. PICK A, B, C, all : A = Total(a) /\ B = Total(b) /\ C = Total(c) /\ all = Total(d)
    OBVIOUS
  <1>6. A \in Nat /\ B \in Nat /\ C \in Nat /\ all = A + B + C
    <2>1. /\ a = [i \in 1..n |-> a[i]] /\ b = [i \in 1..n |-> b[i]] /\ c = [i \in 1..n |-> c[i]]
          /\ \A i \in 1..n : a[i] = u[i].spsf /\ b[i] = u[i].health /\ c[i] = u[i].resonance
      BY <1>2, <1>4
    <2>2. d = [i \in 1..n |-> d[i]] /\ \A i \in 1..n : d[i] = P(rows, i)
      BY <1>1 DEF PruneTotal, P
    <2>3. \A i \in 1..n : /\ a[i] \in Nat /\ b[i] \in Nat /\ c[i] \in Nat
                          /\ d[i] = a[i] + b[i] + c[i]
      BY <1>2, <2>1, <2>2 DEF Counts3
    <2>4. /\ Total(a) \in Nat /\ Total(b) \in Nat /\ Total(c) \in Nat
          /\ Total(d) = Total(a) + Total(b) + Total(c)
      <3>1. n \in Nat
        BY <1>2
      <3>2. Columns(n, a, b, c, d)
        BY <2>1, <2>2, <2>3, Zenon DEF Columns
      <3> QED BY <3>1, <3>2, ThreeColumns
    <2> QED BY <1>5, <2>4
  <1>7. PICK cert, t : cert = certify_window(carry.seals, TRUE) /\ t = cert.totals
    OBVIOUS
  <1>8. t = epoch_seal(AsU64(A), AsU64(B), AsU64(C))
    <2>1. carry.seals # << >>
      BY <1>2, <1>3
    <2>2. t = SealOf(u)
      BY <1>3, <1>7, <2>1 DEF certify_window
    <2> QED BY <1>4, <1>5, <2>2 DEF SealOf, unified_total
  <1>9. U64Max \in Nat
    BY ThresholdsAssumption
  <1>10. ASSUME all <= U64Max
         PROVE  t.total = all /\ t.spsf = A /\ t.health = B /\ t.resonance = C
    <2>1. A \in 0..U64Max /\ B \in 0..U64Max /\ C \in 0..U64Max
      BY <1>6, <1>9, <1>10
    <2>2. AsU64(A) = A /\ AsU64(B) = B /\ AsU64(C) = C
      BY <1>9, <2>1, WrapFits DEF AsU64
    <2>3. t = epoch_seal(A, B, C)
      BY <1>8, <2>2
    <2>4. AtMost(A + B, U64Max) = A + B
      BY <1>6, <1>9, <1>10 DEF AtMost
    <2>5. AtMost((A + B) + C, U64Max) = all
      BY <1>6, <1>9, <1>10 DEF AtMost
    <2> QED BY <2>3, <2>4, <2>5 DEF epoch_seal
  <1>11. PICK frame : frame = telemetry_encode(cert)
    OBVIOUS
  <1>12. ASSUME all \in 1..(U64Max \div 100)
         PROVE  frame.spsf_pct + frame.health_pct + frame.res_pct \in 98..100
    <2>1. 100 * all <= U64Max /\ all <= U64Max /\ all \in Nat \ {0}
      BY <1>6, <1>9, <1>12
    <2>2. /\ frame.spsf_pct = Share(A, all) /\ frame.health_pct = Share(B, all)
          /\ frame.res_pct = Share(C, all)
      BY <1>7, <1>10, <1>11, <2>1 DEF telemetry_encode
    <2>3. A * 100 \in 0..U64Max /\ B * 100 \in 0..U64Max /\ C * 100 \in 0..U64Max
      BY <1>6, <1>9, <2>1
    <2>4. AsU64(A * 100) = A * 100 /\ AsU64(B * 100) = B * 100 /\ AsU64(C * 100) = C * 100
      BY <1>9, <2>3, WrapFits DEF AsU64
    <2>5. AtLeastOne(all) = all
      BY <2>1 DEF AtLeastOne
    <2>6. /\ frame.spsf_pct = Percent(A, all) /\ frame.health_pct = Percent(B, all)
          /\ frame.res_pct = Percent(C, all)
      BY <2>2, <2>4, <2>5 DEF Share, Percent
    <2> QED BY <1>6, <2>1, <2>6, ThreeShares
  <1> QED
    BY <1>1, <1>2, <1>5, <1>7, <1>10, <1>11, <1>12

\* What the gossip side certifies.
LEMMA GossipCertified ==
  ASSUME IInv, Books, side = "gossip", rows # << >>
  PROVE  LET all == Total([n \in DOMAIN rows |-> PruneTotal(n)])
             cert == gossip_certify_window(carry.seals, TRUE)
             frame == gossip_telemetry_encode(cert)
         IN  /\ all <= U64Max => cert.delivered = all
             /\ Len(rows) <= U32Max =>
                  /\ cert.red + cert.yellow + cert.green = cert.epoch_count
                  /\ frame.red_pct + frame.yellow_pct + frame.green_pct \in 98..100
  <1>1. PICK n, g, d : n = Len(rows) /\ g = carry.seals /\ d = [m \in 1..n |-> PruneTotal(m)]
    OBVIOUS
  <1>2. /\ n \in Nat \ {0} /\ DOMAIN rows = 1..n
        /\ IsSeq(g) /\ Len(g) = n /\ DOMAIN g = 1..n
        /\ \A m \in 1..n :
              /\ g[m].delivered = P(rows, m) /\ P(rows, m) \in Nat
              /\ g[m].red \in {0, 1} /\ g[m].yellow \in {0, 1} /\ g[m].green \in {0, 1}
              /\ g[m].red + g[m].yellow + g[m].green = 1
    <2>1. IsSeq(rows) /\ GossipSealed(g, rows)
      BY <1>1 DEF IInv, Books
    <2>2. n \in Nat /\ DOMAIN rows = 1..n
      BY <1>1, <2>1, SeqFacts
    <2>3. n # 0
      BY <1>1, <2>1 DEF IsSeq
    <2>4. \A m \in 1..n : P(rows, m) \in Nat
      BY <2>2 DEF Books, Balanced
    <2> QED BY <1>1, <2>1, <2>2, <2>3, <2>4, SeqFacts DEF GossipSealed
  <1>3. PICK a, b, c, e : /\ a = [i \in DOMAIN g |-> g[i]["red"]]
                          /\ b = [i \in DOMAIN g |-> g[i]["yellow"]]
                          /\ c = [i \in DOMAIN g |-> g[i]["green"]]
                          /\ e = [i \in DOMAIN g |-> g[i]["delivered"]]
    OBVIOUS
  <1>4. PICK A, B, C, all : A = Total(a) /\ B = Total(b) /\ C = Total(c) /\ all = Total(d)
    OBVIOUS
  <1>5. A \in Nat /\ B \in Nat /\ C \in Nat /\ A + B + C = n
    <2>1. /\ a = [i \in 1..n |-> a[i]] /\ b = [i \in 1..n |-> b[i]] /\ c = [i \in 1..n |-> c[i]]
          /\ \A i \in 1..n : a[i] = g[i].red /\ b[i] = g[i].yellow /\ c[i] = g[i].green
      BY <1>2, <1>3
    <2>2. PICK o : o = [i \in 1..n |-> 1]
      OBVIOUS
    <2>3. o = [i \in 1..n |-> o[i]] /\ \A i \in 1..n : o[i] = 1
      BY <2>2
    <2>4. \A i \in 1..n : /\ a[i] \in Nat /\ b[i] \in Nat /\ c[i] \in Nat
                          /\ o[i] = a[i] + b[i] + c[i]
      <3>1. SUFFICES ASSUME NEW i \in 1..n
            PROVE  /\ a[i] \in Nat /\ b[i] \in Nat /\ c[i] \in Nat
                   /\ o[i] = a[i] + b[i] + c[i]
        OBVIOUS
      <3>2. a[i] = g[i].red /\ b[i] = g[i].yellow /\ c[i] = g[i].green /\ o[i] = 1
        BY <2>1, <2>3
      <3>3. /\ g[i].red \in Nat /\ g[i].yellow \in Nat /\ g[i].green \in Nat
            /\ g[i].red + g[i].yellow + g[i].green = 1
        BY <1>2
      <3> QED BY <3>2, <3>3
    <2>5. Total(o) = n
      BY <1>2, <2>3, TotalOfOnes
    <2>6. /\ Total(a) \in Nat /\ Total(b) \in Nat /\ Total(c) \in Nat
          /\ Total(o) = Total(a) + Total(b) + Total(c)
      <3>1. n \in Nat
        BY <1>2
      <3>2. Columns(n, a, b, c, o)
        BY <2>1, <2>3, <2>4, Zenon DEF Columns
      <3> QED BY <3>1, <3>2, ThreeColumns
    <2> QED BY <1>4, <2>5, <2>6
  <1>6. e = d
    BY <1>1, <1>2, <1>3 DEF PruneTotal, P
  <1>7. all \in Nat
    <2>1. d = [i \in 1..n |-> d[i]] /\ \A i \in 1..n : d[i] \in Nat
      BY <1>1, <1>2 DEF PruneTotal, P
    <2>2. Len(d) = n
      BY <1>2, <2>1, FunctionIsSeq
    <2> QED BY <1>2, <1>4, <2>1, <2>2, TotalType
  <1>8. PICK cert : cert = gossip_certify_window(g, TRUE)
    OBVIOUS
  <1>9. /\ cert.epoch_count = n /\ cert.delivered = AsU64(all)
        /\ cert.red = AsU32(A) /\ cert.yellow = AsU32(B) /\ cert.green = AsU32(C)
    BY <1>2, <1>3, <1>4, <1>6, <1>8 DEF gossip_certify_window
  <1>10. U64Max \in Nat /\ U32Max \in Nat /\ U64Max >= 100 * U32Max
    BY ThresholdsAssumption, U32MaxAssumption
  <1>11. ASSUME all <= U64Max PROVE cert.delivered = all
    <2>1. all \in 0..U64Max
      BY <1>7, <1>10, <1>11
    <2> QED BY <1>9, <1>10, <2>1, WrapFits DEF AsU64
  <1>12. PICK frame : frame = gossip_telemetry_encode(cert)
    OBVIOUS
  <1>13. ASSUME n <= U32Max
         PROVE  /\ cert.red + cert.yellow + cert.green = cert.epoch_count
                /\ frame.red_pct + frame.yellow_pct + frame.green_pct \in 98..100
    <2>1. A \in 0..U32Max /\ B \in 0..U32Max /\ C \in 0..U32Max
      BY <1>2, <1>5, <1>10, <1>13
    <2>2. AsU32(A) = A /\ AsU32(B) = B /\ AsU32(C) = C
      BY <1>10, <2>1, WrapFits DEF AsU32
    <2>3. A * 100 \in 0..U64Max /\ B * 100 \in 0..U64Max /\ C * 100 \in 0..U64Max
      BY <1>10, <2>1
    <2>4. AsU64(A * 100) = A * 100 /\ AsU64(B * 100) = B * 100 /\ AsU64(C * 100) = C * 100
      BY <1>10, <2>3, WrapFits DEF AsU64
    <2>5. AtLeastOne(n) = n
      BY <1>2 DEF AtLeastOne
    <2>6. /\ frame.red_pct = Percent(A, n) /\ frame.yellow_pct = Percent(B, n)
          /\ frame.green_pct = Percent(C, n)
      BY <1>9, <1>12, <2>2, <2>4, <2>5 DEF gossip_telemetry_encode, Share, Percent
    <2>7. Percent(A, n) + Percent(B, n) + Percent(C, n) \in 98..100
      BY <1>2, <1>5, ThreeShares
    <2> QED BY <1>5, <1>9, <2>2, <2>6, <2>7
  <1> QED
    BY <1>1, <1>2, <1>4, <1>8, <1>11, <1>12, <1>13

\* What trends, projections and certificates say of the totals adds up to the
\* totals of the epochs, for any inputs, thresholds and number of epochs whose
\* counts fit their widths.
THEOREM TotalsCorrect == Spec => []TotalsTelescope
  <1>1. ASSUME IInv, Books PROVE TotalsTelescope
    <2>1. ASSUME NEW n \in DOMAIN rows
          PROVE  /\ n \in Nat \ {0} /\ Netted(rows, n) /\ Bracketed(rows, n, Ceiling)
                 /\ EpochsBack(n, 3) = Since(n, 3) /\ EpochsBack(n, 4) = Since(n, 4)
      <3>1. n \in Nat \ {0}
        BY <1>1, SeqFacts DEF IInv
      <3>2. Netted(rows, n) /\ Bracketed(rows, n, Ceiling)
        BY <1>1 DEF Books, Balanced
      <3> QED BY <3>1, <3>2, EpochsBackIs
    <2>2. TrendTelescopes
      BY <2>1 DEF TrendTelescopes, Netted, PruneTotal, P
    <2>3. ProjectionBrackets
      <3>1. ASSUME NEW n \in DOMAIN rows
            PROVE  Max({1, n - EpochsBack(n, 3)})
                     = IF n - Since(n, 3) > 1 THEN n - Since(n, 3) ELSE 1
        <4>1. Max({1, n - Since(n, 3)}) = Since(n, Since(n, 3))
          <5>1. n \in Int /\ Since(n, 3) \in Int
            BY <2>1 DEF Since
          <5> QED BY <5>1, EpochsBackIs, Zenon DEF EpochsBack
        <4> QED BY <2>1, <4>1 DEF Since
      <3> QED BY <2>1, <3>1 DEF ProjectionBrackets, Bracketed, PruneTotal, P
    <2>4. CertificateAccounts
      <3>1. side \in {"compaction", "gossip"}
        BY <1>1 DEF IInv
      <3>2. CASE side = "compaction"
        BY <1>1, <3>2, PruneCertified DEF CertificateAccounts
      <3>3. CASE side = "gossip"
        BY <1>1, <3>3, GossipCertified DEF CertificateAccounts
      <3> QED BY <3>1, <3>2, <3>3
    <2> QED BY <2>2, <2>3, <2>4 DEF TotalsTelescope
  <1> QED
    BY <1>1, InvariantHolds, BooksHold, PTL
=============================================================================
