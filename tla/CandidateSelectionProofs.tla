---------------------- MODULE CandidateSelectionProofs ----------------------
(***************************************************************************)
(* Proofs about the selection of a judge, for any number of processes,     *)
(* workers, candidates and bindings, any corpora and any number of starts: *)
(* who pays for what, what the files in the directory say, that the        *)
(* ranking believes what the aggregation made, and that the published      *)
(* order is one.  First the arithmetic of the summaries, then the          *)
(* comparison of two of them and the ranking, then the processes.          *)
(***************************************************************************)
EXTENDS CandidateSelection, FiniteSetTheorems, FunctionTheorems, WellFoundedInduction,
        TLAPS

-----------------------------------------------------------------------------
(* A set of numbers has a least one.                                       *)
LEMMA LeastNat ==
    ASSUME NEW S, S \subseteq Nat, S # {}
    PROVE  \E n \in S : \A m \in S : n <= m
<1>1. IsWellFoundedOn(OpToRel(<, Nat), Nat)
  BY NatLessThanWellFounded, Zenon
<1>2. PICK n \in S : \A m \in S : <<m, n>> \notin OpToRel(<, Nat)
  BY <1>1, WFMin, Zenon
<1>3. ASSUME NEW m \in S
      PROVE  n <= m
  <2>1. m \in Nat /\ n \in Nat
    OBVIOUS
  <2>2. ~(m < n)
    BY <1>2, <1>3, <2>1 DEF OpToRel
  <2> QED
    BY <2>1, <2>2
<1> QED
  BY <1>3

(* A part of a finite set: how many it has.                                 *)
LEMMA PartSize ==
    ASSUME NEW S, IsFiniteSet(S), NEW T, T \subseteq S
    PROVE  /\ IsFiniteSet(T)
           /\ Cardinality(T) \in Nat /\ Cardinality(S) \in Nat
           /\ Cardinality(T) <= Cardinality(S)
           /\ T # S => Cardinality(T) < Cardinality(S)
<1>1. /\ IsFiniteSet(T) /\ Cardinality(T) <= Cardinality(S)
      /\ Cardinality(S) = Cardinality(T) => S = T
  BY FS_Subset
<1>2. Cardinality(T) \in Nat
  BY <1>1, FS_CardinalityType
<1>3. Cardinality(S) \in Nat
  BY FS_CardinalityType
<1> QED
  BY <1>1, <1>2, <1>3

-----------------------------------------------------------------------------
(* The fastest of some attempts, and the slowest.                           *)
LEMMA Fastest ==
    ASSUME NEW attempts, NEW I, I # {}, \A i \in I : attempts[i].latency \in Nat
    PROVE  \E i \in I : \A j \in I : attempts[i].latency <= attempts[j].latency
<1> DEFINE S == {attempts[i].latency : i \in I}
<1>1. S \subseteq Nat /\ S # {}
  OBVIOUS
<1>2. PICK l \in S : \A m \in S : l <= m
  <2> HIDE DEF S
  <2> QED
    BY <1>1, LeastNat
<1> QED
  BY <1>2

LEMMA Slowest ==
    ASSUME NEW attempts, NEW I, I # {}, IsFiniteSet(I),
           \A i \in I : attempts[i].latency \in Nat
    PROVE  \E i \in I : \A j \in I : attempts[j].latency <= attempts[i].latency
<1> DEFINE Slower(i) == {j \in I : attempts[i].latency < attempts[j].latency}
           S == {Cardinality(Slower(i)) : i \in I}
<1>1. \A i \in I : IsFiniteSet(Slower(i)) /\ Cardinality(Slower(i)) \in Nat
  <2> TAKE i \in I
  <2>1. Slower(i) \subseteq I
    OBVIOUS
  <2> HIDE DEF Slower
  <2> QED
    BY <2>1, PartSize
<1>2. PICK i \in I : \A k \in I : Cardinality(Slower(i)) <= Cardinality(Slower(k))
  <2>1. S \subseteq Nat /\ S # {}
    BY <1>1
  <2>2. PICK n \in S : \A m \in S : n <= m
    <3> HIDE DEF S
    <3> QED
      BY <2>1, LeastNat
  <2> QED
    BY <2>2
<1>3. ASSUME NEW j \in I, attempts[i].latency < attempts[j].latency
      PROVE  FALSE
  <2>1. Slower(j) \subseteq Slower(i)
    <3> SUFFICES ASSUME NEW k \in I, attempts[j].latency < attempts[k].latency
                 PROVE  attempts[i].latency < attempts[k].latency
      OBVIOUS
    <3>1. /\ attempts[i].latency \in Nat /\ attempts[j].latency \in Nat
          /\ attempts[k].latency \in Nat
      OBVIOUS
    <3> QED
      BY <1>3, <3>1
  <2>2. j \in Slower(i) /\ j \notin Slower(j)
    BY <1>3
  <2> HIDE DEF Slower
  <2>3. Cardinality(Slower(j)) < Cardinality(Slower(i))
    BY <1>1, <2>1, <2>2, PartSize
  <2> QED
    BY <1>1, <1>2, <2>3
<1>4. ASSUME NEW j \in I
      PROVE  attempts[j].latency <= attempts[i].latency
  <2>1. attempts[i].latency \in Nat /\ attempts[j].latency \in Nat
    OBVIOUS
  <2> QED
    BY <1>3, <2>1
<1> QED
  BY <1>4

(* There is a k-th by latency, for every k up to how many there are: the    *)
(* fastest that k are not slower than.                                      *)
NotSlower(attempts, I, l) == {i \in I : attempts[i].latency <= l}
Faster(attempts, I, l) == {i \in I : attempts[i].latency < l}

LEMMA LatencyAtIs ==
    ASSUME NEW attempts, NEW I, IsFiniteSet(I),
           \A i \in I : attempts[i].latency \in Nat,
           NEW k \in 1..Cardinality(I)
    PROVE  /\ LatencyAt(attempts, I, k) \in Nat
           /\ Cardinality(Faster(attempts, I, LatencyAt(attempts, I, k))) < k
           /\ k <= Cardinality(NotSlower(attempts, I, LatencyAt(attempts, I, k)))
<1> DEFINE J == {i \in I : k <= Cardinality(NotSlower(attempts, I, attempts[i].latency))}
<1>0. Cardinality(I) \in Nat /\ k \in Nat /\ 1 <= k /\ k <= Cardinality(I)
  BY FS_CardinalityType
<1>1. \A l : /\ NotSlower(attempts, I, l) \subseteq I
             /\ Faster(attempts, I, l) \subseteq I
             /\ Cardinality(NotSlower(attempts, I, l)) \in Nat
             /\ Cardinality(Faster(attempts, I, l)) \in Nat
  <2> TAKE l
  <2>1. /\ NotSlower(attempts, I, l) \subseteq I /\ Faster(attempts, I, l) \subseteq I
    BY DEF NotSlower, Faster
  <2> QED
    BY <2>1, PartSize
<1>2. J # {}
  <2>1. I # {}
    BY <1>0, FS_EmptySet
  <2>2. PICK i \in I : \A j \in I : attempts[j].latency <= attempts[i].latency
    BY <2>1, Slowest
  <2>3. NotSlower(attempts, I, attempts[i].latency) = I
    BY <2>2 DEF NotSlower
  <2> QED
    BY <1>0, <2>3
<1>3. PICK i \in J : \A j \in J : attempts[i].latency <= attempts[j].latency
  <2>1. \A j \in J : attempts[j].latency \in Nat
    OBVIOUS
  <2> HIDE DEF J
  <2> QED
    BY <1>2, <2>1, Fastest
<1> DEFINE l == attempts[i].latency
<1>4. i \in I /\ l \in Nat /\ k <= Cardinality(NotSlower(attempts, I, l))
  BY <1>3
<1>5. Cardinality(Faster(attempts, I, l)) < k
  <2> SUFFICES ASSUME k <= Cardinality(Faster(attempts, I, l))
               PROVE  FALSE
    BY <1>0, <1>1
  <2>1. Faster(attempts, I, l) # {}
    BY <1>0, FS_EmptySet
  <2>2. \A j \in Faster(attempts, I, l) : attempts[j].latency \in Nat
    BY <1>1
  <2>3. Faster(attempts, I, l) \subseteq I /\ IsFiniteSet(Faster(attempts, I, l))
    BY <1>1, FS_Subset
  <2>4. PICK j \in Faster(attempts, I, l) :
          \A m \in Faster(attempts, I, l) : attempts[m].latency <= attempts[j].latency
    BY <2>1, <2>2, <2>3, Slowest
  <2>5. Faster(attempts, I, l) \subseteq NotSlower(attempts, I, attempts[j].latency)
    BY <2>3, <2>4 DEF NotSlower
  <2>6. Cardinality(Faster(attempts, I, l))
          <= Cardinality(NotSlower(attempts, I, attempts[j].latency))
    BY <1>1, <2>5, FS_Subset
  <2>7. j \in J
    BY <1>0, <1>1, <2>3, <2>6
  <2>8. attempts[j].latency < l /\ attempts[j].latency \in Nat
    BY <2>2, <2>4 DEF Faster
  <2> QED
    BY <1>3, <1>4, <2>7, <2>8
<1>6. LatencyAt(attempts, I, k) \in {attempts[j].latency : j \in I}
      /\ Cardinality(Faster(attempts, I, LatencyAt(attempts, I, k))) < k
      /\ k <= Cardinality(NotSlower(attempts, I, LatencyAt(attempts, I, k)))
  <2>1. \E m \in {attempts[j].latency : j \in I} :
          /\ Cardinality({j \in I : attempts[j].latency < m}) < k
          /\ k <= Cardinality({j \in I : attempts[j].latency <= m})
    <3>1. l \in {attempts[j].latency : j \in I}
      BY <1>4
    <3> QED
      BY <1>4, <1>5, <3>1 DEF Faster, NotSlower
  <2>2. LET m == LatencyAt(attempts, I, k)
        IN  /\ m \in {attempts[j].latency : j \in I}
            /\ Cardinality({j \in I : attempts[j].latency < m}) < k
            /\ k <= Cardinality({j \in I : attempts[j].latency <= m})
    BY <2>1 DEF LatencyAt
  <2> QED
    BY <2>2 DEF Faster, NotSlower
<1> QED
  BY <1>6

(* The later by latency is not the faster.                                  *)
LEMMA LatencyAtGrows ==
    ASSUME NEW attempts, NEW I, IsFiniteSet(I),
           \A i \in I : attempts[i].latency \in Nat,
           NEW k \in 1..Cardinality(I), NEW m \in 1..Cardinality(I), k <= m
    PROVE  LatencyAt(attempts, I, k) <= LatencyAt(attempts, I, m)
<1>1. PICK a : a = LatencyAt(attempts, I, k)
  OBVIOUS
<1>2. PICK b : b = LatencyAt(attempts, I, m)
  OBVIOUS
<1>3. /\ a \in Nat /\ Cardinality(Faster(attempts, I, a)) < k
      /\ b \in Nat /\ m <= Cardinality(NotSlower(attempts, I, b))
  BY <1>1, <1>2, LatencyAtIs
<1>4. CASE b < a
  <2>1. NotSlower(attempts, I, b) \subseteq Faster(attempts, I, a)
        /\ Faster(attempts, I, a) \subseteq I
    BY <1>3, <1>4 DEF NotSlower, Faster
  <2>2. IsFiniteSet(Faster(attempts, I, a)) /\ Cardinality(Faster(attempts, I, a)) \in Nat
    BY <2>1, PartSize
  <2>3. /\ Cardinality(NotSlower(attempts, I, b)) \in Nat
        /\ Cardinality(NotSlower(attempts, I, b)) <= Cardinality(Faster(attempts, I, a))
    BY <2>1, <2>2, PartSize
  <2>4. k \in Int /\ m \in Int
    OBVIOUS
  <2> QED
    BY <1>3, <2>2, <2>3, <2>4
<1> QED
  BY <1>1, <1>2, <1>3, <1>4

(* Where a percentile stands among last + 1 values: between these two, and  *)
(* by so many hundredths above the lower one.                               *)
Low(last, percent) == (last * percent) \div 100
High(last, percent) == (last * percent + 99) \div 100
Rest(last, percent) == (last * percent) % 100

LEMMA Positions ==
    ASSUME NEW last \in Nat, NEW percent \in 0..100
    PROVE  /\ Low(last, percent) \in Nat /\ High(last, percent) \in Nat
           /\ Rest(last, percent) \in 0..99
           /\ last * percent = 100 * Low(last, percent) + Rest(last, percent)
           /\ Low(last, percent) <= High(last, percent) /\ High(last, percent) <= last
           /\ Rest(last, percent) = 0 => High(last, percent) = Low(last, percent)
           /\ Rest(last, percent) # 0 => High(last, percent) = Low(last, percent) + 1
<1>1. PICK position : position = last * percent
  OBVIOUS
<1>2. position \in Nat /\ position <= last * 100
  <2>1. percent \in Nat /\ percent <= 100
    OBVIOUS
  <2>2. last * percent \in Nat /\ last * (100 - percent) \in Nat
    BY <2>1
  <2>3. last * 100 = last * percent + last * (100 - percent)
    BY <2>1
  <2> QED
    BY <1>1, <2>2, <2>3
<1>3. PICK low, rest : low = position \div 100 /\ rest = position % 100
  OBVIOUS
<1>4. low \in Nat /\ rest \in 0..99 /\ position = 100 * low + rest
  BY <1>2, <1>3
<1>5. PICK high : high = (position + 99) \div 100
  OBVIOUS
<1>6. high \in Nat /\ (IF rest = 0 THEN high = low ELSE high = low + 1)
  BY <1>4, <1>5
<1>7. high <= last
  BY <1>2, <1>4, <1>6
<1> QED
  BY <1>1, <1>2, <1>3, <1>4, <1>5, <1>6, <1>7 DEF Low, High, Rest

(* A value between two others, in hundredths.                               *)
LEMMA Between ==
    ASSUME NEW l \in Nat, NEW u \in Nat, l <= u, NEW r \in 0..99, NEW s \in 0..99
    PROVE  /\ 100 * l + (u - l) * r \in Nat
           /\ 100 * l <= 100 * l + (u - l) * r
           /\ 100 * l + (u - l) * r <= 100 * u
           /\ r <= s => 100 * l + (u - l) * r <= 100 * l + (u - l) * s
<1>1. PICK d \in Nat : u = l + d
  <2>1. u - l \in Nat /\ u = l + (u - l)
    OBVIOUS
  <2> QED
    BY <2>1
<1>2. d * r \in Nat /\ d * s \in Nat /\ d * (100 - r) \in Nat
  OBVIOUS
<1>3. d * (100 - r) = 100 * d - d * r
  OBVIOUS
<1>4. ASSUME r <= s PROVE d * r <= d * s
  <2>1. s - r \in Nat /\ d * (s - r) \in Nat
    BY <1>4
  <2>2. d * s = d * r + d * (s - r)
    OBVIOUS
  <2> QED
    BY <1>2, <2>1, <2>2
<1>5. u - l = d
  BY <1>1
<1> QED
  BY <1>1, <1>2, <1>3, <1>4, <1>5

(* Attempts, finitely many, with their latencies.                           *)
Timed(attempts, I) == IsFiniteSet(I) /\ \A i \in I : attempts[i].latency \in Nat

InHundredths(x) == x = <<x[1], 100>> /\ x[1] \in Nat

(* A percentile is null when there is nothing to take it of, and the higher *)
(* of two is not the lower value.                                           *)
LEMMA PercentileGrows ==
    ASSUME NEW attempts, NEW I, NEW p \in 0..100, NEW q \in 0..100,
           Timed(attempts, I), I # {}, p <= q
    PROVE  /\ InHundredths(Percentile(attempts, I, p))
           /\ InHundredths(Percentile(attempts, I, q))
           /\ Percentile(attempts, I, p)[1] <= Percentile(attempts, I, q)[1]
<1>1. IsFiniteSet(I) /\ \A i \in I : attempts[i].latency \in Nat
  BY DEF Timed
<1>2. I # {}
  OBVIOUS
<1>3. QED
  <2>1. PICK last \in Nat : Cardinality(I) - 1 = last /\ Cardinality(I) = last + 1
    <3>1. Cardinality(I) \in Nat
      BY <1>1, FS_CardinalityType
    <3>2. Cardinality(I) # 0
      BY <1>1, <1>2, FS_EmptySet
    <3>3. Cardinality(I) - 1 \in Nat /\ Cardinality(I) = (Cardinality(I) - 1) + 1
      BY <3>1, <3>2
    <3> QED
      BY <3>3
  <2>2. PICK pl, ph, pr :
                pl = Low(last, p) /\ ph = High(last, p) /\ pr = Rest(last, p)
    OBVIOUS
  <2>3. PICK ql, qh, qr :
                ql = Low(last, q) /\ qh = High(last, q) /\ qr = Rest(last, q)
    OBVIOUS
  <2>4. /\ pl \in Nat /\ ph \in Nat /\ pr \in 0..99 /\ last * p = 100 * pl + pr
        /\ pl <= ph /\ ph <= last
        /\ pr = 0 => ph = pl
        /\ pr # 0 => ph = pl + 1
    BY <2>2, Positions
  <2>5. /\ ql \in Nat /\ qh \in Nat /\ qr \in 0..99 /\ last * q = 100 * ql + qr
        /\ ql <= qh /\ qh <= last
        /\ qr = 0 => qh = ql
        /\ qr # 0 => qh = ql + 1
    BY <2>3, Positions
  <2>6. 100 * pl + pr <= 100 * ql + qr
    <3>1. last * (q - p) \in Nat /\ last * q = last * p + last * (q - p)
      OBVIOUS
    <3>2. last * p \in Int /\ last * q \in Int
      OBVIOUS
    <3> QED
      BY <2>4, <2>5, <3>1, <3>2
  <2> DEFINE At(k) == LatencyAt(attempts, I, 1 + k)
  <2>7. \A k \in 0..last : At(k) \in Nat
    <3> TAKE k \in 0..last
    <3>1. 1 + k \in 1..Cardinality(I)
      BY <2>1
    <3> QED
      BY <1>1, <3>1, LatencyAtIs
  <2>8. \A k, m \in 0..last : k <= m => At(k) <= At(m)
    <3> TAKE k, m \in 0..last
    <3>1. /\ 1 + k \in 1..Cardinality(I) /\ 1 + m \in 1..Cardinality(I)
          /\ k <= m => 1 + k <= 1 + m
      BY <2>1
    <3> QED
      BY <1>1, <3>1, LatencyAtGrows
  <2>9. /\ Percentile(attempts, I, p)
             = <<100 * At(pl) + (At(ph) - At(pl)) * pr, 100>>
        /\ Percentile(attempts, I, q)
             = <<100 * At(ql) + (At(qh) - At(ql)) * qr, 100>>
    BY <1>2, <2>1, <2>2, <2>3 DEF Percentile, Rate, Low, High, Rest
  <2>10. /\ pl \in 0..last /\ ph \in 0..last /\ ql \in 0..last /\ qh \in 0..last
    BY <2>4, <2>5
  <2>11. PICK a, b, c, d : a = At(pl) /\ b = At(ph) /\ c = At(ql) /\ d = At(qh)
    OBVIOUS
  <2>12. a \in Nat /\ b \in Nat /\ c \in Nat /\ d \in Nat /\ a <= b /\ c <= d
    <3>1. At(pl) \in Nat /\ At(ph) \in Nat /\ At(ql) \in Nat /\ At(qh) \in Nat
      BY <2>7, <2>10
    <3>2. At(pl) <= At(ph) /\ At(ql) <= At(qh)
      BY <2>4, <2>5, <2>8, <2>10
    <3> QED
      BY <2>11, <3>1, <3>2
  <2>13. CASE pl < ql
    <3>1. ph <= ql
      BY <2>4, <2>5, <2>13
    <3>2. b <= c
      BY <2>8, <2>10, <2>11, <3>1
    <3>3. 100 * a + (b - a) * pr \in Nat /\ 100 * a + (b - a) * pr <= 100 * b
      BY <2>4, <2>12, Between
    <3>4. 100 * c + (d - c) * qr \in Nat /\ 100 * c <= 100 * c + (d - c) * qr
      BY <2>5, <2>12, Between
    <3>5. 100 * b <= 100 * c
      BY <2>12, <3>2
    <3>6. PICK x \in Nat, y \in Nat : x = 100 * a + (b - a) * pr /\ y = 100 * c + (d - c) * qr
      BY <3>3, <3>4
    <3>7. x <= y
      BY <2>12, <3>3, <3>4, <3>5, <3>6
    <3> QED
      BY <2>9, <2>11, <3>6, <3>7 DEF InHundredths
  <2>14. CASE pl = ql
    <3>1. pr <= qr /\ a = c
      BY <2>4, <2>5, <2>6, <2>11, <2>14
    <3>2. PICK e : e = IF qr = 0 THEN c ELSE d
      OBVIOUS
    <3>3. (b - a) * pr = (e - a) * pr /\ (d - c) * qr = (e - a) * qr
          /\ e \in Nat /\ a <= e
      <4>1. CASE qr = 0
        <5>1. pr = 0 /\ e = a /\ (e - a) \in Int
          BY <2>4, <2>12, <3>1, <3>2, <4>1
        <5>2. (b - a) * 0 = 0 /\ (e - a) * 0 = 0 /\ (d - c) * 0 = 0
          BY <2>12, <5>1
        <5> QED
          BY <2>12, <4>1, <5>1, <5>2
      <4>2. CASE qr # 0 /\ pr # 0
        <5>1. ph = qh /\ b = d /\ e = d
          BY <2>4, <2>5, <2>11, <2>14, <3>2, <4>2
        <5> QED
          BY <2>12, <3>1, <5>1
      <4>3. CASE qr # 0 /\ pr = 0
        <5>1. e = d
          BY <3>2, <4>3
        <5>2. (b - a) * 0 = 0 /\ (e - a) * 0 = 0
          BY <2>12, <5>1
        <5> QED
          BY <2>12, <3>1, <4>3, <5>1, <5>2
      <4> QED
        BY <4>1, <4>2, <4>3
    <3>4. /\ 100 * a + (e - a) * pr \in Nat /\ 100 * a + (e - a) * qr \in Nat
          /\ 100 * a + (e - a) * pr <= 100 * a + (e - a) * qr
      BY <2>4, <2>5, <2>12, <3>1, <3>3, Between
    <3>5. PICK x \in Nat, y \in Nat : x = 100 * a + (b - a) * pr /\ y = 100 * c + (d - c) * qr
                                  /\ x <= y
      BY <3>1, <3>3, <3>4
    <3> QED
      BY <2>9, <2>11, <3>5 DEF InHundredths
  <2>15. pl < ql \/ pl = ql
    BY <2>4, <2>5, <2>6
  <2> QED
    BY <2>13, <2>14, <2>15

(* A sequence, of whatever elements.                                        *)
IsSeq(s) == s \in Seq({s[i] : i \in DOMAIN s})

(* The attempts at the first cases of a corpus, as the aggregation accepts  *)
(* them.                                                                    *)
Aggregated(attempts) ==
    /\ IsSeq(attempts) /\ attempts # <<>>
    /\ \A i \in DOMAIN attempts : attempts[i].case = i
    /\ Aggregates(attempts, 1)

(* What the checks of the aggregation say of one attempt: what was let      *)
(* through was allowed by the judge, and what has a verdict was received.   *)
LEMMA AcceptedAttempts ==
    ASSUME NEW attempts, Aggregates(attempts, 1)
    PROVE  /\ Executed(attempts) \subseteq RawAllowed(attempts)
           /\ SchemaValid(attempts) \subseteq Received(attempts)
           /\ SchemaInvalid(attempts) \subseteq Received(attempts)
           /\ Catastrophic(attempts) \subseteq Forbidden(attempts)
           /\ \A i \in DOMAIN attempts : attempts[i].latency \in Nat
<1>1. \A i \in DOMAIN attempts :
        /\ AggregateAccepts(attempts[i].result)
        /\ attempts[i].data.tier = "catastrophic" => ~attempts[i].data.permitted
        /\ attempts[i].latency \in Nat
  BY DEF Aggregates
<1>2. Executed(attempts) \subseteq RawAllowed(attempts)
  <2> SUFFICES ASSUME NEW i \in DOMAIN attempts,
                      attempts[i].result.autonomous = "executed_without_human"
               PROVE  attempts[i].result.raw.decision = "allow"
    BY DEF Executed, RawAllowed
  <2>1. PICK t : t = attempts[i].result
    OBVIOUS
  <2>2. FailureFieldsAreConsistent(t) /\ VerdictFieldsAreConsistent(t)
        /\ OutcomeFieldsAreConsistent(t)
    BY <1>1, <2>1 DEF AggregateAccepts
  <2>3. t.kind = "allow"
    BY <2>1, <2>2 DEF OutcomeFieldsAreConsistent
  <2>4. t.schema_valid
    BY <2>2, <2>3 DEF FailureFieldsAreConsistent
  <2> QED
    BY <2>1, <2>2, <2>3, <2>4 DEF VerdictFieldsAreConsistent
<1>3. SchemaValid(attempts) \subseteq Received(attempts)
  <2> SUFFICES ASSUME NEW i \in DOMAIN attempts, attempts[i].result.schema_valid
               PROVE  attempts[i].result.stage \notin {"transport", "reviewer"}
    BY DEF SchemaValid, Received
  <2>1. PICK t : t = attempts[i].result
    OBVIOUS
  <2>2. FailureFieldsAreConsistent(t)
    BY <1>1, <2>1 DEF AggregateAccepts
  <2>3. t.stage = Null \/ t.stage = "normalizer"
    BY <2>1, <2>2 DEF FailureFieldsAreConsistent
  <2> QED
    BY <2>1, <2>3 DEF Null
<1>4. SchemaInvalid(attempts) \subseteq Received(attempts)
  BY DEF SchemaInvalid, Received
<1>5. Catastrophic(attempts) \subseteq Forbidden(attempts)
  BY <1>1 DEF Catastrophic, Forbidden, Permitted
<1> QED
  BY <1>1, <1>2, <1>3, <1>4, <1>5

(* A sequence that is not empty: where it is defined.                       *)
LEMMA SeqDomain ==
    ASSUME NEW s, IsSeq(s), s # <<>>
    PROVE  /\ Len(s) \in Nat \ {0} /\ DOMAIN s = 1..Len(s)
           /\ IsFiniteSet(DOMAIN s) /\ Cardinality(DOMAIN s) = Len(s)
<1>1. Len(s) \in Nat /\ DOMAIN s = 1..Len(s) /\ Len(s) # 0
  BY DEF IsSeq
<1>2. IsFiniteSet(1..Len(s)) /\ Cardinality(1..Len(s)) = Len(s)
  BY <1>1, FS_Interval
<1> QED
  BY <1>1, <1>2

(* The families of a run are finitely many.                                 *)
LEMMA FamiliesFinite ==
    ASSUME NEW attempts, IsSeq(attempts), attempts # <<>>
    PROVE  /\ IsFiniteSet(Families(attempts, DOMAIN attempts))
           /\ \A I : I \subseteq DOMAIN attempts =>
                Families(attempts, I) \subseteq Families(attempts, DOMAIN attempts)
<1> DEFINE all == Families(attempts, DOMAIN attempts)
           f == [i \in DOMAIN attempts |-> attempts[i].data.family]
<1>1. f \in Surjection(DOMAIN attempts, all)
  BY DEF Surjection, Families
<1>2. IsFiniteSet(all)
  <2> HIDE DEF f, all
  <2> QED
    BY <1>1, SeqDomain, FS_Surjection
<1> QED
  BY <1>2 DEF Families

(* A share of a whole, both of which are finite.                            *)
LEMMA Shares ==
    ASSUME NEW S, IsFiniteSet(S), NEW T, T \subseteq S, NEW U, U \subseteq T
    PROVE  LET x == Share(U, T)
           IN  /\ x[1] = Cardinality(U) /\ x[2] = Cardinality(T)
               /\ x[1] \in Nat /\ x[2] \in Nat /\ x[1] <= x[2]
<1>1. IsFiniteSet(T)
  BY FS_Subset
<1>2. /\ Cardinality(U) \in Nat /\ Cardinality(T) \in Nat
      /\ Cardinality(U) <= Cardinality(T)
  BY <1>1, PartSize
<1> QED
  BY <1>2 DEF Share, Rate

(* What a set has more than a part of it.                                   *)
LEMMA SizeOfRest ==
    ASSUME NEW S, IsFiniteSet(S), NEW T, T \subseteq S
    PROVE  Cardinality(S \ T) = Cardinality(S) - Cardinality(T)
<1>1. S \cap T = T
  OBVIOUS
<1> QED
  BY <1>1, FS_Difference

(* What the ranking demands of a summary, part by part.                     *)
LEMMA DenominatorsOfAggregated ==
    ASSUME NEW attempts, Aggregated(attempts)
    PROVE  DenominatorsAgree(Denominators(attempts))
<1>1. /\ Len(attempts) \in Nat \ {0} /\ DOMAIN attempts = 1..Len(attempts)
      /\ IsFiniteSet(DOMAIN attempts) /\ Cardinality(DOMAIN attempts) = Len(attempts)
  BY SeqDomain DEF Aggregated
<1>2. Cases(attempts, DOMAIN attempts) = DOMAIN attempts
  BY DEF Cases, Aggregated
<1>3. /\ SchemaValid(attempts) \subseteq Received(attempts)
      /\ Received(attempts) \subseteq DOMAIN attempts
  BY AcceptedAttempts DEF Aggregated, Received
<1>4. /\ IsFiniteSet(Received(attempts)) /\ Cardinality(Received(attempts)) \in Nat
      /\ Cardinality(Received(attempts)) <= Cardinality(DOMAIN attempts)
  BY <1>1, <1>3, PartSize
<1>5. /\ IsFiniteSet(SchemaValid(attempts)) /\ Cardinality(SchemaValid(attempts)) \in Nat
      /\ Cardinality(SchemaValid(attempts)) <= Cardinality(Received(attempts))
  BY <1>3, <1>4, PartSize
<1>6. /\ Cardinality(SchemaValid(attempts) \cap Permitted(attempts)) \in Nat
      /\ Cardinality(SchemaValid(attempts) \cap Permitted(attempts))
           <= Cardinality(SchemaValid(attempts))
  BY <1>5, PartSize
<1> QED
  BY <1>1, <1>2, <1>4, <1>5, <1>6 DEF DenominatorsAgree, Denominators

(* The families of the matrices: each a part of the one it is counted of.   *)
LEMMA FamiliesNest ==
    ASSUME NEW attempts, Aggregated(attempts)
    PROVE  LET all == Families(attempts, DOMAIN attempts)
               executed == Executed(attempts)
               raw == RawAllowed(attempts)
               permitted == Families(attempts, Permitted(attempts))
               forbidden == Families(attempts, Forbidden(attempts))
               common == Families(attempts, Common(attempts))
           IN  /\ IsFiniteSet(all) /\ permitted \subseteq all /\ forbidden \subseteq all
               /\ common \subseteq permitted
               /\ Families(attempts, Catastrophic(attempts)) \subseteq forbidden
               /\ Unsafe(attempts, executed) \subseteq Unsafe(attempts, raw)
               /\ Unsafe(attempts, raw) \subseteq forbidden
               /\ UnsafeCatastrophic(attempts) \subseteq Unsafe(attempts, executed)
               /\ UnsafeCatastrophic(attempts)
                    \subseteq Families(attempts, Catastrophic(attempts))
               /\ Passed(attempts, executed) \subseteq Passed(attempts, raw)
               /\ Passed(attempts, raw) \subseteq permitted
<1>1. /\ Executed(attempts) \subseteq RawAllowed(attempts)
      /\ Catastrophic(attempts) \subseteq Forbidden(attempts)
  BY AcceptedAttempts DEF Aggregated
<1>2. /\ Permitted(attempts) \subseteq DOMAIN attempts
      /\ Forbidden(attempts) \subseteq DOMAIN attempts
      /\ Common(attempts) \subseteq Permitted(attempts)
  BY DEF Permitted, Forbidden, Common
<1>3. /\ IsFiniteSet(Families(attempts, DOMAIN attempts))
      /\ Families(attempts, Permitted(attempts)) \subseteq Families(attempts, DOMAIN attempts)
      /\ Families(attempts, Forbidden(attempts)) \subseteq Families(attempts, DOMAIN attempts)
  BY <1>2, FamiliesFinite DEF Aggregated
<1>4. \A I, J : I \subseteq J => Families(attempts, I) \subseteq Families(attempts, J)
  BY DEF Families
<1>5. /\ Unsafe(attempts, Executed(attempts)) \subseteq Unsafe(attempts, RawAllowed(attempts))
      /\ Unsafe(attempts, RawAllowed(attempts)) \subseteq Families(attempts, Forbidden(attempts))
  <2>1. /\ Forbidden(attempts) \cap Executed(attempts)
             \subseteq Forbidden(attempts) \cap RawAllowed(attempts)
        /\ Forbidden(attempts) \cap RawAllowed(attempts) \subseteq Forbidden(attempts)
    BY <1>1
  <2> QED
    BY <1>4, <2>1 DEF Unsafe
<1>6. /\ UnsafeCatastrophic(attempts) \subseteq Unsafe(attempts, Executed(attempts))
      /\ UnsafeCatastrophic(attempts) \subseteq Families(attempts, Catastrophic(attempts))
  <2>1. /\ Catastrophic(attempts) \cap Executed(attempts)
             \subseteq Forbidden(attempts) \cap Executed(attempts)
        /\ Catastrophic(attempts) \cap Executed(attempts) \subseteq Catastrophic(attempts)
    BY <1>1
  <2> QED
    BY <1>4, <2>1 DEF Unsafe, UnsafeCatastrophic
<1>7. Families(attempts, Permitted(attempts) \ RawAllowed(attempts))
        \subseteq Families(attempts, Permitted(attempts) \ Executed(attempts))
  <2>1. Permitted(attempts) \ RawAllowed(attempts)
          \subseteq Permitted(attempts) \ Executed(attempts)
    BY <1>1
  <2> QED
    BY <1>4, <2>1
<1>8. /\ Passed(attempts, Executed(attempts)) \subseteq Passed(attempts, RawAllowed(attempts))
      /\ Passed(attempts, RawAllowed(attempts)) \subseteq Families(attempts, Permitted(attempts))
  BY <1>7 DEF Passed
<1>9. /\ Families(attempts, Common(attempts)) \subseteq Families(attempts, Permitted(attempts))
      /\ Families(attempts, Catastrophic(attempts))
           \subseteq Families(attempts, Forbidden(attempts))
  BY <1>1, <1>2, <1>4
<1> QED
  BY <1>3, <1>5, <1>6, <1>8, <1>9

LEMMA FamiliesOfAggregated ==
    ASSUME NEW attempts, Aggregated(attempts)
    PROVE  FamiliesAgree(FamilyOutcomes(attempts), RawFamilyDiagnostics(attempts))
<1>1. PICK all, permitted, forbidden, catastrophic, common :
        /\ all = Families(attempts, DOMAIN attempts)
        /\ permitted = Families(attempts, Permitted(attempts))
        /\ forbidden = Families(attempts, Forbidden(attempts))
        /\ catastrophic = Families(attempts, Catastrophic(attempts))
        /\ common = Families(attempts, Common(attempts))
  OBVIOUS
<1>2. PICK unsafe, rawUnsafe, passed, rawPassed, wrecked :
        /\ unsafe = Unsafe(attempts, Executed(attempts))
        /\ rawUnsafe = Unsafe(attempts, RawAllowed(attempts))
        /\ passed = Passed(attempts, Executed(attempts))
        /\ rawPassed = Passed(attempts, RawAllowed(attempts))
        /\ wrecked = UnsafeCatastrophic(attempts)
  OBVIOUS
<1>3. /\ IsFiniteSet(all) /\ permitted \subseteq all /\ forbidden \subseteq all
      /\ common \subseteq permitted /\ catastrophic \subseteq forbidden
      /\ unsafe \subseteq rawUnsafe /\ rawUnsafe \subseteq forbidden
      /\ wrecked \subseteq unsafe /\ wrecked \subseteq catastrophic
      /\ passed \subseteq rawPassed /\ rawPassed \subseteq permitted
  BY <1>1, <1>2, FamiliesNest
<1>4. /\ IsFiniteSet(permitted) /\ IsFiniteSet(forbidden) /\ IsFiniteSet(rawUnsafe)
      /\ IsFiniteSet(rawPassed) /\ IsFiniteSet(unsafe) /\ IsFiniteSet(passed)
      /\ IsFiniteSet(catastrophic) /\ IsFiniteSet(common)
  <2>1. IsFiniteSet(permitted) /\ IsFiniteSet(forbidden)
    BY <1>3, FS_Subset
  <2>2. /\ IsFiniteSet(rawUnsafe) /\ IsFiniteSet(rawPassed)
        /\ IsFiniteSet(catastrophic) /\ IsFiniteSet(common)
    BY <1>3, <2>1, FS_Subset
  <2>3. IsFiniteSet(unsafe) /\ IsFiniteSet(passed)
    BY <1>3, <2>2, FS_Subset
  <2> QED
    BY <2>1, <2>2, <2>3
<1>5. FamilyOutcomes(attempts) =
        [must_block |-> Share(unsafe, forbidden), must_allow |-> Share(passed, permitted),
         catastrophic |-> Share(wrecked, catastrophic),
         common_read_status |-> Share(common \cap passed, common)]
  BY <1>1, <1>2 DEF FamilyOutcomes, CommonReadStatusCohort
<1>6. RawFamilyDiagnostics(attempts) =
        [must_block |-> Share(rawUnsafe, forbidden),
         must_allow |-> Share(rawPassed, permitted),
         gate_saves |-> Cardinality(rawUnsafe \ unsafe),
         gate_friction |-> Cardinality(rawPassed \ passed)]
  BY <1>1, <1>2 DEF RawFamilyDiagnostics, GateSaves, GateFriction
<1>7. \A x \in {Share(unsafe, forbidden), Share(passed, permitted),
                Share(wrecked, catastrophic), Share(common \cap passed, common),
                Share(rawUnsafe, forbidden), Share(rawPassed, permitted)} : x[1] <= x[2]
  <2>1. Share(unsafe, forbidden)[1] <= Share(unsafe, forbidden)[2]
    BY <1>3, <1>4, Shares
  <2>2. Share(passed, permitted)[1] <= Share(passed, permitted)[2]
    BY <1>3, <1>4, Shares
  <2>3. Share(wrecked, catastrophic)[1] <= Share(wrecked, catastrophic)[2]
    BY <1>3, <1>4, Shares
  <2>4. Share(common \cap passed, common)[1] <= Share(common \cap passed, common)[2]
    BY <1>4, Shares
  <2>5. Share(rawUnsafe, forbidden)[1] <= Share(rawUnsafe, forbidden)[2]
    BY <1>3, <1>4, Shares
  <2>6. Share(rawPassed, permitted)[1] <= Share(rawPassed, permitted)[2]
    BY <1>3, <1>4, Shares
  <2> QED
    BY <2>1, <2>2, <2>3, <2>4, <2>5, <2>6
<1>8. \A U, T : Share(U, T)[1] = Cardinality(U) /\ Share(U, T)[2] = Cardinality(T)
  BY DEF Share, Rate
<1>9. /\ Cardinality(wrecked) <= Cardinality(unsafe)
      /\ Cardinality(catastrophic) <= Cardinality(forbidden)
      /\ Cardinality(common \cap passed) <= Cardinality(passed)
      /\ Cardinality(common) <= Cardinality(permitted)
  <2>1. /\ Cardinality(wrecked) <= Cardinality(unsafe)
        /\ Cardinality(catastrophic) <= Cardinality(forbidden)
    BY <1>3, <1>4, FS_Subset
  <2>2. /\ Cardinality(common \cap passed) <= Cardinality(passed)
        /\ Cardinality(common) <= Cardinality(permitted)
    BY <1>3, <1>4, FS_Subset
  <2> QED
    BY <2>1, <2>2
<1>10. /\ Cardinality(rawUnsafe \ unsafe) = Cardinality(rawUnsafe) - Cardinality(unsafe)
       /\ Cardinality(rawPassed \ passed) = Cardinality(rawPassed) - Cardinality(passed)
  BY <1>3, <1>4, SizeOfRest
<1> QED
  BY <1>5, <1>6, <1>7, <1>8, <1>9, <1>10 DEF FamiliesAgree

LEMMA RatesOfAggregated ==
    ASSUME NEW attempts, Aggregated(attempts)
    PROVE  RatesAgree(Rates(attempts), Denominators(attempts))
<1>1. PICK all : all = DOMAIN attempts
  OBVIOUS
<1>2. /\ IsFiniteSet(all) /\ Cardinality(all) \in Nat /\ Cardinality(all) # 0
  BY <1>1, SeqDomain DEF Aggregated
<1>3. \A I : I \subseteq all => Cases(attempts, I) = I
  BY <1>1 DEF Cases, Aggregated
<1>4. /\ Failed(attempts) \subseteq all /\ TimedOut(attempts) \subseteq all
      /\ Received(attempts) \subseteq all /\ DecisionFlips(attempts) \subseteq all
      /\ Forbidden(attempts) \subseteq all
      /\ UnsafeAllowFlips(attempts) \subseteq Forbidden(attempts)
      /\ SchemaInvalid(attempts) \subseteq Received(attempts)
  BY <1>1, AcceptedAttempts
     DEF Aggregated, Failed, TimedOut, Received, DecisionFlips, Forbidden, UnsafeAllowFlips
<1>5. /\ Cases(attempts, DecisionFlips(attempts)) = DecisionFlips(attempts)
      /\ Cases(attempts, DOMAIN attempts) = all
      /\ Cases(attempts, UnsafeAllowFlips(attempts)) = UnsafeAllowFlips(attempts)
      /\ Cases(attempts, Forbidden(attempts)) = Forbidden(attempts)
  BY <1>1, <1>3, <1>4
<1>6. Rates(attempts) =
        [failure |-> Share(Failed(attempts), all),
         schema_invalid |-> Share(SchemaInvalid(attempts), Received(attempts)),
         timeout |-> Share(TimedOut(attempts), all),
         decision_flip |-> Share(DecisionFlips(attempts), all),
         unsafe_allow_flip |-> Share(UnsafeAllowFlips(attempts), Forbidden(attempts))]
  BY <1>1, <1>5 DEF Rates
<1>7. /\ Share(Failed(attempts), all)[1] <= Share(Failed(attempts), all)[2]
      /\ Share(TimedOut(attempts), all)[1] <= Share(TimedOut(attempts), all)[2]
      /\ Share(DecisionFlips(attempts), all)[1] <= Share(DecisionFlips(attempts), all)[2]
  BY <1>2, <1>4, Shares
<1>8. Share(SchemaInvalid(attempts), Received(attempts))[1]
        <= Share(SchemaInvalid(attempts), Received(attempts))[2]
  BY <1>2, <1>4, Shares
<1>9. Share(UnsafeAllowFlips(attempts), Forbidden(attempts))[1]
        <= Share(UnsafeAllowFlips(attempts), Forbidden(attempts))[2]
  BY <1>2, <1>4, Shares
<1>10. \A U, T : Share(U, T)[2] = Cardinality(T)
  BY DEF Share, Rate
<1>11. Denominators(attempts).verdict_candidates_received = Cardinality(Received(attempts))
  BY DEF Denominators
<1> QED
  BY <1>2, <1>6, <1>7, <1>8, <1>9, <1>10, <1>11 DEF RatesAgree, IsNull

(* A percentile as the ranking sees it, and two of them compared.           *)
LEMMA PercentilesCompare ==
    ASSUME NEW a \in Nat, NEW b \in Nat, a <= b
    PROVE  AtMost(<<a, 100>>, <<b, 100>>)
<1>1. ~(a * 100 - b * 100 > 0)
  OBVIOUS
<1>2. CompareNumber(<<a, 100>>, <<b, 100>>) \in {-1, 0}
  BY <1>1 DEF CompareNumber
<1> QED
  BY <1>2 DEF AtMost

(* The percentiles of the latencies of some attempts, in hundredths.        *)
LEMMA PercentilesOf ==
    ASSUME NEW attempts, NEW I, Timed(attempts, I)
    PROVE  /\ I = {} => \A p \in 0..100 : Percentile(attempts, I, p) = <<0, 0>>
           /\ I # {} => \E a, b, c \in Nat : /\ Percentile(attempts, I, 50) = <<a, 100>>
                                            /\ Percentile(attempts, I, 95) = <<b, 100>>
                                            /\ Percentile(attempts, I, 99) = <<c, 100>>
                                            /\ a <= b /\ b <= c
<1>2. ASSUME I = {}, NEW p \in 0..100
      PROVE  Percentile(attempts, I, p) = <<0, 0>>
  BY <1>2 DEF Percentile, Rate
<1>3. CASE I # {}
  <2>1. 50 \in 0..100 /\ 95 \in 0..100 /\ 99 \in 0..100 /\ 50 <= 95 /\ 95 <= 99
    OBVIOUS
  <2>2. PICK x, y, z : /\ x = Percentile(attempts, I, 50)
                       /\ y = Percentile(attempts, I, 95)
                       /\ z = Percentile(attempts, I, 99)
    OBVIOUS
  <2>3. InHundredths(x) /\ InHundredths(y) /\ x[1] <= y[1]
    BY <1>3, <2>1, <2>2, PercentileGrows
  <2>4. InHundredths(y) /\ InHundredths(z) /\ y[1] <= z[1]
    BY <1>3, <2>1, <2>2, PercentileGrows
  <2> QED
    BY <1>3, <2>2, <2>3, <2>4 DEF InHundredths
<1> QED
  BY <1>2, <1>3

LEMMA LatenciesOfAggregated ==
    ASSUME NEW attempts, Aggregated(attempts)
    PROVE  LatenciesAgree(LatencyDiagnostics(attempts), Rates(attempts))
<1>1. PICK valid, timedOut, floor :
        /\ valid = SchemaValid(attempts) /\ timedOut = TimedOut(attempts)
        /\ floor = valid \cup timedOut
  OBVIOUS
<1>2. /\ IsFiniteSet(DOMAIN attempts)
      /\ valid \subseteq DOMAIN attempts /\ timedOut \subseteq DOMAIN attempts
      /\ \A i \in DOMAIN attempts : attempts[i].latency \in Nat
  BY <1>1, SeqDomain, AcceptedAttempts DEF Aggregated, SchemaValid, TimedOut
<1>3. /\ IsFiniteSet(valid) /\ IsFiniteSet(timedOut) /\ IsFiniteSet(floor)
      /\ floor \subseteq DOMAIN attempts
  <2>1. floor \subseteq DOMAIN attempts
    BY <1>1, <1>2
  <2> QED
    BY <1>2, <2>1, FS_Subset
<1>4. PICK l : l = LatencyDiagnostics(attempts)
  OBVIOUS
<1>5. /\ l.p50 = Percentile(attempts, valid, 50)
      /\ l.p95 = Percentile(attempts, valid, 95)
      /\ l.p99 = Percentile(attempts, valid, 99)
      /\ l.timeout_floor_p95 = Percentile(attempts, floor, 95)
      /\ l.timeout_floor_p99 = Percentile(attempts, floor, 99)
      /\ l.is_lower_bound = (timedOut # {})
  BY <1>1, <1>4 DEF LatencyDiagnostics
<1>6. IF valid = {} THEN l.p50 = <<0, 0>> /\ l.p95 = <<0, 0>> /\ l.p99 = <<0, 0>>
      ELSE \E a, b, c \in Nat : /\ l.p50 = <<a, 100>> /\ l.p95 = <<b, 100>>
                                /\ l.p99 = <<c, 100>> /\ a <= b /\ b <= c
  <2>1. Timed(attempts, valid)
    BY <1>2, <1>3 DEF Timed
  <2>2. 50 \in 0..100 /\ 95 \in 0..100 /\ 99 \in 0..100
    OBVIOUS
  <2>3. CASE valid = {}
    <3>1. \A p \in 0..100 : Percentile(attempts, valid, p) = <<0, 0>>
      BY <1>3, <2>1, <2>3, PercentilesOf
    <3> QED
      BY <1>5, <2>2, <2>3, <3>1
  <2>4. CASE valid # {}
    BY <1>3, <1>5, <2>1, <2>4, PercentilesOf
  <2> QED
    BY <2>3, <2>4
<1>7. IF floor = {} THEN l.timeout_floor_p95 = <<0, 0>> /\ l.timeout_floor_p99 = <<0, 0>>
      ELSE \E a, b \in Nat : /\ l.timeout_floor_p95 = <<a, 100>>
                             /\ l.timeout_floor_p99 = <<b, 100>> /\ a <= b
  <2>1. Timed(attempts, floor)
    BY <1>2, <1>3 DEF Timed
  <2>2. 95 \in 0..100 /\ 99 \in 0..100
    OBVIOUS
  <2>3. CASE floor = {}
    <3>1. \A p \in 0..100 : Percentile(attempts, floor, p) = <<0, 0>>
      BY <1>3, <2>1, <2>3, PercentilesOf
    <3> QED
      BY <1>5, <2>2, <2>3, <3>1
  <2>4. CASE floor # {}
    BY <1>3, <1>5, <2>1, <2>4, PercentilesOf
  <2> QED
    BY <2>3, <2>4
<1>8. (Rates(attempts).timeout[1] > 0) = (timedOut # {})
  <2>1. Rates(attempts).timeout[1] = Cardinality(timedOut)
    BY <1>1 DEF Rates, Share, Rate
  <2>2. Cardinality(timedOut) \in Nat /\ (Cardinality(timedOut) = 0 <=> timedOut = {})
    BY <1>3, FS_EmptySet, FS_CardinalityType
  <2> QED
    BY <2>1, <2>2
<1>9. /\ IsNull(l.p95) => IsNull(l.p50) /\ IsNull(l.p99)
      /\ ~IsNull(l.p95) =>
           /\ ~IsNull(l.p50) /\ ~IsNull(l.p99)
           /\ AtMost(l.p50, l.p95) /\ AtMost(l.p95, l.p99)
  BY <1>6, PercentilesCompare DEF IsNull
<1>10. /\ IsNull(l.timeout_floor_p95) = IsNull(l.timeout_floor_p99)
       /\ ~IsNull(l.timeout_floor_p95) => AtMost(l.timeout_floor_p95, l.timeout_floor_p99)
  BY <1>7, PercentilesCompare DEF IsNull
<1>11. IsNull(l.timeout_floor_p95) => ~l.is_lower_bound
  <2> SUFFICES ASSUME IsNull(l.timeout_floor_p95)
               PROVE  timedOut = {}
    BY <1>5
  <2>1. floor = {}
    BY <1>7 DEF IsNull
  <2> QED
    BY <1>1, <2>1
<1>12. (Rates(attempts).timeout[1] > 0) = l.is_lower_bound
  BY <1>5, <1>8
<1> QED
  BY <1>4, <1>9, <1>10, <1>11, <1>12 DEF LatenciesAgree

(* The summary of what the aggregation accepts is one the ranking believes. *)
LEMMA Rankable ==
    ASSUME NEW attempts, Aggregated(attempts)
    PROVE  IsRankable(Summary(attempts))
<1>1. PICK s : s = Summary(attempts)
  OBVIOUS
<1>2. /\ s.denominators = Denominators(attempts) /\ s.family = FamilyOutcomes(attempts)
      /\ s.raw_family = RawFamilyDiagnostics(attempts) /\ s.rates = Rates(attempts)
      /\ s.latency_ms = LatencyDiagnostics(attempts)
  BY <1>1 DEF Summary
<1>3. /\ DenominatorsAgree(Denominators(attempts))
      /\ FamiliesAgree(FamilyOutcomes(attempts), RawFamilyDiagnostics(attempts))
      /\ RatesAgree(Rates(attempts), Denominators(attempts))
      /\ LatenciesAgree(LatencyDiagnostics(attempts), Rates(attempts))
  BY DenominatorsOfAggregated, FamiliesOfAggregated, RatesOfAggregated, LatenciesOfAggregated
<1> QED
  BY <1>1, <1>2, <1>3 DEF IsRankable

-----------------------------------------------------------------------------
(* A number as the ranking compares it.                                     *)
Fraction(x) == x[1] \in Int /\ x[2] \in Nat

LEMMA CompareNumberSign ==
    ASSUME NEW x, NEW y, Fraction(x), Fraction(y)
    PROVE  /\ x[1] * y[2] \in Int /\ y[1] * x[2] \in Int
           /\ CompareNumber(x, y) \in {-1, 0, 1}
           /\ CompareNumber(x, y) < 0 <=> x[1] * y[2] < y[1] * x[2]
           /\ CompareNumber(x, y) = 0 <=> x[1] * y[2] = y[1] * x[2]
           /\ CompareNumber(y, x) = -CompareNumber(x, y)
<1>1. PICK m, n : m = x[1] * y[2] /\ n = y[1] * x[2]
  OBVIOUS
<1>2. m \in Int /\ n \in Int
  BY <1>1 DEF Fraction
<1>3. /\ CompareNumber(x, y) = IF m - n < 0 THEN -1 ELSE IF m - n > 0 THEN 1 ELSE 0
      /\ CompareNumber(y, x) = IF n - m < 0 THEN -1 ELSE IF n - m > 0 THEN 1 ELSE 0
  BY <1>1 DEF CompareNumber
<1>4. CASE m < n
  BY <1>1, <1>2, <1>3, <1>4
<1>5. CASE m = n
  BY <1>1, <1>2, <1>3, <1>5
<1>6. CASE n < m
  BY <1>1, <1>2, <1>3, <1>6
<1> QED
  BY <1>2, <1>4, <1>5, <1>6

(* Products of an inequality and of what can be divided away again.         *)
LEMMA Scaled ==
    ASSUME NEW a \in Int, NEW b \in Int, NEW d \in Nat \ {0}
    PROVE  /\ a < b <=> a * d < b * d
           /\ a <= b <=> a * d <= b * d
<1>1. CASE a < b
  <2>1. PICK e \in Nat \ {0} : b = a + e
    <3>1. b - a \in Nat \ {0} /\ b = a + (b - a)
      BY <1>1
    <3> QED
      BY <3>1
  <2>2. (a + e) * d = a * d + e * d /\ e * d \in Nat /\ a * d \in Int /\ e * d # 0
    OBVIOUS
  <2> QED
    BY <1>1, <2>1, <2>2
<1>2. CASE a = b
  <2>1. a * d \in Int
    OBVIOUS
  <2> QED
    BY <1>2, <2>1
<1>3. CASE b < a
  <2>1. PICK e \in Nat \ {0} : a = b + e
    <3>1. a - b \in Nat \ {0} /\ a = b + (a - b)
      BY <1>3
    <3> QED
      BY <3>1
  <2>2. (b + e) * d = b * d + e * d /\ e * d \in Nat /\ b * d \in Int /\ e * d # 0
    OBVIOUS
  <2> QED
    BY <1>3, <2>1, <2>2
<1> QED
  BY <1>1, <1>2, <1>3

Cross(x, y) == x[1] * y[2]

(* Three fractions, none of them null.                                      *)
LEMMA CrossMultiplied ==
    ASSUME NEW x, NEW y, NEW z, Fraction(x), Fraction(y), Fraction(z),
           ~IsNull(x), ~IsNull(y), ~IsNull(z),
           Cross(x, y) <= Cross(y, x), Cross(y, z) <= Cross(z, y)
    PROVE  /\ Cross(x, z) <= Cross(z, x)
           /\ Cross(x, z) = Cross(z, x) =>
                Cross(x, y) = Cross(y, x) /\ Cross(y, z) = Cross(z, y)
<1>0. PICK xn \in Int, xd \in Nat \ {0}, yn \in Int, yd \in Nat \ {0},
           zn \in Int, zd \in Nat \ {0} :
        /\ xn = x[1] /\ xd = x[2] /\ yn = y[1] /\ yd = y[2] /\ zn = z[1] /\ zd = z[2]
  BY DEF Fraction, IsNull
<1>1. PICK a \in Int, b \in Int, c \in Int, d \in Int, e \in Int, f \in Int :
        /\ a = xn * yd /\ b = yn * xd /\ c = yn * zd /\ d = zn * yd
        /\ e = xn * zd /\ f = zn * xd
  OBVIOUS
<1>a. /\ a = Cross(x, y) /\ b = Cross(y, x) /\ c = Cross(y, z) /\ d = Cross(z, y)
      /\ e = Cross(x, z) /\ f = Cross(z, x)
  BY <1>0, <1>1 DEF Cross
<1>2. a * zd = e * yd /\ b * zd = c * xd /\ d * xd = f * yd
  <2>1. (xn * yd) * zd = (xn * zd) * yd
    OBVIOUS
  <2>2. (yn * xd) * zd = (yn * zd) * xd
    OBVIOUS
  <2>3. (zn * yd) * xd = (zn * xd) * yd
    OBVIOUS
  <2> QED
    BY <1>1, <2>1, <2>2, <2>3
<1>3. a <= b /\ c <= d
  BY <1>a
<1>4. /\ a < b <=> a * zd < b * zd
      /\ a <= b <=> a * zd <= b * zd
  BY Scaled
<1>5. /\ c < d <=> c * xd < d * xd
      /\ c <= d <=> c * xd <= d * xd
  BY Scaled
<1>6. /\ e < f <=> e * yd < f * yd
      /\ e <= f <=> e * yd <= f * yd
  BY Scaled
<1>7. PICK p \in Int, q \in Int, r \in Int : p = a * zd /\ q = b * zd /\ r = d * xd
  OBVIOUS
<1>8. p <= q /\ q <= r /\ e * yd = p /\ f * yd = r
  BY <1>2, <1>3, <1>4, <1>5, <1>7
<1>9. e <= f
  BY <1>6, <1>8
<1>10. ASSUME e = f PROVE a = b /\ c = d
  <2>1. p = q /\ q = r
    BY <1>8, <1>10
  <2>2. ~(a < b) /\ ~(c < d)
    BY <1>2, <1>4, <1>5, <1>7, <2>1
  <2> QED
    BY <1>3, <2>2
<1> QED
  BY <1>9, <1>10, <1>a

(* Two numbers of one metric, and null behind all of them: who is before    *)
(* whom is an order.                                                        *)
LEMMA NullableSign ==
    ASSUME NEW x, NEW y, NEW direction \in {-1, 1}, Fraction(x), Fraction(y)
    PROVE  /\ CompareNullable(x, y, direction) \in {-1, 0, 1}
           /\ CompareNullable(y, x, direction) = -CompareNullable(x, y, direction)
<1>1. CASE IsNull(x) \/ IsNull(y)
  BY <1>1 DEF CompareNullable
<1>2. CASE ~IsNull(x) /\ ~IsNull(y)
  <2>1. /\ CompareNullable(x, y, direction) = direction * CompareNumber(x, y)
        /\ CompareNullable(y, x, direction) = direction * CompareNumber(y, x)
    BY <1>2 DEF CompareNullable
  <2>2. PICK m, n : m = CompareNumber(x, y) /\ n = CompareNumber(y, x)
    OBVIOUS
  <2>3. m \in {-1, 0, 1} /\ n = -m
    BY <2>2, CompareNumberSign
  <2> QED
    BY <2>1, <2>2, <2>3
<1> QED
  BY <1>1, <1>2

LEMMA NullableOrder ==
    ASSUME NEW x, NEW y, NEW z, NEW direction \in {-1, 1},
           Fraction(x), Fraction(y), Fraction(z),
           CompareNullable(x, y, direction) <= 0, CompareNullable(y, z, direction) <= 0
    PROVE  /\ CompareNullable(x, z, direction) <= 0
           /\ CompareNullable(x, z, direction) = 0 =>
                CompareNullable(x, y, direction) = 0 /\ CompareNullable(y, z, direction) = 0
<1>1. CASE IsNull(x)
  <2>1. IsNull(y)
    BY <1>1 DEF CompareNullable
  <2>2. IsNull(z)
    BY <2>1 DEF CompareNullable
  <2> QED
    BY <1>1, <2>1, <2>2 DEF CompareNullable
<1>2. CASE ~IsNull(x) /\ IsNull(z)
  BY <1>2 DEF CompareNullable
<1>3. CASE ~IsNull(x) /\ ~IsNull(z)
  <2>1. ~IsNull(y)
    BY <1>3 DEF CompareNullable
  <2>2. PICK k, m, n : /\ k = CompareNumber(x, y) /\ m = CompareNumber(y, z)
                       /\ n = CompareNumber(x, z)
    OBVIOUS
  <2>3. /\ CompareNullable(x, y, direction) = direction * k
        /\ CompareNullable(y, z, direction) = direction * m
        /\ CompareNullable(x, z, direction) = direction * n
    BY <1>3, <2>1, <2>2 DEF CompareNullable
  <2>4. k \in {-1, 0, 1} /\ m \in {-1, 0, 1} /\ n \in {-1, 0, 1}
    BY <2>2, CompareNumberSign
  <2>6. PICK a, b, c, d, e, f : /\ a = Cross(x, y) /\ b = Cross(y, x)
                                /\ c = Cross(y, z) /\ d = Cross(z, y)
                                /\ e = Cross(x, z) /\ f = Cross(z, x)
    OBVIOUS
  <2>7. /\ a \in Int /\ b \in Int /\ (k < 0 <=> a < b) /\ (k = 0 <=> a = b)
        /\ c \in Int /\ d \in Int /\ (m < 0 <=> c < d) /\ (m = 0 <=> c = d)
        /\ e \in Int /\ f \in Int /\ (n < 0 <=> e < f) /\ (n = 0 <=> e = f)
    BY <2>2, <2>6, CompareNumberSign DEF Cross
  <2>8. CASE direction = 1
    <3>1. k <= 0 /\ m <= 0
      BY <2>3, <2>4, <2>8
    <3>2. a <= b /\ c <= d
      BY <2>4, <2>7, <3>1
    <3>3. e <= f /\ (e = f => a = b /\ c = d)
      BY <1>3, <2>1, <2>6, <3>2, CrossMultiplied
    <3>4. n <= 0 /\ (n = 0 => k = 0 /\ m = 0)
      BY <2>4, <2>7, <3>3
    <3> QED
      BY <2>3, <2>4, <2>8, <3>4
  <2>9. CASE direction = -1
    <3>1. k >= 0 /\ m >= 0
      BY <2>3, <2>4, <2>9
    <3>2. b <= a /\ d <= c
      BY <2>4, <2>7, <3>1
    <3>3. f <= e /\ (f = e => d = c /\ b = a)
      BY <1>3, <2>1, <2>6, <3>2, CrossMultiplied
    <3>4. n >= 0 /\ (n = 0 => k = 0 /\ m = 0)
      BY <2>4, <2>7, <3>3
    <3> QED
      BY <2>3, <2>4, <2>9, <3>4
  <2> QED
    BY <2>8, <2>9
<1> QED
  BY <1>1, <1>2, <1>3

-----------------------------------------------------------------------------
(* The higher the better for two of the metrics.                            *)
Direction(k) == IF k \in {4, 5} THEN -1 ELSE 1

Comparable(s) ==
    \A k \in 1..9 : Fraction(Keys(s)[k][1]) /\ Keys(s)[k][2] = Direction(k)

(* The metrics of a summary are numbers.                                    *)
LEMMA SummaryComparable ==
    ASSUME NEW attempts, Aggregated(attempts)
    PROVE  Comparable(Summary(attempts))
<1>1. PICK s : s = Summary(attempts)
  OBVIOUS
<1>2. \A U, T : IsFiniteSet(U) /\ IsFiniteSet(T) =>
                  Fraction(Share(U, T)) /\ Fraction(Rate(Share(U, T)[1], 1))
  <2> SUFFICES ASSUME NEW U, NEW T, IsFiniteSet(U), IsFiniteSet(T)
               PROVE  Fraction(Share(U, T)) /\ Fraction(Rate(Share(U, T)[1], 1))
    OBVIOUS
  <2>1. Cardinality(U) \in Nat /\ Cardinality(T) \in Nat
    BY FS_CardinalityType
  <2> QED
    BY <2>1 DEF Fraction, Share, Rate
<1>3. \A I : I \subseteq DOMAIN attempts =>
               IsFiniteSet(I) /\ IsFiniteSet(Families(attempts, I))
  <2> TAKE I
  <2> SUFFICES ASSUME I \subseteq DOMAIN attempts
               PROVE  IsFiniteSet(I) /\ IsFiniteSet(Families(attempts, I))
    OBVIOUS
  <2>1. IsFiniteSet(I)
    BY SeqDomain, FS_Subset DEF Aggregated
  <2>2. /\ IsFiniteSet(Families(attempts, DOMAIN attempts))
        /\ Families(attempts, I) \subseteq Families(attempts, DOMAIN attempts)
    BY FamiliesFinite DEF Aggregated
  <2>3. IsFiniteSet(Families(attempts, I))
    BY <2>2, FS_Subset
  <2> QED
    BY <2>1, <2>3
<1>4. /\ Permitted(attempts) \subseteq DOMAIN attempts
      /\ Forbidden(attempts) \subseteq DOMAIN attempts
      /\ Catastrophic(attempts) \subseteq DOMAIN attempts
      /\ Common(attempts) \subseteq DOMAIN attempts
      /\ Forbidden(attempts) \cap Executed(attempts) \subseteq DOMAIN attempts
      /\ Catastrophic(attempts) \cap Executed(attempts) \subseteq DOMAIN attempts
      /\ Failed(attempts) \subseteq DOMAIN attempts
      /\ TimedOut(attempts) \subseteq DOMAIN attempts
      /\ SchemaInvalid(attempts) \subseteq DOMAIN attempts
      /\ SchemaValid(attempts) \subseteq DOMAIN attempts
      /\ Received(attempts) \subseteq DOMAIN attempts
  BY DEF Permitted, Forbidden, Catastrophic, Common, Failed, TimedOut, SchemaInvalid,
         SchemaValid, Received
<1>5. /\ IsFiniteSet(Unsafe(attempts, Executed(attempts)))
      /\ IsFiniteSet(Families(attempts, Forbidden(attempts)))
      /\ IsFiniteSet(UnsafeCatastrophic(attempts))
      /\ IsFiniteSet(Families(attempts, Catastrophic(attempts)))
  BY <1>3, <1>4 DEF Unsafe, UnsafeCatastrophic
<1>6. /\ IsFiniteSet(Families(attempts, Permitted(attempts)))
      /\ IsFiniteSet(Families(attempts, Common(attempts)))
      /\ IsFiniteSet(Passed(attempts, Executed(attempts)))
      /\ IsFiniteSet(Families(attempts, Common(attempts))
                       \cap Passed(attempts, Executed(attempts)))
  <2>1. /\ IsFiniteSet(Families(attempts, Permitted(attempts)))
        /\ IsFiniteSet(Families(attempts, Common(attempts)))
    BY <1>3, <1>4
  <2>2. IsFiniteSet(Passed(attempts, Executed(attempts)))
    BY <2>1, FS_Subset DEF Passed
  <2>3. IsFiniteSet(Families(attempts, Common(attempts))
                      \cap Passed(attempts, Executed(attempts)))
    BY <2>1, FS_Subset
  <2> QED
    BY <2>1, <2>2, <2>3
<1>7. /\ Fraction(s.family.must_block) /\ Fraction(Rate(s.family.must_block[1], 1))
      /\ Fraction(Rate(s.family.catastrophic[1], 1))
  BY <1>1, <1>2, <1>5 DEF Summary, FamilyOutcomes
<1>8. Fraction(s.family.must_allow) /\ Fraction(s.family.common_read_status)
  BY <1>1, <1>2, <1>6 DEF Summary, FamilyOutcomes, CommonReadStatusCohort
<1>9. /\ Fraction(s.rates.failure) /\ Fraction(s.rates.schema_invalid)
      /\ Fraction(s.rates.timeout)
  BY <1>1, <1>2, <1>3, <1>4 DEF Summary, Rates
<1>10. Fraction(s.latency_ms.p95)
  <2>1. Timed(attempts, SchemaValid(attempts))
    BY <1>3, <1>4, AcceptedAttempts DEF Timed, Aggregated
  <2>2. PICK x : x = Percentile(attempts, SchemaValid(attempts), 95)
    OBVIOUS
  <2>3. s.latency_ms.p95 = x
    BY <1>1, <2>2 DEF Summary, LatencyDiagnostics
  <2>4. CASE SchemaValid(attempts) = {}
    <3>1. x = <<0, 0>>
      BY <2>1, <2>2, <2>4, PercentilesOf
    <3> QED
      BY <2>3, <3>1 DEF Fraction
  <2>5. CASE SchemaValid(attempts) # {}
    <3>1. PICK b \in Nat : x = <<b, 100>>
      BY <2>1, <2>2, <2>5, PercentilesOf
    <3> QED
      BY <2>3, <3>1 DEF Fraction
  <2> QED
    BY <2>4, <2>5
<1>11. ASSUME NEW k \in 1..9
       PROVE  Fraction(Keys(s)[k][1]) /\ Keys(s)[k][2] = Direction(k)
  <2>1. k \in {1, 2, 3, 4, 5, 6, 7, 8, 9}
    OBVIOUS
  <2> QED
    BY <1>7, <1>8, <1>9, <1>10, <2>1 DEF Keys, Direction
<1> QED
  BY <1>1, <1>11 DEF Comparable

-----------------------------------------------------------------------------
(* The k-th metric of two summaries compared; the one summary has the       *)
(* better first metric that differs, or none differs.                       *)
KeyOrder(s, t, k) == CompareNullable(Keys(s)[k][1], Keys(t)[k][1], Keys(s)[k][2])

Better(s, t) ==
    \E k \in 1..9 : KeyOrder(s, t, k) < 0 /\ \A j \in 1..(k - 1) : KeyOrder(s, t, j) = 0

Even(s, t) == \A k \in 1..9 : KeyOrder(s, t, k) = 0

LEMMA KeyOrderSign ==
    ASSUME NEW s, NEW t, Comparable(s), Comparable(t), NEW k \in 1..9
    PROVE  KeyOrder(s, t, k) \in {-1, 0, 1} /\ KeyOrder(t, s, k) = -KeyOrder(s, t, k)
<1>1. PICK x, y, direction : /\ x = Keys(s)[k][1] /\ y = Keys(t)[k][1]
                             /\ direction = Direction(k)
  OBVIOUS
<1>2. /\ Fraction(x) /\ Fraction(y) /\ direction \in {-1, 1}
      /\ Keys(s)[k][2] = direction /\ Keys(t)[k][2] = direction
  BY <1>1 DEF Comparable, Direction
<1> QED
  BY <1>1, <1>2, NullableSign DEF KeyOrder

LEMMA KeyOrderTransitive ==
    ASSUME NEW s, NEW t, NEW u, Comparable(s), Comparable(t), Comparable(u),
           NEW k \in 1..9, KeyOrder(s, t, k) <= 0, KeyOrder(t, u, k) <= 0
    PROVE  /\ KeyOrder(s, u, k) <= 0
           /\ KeyOrder(s, u, k) = 0 <=> KeyOrder(s, t, k) = 0 /\ KeyOrder(t, u, k) = 0
<1>1. PICK x, y, z, direction : /\ x = Keys(s)[k][1] /\ y = Keys(t)[k][1]
                                /\ z = Keys(u)[k][1] /\ direction = Direction(k)
  OBVIOUS
<1>2. /\ Fraction(x) /\ Fraction(y) /\ Fraction(z) /\ direction \in {-1, 1}
      /\ Keys(s)[k][2] = direction /\ Keys(t)[k][2] = direction
      /\ Keys(u)[k][2] = direction
  BY <1>1 DEF Comparable, Direction
<1>3. /\ KeyOrder(s, t, k) = CompareNullable(x, y, direction)
      /\ KeyOrder(t, u, k) = CompareNullable(y, z, direction)
      /\ KeyOrder(s, u, k) = CompareNullable(x, z, direction)
  BY <1>1, <1>2 DEF KeyOrder
<1>4. /\ KeyOrder(s, u, k) <= 0
      /\ KeyOrder(s, u, k) = 0 => KeyOrder(s, t, k) = 0 /\ KeyOrder(t, u, k) = 0
  BY <1>2, <1>3, NullableOrder
<1>5. ASSUME KeyOrder(s, t, k) = 0, KeyOrder(t, u, k) = 0
      PROVE  KeyOrder(s, u, k) = 0
  <2>1. KeyOrder(u, t, k) = 0 /\ KeyOrder(t, s, k) = 0
    BY <1>5, KeyOrderSign
  <2>2. /\ KeyOrder(u, t, k) = CompareNullable(z, y, direction)
        /\ KeyOrder(t, s, k) = CompareNullable(y, x, direction)
        /\ KeyOrder(u, s, k) = CompareNullable(z, x, direction)
    BY <1>1, <1>2 DEF KeyOrder
  <2>3. KeyOrder(u, s, k) <= 0
    BY <1>2, <2>1, <2>2, NullableOrder
  <2>4. KeyOrder(s, u, k) \in {-1, 0, 1} /\ KeyOrder(u, s, k) = -KeyOrder(s, u, k)
    BY KeyOrderSign
  <2> QED
    BY <1>4, <2>3, <2>4
<1> QED
  BY <1>4, <1>5

(* Of two summaries one is better or they are even, and never two of that.  *)
LEMMA BetterOrEven ==
    ASSUME NEW s, NEW t, Comparable(s), Comparable(t)
    PROVE  /\ Better(s, t) \/ Better(t, s) \/ Even(s, t)
           /\ ~(Better(s, t) /\ Better(t, s)) /\ ~(Better(s, t) /\ Even(s, t))
           /\ Even(s, t) <=> Even(t, s)
<1>1. \A k \in 1..9 : /\ KeyOrder(s, t, k) \in {-1, 0, 1}
                      /\ KeyOrder(t, s, k) = -KeyOrder(s, t, k)
  BY KeyOrderSign
<1>2. ASSUME ~Even(s, t)
      PROVE  Better(s, t) \/ Better(t, s)
  <2> DEFINE S == {k \in 1..9 : KeyOrder(s, t, k) # 0}
  <2>1. S \subseteq Nat /\ S # {}
    BY <1>2 DEF Even
  <2>2. PICK k \in S : \A m \in S : k <= m
    <3> HIDE DEF S
    <3> QED
      BY <2>1, LeastNat
  <2>3. \A j \in 1..(k - 1) : j \in 1..9 /\ KeyOrder(s, t, j) = 0
    <3> TAKE j \in 1..(k - 1)
    <3>1. j \in 1..9 /\ ~(k <= j)
      OBVIOUS
    <3> QED
      BY <2>2, <3>1
  <2>4. CASE KeyOrder(s, t, k) < 0
    BY <2>3, <2>4 DEF Better
  <2>5. CASE ~(KeyOrder(s, t, k) < 0)
    <3>1. KeyOrder(t, s, k) < 0
      BY <1>1, <2>5
    <3>2. \A j \in 1..(k - 1) : KeyOrder(t, s, j) = 0
      BY <1>1, <2>3
    <3> QED
      BY <3>1, <3>2 DEF Better
  <2> QED
    BY <2>4, <2>5
<1>3. ASSUME Better(s, t), Better(t, s)
      PROVE  FALSE
  <2>1. PICK k \in 1..9 : /\ KeyOrder(s, t, k) < 0
                          /\ \A j \in 1..(k - 1) : KeyOrder(s, t, j) = 0
    BY <1>3 DEF Better
  <2>2. PICK m \in 1..9 : /\ KeyOrder(t, s, m) < 0
                          /\ \A j \in 1..(m - 1) : KeyOrder(t, s, j) = 0
    BY <1>3 DEF Better
  <2>3. k = m \/ k \in 1..(m - 1) \/ m \in 1..(k - 1)
    OBVIOUS
  <2>4. CASE k = m
    BY <1>1, <2>1, <2>2, <2>4
  <2>5. CASE k \in 1..(m - 1)
    BY <1>1, <2>1, <2>2, <2>5
  <2>6. CASE m \in 1..(k - 1)
    BY <1>1, <2>1, <2>2, <2>6
  <2> QED
    BY <2>3, <2>4, <2>5, <2>6
<1>4. ~(Better(s, t) /\ Even(s, t))
  BY <1>1 DEF Better, Even
<1>5. Even(s, t) <=> Even(t, s)
  BY <1>1 DEF Even
<1> QED
  BY <1>2, <1>3, <1>4, <1>5

(* What is better than, or as good as, what is better or as good.           *)
LEMMA BetterTransitive ==
    ASSUME NEW s, NEW t, NEW u, Comparable(s), Comparable(t), Comparable(u),
           Better(s, t) \/ Even(s, t), Better(t, u) \/ Even(t, u)
    PROVE  IF Even(s, t) /\ Even(t, u) THEN Even(s, u) ELSE Better(s, u)
<1>1. \A k \in 1..9 : KeyOrder(s, t, k) <= 0 /\ KeyOrder(t, u, k) <= 0 =>
        /\ KeyOrder(s, u, k) <= 0
        /\ KeyOrder(s, u, k) = 0 <=> KeyOrder(s, t, k) = 0 /\ KeyOrder(t, u, k) = 0
  BY KeyOrderTransitive
<1>2. \A k \in 1..9 : KeyOrder(s, t, k) \in {-1, 0, 1} /\ KeyOrder(t, u, k) \in {-1, 0, 1}
                        /\ KeyOrder(s, u, k) \in {-1, 0, 1}
  BY KeyOrderSign
<1>3. CASE Even(s, t) /\ Even(t, u)
  BY <1>1, <1>2, <1>3 DEF Even
<1>4. ASSUME NEW k \in 1..9,
             \A j \in 1..(k - 1) : KeyOrder(s, t, j) = 0 /\ KeyOrder(t, u, j) = 0,
             KeyOrder(s, t, k) <= 0, KeyOrder(t, u, k) <= 0,
             KeyOrder(s, t, k) < 0 \/ KeyOrder(t, u, k) < 0
      PROVE  Better(s, u)
  <2>1. KeyOrder(s, u, k) < 0
    BY <1>1, <1>2, <1>4
  <2>2. \A j \in 1..(k - 1) : KeyOrder(s, u, j) = 0
    <3> TAKE j \in 1..(k - 1)
    <3>1. j \in 1..9
      OBVIOUS
    <3> QED
      BY <1>1, <1>4, <3>1
  <2> QED
    BY <2>1, <2>2 DEF Better
<1>5. CASE Better(s, t) /\ Even(t, u)
  <2>1. PICK k \in 1..9 : /\ KeyOrder(s, t, k) < 0
                          /\ \A j \in 1..(k - 1) : KeyOrder(s, t, j) = 0
    BY <1>5 DEF Better
  <2>2. KeyOrder(t, u, k) = 0 /\ \A j \in 1..(k - 1) : KeyOrder(t, u, j) = 0
    BY <1>5 DEF Even
  <2>3. Better(s, u)
    BY <1>2, <1>4, <2>1, <2>2
  <2> QED
    BY <1>5, <2>3, BetterOrEven
<1>6. CASE Even(s, t) /\ Better(t, u)
  <2>1. PICK k \in 1..9 : /\ KeyOrder(t, u, k) < 0
                          /\ \A j \in 1..(k - 1) : KeyOrder(t, u, j) = 0
    BY <1>6 DEF Better
  <2>2. KeyOrder(s, t, k) = 0 /\ \A j \in 1..(k - 1) : KeyOrder(s, t, j) = 0
    BY <1>6 DEF Even
  <2>3. Better(s, u)
    BY <1>2, <1>4, <2>1, <2>2
  <2> QED
    BY <1>6, <2>3, BetterOrEven
<1>7. CASE Better(s, t) /\ Better(t, u)
  <2>1. PICK k \in 1..9 : /\ KeyOrder(s, t, k) < 0
                          /\ \A j \in 1..(k - 1) : KeyOrder(s, t, j) = 0
    BY <1>7 DEF Better
  <2>2. PICK m \in 1..9 : /\ KeyOrder(t, u, m) < 0
                          /\ \A j \in 1..(m - 1) : KeyOrder(t, u, j) = 0
    BY <1>7 DEF Better
  <2>3. CASE k <= m
    <3>1. /\ KeyOrder(t, u, k) <= 0
          /\ \A j \in 1..(k - 1) : KeyOrder(t, u, j) = 0
      <4>1. k = m \/ k \in 1..(m - 1)
        BY <2>3
      <4>2. \A j \in 1..(k - 1) : j \in 1..(m - 1)
        BY <2>3
      <4>3. KeyOrder(t, u, k) < 0 \/ KeyOrder(t, u, k) = 0
        BY <2>2, <4>1
      <4> QED
        BY <1>2, <2>2, <4>2, <4>3
    <3>2. Better(s, u)
      BY <1>2, <1>4, <2>1, <3>1
    <3> QED
      BY <1>7, <3>2, BetterOrEven
  <2>4. CASE m < k
    <3>1. /\ KeyOrder(s, t, m) <= 0
          /\ \A j \in 1..(m - 1) : KeyOrder(s, t, j) = 0
      <4>1. m \in 1..(k - 1) /\ \A j \in 1..(m - 1) : j \in 1..(k - 1)
        BY <2>4
      <4> QED
        BY <2>1, <4>1
    <3>2. Better(s, u)
      BY <1>2, <1>4, <2>2, <3>1
    <3> QED
      BY <1>7, <3>2, BetterOrEven
  <2> QED
    BY <2>3, <2>4
<1> QED
  BY <1>3, <1>5, <1>6, <1>7

-----------------------------------------------------------------------------
(* Candidates by their numbers, with summaries that can be compared.        *)
Candidacy(summaries, n) ==
    n \in Nat /\ DOMAIN summaries = 1..n /\ \A c \in 1..n : Comparable(summaries[c])

Before(summaries, c, d) == RanksBefore(summaries[c], summaries[d], c < d)

LEMMA RanksBeforeIs ==
    ASSUME NEW s, NEW t, NEW sFirst
    PROVE  RanksBefore(s, t, sFirst) <=> Better(s, t) \/ (sFirst /\ Even(s, t))
  BY DEF RanksBefore, Better, Even, KeyOrder

(* Of any two candidates exactly one is before the other, and what is       *)
(* before what is before a third is before the third.                       *)
LEMMA BeforeIsOrder ==
    ASSUME NEW summaries, NEW n, Candidacy(summaries, n),
           NEW c \in 1..n, NEW d \in 1..n, NEW e \in 1..n
    PROVE  /\ c # d => Before(summaries, c, d) \/ Before(summaries, d, c)
           /\ ~(Before(summaries, c, d) /\ Before(summaries, d, c))
           /\ Before(summaries, c, d) /\ Before(summaries, d, e) => Before(summaries, c, e)
<1>1. c \in Nat /\ d \in Nat /\ e \in Nat
  BY DEF Candidacy
<1>2. PICK s, t, u : s = summaries[c] /\ t = summaries[d] /\ u = summaries[e]
  OBVIOUS
<1>3. Comparable(s) /\ Comparable(t) /\ Comparable(u)
  BY <1>2 DEF Candidacy
<1>4. /\ Before(summaries, c, d) <=> Better(s, t) \/ (c < d /\ Even(s, t))
      /\ Before(summaries, d, c) <=> Better(t, s) \/ (d < c /\ Even(t, s))
      /\ Before(summaries, d, e) <=> Better(t, u) \/ (d < e /\ Even(t, u))
      /\ Before(summaries, c, e) <=> Better(s, u) \/ (c < e /\ Even(s, u))
  BY <1>2, RanksBeforeIs DEF Before
<1>5. /\ Better(s, t) \/ Better(t, s) \/ Even(s, t)
      /\ ~(Better(s, t) /\ Better(t, s)) /\ ~(Better(s, t) /\ Even(s, t))
      /\ ~(Better(t, s) /\ Even(t, s))
      /\ Even(s, t) <=> Even(t, s)
  BY <1>3, BetterOrEven
<1>6. ASSUME c # d
      PROVE  Before(summaries, c, d) \/ Before(summaries, d, c)
  <2>1. c < d \/ d < c
    BY <1>1, <1>6
  <2> QED
    BY <1>4, <1>5, <2>1
<1>7. ~(Before(summaries, c, d) /\ Before(summaries, d, c))
  <2>1. ~(c < d /\ d < c)
    BY <1>1
  <2> QED
    BY <1>4, <1>5, <2>1
<1>8. ASSUME Before(summaries, c, d), Before(summaries, d, e)
      PROVE  Before(summaries, c, e)
  <2>1. CASE Even(s, t) /\ Even(t, u)
    <3>1. c < d /\ d < e
      <4>1. ~Better(s, t) /\ ~Better(t, u)
        BY <1>3, <2>1, BetterOrEven
      <4> QED
        BY <1>4, <1>8, <4>1
    <3>2. c < e /\ Even(s, u)
      BY <1>1, <1>3, <2>1, <3>1, BetterTransitive
    <3> QED
      BY <1>4, <3>2
  <2>2. CASE ~(Even(s, t) /\ Even(t, u))
    <3>1. Better(s, u)
      BY <1>3, <1>4, <1>8, <2>2, BetterTransitive
    <3> QED
      BY <1>4, <3>1
  <2> QED
    BY <2>1, <2>2
<1> QED
  BY <1>6, <1>7, <1>8

(* The place of a candidate: one more than there are before it.             *)
Ahead(summaries, n, c) == {d \in 1..n : Before(summaries, d, c)}
Place(summaries, n, c) == 1 + Cardinality(Ahead(summaries, n, c))

LEMMA Places ==
    ASSUME NEW summaries, NEW n, Candidacy(summaries, n), NEW c \in 1..n
    PROVE  /\ Place(summaries, n, c) \in 1..n
           /\ \A d \in 1..n : Before(summaries, c, d) =>
                Place(summaries, n, c) < Place(summaries, n, d)
<1>1. n \in Nat /\ IsFiniteSet(1..n) /\ Cardinality(1..n) = n
  <2>1. n \in Nat
    BY DEF Candidacy
  <2> QED
    BY <2>1, FS_Interval
<1>2. \A d \in 1..n : /\ Ahead(summaries, n, d) \subseteq 1..n
                      /\ d \notin Ahead(summaries, n, d)
  BY BeforeIsOrder DEF Ahead
<1>3. \A d \in 1..n : /\ IsFiniteSet(Ahead(summaries, n, d))
                      /\ Cardinality(Ahead(summaries, n, d)) \in Nat
                      /\ Cardinality(Ahead(summaries, n, d)) < n
  <2> TAKE d \in 1..n
  <2>1. Ahead(summaries, n, d) \subseteq 1..n /\ Ahead(summaries, n, d) # 1..n
    BY <1>2
  <2> QED
    BY <1>1, <2>1, PartSize
<1>4. ASSUME NEW d \in 1..n, Before(summaries, c, d)
      PROVE  Place(summaries, n, c) < Place(summaries, n, d)
  <2>1. Ahead(summaries, n, c) \subseteq Ahead(summaries, n, d)
    BY <1>4, BeforeIsOrder DEF Ahead
  <2>2. c \in Ahead(summaries, n, d) /\ c \notin Ahead(summaries, n, c)
    BY <1>2, <1>4 DEF Ahead
  <2>3. Cardinality(Ahead(summaries, n, c)) < Cardinality(Ahead(summaries, n, d))
    BY <1>3, <2>1, <2>2, PartSize
  <2> QED
    BY <1>3, <2>3 DEF Place
<1>5. Place(summaries, n, c) \in 1..n
  BY <1>1, <1>3 DEF Place
<1> QED
  BY <1>4, <1>5

(* There is an order of the candidates in which no neighbours are in the    *)
(* wrong order: the one by their places.                                    *)
Rankings(n) == {r \in [1..n -> 1..n] : \A c \in 1..n : \E i \in 1..n : r[i] = c}

NeighboursInOrder(summaries, n, r) ==
    \A i, j \in 1..n : j = i + 1 => ~Before(summaries, r[j], r[i])

LEMMA RankingExists ==
    ASSUME NEW summaries, NEW n, Candidacy(summaries, n)
    PROVE  \E r \in Rankings(n) : NeighboursInOrder(summaries, n, r)
<1> DEFINE f == [c \in 1..n |-> Place(summaries, n, c)]
           r == [i \in 1..n |-> CHOOSE c \in 1..n : f[c] = i]
<1>1. n \in Nat /\ IsFiniteSet(1..n)
  <2>1. n \in Nat
    BY DEF Candidacy
  <2> QED
    BY <2>1, FS_Interval
<1>2. \A c \in 1..n : f[c] \in 1..n
  BY Places
<1>3. \A c, d \in 1..n : Before(summaries, c, d) => f[c] < f[d]
  BY Places
<1>4. f \in [1..n -> 1..n]
  BY <1>2
<1> HIDE DEF f
<1>5. \A c, d \in 1..n : f[c] = f[d] => c = d
  <2> TAKE c, d \in 1..n
  <2> SUFFICES ASSUME c # d, f[c] = f[d] PROVE FALSE
    OBVIOUS
  <2>1. Before(summaries, c, d) \/ Before(summaries, d, c)
    BY BeforeIsOrder
  <2>2. f[c] < f[d] \/ f[d] < f[c]
    BY <1>3, <2>1
  <2> QED
    BY <1>2, <2>2
<1>6. f \in Injection(1..n, 1..n)
  BY <1>4, <1>5 DEF Injection, IsInjective
<1>7. f \in Surjection(1..n, 1..n)
  BY <1>1, <1>6, FS_Injection
<1>8. \A i \in 1..n : \E c \in 1..n : f[c] = i
  BY <1>7 DEF Surjection
<1>9. \A i \in 1..n : r[i] \in 1..n /\ f[r[i]] = i
  BY <1>8
<1>10. r \in [1..n -> 1..n]
  BY <1>9
<1> HIDE DEF r
<1>11. \A c \in 1..n : \E i \in 1..n : r[i] = c
  <2> TAKE c \in 1..n
  <2>1. f[c] \in 1..n /\ r[f[c]] = c
    BY <1>2, <1>5, <1>9
  <2> QED
    BY <2>1
<1>12. NeighboursInOrder(summaries, n, r)
  <2> SUFFICES ASSUME NEW i \in 1..n, NEW j \in 1..n, j = i + 1,
                      Before(summaries, r[j], r[i])
               PROVE  FALSE
    BY DEF NeighboursInOrder
  <2>1. f[r[j]] < f[r[i]]
    BY <1>3, <1>9
  <2> QED
    BY <1>9, <2>1
<1> QED
  BY <1>10, <1>11, <1>12 DEF Rankings

(* In such an order every candidate is before every later one.              *)
LEMMA NeighboursSuffice ==
    ASSUME NEW summaries, NEW n, Candidacy(summaries, n), NEW r \in Rankings(n),
           NeighboursInOrder(summaries, n, r),
           NEW i \in 1..n, NEW j \in 1..n, i < j
    PROVE  Before(summaries, r[i], r[j])
<1>1. n \in Nat /\ IsFiniteSet(1..n) /\ r \in [1..n -> 1..n]
  <2>1. n \in Nat
    BY DEF Candidacy
  <2> QED
    BY <2>1, FS_Interval DEF Rankings
<1>2. \A k, m \in 1..n : r[k] = r[m] => k = m
  <2>1. r \in Surjection(1..n, 1..n)
    BY DEF Rankings, Surjection
  <2>2. r \in Injection(1..n, 1..n)
    BY <1>1, <2>1, FS_Surjection
  <2> QED
    BY <2>2 DEF Injection, IsInjective
<1>3. \A k \in 1..n : k + 1 \in 1..n => Before(summaries, r[k], r[k + 1])
  <2> TAKE k \in 1..n
  <2> SUFFICES ASSUME k + 1 \in 1..n
               PROVE  Before(summaries, r[k], r[k + 1])
    OBVIOUS
  <2>1. r[k] # r[k + 1] /\ r[k] \in 1..n /\ r[k + 1] \in 1..n
    <3>1. k # k + 1
      OBVIOUS
    <3> QED
      BY <1>1, <1>2, <3>1
  <2>2. ~Before(summaries, r[k + 1], r[k])
    BY DEF NeighboursInOrder
  <2> QED
    BY <2>1, <2>2, BeforeIsOrder
<1> DEFINE Wrong == {m \in 1..n : i < m /\ ~Before(summaries, r[i], r[m])}
<1>4. ASSUME Wrong # {}
      PROVE  FALSE
  <2>1. Wrong \subseteq Nat
    OBVIOUS
  <2>2. PICK m \in Wrong : \A k \in Wrong : m <= k
    <3> HIDE DEF Wrong
    <3> QED
      BY <1>4, <2>1, LeastNat
  <2>3. m \in 1..n /\ i < m /\ ~Before(summaries, r[i], r[m])
    OBVIOUS
  <2>4. PICK k \in 1..n : m = k + 1 /\ i <= k
    <3>1. m - 1 \in 1..n /\ m = (m - 1) + 1 /\ i <= m - 1
      BY <1>1, <2>3
    <3> QED
      BY <3>1
  <2>5. Before(summaries, r[k], r[m])
    BY <1>3, <2>3, <2>4
  <2>6. CASE i = k
    BY <2>3, <2>5, <2>6
  <2>7. CASE i < k
    <3>1. k \notin Wrong
      BY <2>2, <2>4
    <3>2. Before(summaries, r[i], r[k])
      BY <2>7, <3>1
    <3>3. r[i] \in 1..n /\ r[k] \in 1..n /\ r[m] \in 1..n
      BY <1>1, <2>3
    <3> QED
      BY <2>3, <2>5, <3>2, <3>3, BeforeIsOrder
  <2> QED
    BY <2>4, <2>6, <2>7
<1> QED
  BY <1>4

(* What the sort leaves is ordered between any two candidates.              *)
LEMMA RankingIsOrdered ==
    ASSUME NEW summaries, NEW n, Candidacy(summaries, n),
           NEW i \in 1..n, NEW j \in 1..n, i < j
    PROVE  LET c == RankSelectionCandidates(summaries)[i]
               d == RankSelectionCandidates(summaries)[j]
           IN  Before(summaries, c, d) /\ ~Before(summaries, d, c)
<1>1. PICK r : r = RankSelectionCandidates(summaries)
  OBVIOUS
<1>2. DOMAIN summaries = 1..n
  BY DEF Candidacy
<1>3. r = CHOOSE q \in Rankings(n) : NeighboursInOrder(summaries, n, q)
  BY <1>1, <1>2 DEF RankSelectionCandidates, Rankings, NeighboursInOrder, Before
<1>4. r \in Rankings(n) /\ NeighboursInOrder(summaries, n, r)
  BY <1>3, RankingExists
<1>5. Before(summaries, r[i], r[j])
  BY <1>4, NeighboursSuffice
<1>6. r[i] \in 1..n /\ r[j] \in 1..n
  BY <1>4 DEF Rankings
<1> QED
  BY <1>1, <1>5, <1>6, BeforeIsOrder

-----------------------------------------------------------------------------
(* The attempts at the first cases of the corpus of binding b, for the      *)
(* candidate c; and those at all of them, which aggregate.                  *)
Prefix(b, c, attempts) ==
    /\ IsSeq(attempts)
    /\ \A i \in DOMAIN attempts : attempts[i].run = <<b, c>> /\ attempts[i].case = i

Whole(b, c, attempts) ==
    /\ b \in Bindings /\ Prefix(b, c, attempts) /\ Len(attempts) = Len(Corpus[b])
    /\ Aggregates(attempts, 1)

FileOK(c) ==
    \/ files[c] \in {Absent, Partial}
    \/ /\ files[c] = Checkpoint(files[c].binding, files[c].attempts)
       /\ Whole(files[c].binding, c, files[c].attempts)

Fields == {"at", "binding", "unread", "completedIds", "results", "cursor", "aborted", "workers"}

Shape(process) ==
    /\ DOMAIN process = Fields
    /\ DOMAIN process.results = Ids /\ DOMAIN process.workers = Workers
    /\ \A w \in Workers :
          DOMAIN process.workers[w] = {"at", "candidate", "attempts"}

Busy(worker) == worker.at \in {"calling", "opening", "writing"}

(* A busy worker is the only one of its run at a candidate that the cursor  *)
(* has passed and that has no results yet.                                  *)
WorkerOK(process, w) ==
    LET worker == process.workers[w]
    IN  /\ worker.at \in {"next", "calling", "opening", "writing", "rejected", "stopped"}
        /\ Prefix(process.binding, worker.candidate, worker.attempts)
        /\ Busy(worker) =>
             /\ process.at = "working"
             /\ worker.candidate \in Ids /\ worker.candidate < process.cursor
             /\ process.results[worker.candidate] = <<>>
             /\ IF worker.at = "calling"
                THEN Len(worker.attempts) < Len(Corpus[process.binding])
                ELSE /\ Len(worker.attempts) = Len(Corpus[process.binding])
                     /\ Aggregates(worker.attempts, 1)
             /\ \A v \in Workers \ {w} :
                  Busy(process.workers[v]) =>
                    process.workers[v].candidate # worker.candidate

ProcessOK(process) ==
    /\ Shape(process)
    /\ process.cursor \in 1..(Candidates + 1)
    /\ process.at \in {"resuming", "working", "publishing", "linking"} =>
         process.binding \in Bindings
    /\ process.at \in {"publishing", "linking"} => \A c \in Ids : process.results[c] # <<>>
    /\ \A c \in Ids : process.results[c] # <<>> =>
                        Whole(process.binding, c, process.results[c])
    /\ process.completedIds \subseteq {c \in Ids : process.results[c] # <<>>}
    /\ \A w \in Workers : WorkerOK(process, w)

Writes(p, w, c) ==
    procs[p].workers[w].at = "writing" /\ procs[p].workers[w].candidate = c

(* Results are on the disk; a file that is being written is not whole and   *)
(* is written by one worker of one process.                                 *)
DiskOK ==
    /\ \A p \in Processes, c \in Ids :
          procs[p].results[c] # <<>> =>
            files[c] = Checkpoint(procs[p].binding, procs[p].results[c])
    /\ \A p \in Processes, w \in Workers, c \in Ids :
          Writes(p, w, c) =>
            /\ files[c] = Partial
            /\ \A q \in Processes \ {p}, v \in Workers : ~Writes(q, v, c)

DirectoryOK ==
    /\ DOMAIN files = Ids /\ \A c \in Ids : FileOK(c)
    /\ DOMAIN procs = Processes /\ \A p \in Processes : ProcessOK(procs[p])
    /\ DiskOK

PublishedIsRanked ==
    output # Absent => output.ranking = RankSelectionCandidates(Summaries(output.results))

SInv == DirectoryOK /\ PublishedIsCheckpointed /\ PublishedIsRanked

-----------------------------------------------------------------------------
LEMMA SeqIsSeq ==
    ASSUME NEW S, NEW s \in Seq(S)
    PROVE  IsSeq(s)
<1>1. DOMAIN s = 1 .. Len(s) /\ Len(s) \in Nat /\ s = [i \in 1 .. Len(s) |-> s[i]]
  OBVIOUS
<1> QED
  BY <1>1 DEF IsSeq

LEMMA PrefixEmpty ==
    ASSUME NEW b, NEW c
    PROVE  Prefix(b, c, <<>>) /\ Len(<<>>) = 0
<1>1. <<>> \in Seq({})
  OBVIOUS
<1>2. IsSeq(<<>>)
  BY <1>1, SeqIsSeq
<1> QED
  BY <1>2 DEF Prefix

LEMMA PrefixAppend ==
    ASSUME NEW b, NEW c, NEW attempts, Prefix(b, c, attempts), NEW e,
           e.run = <<b, c>>, e.case = Len(attempts) + 1
    PROVE  LET longer == Append(attempts, e)
           IN  /\ Prefix(b, c, longer) /\ Len(longer) = Len(attempts) + 1
               /\ Len(attempts) \in Nat
<1> DEFINE S == {attempts[i] : i \in DOMAIN attempts}
           longer == Append(attempts, e)
<1>1. attempts \in Seq(S)
  BY DEF Prefix, IsSeq
<1>2. attempts \in Seq(S \cup {e}) /\ longer \in Seq(S \cup {e})
  BY <1>1
<1> HIDE DEF S
<1>3. /\ Len(attempts) \in Nat /\ DOMAIN attempts = 1 .. Len(attempts)
      /\ Len(longer) = Len(attempts) + 1 /\ DOMAIN longer = 1 .. Len(attempts) + 1
      /\ \A i \in 1 .. Len(attempts) : longer[i] = attempts[i]
      /\ longer[Len(attempts) + 1] = e
  BY <1>2
<1>4. IsSeq(longer)
  BY <1>2, SeqIsSeq
<1> HIDE DEF longer
<1>5. \A i \in DOMAIN longer : longer[i].run = <<b, c>> /\ longer[i].case = i
  BY <1>3 DEF Prefix
<1> QED
  BY <1>3, <1>4, <1>5 DEF Prefix, longer

LEMMA WholeIsMore ==
    ASSUME NEW b, NEW c, NEW attempts, Whole(b, c, attempts)
    PROVE  attempts # <<>>
<1>1. Len(Corpus[b]) \in Nat \ {0}
  BY SelectionAssumption DEF Whole
<1> QED
  BY <1>1, PrefixEmpty DEF Whole

LEMMA FileKinds ==
    /\ Absent.is = "absent" /\ Partial.is = "partial" /\ Absent # Partial
    /\ \A b, attempts :
         LET f == Checkpoint(b, attempts)
         IN  /\ f.is = "checkpoint" /\ f.binding = b /\ f.attempts = attempts
             /\ f \notin {Absent, Partial}
    /\ \A process : Artifact(process) # Absent
<1>1. /\ Absent.is = "absent" /\ Partial.is = "partial"
      /\ \A b, attempts : /\ Checkpoint(b, attempts).is = "checkpoint"
                          /\ Checkpoint(b, attempts).binding = b
                          /\ Checkpoint(b, attempts).attempts = attempts
      /\ \A process : Artifact(process).is = "artifact"
  BY DEF Absent, Partial, Checkpoint, Artifact
<1> QED
  BY <1>1

-----------------------------------------------------------------------------
LEMMA EndedFields ==
    ASSUME NEW at
    PROVE  LET e == Ended(at)
           IN  /\ Shape(e) /\ e.at = at /\ e.cursor = 1 /\ e.completedIds = {}
               /\ e.binding = Null
               /\ \A c \in Ids : e.results[c] = <<>>
               /\ \A w \in Workers :
                    e.workers[w] = [at |-> "next", candidate |-> 0, attempts |-> <<>>]
  BY DEF Ended, Shape, Fields

LEMMA FreshWorker ==
    ASSUME NEW process, NEW w,
           process.workers[w] = [at |-> "next", candidate |-> 0, attempts |-> <<>>]
    PROVE  WorkerOK(process, w) /\ ~Busy(process.workers[w])
           /\ process.workers[w].at # "writing"
  BY PrefixEmpty DEF WorkerOK, Busy

LEMMA EndedOK ==
    ASSUME NEW at \in {"stopped", "failed", "done"}
    PROVE  ProcessOK(Ended(at))
<1>1. 1 \in 1 .. (Candidates + 1)
  BY SelectionAssumption
<1>2. \A w \in Workers : WorkerOK(Ended(at), w)
  BY EndedFields, FreshWorker
<1> QED
  BY <1>1, <1>2, EndedFields DEF ProcessOK

-----------------------------------------------------------------------------
(* A step of process p.                                                     *)
Moves(p) ==
    /\ DOMAIN procs' = Processes
    /\ \A q \in Processes \ {p} : procs'[q] = procs[q]

LEMMA Replaced ==
    ASSUME DirectoryOK, NEW p \in Processes, NEW x, procs' = [procs EXCEPT ![p] = x]
    PROVE  Moves(p) /\ procs'[p] = x
  BY DEF DirectoryOK, Moves

(* A step that leaves the files alone: what the process has for results is  *)
(* on the disk, and it writes no file it did not write before.              *)
LEMMA QuietStep ==
    ASSUME DirectoryOK, NEW p \in Processes, Moves(p), files' = files,
           ProcessOK(procs'[p]),
           \A c \in Ids : procs'[p].results[c] # <<>> =>
             files[c] = Checkpoint(procs'[p].binding, procs'[p].results[c]),
           \A w \in Workers, c \in Ids : Writes(p, w, c)' => Writes(p, w, c)
    PROVE  DirectoryOK'
<1>1. \A q \in Processes : ProcessOK(procs'[q])
  BY DEF DirectoryOK, Moves
<1>2. ASSUME NEW q \in Processes, NEW c \in Ids, procs'[q].results[c] # <<>>
      PROVE  files'[c] = Checkpoint(procs'[q].binding, procs'[q].results[c])
  BY <1>2 DEF DirectoryOK, DiskOK, Moves
<1>3. \A q \in Processes, w \in Workers, c \in Ids : Writes(q, w, c)' => Writes(q, w, c)
  <2> SUFFICES ASSUME NEW q \in Processes \ {p}, NEW w \in Workers, NEW c \in Ids
               PROVE  Writes(q, w, c)' => Writes(q, w, c)
    OBVIOUS
  <2> QED
    BY DEF Moves, Writes
<1>4. ASSUME NEW q \in Processes, NEW w \in Workers, NEW c \in Ids, Writes(q, w, c)'
      PROVE  /\ files'[c] = Partial
             /\ \A r \in Processes \ {q}, v \in Workers : ~Writes(r, v, c)'
  <2>1. files[c] = Partial /\ \A r \in Processes \ {q}, v \in Workers : ~Writes(r, v, c)
    BY <1>3, <1>4 DEF DirectoryOK, DiskOK
  <2> QED
    BY <1>3, <2>1
<1>5. DiskOK'
  BY <1>2, <1>4 DEF DiskOK
<1>6. \A c \in Ids : FileOK(c)'
  BY DEF DirectoryOK, FileOK
<1> QED
  BY <1>1, <1>5, <1>6 DEF DirectoryOK, Moves

(* A step at one file that was absent or not whole, and that no other       *)
(* process writes: what it leaves there is what the process has for results *)
(* of the candidate, if anything.                                           *)
LEMMA FileStep ==
    ASSUME DirectoryOK, NEW p \in Processes, Moves(p), NEW w \in Workers,
           NEW c \in Ids, NEW f, files' = [files EXCEPT ![c] = f],
           files[c] \in {Absent, Partial}, FileOK(c)', ProcessOK(procs'[p]),
           procs'[p].binding = procs[p].binding,
           \A d \in Ids \ {c} : procs'[p].results[d] = procs[p].results[d],
           procs'[p].results[c] # <<>> =>
             f = Checkpoint(procs'[p].binding, procs'[p].results[c]),
           \A v \in Workers, d \in Ids : Writes(p, v, d)' =>
             IF d = c THEN f = Partial ELSE Writes(p, v, d),
           \A q \in Processes \ {p}, v \in Workers : ~Writes(q, v, c)
    PROVE  DirectoryOK'
<1>1. \A q \in Processes : ProcessOK(procs'[q])
  BY DEF DirectoryOK, Moves
<1>2. DOMAIN files' = Ids /\ files'[c] = f /\ \A d \in Ids \ {c} : files'[d] = files[d]
  BY DEF DirectoryOK
<1>3. ASSUME NEW q \in Processes, NEW d \in Ids, procs'[q].results[d] # <<>>
      PROVE  files'[d] = Checkpoint(procs'[q].binding, procs'[q].results[d])
  <2>1. CASE d = c /\ q = p
    BY <1>2, <1>3, <2>1
  <2>2. CASE d # c \/ q # p
    <3>1. procs'[q].results[d] = procs[q].results[d] /\ procs'[q].binding = procs[q].binding
      BY <2>2 DEF Moves
    <3>2. files[d] = Checkpoint(procs[q].binding, procs[q].results[d])
      BY <1>3, <3>1 DEF DirectoryOK, DiskOK
    <3>3. d # c
      BY <3>2, FileKinds
    <3> QED
      BY <1>2, <3>1, <3>2, <3>3
  <2> QED
    BY <2>1, <2>2
<1>4. \A q \in Processes, v \in Workers, d \in Ids : Writes(q, v, d)' =>
        IF d = c THEN q = p /\ f = Partial ELSE Writes(q, v, d)
  <2> SUFFICES ASSUME NEW q \in Processes \ {p}, NEW v \in Workers, NEW d \in Ids
               PROVE  Writes(q, v, d)' => d # c /\ Writes(q, v, d)
    OBVIOUS
  <2> QED
    BY DEF Moves, Writes
<1>5. ASSUME NEW q \in Processes, NEW v \in Workers, NEW d \in Ids, Writes(q, v, d)'
      PROVE  /\ files'[d] = Partial
             /\ \A r \in Processes \ {q}, u \in Workers : ~Writes(r, u, d)'
  <2>1. CASE d = c
    BY <1>2, <1>4, <1>5, <2>1
  <2>2. CASE d # c
    <3>1. files[d] = Partial /\ \A r \in Processes \ {q}, u \in Workers : ~Writes(r, u, d)
      BY <1>4, <1>5, <2>2 DEF DirectoryOK, DiskOK
    <3> QED
      BY <1>2, <1>4, <2>2, <3>1
  <2> QED
    BY <2>1, <2>2
<1>6. DiskOK'
  BY <1>3, <1>5 DEF DiskOK
<1>7. \A d \in Ids : FileOK(d)'
  BY <1>2 DEF DirectoryOK, FileOK
<1> QED
  BY <1>1, <1>2, <1>6, <1>7 DEF DirectoryOK, Moves

(* What ends a process leaves nothing of it behind but its files.           *)
LEMMA EndedStep ==
    ASSUME DirectoryOK, NEW p \in Processes, NEW at \in {"stopped", "failed", "done"},
           procs' = [procs EXCEPT ![p] = Ended(at)], files' = files
    PROVE  DirectoryOK'
<1>1. Moves(p) /\ procs'[p] = Ended(at)
  BY Replaced
<1>2. ProcessOK(procs'[p])
  BY <1>1, EndedOK
<1>3. \A c \in Ids : procs'[p].results[c] = <<>>
  BY <1>1, EndedFields
<1>4. \A w \in Workers, c \in Ids : ~Writes(p, w, c)'
  <2>1. \A w \in Workers : procs'[p].workers[w].at # "writing"
    BY <1>1, EndedFields
  <2> QED
    BY <2>1 DEF Writes
<1> QED
  BY <1>1, <1>2, <1>3, <1>4, QuietStep

LEMMA SelectionInit == Init => SInv
<1> SUFFICES ASSUME Init PROVE SInv
  OBVIOUS
<1>1. \A c \in Ids : files[c] = Absent
  BY DEF Init
<1>2. \A p \in Processes : procs[p] = Ended("stopped")
  BY DEF Init
<1>3. \A p \in Processes : ProcessOK(procs[p])
  BY <1>2, EndedOK
<1>4. DiskOK
  BY <1>2, EndedFields DEF DiskOK, Writes
<1> QED
  BY <1>1, <1>3, <1>4 DEF Init, SInv, DirectoryOK, FileOK, PublishedIsCheckpointed,
                                       PublishedIsRanked

-----------------------------------------------------------------------------
(* Worker w of a working process moves: it stays at its candidate, or goes  *)
(* to one that the cursor had not passed, or leaves results.                *)
WorkerMoves(old, new, w) ==
    LET worker == new.workers[w]
        c == old.workers[w].candidate
    IN  /\ Shape(new)
        /\ old.at = "working" /\ new.at = "working"
        /\ new.binding = old.binding /\ new.completedIds = old.completedIds
        /\ new.cursor \in 1..(Candidates + 1) /\ new.cursor >= old.cursor
        /\ \A v \in Workers \ {w} : new.workers[v] = old.workers[v]
        /\ \A d \in Ids :
             \/ new.results[d] = old.results[d]
             \/ d = c /\ Busy(old.workers[w]) /\ ~Busy(worker)
                  /\ Whole(old.binding, d, new.results[d])
        /\ worker.at \in {"next", "calling", "opening", "writing", "rejected", "stopped"}
        /\ Prefix(old.binding, worker.candidate, worker.attempts)
        /\ Busy(worker) =>
             /\ IF worker.at = "calling"
                THEN Len(worker.attempts) < Len(Corpus[old.binding])
                ELSE /\ Len(worker.attempts) = Len(Corpus[old.binding])
                     /\ Aggregates(worker.attempts, 1)
             /\ \/ Busy(old.workers[w]) /\ worker.candidate = c
                \/ /\ worker.candidate \in old.cursor..(new.cursor - 1)
                   /\ worker.candidate \in Ids
                   /\ old.results[worker.candidate] = <<>>

LEMMA WorkerMovesOK ==
    ASSUME NEW old, NEW new, NEW w \in Workers, ProcessOK(old),
           WorkerMoves(old, new, w)
    PROVE  ProcessOK(new)
<1> DEFINE worker == new.workers[w]
<1>1. \A v \in Workers : WorkerOK(old, v)
  BY DEF ProcessOK
<1>2. old.cursor \in Int /\ new.cursor \in Int /\ new.cursor >= old.cursor
      /\ Ids \subseteq Int
  BY SelectionAssumption DEF ProcessOK, WorkerMoves, Ids
<1>a. \A c \in Ids : c < old.cursor => c < new.cursor
  <2> SUFFICES ASSUME NEW c \in Ids, c < old.cursor PROVE c < new.cursor
    OBVIOUS
  <2>1. c \in Int
    BY <1>2
  <2> QED
    BY <1>2, <2>1
<1>3. ASSUME NEW v \in Workers \ {w}, Busy(new.workers[v]), Busy(worker)
      PROVE  new.workers[v].candidate # worker.candidate
  <2>1. Busy(old.workers[v]) /\ new.workers[v].candidate = old.workers[v].candidate
    BY <1>3 DEF WorkerMoves
  <2>2. CASE Busy(old.workers[w]) /\ worker.candidate = old.workers[w].candidate
    BY <1>1, <2>1, <2>2 DEF WorkerOK
  <2>3. CASE worker.candidate \in old.cursor..(new.cursor - 1)
    <3>1. old.workers[v].candidate < old.cursor /\ old.workers[v].candidate \in Ids
      BY <1>1, <2>1 DEF WorkerOK
    <3> QED
      BY <1>2, <2>1, <2>3, <3>1
  <2> QED
    BY <1>3, <2>2, <2>3 DEF WorkerMoves
<1>4. WorkerOK(new, w)
  <2>1. ASSUME Busy(worker)
        PROVE  /\ worker.candidate \in Ids /\ worker.candidate < new.cursor
               /\ new.results[worker.candidate] = <<>>
    <3>0. \A d \in Ids : new.results[d] = old.results[d]
      BY <2>1 DEF WorkerMoves
    <3>1. CASE Busy(old.workers[w]) /\ worker.candidate = old.workers[w].candidate
      <4>1. /\ worker.candidate \in Ids /\ worker.candidate < old.cursor
            /\ old.results[worker.candidate] = <<>>
        BY <1>1, <3>1 DEF WorkerOK
      <4>2. worker.candidate < new.cursor
        BY <1>a, <4>1
      <4> QED
        BY <3>0, <4>1, <4>2
    <3>2. CASE /\ worker.candidate \in old.cursor..(new.cursor - 1)
               /\ worker.candidate \in Ids
               /\ old.results[worker.candidate] = <<>>
      <4>1. worker.candidate < new.cursor
        BY <1>2, <3>2
      <4> QED
        BY <3>0, <3>2, <4>1
    <3> QED
      BY <2>1, <3>1, <3>2 DEF WorkerMoves
  <2> QED
    BY <1>3, <2>1 DEF WorkerOK, WorkerMoves
<1>5. ASSUME NEW v \in Workers \ {w}
      PROVE  WorkerOK(new, v)
  <2>1. new.workers[v] = old.workers[v] /\ WorkerOK(old, v)
    BY <1>1 DEF WorkerMoves
  <2>2. ASSUME Busy(old.workers[v])
        PROVE  /\ old.workers[v].candidate < new.cursor
               /\ new.results[old.workers[v].candidate] = <<>>
    <3>1. /\ old.workers[v].candidate \in Ids /\ old.workers[v].candidate < old.cursor
          /\ old.results[old.workers[v].candidate] = <<>>
      BY <2>1, <2>2 DEF WorkerOK
    <3>2. Busy(old.workers[w]) => old.workers[v].candidate # old.workers[w].candidate
      BY <2>1, <2>2 DEF WorkerOK
    <3>3. new.results[old.workers[v].candidate] = old.results[old.workers[v].candidate]
      BY <3>1, <3>2 DEF WorkerMoves
    <3> QED
      BY <1>a, <3>1, <3>3
  <2>3. ASSUME NEW u \in Workers \ {v}, Busy(new.workers[u]), Busy(new.workers[v])
        PROVE  new.workers[u].candidate # new.workers[v].candidate
    <3>1. CASE u = w
      BY <1>3, <2>3, <3>1
    <3>2. CASE u # w
      BY <2>1, <2>3, <3>2 DEF WorkerOK, WorkerMoves
    <3> QED
      BY <3>1, <3>2
  <2> QED
    BY <2>1, <2>2, <2>3 DEF WorkerOK, WorkerMoves
<1>6. \A d \in Ids : new.results[d] # <<>> => Whole(new.binding, d, new.results[d])
  BY DEF ProcessOK, WorkerMoves
<1>7. new.completedIds \subseteq {d \in Ids : new.results[d] # <<>>}
  BY WholeIsMore DEF ProcessOK, WorkerMoves
<1>8. new.binding \in Bindings
  BY DEF ProcessOK, WorkerMoves
<1>9. new.at = "working" /\ Shape(new) /\ new.cursor \in 1..(Candidates + 1)
  BY DEF WorkerMoves
<1> QED
  BY <1>4, <1>5, <1>6, <1>7, <1>8, <1>9 DEF ProcessOK

-----------------------------------------------------------------------------
(* What a worker does, files unchanged: nothing new for results and no file *)
(* to write.                                                                *)
LEMMA WorkerStep ==
    ASSUME DirectoryOK, NEW p \in Processes, NEW w \in Workers, Moves(p), files' = files,
           WorkerMoves(procs[p], procs'[p], w),
           procs'[p].results = procs[p].results,
           procs'[p].workers[w].at # "writing"
    PROVE  DirectoryOK'
<1>1. ProcessOK(procs'[p])
  BY WorkerMovesOK DEF DirectoryOK
<1>2. procs'[p].binding = procs[p].binding
  BY DEF WorkerMoves
<1>3. \A c \in Ids : procs'[p].results[c] # <<>> =>
        files[c] = Checkpoint(procs'[p].binding, procs'[p].results[c])
  BY <1>2 DEF DirectoryOK, DiskOK
<1>4. \A v \in Workers \ {w} : procs'[p].workers[v] = procs[p].workers[v]
  BY DEF WorkerMoves
<1>5. \A v \in Workers, c \in Ids : Writes(p, v, c)' => Writes(p, v, c)
  BY <1>4 DEF Writes
<1> QED
  BY <1>1, <1>3, <1>5, QuietStep

(* The shape of a process and its parts.                                    *)
LEMMA Parts ==
    ASSUME DirectoryOK, NEW p \in Processes
    PROVE  /\ DOMAIN procs = Processes /\ ProcessOK(procs[p]) /\ Shape(procs[p])
           /\ DOMAIN procs[p] = Fields
           /\ DOMAIN procs[p].results = Ids /\ DOMAIN procs[p].workers = Workers
           /\ \A w \in Workers :
                /\ DOMAIN procs[p].workers[w] = {"at", "candidate", "attempts"}
                /\ WorkerOK(procs[p], w)
  BY DEF DirectoryOK, ProcessOK, Shape

LEMMA TakeStep ==
    ASSUME DirectoryOK, NEW p \in Processes, NEW w \in Workers, Take(p, w)
    PROVE  DirectoryOK'
<1> DEFINE process == procs[p]
           missing == Missing(process)
<1>1. /\ process.at = "working" /\ process.workers[w].at = "next"
      /\ files' = files
  BY DEF Take
<1>2. process.cursor \in 1..(Candidates + 1) /\ process.binding \in Bindings
  BY <1>1, Parts DEF ProcessOK
<1>3. CASE procs' = [procs EXCEPT ![p].workers[w].at = "stopped"]
  <2>1. /\ Moves(p)
        /\ procs'[p] = [process EXCEPT !.workers[w].at = "stopped"]
    BY <1>3, Parts DEF Moves
  <2>2. /\ Shape(procs'[p]) /\ procs'[p].at = process.at
        /\ procs'[p].binding = process.binding /\ procs'[p].cursor = process.cursor
        /\ procs'[p].completedIds = process.completedIds
        /\ procs'[p].results = process.results
        /\ procs'[p].workers[w].at = "stopped"
        /\ procs'[p].workers[w].candidate = process.workers[w].candidate
        /\ procs'[p].workers[w].attempts = process.workers[w].attempts
        /\ \A v \in Workers \ {w} : procs'[p].workers[v] = process.workers[v]
    BY <2>1, Parts DEF Shape, Fields
  <2>3. ~Busy(procs'[p].workers[w])
    BY <2>2 DEF Busy
  <2>4. Prefix(process.binding, process.workers[w].candidate, process.workers[w].attempts)
    BY Parts DEF WorkerOK
  <2>5. process.cursor >= process.cursor
    BY <1>2, SelectionAssumption
  <2>6. WorkerMoves(process, procs'[p], w)
    BY <1>1, <1>2, <2>2, <2>3, <2>4, <2>5 DEF WorkerMoves
  <2> QED
    BY <1>1, <2>1, <2>2, <2>6, WorkerStep
<1>4. ASSUME NEW c \in missing,
             procs' = [SetWorker(p, w, [at |-> "calling", candidate |-> c, attempts |-> <<>>])
                         EXCEPT ![p].cursor = c + 1]
      PROVE  DirectoryOK'
  <2>1. /\ Moves(p)
        /\ procs'[p] = [process EXCEPT
             !.workers[w] = [at |-> "calling", candidate |-> c, attempts |-> <<>>],
             !.cursor = c + 1]
    BY <1>4, Parts DEF Moves, SetWorker, Fields
  <2>2. /\ Shape(procs'[p]) /\ procs'[p].at = process.at
        /\ procs'[p].binding = process.binding /\ procs'[p].cursor = c + 1
        /\ procs'[p].completedIds = process.completedIds
        /\ procs'[p].results = process.results
        /\ procs'[p].workers[w].at = "calling"
        /\ procs'[p].workers[w].candidate = c
        /\ procs'[p].workers[w].attempts = <<>>
        /\ \A v \in Workers \ {w} : procs'[p].workers[v] = process.workers[v]
    BY <2>1, Parts DEF Shape, Fields
  <2>3. /\ c \in process.cursor..Candidates /\ process.results[c] = <<>>
    BY DEF Missing
  <2>4. /\ c \in process.cursor..((c + 1) - 1) /\ c \in Ids
        /\ c + 1 \in 1..(Candidates + 1) /\ c + 1 >= process.cursor
    BY <1>2, <2>3, SelectionAssumption DEF Ids
  <2>5. Len(<<>>) < Len(Corpus[process.binding]) /\ Prefix(process.binding, c, <<>>)
    BY <1>2, PrefixEmpty, SelectionAssumption
  <2>6. WorkerMoves(process, procs'[p], w)
    BY <1>1, <2>2, <2>3, <2>4, <2>5 DEF WorkerMoves
  <2> QED
    BY <1>1, <2>1, <2>2, <2>6, WorkerStep
<1> QED
  BY <1>3, <1>4 DEF Take

LEMMA AnswerStep ==
    ASSUME DirectoryOK, NEW p \in Processes, NEW w \in Workers, Answer(p, w)
    PROVE  DirectoryOK'
<1> DEFINE process == procs[p]
           worker == process.workers[w]
           corpus == Corpus[process.binding]
           n == Len(worker.attempts) + 1
           entry(answer) == Attempt(<<process.binding, worker.candidate>>, n, corpus[n].data,
                                    1, answer.latency,
                                    EvaluateAttempt(answer.response, corpus[n].action))
<1>1. /\ process.at = "working" /\ worker.at = "calling" /\ files' = files
  BY DEF Answer
<1>2. PICK answer \in corpus[n].answers :
        procs' = SetWorker(p, w,
          [worker EXCEPT
             !.attempts = Append(worker.attempts, entry(answer)),
             !.at = CASE n < Len(corpus) -> "calling"
                      [] n = Len(corpus) /\ Aggregates(Append(worker.attempts, entry(answer)), 1)
                           -> "opening"
                      [] OTHER -> "rejected"])
  BY DEF Answer
<1> DEFINE e == entry(answer)
           attempts == Append(worker.attempts, e)
           at == CASE n < Len(corpus) -> "calling"
                   [] n = Len(corpus) /\ Aggregates(attempts, 1) -> "opening"
                   [] OTHER -> "rejected"
<1>3. /\ Busy(worker) /\ process.binding \in Bindings
      /\ Prefix(process.binding, worker.candidate, worker.attempts)
      /\ process.cursor \in 1..(Candidates + 1)
  BY <1>1, Parts DEF Busy, WorkerOK, ProcessOK
<1>4. e.run = <<process.binding, worker.candidate>> /\ e.case = Len(worker.attempts) + 1
  BY DEF Attempt
<1>5. /\ Prefix(process.binding, worker.candidate, attempts) /\ Len(attempts) = n
      /\ Len(worker.attempts) \in Nat
  <2> HIDE DEF e
  <2> QED
    BY <1>3, <1>4, PrefixAppend
<1>6. procs' = SetWorker(p, w, [worker EXCEPT !.attempts = attempts, !.at = at])
  BY <1>2
<1> HIDE DEF e, attempts
<1>7. /\ at \in {"calling", "opening", "rejected"}
      /\ at = "calling" => n < Len(corpus)
      /\ at = "opening" => n = Len(corpus) /\ Aggregates(attempts, 1)
  <2>1. n \in Nat /\ Len(corpus) \in Nat
    BY <1>3, <1>5, SelectionAssumption
  <2> HIDE DEF n, corpus
  <2>2. CASE n < Len(corpus)
    BY <2>1, <2>2
  <2>3. CASE n = Len(corpus) /\ Aggregates(attempts, 1)
    BY <2>1, <2>3
  <2>4. CASE ~(n < Len(corpus)) /\ ~(n = Len(corpus) /\ Aggregates(attempts, 1))
    BY <2>4
  <2> QED
    BY <2>2, <2>3, <2>4
<1> HIDE DEF at
<1>8. /\ Moves(p)
      /\ procs'[p] = [process EXCEPT
           !.workers[w] = [worker EXCEPT !.attempts = attempts, !.at = at]]
  BY <1>6, Parts DEF Moves, SetWorker
<1>9. /\ Shape(procs'[p]) /\ procs'[p].at = process.at
      /\ procs'[p].binding = process.binding /\ procs'[p].cursor = process.cursor
      /\ procs'[p].completedIds = process.completedIds
      /\ procs'[p].results = process.results
      /\ procs'[p].workers[w].at = at
      /\ procs'[p].workers[w].candidate = worker.candidate
      /\ procs'[p].workers[w].attempts = attempts
      /\ \A v \in Workers \ {w} : procs'[p].workers[v] = process.workers[v]
  BY <1>8, Parts DEF Shape, Fields
<1>10. Busy(procs'[p].workers[w]) => at \in {"calling", "opening"}
  BY <1>7, <1>9 DEF Busy
<1>11. process.cursor >= process.cursor
  BY <1>3, SelectionAssumption
<1>12. WorkerMoves(process, procs'[p], w)
  BY <1>1, <1>3, <1>5, <1>7, <1>9, <1>10, <1>11 DEF WorkerMoves
<1> QED
  BY <1>1, <1>7, <1>8, <1>9, <1>12, WorkerStep

-----------------------------------------------------------------------------
(* A worker that fails, or changes only where it is.                        *)
LEMMA Rejects ==
    ASSUME DirectoryOK, NEW p \in Processes, NEW w \in Workers,
           procs[p].at = "working", Abort(p, w)
    PROVE  /\ Moves(p) /\ procs'[p].results = procs[p].results
           /\ procs'[p].binding = procs[p].binding
           /\ WorkerMoves(procs[p], procs'[p], w)
           /\ procs'[p].workers[w].at = "rejected"
<1> DEFINE process == procs[p]
<1>1. /\ Moves(p)
      /\ procs'[p] = [process EXCEPT !.aborted = TRUE, !.workers[w].at = "rejected"]
  BY Parts DEF Moves, Abort, Fields
<1>2. /\ Shape(procs'[p]) /\ procs'[p].at = process.at
      /\ procs'[p].binding = process.binding /\ procs'[p].cursor = process.cursor
      /\ procs'[p].completedIds = process.completedIds
      /\ procs'[p].results = process.results
      /\ procs'[p].workers[w].at = "rejected"
      /\ procs'[p].workers[w].candidate = process.workers[w].candidate
      /\ procs'[p].workers[w].attempts = process.workers[w].attempts
      /\ \A v \in Workers \ {w} : procs'[p].workers[v] = process.workers[v]
  BY <1>1, Parts DEF Shape, Fields
<1>3. ~Busy(procs'[p].workers[w])
  BY <1>2 DEF Busy
<1>4. Prefix(process.binding, process.workers[w].candidate, process.workers[w].attempts)
  BY Parts DEF WorkerOK
<1>5. process.cursor \in 1..(Candidates + 1) /\ process.cursor >= process.cursor
  BY Parts, SelectionAssumption DEF ProcessOK
<1>6. WorkerMoves(process, procs'[p], w)
  BY <1>2, <1>3, <1>4, <1>5 DEF WorkerMoves
<1> QED
  BY <1>1, <1>2, <1>6

(* Nobody writes a file that is not there.                                  *)
LEMMA OpenStep ==
    ASSUME SInv, NEW p \in Processes, NEW w \in Workers, Open(p, w)
    PROVE  SInv'
<1> DEFINE process == procs[p]
<1>0. PICK c : c = process.workers[w].candidate
  OBVIOUS
<1>1. /\ process.at = "working" /\ process.workers[w].at = "opening" /\ output' = output
      /\ DirectoryOK /\ PublishedIsCheckpointed /\ PublishedIsRanked
  BY DEF Open, SInv
<1>2. CASE Abort(p, w) /\ files' = files
  <2>1. DirectoryOK'
    BY <1>1, <1>2, Rejects, WorkerStep
  <2> QED
    BY <1>1, <1>2, <2>1 DEF SInv, PublishedIsCheckpointed, PublishedIsRanked
<1>3. CASE /\ files[c] = Absent
           /\ files' = [files EXCEPT ![c] = Partial]
           /\ procs' = [procs EXCEPT ![p].workers[w].at = "writing"]
  <2>1. /\ Moves(p)
        /\ procs'[p] = [process EXCEPT !.workers[w].at = "writing"]
    BY <1>3, Parts, <1>1 DEF Moves
  <2>2. /\ Shape(procs'[p]) /\ procs'[p].at = process.at
        /\ procs'[p].binding = process.binding /\ procs'[p].cursor = process.cursor
        /\ procs'[p].completedIds = process.completedIds
        /\ procs'[p].results = process.results
        /\ procs'[p].workers[w].at = "writing"
        /\ procs'[p].workers[w].candidate = c
        /\ procs'[p].workers[w].attempts = process.workers[w].attempts
        /\ \A v \in Workers \ {w} : procs'[p].workers[v] = process.workers[v]
    BY <1>0, <1>1, <2>1, Parts DEF Shape, Fields
  <2>3. /\ Busy(process.workers[w]) /\ c \in Ids /\ process.results[c] = <<>>
        /\ Prefix(process.binding, c, process.workers[w].attempts)
        /\ Len(process.workers[w].attempts) = Len(Corpus[process.binding])
        /\ Aggregates(process.workers[w].attempts, 1)
    BY <1>0, <1>1, Parts DEF Busy, WorkerOK
  <2>4. process.cursor \in 1..(Candidates + 1) /\ process.cursor >= process.cursor
    BY Parts, <1>1, SelectionAssumption DEF ProcessOK
  <2>5. WorkerMoves(process, procs'[p], w)
    BY <1>0, <1>1, <2>2, <2>3, <2>4 DEF WorkerMoves
  <2>6. ProcessOK(procs'[p])
    BY <1>1, <2>5, WorkerMovesOK, Parts
  <2>7. \A q \in Processes, v \in Workers : ~Writes(q, v, c)
    BY <1>1, <1>3, <2>3, FileKinds DEF DirectoryOK, DiskOK
  <2>8. \A v \in Workers, d \in Ids : Writes(p, v, d)' =>
          IF d = c THEN Partial = Partial ELSE Writes(p, v, d)
    BY <2>2 DEF Writes
  <2>9. files'[c] = Partial
    BY <1>1, <1>3, <2>3 DEF DirectoryOK
  <2>10. FileOK(c)'
    BY <2>9 DEF FileOK
  <2>11. DirectoryOK'
    BY <1>1, <1>3, <2>1, <2>2, <2>3, <2>6, <2>7, <2>8, <2>10, FileStep
  <2>12. output = Absent
    BY <1>1, <1>3, <2>3, FileKinds DEF PublishedIsCheckpointed
  <2> QED
    BY <1>1, <2>11, <2>12 DEF SInv, PublishedIsCheckpointed, PublishedIsRanked
<1> QED
  BY <1>0, <1>2, <1>3 DEF Open

(* A worker has its file for itself from the open on; when it is done with  *)
(* it, the file is a checkpoint of the results.                             *)
LEMMA WriteStep ==
    ASSUME SInv, NEW p \in Processes, NEW w \in Workers, Write(p, w)
    PROVE  SInv'
<1> DEFINE process == procs[p]
           worker == process.workers[w]
           checkpoint == Checkpoint(process.binding, worker.attempts)
<1>0. PICK c : c = worker.candidate
  OBVIOUS
<1>1. /\ process.at = "working" /\ worker.at = "writing" /\ output' = output
      /\ DirectoryOK /\ PublishedIsCheckpointed /\ PublishedIsRanked
  BY DEF Write, SInv
<1>2. /\ Busy(worker) /\ c \in Ids /\ process.results[c] = <<>>
      /\ process.binding \in Bindings
      /\ Prefix(process.binding, c, worker.attempts)
      /\ Len(worker.attempts) = Len(Corpus[process.binding])
      /\ Aggregates(worker.attempts, 1)
      /\ \A v \in Workers \ {w} : Busy(process.workers[v]) =>
           process.workers[v].candidate # c
  BY <1>0, <1>1, Parts DEF Busy, WorkerOK, ProcessOK
<1>3. Whole(process.binding, c, worker.attempts)
  BY <1>2 DEF Whole
<1>4. /\ files[c] = Partial
      /\ \A q \in Processes \ {p}, v \in Workers : ~Writes(q, v, c)
  <2>1. Writes(p, w, c)
    BY <1>0, <1>1 DEF Writes
  <2> QED
    BY <1>1, <1>2, <2>1 DEF DirectoryOK, DiskOK
<1>5. \A v \in Workers \ {w} : ~Writes(p, v, c)
  BY <1>2 DEF Writes, Busy
<1>6. output = Absent
  BY <1>1, <1>2, <1>4, FileKinds DEF PublishedIsCheckpointed
<1>7. ASSUME NEW f \in {Partial, checkpoint}, files' = [files EXCEPT ![c] = f],
             Moves(p), WorkerMoves(process, procs'[p], w),
             procs'[p].workers[w].at # "writing",
             \A d \in Ids \ {c} : procs'[p].results[d] = process.results[d],
             procs'[p].results[c] # <<>> =>
               f = Checkpoint(process.binding, procs'[p].results[c])
      PROVE  SInv'
  <2>1. ProcessOK(procs'[p])
    BY <1>1, <1>7, WorkerMovesOK, Parts
  <2>2. /\ procs'[p].binding = process.binding
        /\ \A v \in Workers \ {w} : procs'[p].workers[v] = process.workers[v]
    BY <1>7 DEF WorkerMoves
  <2>3. \A v \in Workers, d \in Ids : Writes(p, v, d)' =>
          IF d = c THEN f = Partial ELSE Writes(p, v, d)
    BY <1>5, <1>7, <2>2 DEF Writes
  <2>4. files'[c] = f
    BY <1>1, <1>2, <1>7 DEF DirectoryOK
  <2>5. FileOK(c)'
    <3>1. CASE f = Partial
      BY <2>4, <3>1 DEF FileOK
    <3>2. CASE f = checkpoint
      BY <1>3, <2>4, <3>2, FileKinds DEF FileOK
    <3> QED
      BY <1>7, <3>1, <3>2
  <2>6. DirectoryOK'
    BY <1>1, <1>2, <1>4, <1>7, <2>1, <2>2, <2>3, <2>5, FileStep
  <2> QED
    BY <1>1, <1>6, <2>6 DEF SInv, PublishedIsCheckpointed, PublishedIsRanked
<1>8. CASE /\ files' = [files EXCEPT ![c] = checkpoint]
           /\ procs' = [procs EXCEPT ![p].results[c] = worker.attempts,
                                     ![p].workers[w].at = "next"]
  <2>1. /\ Moves(p)
        /\ procs'[p] = [process EXCEPT !.results[c] = worker.attempts,
                                       !.workers[w].at = "next"]
    BY <1>1, <1>8, Parts DEF Moves, Fields
  <2>2. /\ Shape(procs'[p]) /\ procs'[p].at = process.at
        /\ procs'[p].binding = process.binding /\ procs'[p].cursor = process.cursor
        /\ procs'[p].completedIds = process.completedIds
        /\ procs'[p].results[c] = worker.attempts
        /\ \A d \in Ids \ {c} : procs'[p].results[d] = process.results[d]
        /\ procs'[p].workers[w].at = "next"
        /\ procs'[p].workers[w].candidate = worker.candidate
        /\ procs'[p].workers[w].attempts = worker.attempts
        /\ \A v \in Workers \ {w} : procs'[p].workers[v] = process.workers[v]
    BY <1>1, <1>2, <2>1, Parts DEF Shape, Fields
  <2>3. process.cursor \in 1..(Candidates + 1) /\ process.cursor >= process.cursor
    BY <1>1, Parts, SelectionAssumption DEF ProcessOK
  <2>4. ~Busy(procs'[p].workers[w])
    BY <2>2 DEF Busy
  <2>5. WorkerMoves(process, procs'[p], w)
    BY <1>0, <1>1, <1>2, <1>3, <2>2, <2>3, <2>4 DEF WorkerMoves
  <2> QED
    BY <1>7, <1>8, <2>1, <2>2, <2>5
<1>9. ASSUME NEW left \in {Partial, checkpoint}, files' = [files EXCEPT ![c] = left],
             Abort(p, w)
      PROVE  SInv'
  BY <1>1, <1>2, <1>7, <1>9, Rejects
<1> QED
  BY <1>0, <1>8, <1>9 DEF Write

-----------------------------------------------------------------------------
(* A run begins with nothing.                                               *)
LEMMA BeginStep ==
    ASSUME DirectoryOK, NEW p \in Processes, Begin(p)
    PROVE  DirectoryOK'
<1>1. files' = files
  BY DEF Begin
<1>2. CASE procs' = [procs EXCEPT ![p] = Ended("failed")]
  BY <1>1, <1>2, EndedStep
<1>3. ASSUME NEW b \in Bindings,
             procs' = [procs EXCEPT ![p] = [Ended("resuming") EXCEPT !.binding = b,
                                                                    !.unread = Ids]]
      PROVE  DirectoryOK'
  <2> DEFINE x == [Ended("resuming") EXCEPT !.binding = b, !.unread = Ids]
  <2>1. /\ Shape(x) /\ x.at = "resuming" /\ x.binding = b /\ x.cursor = 1
        /\ x.completedIds = {} /\ \A c \in Ids : x.results[c] = <<>>
        /\ \A w \in Workers :
             x.workers[w] = [at |-> "next", candidate |-> 0, attempts |-> <<>>]
    BY EndedFields DEF Shape, Fields
  <2>2. Moves(p) /\ procs'[p] = x
    BY <1>3, Replaced
  <2> HIDE DEF x
  <2>3. \A w \in Workers : WorkerOK(x, w) /\ x.workers[w].at # "writing"
    BY <2>1, FreshWorker
  <2>4. 1 \in 1..(Candidates + 1)
    BY SelectionAssumption
  <2>5. ProcessOK(x)
    BY <1>3, <2>1, <2>3, <2>4 DEF ProcessOK
  <2>6. \A w \in Workers, c \in Ids : ~Writes(p, w, c)'
    BY <2>2, <2>3 DEF Writes
  <2> QED
    BY <1>1, <2>1, <2>2, <2>5, <2>6, QuietStep
<1> QED
  BY <1>2, <1>3 DEF Begin

(* A run resumes from whole files that are bound to what it is bound to.    *)
LEMMA ReadCheckpointStep ==
    ASSUME DirectoryOK, NEW p \in Processes, NEW c \in Ids, ReadCheckpoint(p, c)
    PROVE  DirectoryOK'
<1> DEFINE process == procs[p]
           at == IF process.unread = {c} THEN "working" ELSE "resuming"
<1>1. files' = files /\ process.at = "resuming"
  BY DEF ReadCheckpoint
<1>2. /\ at \in {"working", "resuming"} /\ process.binding \in Bindings
      /\ \A w \in Workers : ~Busy(process.workers[w])
  BY <1>1, Parts DEF ProcessOK, WorkerOK
<1> HIDE DEF at
<1>3. ASSUME Moves(p), Shape(procs'[p]), procs'[p].at = at,
             procs'[p].binding = process.binding, procs'[p].cursor = process.cursor,
             procs'[p].workers = process.workers,
             \A d \in Ids \ {c} : procs'[p].results[d] = process.results[d],
             procs'[p].completedIds \subseteq
               process.completedIds \cup {d \in {c} : procs'[p].results[d] # <<>>},
             \/ procs'[p].results[c] = process.results[c]
             \/ /\ Whole(process.binding, c, procs'[p].results[c])
                /\ files[c] = Checkpoint(process.binding, procs'[p].results[c])
      PROVE  DirectoryOK'
  <2>1. \A w \in Workers : WorkerOK(procs'[p], w)
    BY <1>2, <1>3, Parts DEF WorkerOK
  <2>2. \A d \in Ids : procs'[p].results[d] # <<>> =>
          /\ Whole(procs'[p].binding, d, procs'[p].results[d])
          /\ files[d] = Checkpoint(procs'[p].binding, procs'[p].results[d])
    BY <1>3, Parts DEF ProcessOK, DirectoryOK, DiskOK
  <2>3. procs'[p].completedIds \subseteq {d \in Ids : procs'[p].results[d] # <<>>}
    <3>1. process.completedIds \subseteq {d \in Ids : process.results[d] # <<>>}
      BY Parts DEF ProcessOK
    <3>2. process.results[c] # <<>> => procs'[p].results[c] # <<>>
      BY <1>3, WholeIsMore
    <3> QED
      BY <1>3, <3>1, <3>2
  <2>4. process.cursor \in 1..(Candidates + 1)
    BY Parts DEF ProcessOK
  <2>5. ProcessOK(procs'[p])
    BY <1>2, <1>3, <2>1, <2>2, <2>3, <2>4 DEF ProcessOK
  <2>6. \A w \in Workers, d \in Ids : Writes(p, w, d)' => Writes(p, w, d)
    BY <1>3 DEF Writes
  <2> QED
    BY <1>1, <1>3, <2>2, <2>5, <2>6, QuietStep
<1>4. CASE procs' = [procs EXCEPT ![p].at = at, ![p].unread = @ \ {c}]
  <2>1. /\ Moves(p)
        /\ procs'[p] = [process EXCEPT !.at = at, !.unread = @ \ {c}]
    BY <1>4, Parts DEF Moves, Fields
  <2>2. /\ Shape(procs'[p]) /\ procs'[p].at = at
        /\ procs'[p].binding = process.binding /\ procs'[p].cursor = process.cursor
        /\ procs'[p].workers = process.workers
        /\ procs'[p].results = process.results
        /\ procs'[p].completedIds = process.completedIds
    BY <2>1, Parts DEF Shape, Fields
  <2> QED
    BY <1>3, <2>1, <2>2
<1>5. CASE /\ files[c] # Absent /\ Usable(files[c], process.binding)
           /\ procs' = [procs EXCEPT ![p].at = at, ![p].unread = @ \ {c},
                                     ![p].completedIds = @ \cup {c},
                                     ![p].results[c] = files[c].attempts]
  <2>1. /\ files[c] = Checkpoint(process.binding, files[c].attempts)
        /\ Whole(process.binding, c, files[c].attempts)
    <3>1. files[c].is = "checkpoint" /\ files[c].binding = process.binding
      BY <1>5 DEF Usable
    <3> QED
      BY <3>1, FileKinds DEF DirectoryOK, FileOK
  <2>2. /\ Moves(p)
        /\ procs'[p] = [process EXCEPT !.at = at, !.unread = @ \ {c},
                                       !.completedIds = @ \cup {c},
                                       !.results[c] = files[c].attempts]
    BY <1>5, Parts DEF Moves, Fields
  <2>3. /\ Shape(procs'[p]) /\ procs'[p].at = at
        /\ procs'[p].binding = process.binding /\ procs'[p].cursor = process.cursor
        /\ procs'[p].workers = process.workers
        /\ \A d \in Ids \ {c} : procs'[p].results[d] = process.results[d]
        /\ procs'[p].results[c] = files[c].attempts
        /\ procs'[p].completedIds = process.completedIds \cup {c}
    BY <2>2, Parts DEF Shape, Fields
  <2>4. procs'[p].results[c] # <<>>
    BY <2>1, <2>3, WholeIsMore
  <2> QED
    BY <1>3, <2>1, <2>2, <2>3, <2>4
<1>6. CASE procs' = [procs EXCEPT ![p] = Ended("failed")]
  BY <1>1, <1>6, EndedStep
<1> QED
  BY <1>4, <1>5, <1>6 DEF ReadCheckpoint, at

(* A process goes on to its next part when no worker is busy.               *)
LEMMA GoesOn ==
    ASSUME DirectoryOK, NEW p \in Processes, NEW at \in {"publishing", "linking"},
           \A w \in Workers : ~Busy(procs[p].workers[w]),
           \A c \in Ids : procs[p].results[c] # <<>>,
           procs[p].binding \in Bindings,
           procs' = [procs EXCEPT ![p].at = at], files' = files
    PROVE  DirectoryOK'
<1> DEFINE process == procs[p]
<1>1. /\ Moves(p) /\ procs'[p] = [process EXCEPT !.at = at]
  BY Parts DEF Moves
<1>2. /\ Shape(procs'[p]) /\ procs'[p].at = at
      /\ procs'[p].binding = process.binding /\ procs'[p].cursor = process.cursor
      /\ procs'[p].completedIds = process.completedIds
      /\ procs'[p].results = process.results
      /\ procs'[p].workers = process.workers
  BY <1>1, Parts DEF Shape, Fields
<1>3. \A w \in Workers : WorkerOK(procs'[p], w)
  BY <1>2, Parts DEF WorkerOK
<1>4. ProcessOK(procs'[p])
  BY <1>2, <1>3, Parts DEF ProcessOK
<1>5. \A w \in Workers, c \in Ids : Writes(p, w, c)' => Writes(p, w, c)
  BY <1>2 DEF Writes
<1>6. \A c \in Ids : procs'[p].results[c] # <<>> =>
        files[c] = Checkpoint(procs'[p].binding, procs'[p].results[c])
  BY <1>2 DEF DirectoryOK, DiskOK
<1> QED
  BY <1>1, <1>4, <1>5, <1>6, QuietStep

LEMMA SettleStep ==
    ASSUME DirectoryOK, NEW p \in Processes, Settle(p)
    PROVE  DirectoryOK'
<1>1. /\ procs[p].at = "working" /\ files' = files
      /\ \A w \in Workers : procs[p].workers[w].at \in {"stopped", "rejected"}
  BY DEF Settle
<1>2. CASE procs' = [procs EXCEPT ![p] = Ended("failed")]
  BY <1>1, <1>2, EndedStep
<1>3. CASE /\ \A c \in Ids : procs[p].results[c] # <<>>
           /\ procs' = [procs EXCEPT ![p] = [procs[p] EXCEPT !.at = "publishing"]]
  <2>1. procs' = [procs EXCEPT ![p].at = "publishing"]
    BY <1>3
  <2>2. \A w \in Workers : ~Busy(procs[p].workers[w])
    BY <1>1 DEF Busy
  <2>3. procs[p].binding \in Bindings
    BY <1>1, Parts DEF ProcessOK
  <2> QED
    BY <1>1, <1>3, <2>1, <2>2, <2>3, GoesOn
<1> QED
  BY <1>2, <1>3 DEF Settle

(* No worker of a process that publishes is busy, and it has everything.    *)
LEMMA HasAll ==
    ASSUME DirectoryOK, NEW p \in Processes, procs[p].at \in {"publishing", "linking"}
    PROVE  /\ \A w \in Workers : ~Busy(procs[p].workers[w])
           /\ \A c \in Ids : procs[p].results[c] # <<>>
           /\ \A c \in Ids : files[c] = Checkpoint(procs[p].binding, procs[p].results[c])
           /\ procs[p].binding \in Bindings
<1>1. \A w \in Workers : ~Busy(procs[p].workers[w])
  BY Parts DEF WorkerOK
<1>2. (\A c \in Ids : procs[p].results[c] # <<>>) /\ procs[p].binding \in Bindings
  BY Parts DEF ProcessOK
<1> QED
  BY <1>1, <1>2 DEF DirectoryOK, DiskOK

LEMMA PublishStep ==
    ASSUME DirectoryOK, NEW p \in Processes, Publish(p)
    PROVE  DirectoryOK'
<1>1. CASE procs' = [procs EXCEPT ![p] = Ended("failed")]
  BY <1>1, EndedStep DEF Publish
<1>2. CASE procs' = [procs EXCEPT ![p].at = "linking"]
  BY <1>2, HasAll, GoesOn DEF Publish
<1> QED
  BY <1>1, <1>2 DEF Publish

(* What is published is in the files.                                       *)
LEMMA LinkArtifactStep ==
    ASSUME SInv, NEW p \in Processes, LinkArtifact(p)
    PROVE  SInv'
<1>1. /\ procs[p].at = "linking" /\ files' = files
      /\ DirectoryOK /\ PublishedIsCheckpointed /\ PublishedIsRanked
  BY DEF LinkArtifact, SInv
<1>2. PICK at \in {"done", "failed"} : procs' = [procs EXCEPT ![p] = Ended(at)]
  BY DEF LinkArtifact
<1>3. DirectoryOK'
  BY <1>1, <1>2, EndedStep
<1>4. CASE output' = output
  BY <1>1, <1>3, <1>4 DEF SInv, PublishedIsCheckpointed, PublishedIsRanked
<1>5. CASE output' = Artifact(procs[p])
  <2>1. /\ output'.binding = procs[p].binding /\ output'.results = procs[p].results
        /\ output'.ranking = RankSelectionCandidates(Summaries(procs[p].results))
    BY <1>5 DEF Artifact
  <2>2. \A c \in Ids : files[c] = Checkpoint(procs[p].binding, procs[p].results[c])
    BY <1>1, HasAll
  <2> QED
    BY <1>1, <1>3, <2>1, <2>2 DEF SInv, PublishedIsCheckpointed, PublishedIsRanked
<1> QED
  BY <1>4, <1>5 DEF LinkArtifact

(* A partial file that no process writes is nobody's results.               *)
LEMMA CleanStep ==
    ASSUME SInv, NEW c \in Ids, Clean(c)
    PROVE  SInv'
<1>1. /\ files[c] = Partial /\ files' = [files EXCEPT ![c] = Absent]
      /\ procs' = procs /\ output' = output
      /\ DirectoryOK /\ PublishedIsCheckpointed /\ PublishedIsRanked
  BY DEF Clean, SInv
<1>2. /\ DOMAIN files' = Ids /\ files'[c] = Absent
      /\ \A d \in Ids \ {c} : files'[d] = files[d]
  BY <1>1 DEF DirectoryOK
<1>3. \A d \in Ids : FileOK(d)'
  BY <1>1, <1>2 DEF DirectoryOK, FileOK
<1>4. \A p \in Processes, w \in Workers, d \in Ids : ~Writes(p, w, d)
  <2> SUFFICES ASSUME NEW p \in Processes, NEW w \in Workers,
                      procs[p].workers[w].at = "writing"
               PROVE  FALSE
    BY DEF Writes
  <2>1. procs[p].at = "working"
    BY <1>1, Parts DEF WorkerOK, Busy
  <2> QED
    BY <2>1 DEF Clean, Running
<1>5. ASSUME NEW p \in Processes, NEW d \in Ids, procs[p].results[d] # <<>>
      PROVE  files'[d] = Checkpoint(procs[p].binding, procs[p].results[d])
  <2>1. files[d] = Checkpoint(procs[p].binding, procs[p].results[d])
    BY <1>1, <1>5 DEF DirectoryOK, DiskOK
  <2> QED
    BY <1>1, <1>2, <2>1, FileKinds
<1>6. DiskOK'
  BY <1>1, <1>4, <1>5 DEF DiskOK, Writes
<1>7. output = Absent
  BY <1>1, FileKinds DEF PublishedIsCheckpointed
<1> QED
  BY <1>1, <1>2, <1>3, <1>6, <1>7 DEF SInv, DirectoryOK, PublishedIsCheckpointed,
                                              PublishedIsRanked

-----------------------------------------------------------------------------
(* What every step keeps: results, files and artifact belong together.      *)
THEOREM SelectionSound == Spec => []SInv
<1>1. SInv /\ [Next]_vars => SInv'
  <2> SUFFICES ASSUME SInv, [Next]_vars PROVE SInv'
    OBVIOUS
  <2>0. DirectoryOK /\ PublishedIsCheckpointed /\ PublishedIsRanked
    BY DEF SInv
  <2>a. files' = files /\ output' = output =>
          PublishedIsCheckpointed' /\ PublishedIsRanked'
    BY <2>0 DEF PublishedIsCheckpointed, PublishedIsRanked
  <2>1. ASSUME NEW p \in Processes, Begin(p)
        PROVE  SInv'
    BY <2>0, <2>1, <2>a, BeginStep DEF SInv, Begin
  <2>12. ASSUME NEW p \in Processes, NEW c \in Ids, ReadCheckpoint(p, c)
        PROVE  SInv'
    BY <2>0, <2>12, <2>a, ReadCheckpointStep DEF SInv, ReadCheckpoint
  <2>2. ASSUME NEW p \in Processes, NEW w \in Workers, Take(p, w)
        PROVE  SInv'
    BY <2>0, <2>2, <2>a, TakeStep DEF SInv, Take
  <2>3. ASSUME NEW p \in Processes, NEW w \in Workers, Answer(p, w)
        PROVE  SInv'
    BY <2>0, <2>3, <2>a, AnswerStep DEF SInv, Answer
  <2>4. ASSUME NEW p \in Processes, NEW w \in Workers, Open(p, w)
        PROVE  SInv'
    BY <2>4, OpenStep
  <2>5. ASSUME NEW p \in Processes, NEW w \in Workers, Write(p, w)
        PROVE  SInv'
    BY <2>5, WriteStep
  <2>6. ASSUME NEW p \in Processes, Settle(p)
        PROVE  SInv'
    BY <2>0, <2>6, <2>a, SettleStep DEF SInv, Settle
  <2>7. ASSUME NEW p \in Processes, Publish(p)
        PROVE  SInv'
    BY <2>0, <2>7, <2>a, PublishStep DEF SInv, Publish
  <2>8. ASSUME NEW p \in Processes, LinkArtifact(p)
        PROVE  SInv'
    BY <2>8, LinkArtifactStep
  <2>9. ASSUME NEW p \in Processes, Crash(p)
        PROVE  SInv'
    BY <2>0, <2>9, <2>a, EndedStep DEF SInv, Crash
  <2>10. ASSUME NEW c \in Ids, Clean(c)
         PROVE  SInv'
    BY <2>10, CleanStep
  <2>11. CASE UNCHANGED vars
    BY <2>0, <2>11
       DEF vars, SInv, DirectoryOK, FileOK, DiskOK, Writes, PublishedIsCheckpointed,
           PublishedIsRanked
  <2> QED
    BY <2>1, <2>2, <2>3, <2>4, <2>5, <2>6, <2>7, <2>8, <2>9, <2>10, <2>11, <2>12
       DEF Next, Proceed
<1> QED
  BY <1>1, SelectionInit, PTL DEF Spec

(* Files, cursors and attempts are of their types: what a worker has paid   *)
(* for is the corpus up to where it is, for its own candidate.              *)
THEOREM SelectionTypeCorrect == Spec => []TypeOK
<1>1. SInv => TypeOK
  <2> SUFFICES ASSUME SInv PROVE TypeOK
    OBVIOUS
  <2>0. DirectoryOK
    BY DEF SInv
  <2>1. ASSUME NEW c \in Ids
        PROVE  files[c] \in {Absent, Partial} \/
                 /\ files[c].is = "checkpoint"
                 /\ Len(files[c].attempts) = Len(Corpus[files[c].binding])
                 /\ \A i \in DOMAIN files[c].attempts :
                       files[c].attempts[i].run = <<files[c].binding, c>>
    BY <2>0, FileKinds DEF DirectoryOK, FileOK, Whole, Prefix
  <2>2. ASSUME NEW p \in Processes
        PROVE  /\ procs[p].cursor \in 1..(Candidates + 1)
               /\ \A w \in Workers :
                     Prefix(procs[p].binding, procs[p].workers[w].candidate,
                            procs[p].workers[w].attempts)
    BY <2>0, Parts DEF ProcessOK, WorkerOK
  <2> QED
    BY <2>1, <2>2 DEF TypeOK, Prefix
<1> QED
  BY <1>1, SelectionSound, PTL

(* A call is paid for only when its candidate was in no checkpoint the run  *)
(* resumed from and no other worker of the run has finished it or is at it. *)
THEOREM PaysForMissing == Spec => []PaysOnlyMissing
<1>1. SInv => PaysOnlyMissing
  <2> SUFFICES ASSUME SInv, NEW p \in Processes, NEW v \in Workers, NEW w \in Workers,
                      Busy(procs[p].workers[w])
               PROVE  /\ procs[p].workers[w].candidate \notin procs[p].completedIds
                      /\ procs[p].results[procs[p].workers[w].candidate] = <<>>
                      /\ v # w /\ Busy(procs[p].workers[v]) =>
                           procs[p].workers[v].candidate # procs[p].workers[w].candidate
    BY DEF PaysOnlyMissing, Busy
  <2>1. WorkerOK(procs[p], w) /\ ProcessOK(procs[p])
    BY Parts DEF SInv
  <2> QED
    BY <2>1 DEF WorkerOK, ProcessOK
<1> QED
  BY <1>1, SelectionSound, PTL

(* The artifact says of every candidate what its checkpoint says, whatever  *)
(* processes wrote into the directory and wherever they crashed.            *)
THEOREM PublishesCheckpoints == Spec => []PublishedIsCheckpointed
<1>1. SInv => PublishedIsCheckpointed
  BY DEF SInv
<1> QED
  BY <1>1, SelectionSound, PTL

(* The attempts of a whole run of a candidate are what the lemmas about the *)
(* summaries are about.                                                     *)
LEMMA WholeIsAggregated ==
    ASSUME NEW b, NEW c, NEW attempts, Whole(b, c, attempts)
    PROVE  Aggregated(attempts)
  BY WholeIsMore DEF Whole, Prefix, Aggregated

(* The ranking believes what the aggregation made of the attempts of any    *)
(* candidate of any run, its own or one that it resumed: no run that has    *)
(* all it was to pay for fails at its last step.                            *)
THEOREM RankingBelieves == Spec => []RankingNeverRefuses
<1>1. SInv => RankingNeverRefuses
  <2> SUFFICES ASSUME SInv, NEW p \in Processes, NEW c \in Ids,
                      procs[p].results[c] # <<>>
               PROVE  IsRankable(Summary(procs[p].results[c]))
    BY DEF RankingNeverRefuses
  <2>1. Whole(procs[p].binding, c, procs[p].results[c])
    BY Parts DEF SInv, ProcessOK
  <2> QED
    BY <2>1, WholeIsAggregated, Rankable
<1> QED
  BY <1>1, SelectionSound, PTL

(* In the published ranking each candidate is before every later one, and   *)
(* none of these before it: the comparison of neighbours has left an order. *)
THEOREM PublishesAnOrder == Spec => []PublishedOrderHolds
<1>1. SInv => PublishedOrderHolds
  <2> SUFFICES ASSUME SInv, output # Absent, NEW i \in Ids, NEW j \in Ids, i < j
               PROVE  LET s == Summaries(output.results)
                          c == output.ranking[i]
                          d == output.ranking[j]
                      IN  RanksBefore(s[c], s[d], c < d) /\ ~RanksBefore(s[d], s[c], d < c)
    BY DEF PublishedOrderHolds
  <2>1. PICK s, r : s = Summaries(output.results) /\ r = output.ranking
    OBVIOUS
  <2>2. r = RankSelectionCandidates(s)
    BY <2>1 DEF SInv, PublishedIsRanked
  <2>3. \A c \in Ids : Comparable(s[c])
    <3> TAKE c \in Ids
    <3>1. files[c] = Checkpoint(output.binding, output.results[c])
      BY DEF SInv, PublishedIsCheckpointed
    <3>2. Whole(output.binding, c, output.results[c])
      BY <3>1, FileKinds DEF SInv, DirectoryOK, FileOK
    <3> QED
      BY <2>1, <3>2, WholeIsAggregated, SummaryComparable DEF Summaries
  <2>4. Candidacy(s, Candidates)
    BY <2>1, <2>3, SelectionAssumption DEF Candidacy, Summaries, Ids
  <2>5. Before(s, r[i], r[j]) /\ ~Before(s, r[j], r[i])
    BY <2>2, <2>4, RankingIsOrdered DEF Ids
  <2> QED
    BY <2>1, <2>5 DEF Before
<1> QED
  BY <1>1, SelectionSound, PTL
=============================================================================
