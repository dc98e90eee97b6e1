-------------------------- MODULE TimestampsProofs --------------------------
(* The order of the texts is the order of time, whatever the resolution. *)
EXTENDS Timestamps, TLAPS

\* A text determines its instant.
LEMMA DivMod ==
  ASSUME NEW at \in Nat
  PROVE  /\ at \div PerSecond \in Nat /\ at % PerSecond \in Nat
         /\ at = PerSecond * (at \div PerSecond) + (at % PerSecond)
         /\ at % PerSecond < PerSecond
  BY PerSecondAssumption

\* A later second outweighs any fraction.
LEMMA Monotone ==
  ASSUME NEW k \in Nat \ {0}, NEW s \in Nat, NEW u \in Nat, s > u
  PROVE  k * s >= k * u + k
<1>1. PICK d \in Nat : s = u + 1 + d
  <2>1. s - u - 1 \in Nat /\ s = u + 1 + (s - u - 1) OBVIOUS
  <2> QED BY <2>1
<1>2. k * s = k * u + k + k * d
  BY <1>1
<1>3. k * d \in Nat /\ k * u \in Nat
  OBVIOUS
<1> QED BY <1>2, <1>3

\* to_iso: "Fixed width makes lexical order equal chronological order."
THEOREM TextOrderIsTimeOrder ==
  ASSUME NEW i \in Nat, NEW j \in Nat
  PROVE  After(ToIso(i), ToIso(j)) <=> i > j
<1> DEFINE k == PerSecond  si == i \div PerSecond  sj == j \div PerSecond
           fi == i % PerSecond  fj == j % PerSecond
<1>1. /\ k \in Nat \ {0} /\ si \in Nat /\ sj \in Nat /\ fi \in Nat /\ fj \in Nat
      /\ i = k * si + fi /\ j = k * sj + fj /\ fi < k /\ fj < k
  BY DivMod, PerSecondAssumption
<1>2. After(ToIso(i), ToIso(j)) <=> si > sj \/ (si = sj /\ fi > fj)
  BY <1>1 DEF After, ToIso, Point
<1> HIDE DEF k, si, sj, fi, fj
<1>3. CASE si = sj
  BY <1>1, <1>2, <1>3
<1>4. CASE si > sj
  <2>1. k * si >= k * sj + k
    BY <1>1, <1>4, Monotone
  <2>2. k * si \in Nat /\ k * sj \in Nat BY <1>1
  <2> QED BY <1>1, <1>2, <1>4, <2>1, <2>2
<1>5. CASE sj > si
  <2>1. k * sj >= k * si + k
    BY <1>1, <1>5, Monotone
  <2>2. k * si \in Nat /\ k * sj \in Nat BY <1>1
  <2> QED BY <1>1, <1>2, <1>5, <2>1, <2>2
<1> QED BY <1>1, <1>3, <1>4, <1>5
=============================================================================
