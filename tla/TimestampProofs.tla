-------------------------- MODULE TimestampProofs --------------------------
(***************************************************************************)
(* What the arithmetic of module Timestamp computes, for every width of    *)
(* its fields.                                                             *)
(***************************************************************************)
EXTENDS Timestamp, TLAPS

Micros(t) == t[1] * UsecPerSec + t[2]

(* Timestamp::increment goes on by exactly one microsecond, and to a later *)
(* time, unless the clock runs out, which only its last second lets it do. *)
THEOREM IncrementTicks ==
    ASSUME NEW c \in Clocks
    PROVE  /\ Increment(c) \in Clocks
           /\ ~Increment(c).overflown =>
                /\ Micros(Increment(c).time) = Micros(c.time) + 1
                /\ Later(Increment(c).time, c.time)
           /\ Increment(c).overflown => Increment(c).time[1] = SecMax \/ Increment(c) = c
BY TimestampAssumption DEF Clocks, Clock, Increment, Micros, Later, Times

(* Microseconds split into seconds and a rest.                             *)
LEMMA Divided ==
    ASSUME NEW us \in Nat
    PROVE  /\ us \div UsecPerSec \in Nat
           /\ us % UsecPerSec \in 0..(UsecPerSec - 1)
           /\ us = UsecPerSec * (us \div UsecPerSec) + (us % UsecPerSec)
BY TimestampAssumption, SMT

(* delta_us gives the exact difference of two times, with the carry right, *)
(* and zero when the second one is not later.                              *)
THEOREM DeltaExact ==
    ASSUME NEW a \in Times, NEW b \in Times
    PROVE  Delta(a, b) = IF Micros(b) > Micros(a) THEN Micros(b) - Micros(a) ELSE 0
<1> DEFINE n == b[1] - a[1]
<1>0. /\ a[1] \in Int /\ b[1] \in Int /\ a[2] \in 0..(UsecPerSec - 1) /\ b[2] \in 0..(UsecPerSec - 1)
      /\ UsecPerSec \in Nat \ {0} /\ n \in Int
  BY TimestampAssumption DEF Times
<1>1. /\ b[1] * UsecPerSec = a[1] * UsecPerSec + n * UsecPerSec
      /\ (n - 1) * UsecPerSec = n * UsecPerSec - UsecPerSec
  BY <1>0, SMT
<1>2. /\ n < 0 => n * UsecPerSec <= -UsecPerSec
      /\ n > 0 => n * UsecPerSec >= UsecPerSec
      /\ n = 0 => n * UsecPerSec = 0
  BY <1>0, SMT
<1>. HIDE DEF n
<1>3. CASE n < 0
  BY <1>0, <1>1, <1>2, <1>3 DEF Delta, Micros, n
<1>4. CASE n = 0
  <2>1. a[1] = b[1] /\ ~(b[1] < a[1])
    BY <1>0, <1>4 DEF n
  <2>2. Delta(a, b) = IF b[2] > a[2] THEN b[2] - a[2] ELSE 0
    BY <2>1 DEF Delta
  <2>3. /\ Micros(b) > Micros(a) <=> b[2] > a[2]
        /\ Micros(b) - Micros(a) = b[2] - a[2]
    BY <1>0, <2>1 DEF Micros
  <2>. QED  BY <2>2, <2>3
<1>5. CASE n > 0
  BY <1>0, <1>1, <1>2, <1>5 DEF Delta, Micros, n
<1>. QED  BY <1>0, <1>3, <1>4, <1>5

(* The comparison operators agree with counting microseconds.              *)
LEMMA MicrosOrder ==
    ASSUME NEW a \in Times, NEW b \in Times
    PROVE  /\ Micros(a) \in Nat
           /\ AtLeast(a, b) <=> Micros(a) >= Micros(b)
           /\ Later(a, b) <=> Micros(a) > Micros(b)
<1> DEFINE n == b[1] - a[1]
<1>0. /\ a[1] \in Nat /\ b[1] \in Nat /\ a[2] \in 0..(UsecPerSec - 1) /\ b[2] \in 0..(UsecPerSec - 1)
      /\ UsecPerSec \in Nat \ {0} /\ n \in Int
  BY TimestampAssumption DEF Times
<1>1. b[1] * UsecPerSec = a[1] * UsecPerSec + n * UsecPerSec
  BY <1>0, SMT
<1>2. /\ n < 0 => n * UsecPerSec <= -UsecPerSec
      /\ n > 0 => n * UsecPerSec >= UsecPerSec
      /\ n = 0 => n * UsecPerSec = 0
      /\ a[1] * UsecPerSec \in Nat
      /\ n * UsecPerSec \in Int
  BY <1>0, SMT
<1>. HIDE DEF n
<1>3. n < 0 <=> a[1] > b[1]
  BY <1>0 DEF n
<1>4. n = 0 <=> a[1] = b[1]
  BY <1>0 DEF n
<1>5. CASE n < 0
  BY <1>0, <1>1, <1>2, <1>3, <1>4, <1>5 DEF Later, AtLeast, Micros
<1>6. CASE n = 0
  BY <1>0, <1>1, <1>2, <1>3, <1>4, <1>6 DEF Later, AtLeast, Micros
<1>7. CASE n > 0
  BY <1>0, <1>1, <1>2, <1>3, <1>4, <1>7 DEF Later, AtLeast, Micros
<1>. QED  BY <1>0, <1>5, <1>6, <1>7

(* add_to_timespec adds exactly, carry and all, as long as the sum is no   *)
(* later than some time; its result has a proper second field.             *)
THEOREM AddToTimeExact ==
    ASSUME NEW t \in Times, NEW last \in Times, NEW us \in Nat,
           Micros(t) + us <= Micros(last)
    PROVE  /\ AddToTime(t, us) \in Times
           /\ Micros(AddToTime(t, us)) = Micros(t) + us
<1> DEFINE q == us \div UsecPerSec
           r == us % UsecPerSec
<1>0. /\ t[1] \in 0..SecMax /\ t[2] \in 0..(UsecPerSec - 1)
      /\ last[1] \in 0..SecMax /\ last[2] \in 0..(UsecPerSec - 1)
      /\ t = <<t[1], t[2]>>
      /\ UsecPerSec \in Nat \ {0} /\ SecMax \in Nat
  BY TimestampAssumption DEF Times
<1>1. q \in Nat /\ r \in 0..(UsecPerSec - 1) /\ us = UsecPerSec * q + r
  BY Divided
<1>. HIDE DEF q, r
<1>2. /\ (t[1] + q) * UsecPerSec = t[1] * UsecPerSec + UsecPerSec * q
      /\ (t[1] + q + 1) * UsecPerSec = t[1] * UsecPerSec + UsecPerSec * q + UsecPerSec
  BY <1>0, <1>1, SMT
<1>3. /\ t[1] * UsecPerSec \in Nat /\ UsecPerSec * q \in Nat /\ last[1] * UsecPerSec \in Nat
      /\ last[1] * UsecPerSec <= SecMax * UsecPerSec
  BY <1>0, <1>1, SMT
<1>4. CASE UsecPerSec - r > t[2]
  <2>1. t[1] + q <= SecMax
    <3>1. (t[1] + q) * UsecPerSec < SecMax * UsecPerSec + UsecPerSec
      BY <1>0, <1>1, <1>2, <1>3 DEF Micros
    <3>2. SUFFICES ASSUME t[1] + q >= SecMax + 1 PROVE FALSE
      BY <1>0, <1>1
    <3>3. (t[1] + q) * UsecPerSec >= (SecMax + 1) * UsecPerSec
      BY <1>0, <1>1, <3>2, SMT
    <3>4. (SecMax + 1) * UsecPerSec = SecMax * UsecPerSec + UsecPerSec
      BY <1>0, SMT
    <3>. QED  BY <1>0, <1>1, <3>1, <3>3, <3>4
  <2>2. AddToTime(t, us) = <<t[1] + q, t[2] + r>>
    BY <1>0, <1>1, <1>4, <2>1 DEF AddToTime, WrapSec, q, r
  <2>3. AddToTime(t, us) \in Times
    BY <1>0, <1>1, <1>4, <2>1, <2>2 DEF Times
  <2>4. Micros(AddToTime(t, us)) = (t[1] + q) * UsecPerSec + (t[2] + r)
    BY <2>2 DEF Micros
  <2>. QED  BY <1>0, <1>1, <1>2, <1>3, <2>3, <2>4 DEF Micros
<1>5. CASE UsecPerSec - r <= t[2]
  <2>1. t[1] + q + 1 <= SecMax
    <3>1. (t[1] + q + 1) * UsecPerSec < SecMax * UsecPerSec + UsecPerSec
      BY <1>0, <1>1, <1>2, <1>3, <1>5 DEF Micros
    <3>2. SUFFICES ASSUME t[1] + q + 1 >= SecMax + 1 PROVE FALSE
      BY <1>0, <1>1
    <3>3. (t[1] + q + 1) * UsecPerSec >= (SecMax + 1) * UsecPerSec
      BY <1>0, <1>1, <3>2, SMT
    <3>4. (SecMax + 1) * UsecPerSec = SecMax * UsecPerSec + UsecPerSec
      BY <1>0, SMT
    <3>. QED  BY <1>0, <1>1, <3>1, <3>3, <3>4
  <2>2. AddToTime(t, us) = <<t[1] + q + 1, t[2] - (UsecPerSec - r)>>
    <3>1. WrapSec(t[1] + q) = t[1] + q /\ WrapSec(t[1] + q + 1) = t[1] + q + 1
      BY <1>0, <1>1, <2>1 DEF WrapSec
    <3>2. ~(UsecPerSec - r > t[2])
      BY <1>0, <1>1, <1>5
    <3>. QED  BY <3>1, <3>2 DEF AddToTime, q, r
  <2>3. AddToTime(t, us) \in Times
    BY <1>0, <1>1, <1>5, <2>1, <2>2 DEF Times
  <2>4. Micros(AddToTime(t, us)) = (t[1] + q + 1) * UsecPerSec + (t[2] - (UsecPerSec - r))
    BY <2>2 DEF Micros
  <2>. QED  BY <1>0, <1>1, <1>2, <1>3, <2>3, <2>4 DEF Micros
<1>. QED  BY <1>0, <1>1, <1>4, <1>5

(* The limit compute_threshold draws is a time between the oldest and the  *)
(* youngest file.                                                          *)
THEOREM ThresholdBetween ==
    ASSUME NEW oldest \in Times, NEW youngest \in Times, NEW removed \in BOOLEAN,
           AtLeast(youngest, oldest)
    PROVE  LET limit == Threshold(oldest, youngest, removed)
           IN  /\ limit \in Times
               /\ AtLeast(limit, oldest)
               /\ AtLeast(youngest, limit)
<1> DEFINE d == Delta(oldest, youngest)
           p == Percentage(removed)
           part == (d * p) \div 100
<1>1. /\ Micros(oldest) \in Nat /\ Micros(youngest) \in Nat
      /\ Micros(youngest) >= Micros(oldest)
  BY MicrosOrder
<1>2. d \in Nat /\ Micros(oldest) + d = Micros(youngest)
  BY <1>1, DeltaExact
<1>3. p = 20 \/ p = 70
  BY DEF Percentage
<1>. HIDE DEF d, p
<1>4. part \in Nat /\ part <= d
  BY <1>2, <1>3, SMT
<1>5. Threshold(oldest, youngest, removed) = AddToTime(oldest, part)
  BY DEF Threshold, d, p
<1>. HIDE DEF part
<1>6. Micros(oldest) + part <= Micros(youngest)
  BY <1>1, <1>2, <1>4
<1>7. /\ AddToTime(oldest, part) \in Times
      /\ Micros(AddToTime(oldest, part)) = Micros(oldest) + part
  BY <1>4, <1>6, AddToTimeExact
<1>8. /\ Micros(AddToTime(oldest, part)) >= Micros(oldest)
      /\ Micros(youngest) >= Micros(AddToTime(oldest, part))
  BY <1>1, <1>4, <1>6, <1>7
<1>. QED  BY <1>5, <1>7, <1>8, MicrosOrder

(* Adding nothing changes no time; from the minimum of no file it wraps    *)
(* round to less than any time.                                            *)
LEMMA NothingAdded ==
    /\ \A t \in Times : AddToTime(t, 0) = t
    /\ AddToTime(Infinity, 0) = <<SecMin, FracMax - UsecPerSec>>
<1>1. 0 \div UsecPerSec = 0 /\ 0 % UsecPerSec = 0
  BY TimestampAssumption, SMT
<1>2. ASSUME NEW t \in Times PROVE AddToTime(t, 0) = t
  <2>1. /\ t[1] \in 0..SecMax /\ t[2] \in 0..(UsecPerSec - 1) /\ t = <<t[1], t[2]>>
    BY DEF Times
  <2>2. WrapSec(t[1] + 0) = t[1] /\ UsecPerSec - 0 > t[2] /\ t[2] + 0 = t[2]
    BY <2>1, TimestampAssumption DEF WrapSec
  <2>. QED  BY <1>1, <2>1, <2>2 DEF AddToTime
<1>3. AddToTime(Infinity, 0) = <<SecMin, FracMax - UsecPerSec>>
  BY <1>1, TimestampAssumption DEF AddToTime, Infinity, WrapSec, SecMin
<1>. QED  BY <1>2, <1>3

(* Times that minimum and maximum of a scan start from, or are.            *)
Los == Times \cup {Infinity}
His == Times \cup {MinusInfinity}

(* A scan without a span adds nothing to its minimum.                      *)
LEMMA NoSpan ==
    ASSUME NEW lo \in Los, NEW hi \in His,
           lo = Infinity \/ hi = MinusInfinity \/ Later(lo, hi)
    PROVE  Delta(lo, hi) = 0
<1>1. CASE lo = Infinity /\ hi = MinusInfinity
  BY <1>1, TimestampAssumption DEF Delta, Infinity, MinusInfinity, SecMin
<1>2. CASE lo = Infinity /\ hi \in Times
  BY <1>2, TimestampAssumption DEF Delta, Infinity, Times
<1>3. CASE lo \in Times /\ hi = MinusInfinity
  BY <1>3, TimestampAssumption DEF Delta, MinusInfinity, Times, SecMin
<1>4. CASE lo \in Times /\ hi \in Times /\ Later(lo, hi)
  BY <1>4, TimestampAssumption DEF Delta, Times, Later
<1>5. lo = Infinity => ~(lo \in Times)
  BY TimestampAssumption DEF Infinity, Times
<1>6. hi = MinusInfinity => ~(hi \in Times)
  BY TimestampAssumption DEF MinusInfinity, Times, SecMin
<1>. QED  BY <1>1, <1>2, <1>3, <1>4, <1>5, <1>6 DEF Los, His

(* Whatever was found, of files or of none, the limit is one no file is    *)
(* below, or is not after a youngest or equals an oldest file that exists: *)
(* an overflow in add_to_timespec never makes all files old.               *)
THEOREM ThresholdBounded ==
    ASSUME NEW lo \in Los, NEW hi \in His, NEW removed \in BOOLEAN
    PROVE  LET limit == Threshold(lo, hi, removed)
           IN  /\ limit \in Int \X Int
               /\ \/ \A t \in Times : AtLeast(t, limit)
                  \/ hi \in Times /\ AtLeast(hi, limit)
                  \/ lo \in Times /\ limit = lo
<1>0. Times \subseteq Int \X Int
  BY TimestampAssumption DEF Times
<1>1. CASE lo \in Times /\ hi \in Times /\ AtLeast(hi, lo)
  BY <1>0, <1>1, ThresholdBetween
<1>2. CASE lo = Infinity \/ hi = MinusInfinity \/ Later(lo, hi)
  <2>1. Threshold(lo, hi, removed) = AddToTime(lo, 0)
    <3>1. Delta(lo, hi) = 0
      BY <1>2, NoSpan
    <3>2. (0 * Percentage(removed)) \div 100 = 0
      BY DEF Percentage
    <3>. QED  BY <3>1, <3>2 DEF Threshold
  <2>2. CASE lo \in Times
    BY <1>0, <2>1, <2>2, NothingAdded
  <2>3. CASE lo = Infinity
    <3>1. Threshold(lo, hi, removed) = <<SecMin, FracMax - UsecPerSec>>
      BY <2>1, <2>3, NothingAdded
    <3>2. /\ <<SecMin, FracMax - UsecPerSec>> \in Int \X Int
          /\ \A t \in Times : AtLeast(t, <<SecMin, FracMax - UsecPerSec>>)
      BY TimestampAssumption DEF AtLeast, Times, SecMin
    <3>. QED  BY <3>1, <3>2
  <2>. QED  BY <2>2, <2>3 DEF Los
<1>3. lo \in Times /\ hi \in Times => AtLeast(hi, lo) \/ Later(lo, hi)
  BY TimestampAssumption DEF AtLeast, Later, Times
<1>. QED  BY <1>1, <1>2, <1>3 DEF Los, His
=============================================================================
