----------------------------- MODULE Timestamp -----------------------------
(***************************************************************************)
(* The arithmetic on timestamps: the hot path clock (class Timestamp in    *)
(* src/src/artcache.hh), which is stored as access times of files, and the *)
(* threshold below which the garbage collector takes an entry for old      *)
(* (compute_threshold in src/src/artcache.cc).                             *)
(*                                                                         *)
(* A time is a pair of seconds and microseconds.  The code has nanoseconds *)
(* where it reads file times; the clock has none, and what is below a      *)
(* microsecond is left out here.                                           *)
(***************************************************************************)
EXTENDS Integers

CONSTANTS
    UsecPerSec,     \* microseconds of a second
    SecMax,         \* greatest number of seconds, numeric_limits<long>::max()
    FracMax         \* greatest value of the second field, of the same type

ASSUME TimestampAssumption ==
    /\ UsecPerSec \in Nat \ {0}
    /\ SecMax \in Nat
    /\ FracMax \in Nat /\ FracMax >= UsecPerSec

SecMin == -SecMax - 1

Zero == <<0, 0>>

(* The times the clock shows and files have; other pairs are what minimum  *)
(* and maximum of no file start from.                                      *)
Times == (0..SecMax) \X (0..(UsecPerSec - 1))
Infinity == <<SecMax, FracMax>>
MinusInfinity == <<SecMin, -FracMax - 1>>

Later(a, b) == a[1] > b[1] \/ (a[1] = b[1] /\ a[2] > b[2])
AtLeast(a, b) == a[1] > b[1] \/ (a[1] = b[1] /\ a[2] >= b[2])

Earliest(a, b) == IF Later(a, b) THEN b ELSE a

-----------------------------------------------------------------------------
(* The clock: a time, and whether it has run out.                          *)
Clocks == [time : Times, overflown : BOOLEAN]

Clock(t) == [time |-> t, overflown |-> FALSE]

\* Mutant: off by one, the microseconds reach a full second.
IncrementFull(c) ==
    IF c.overflown THEN c
    ELSE IF c.time[2] < UsecPerSec THEN Clock(<<c.time[1], c.time[2] + 1>>)
    ELSE IF c.time[1] < SecMax THEN Clock(<<c.time[1] + 1, 0>>)
    ELSE [time |-> <<c.time[1], 0>>, overflown |-> TRUE]

(* Timestamp::increment.  A clock that runs out shows the first moment of  *)
(* its last second from then on.                                           *)
Increment(c) ==
    IF c.overflown THEN c
    ELSE IF c.time[2] + 1 < UsecPerSec THEN Clock(<<c.time[1], c.time[2] + 1>>)
    ELSE IF c.time[1] < SecMax THEN Clock(<<c.time[1] + 1, 0>>)
    ELSE [time |-> <<c.time[1], 0>>, overflown |-> TRUE]

-----------------------------------------------------------------------------
(* delta_us: how much later b is than a, or nothing if it is not.          *)
Delta(a, b) ==
    IF b[1] < a[1] THEN 0
    ELSE IF a[1] = b[1] THEN (IF b[2] > a[2] THEN b[2] - a[2] ELSE 0)
    ELSE IF b[2] >= a[2] THEN (b[1] - a[1]) * UsecPerSec + (b[2] - a[2])
    ELSE (b[1] - a[1] - 1) * UsecPerSec + (UsecPerSec - (a[2] - b[2]))

(* A sum of seconds that exceeds its type: the machine's addition wraps.   *)
WrapSec(s) == IF s > SecMax THEN s - SecMax + SecMin - 1 ELSE s

(* add_to_timespec                                                         *)
AddToTime(t, us) ==
    LET remainder == us % UsecPerSec
        sec == WrapSec(t[1] + us \div UsecPerSec)
        untilOverflow == UsecPerSec - remainder
    IN  IF untilOverflow > t[2]
          THEN <<sec, t[2] + remainder>>
          ELSE <<WrapSec(sec + 1), t[2] - untilOverflow>>

(* LIMITS_LOW_HI_PERCENTAGE + BIAS until something could be removed, and   *)
(* APPROACHING_PERCENTAGE after that.                                      *)
Percentage(removedAnything) == IF removedAnything THEN 20 ELSE 70

(* compute_threshold, for the oldest and the youngest file found.          *)
Threshold(oldest, youngest, removedAnything) ==
    AddToTime(oldest, (Delta(oldest, youngest) * Percentage(removedAnything)) \div 100)
=============================================================================
