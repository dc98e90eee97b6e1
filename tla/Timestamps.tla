----------------------------- MODULE Timestamps -----------------------------
(***************************************************************************)
(* effective_at as text: what the cache guard compares is not the time but *)
(* its ISO form.  A text is the digits up to the second, the character     *)
(* after them and the digits of the fraction; the digits before the        *)
(* fraction have one width at any time, so they compare as numbers.        *)
(***************************************************************************)
EXTENDS Integers

CONSTANT PerSecond   \* instants of one second: a million

ASSUME PerSecondAssumption == PerSecond \in Nat \ {0}

\* The codes of the two characters that can follow the second.
Point == 46
Zulu == 90

\* Seeded bug: isoformat() alone leaves out a fraction of zero.
ToIsoShort(at) ==
  [second |-> at \div PerSecond, mark |-> IF at % PerSecond = 0 THEN Zulu ELSE Point,
   fraction |-> at % PerSecond]

\* Always six fractional digits.
ToIso(at) ==
  [second |-> at \div PerSecond, mark |-> Point, fraction |-> at % PerSecond]

\* Two texts compared as strings: by their first difference.
After(x, y) ==
  \/ x.second > y.second
  \/ x.second = y.second /\ x.mark > y.mark
  \/ x.second = y.second /\ x.mark = y.mark /\ x.fraction > y.fraction
=============================================================================
