----------------------------- MODULE Arithmetic -----------------------------
(***************************************************************************)
(* The integer arithmetic, windows and maps of src/aegis-cl-psi.           *)
(***************************************************************************)
EXTENDS HashChain, Functions

CONSTANT U32Max     \* u32::MAX, scaled down by the configurations

ASSUME U32MaxAssumption == U32Max \in Nat \ {0}

(* u32 sums saturate, casts from u64 wrap. *)
SaturatingAdd(a, b) == AtMost(a + b, U32Max)
SaturatingSub(a, b) == IF a > b THEN a - b ELSE 0
AsU32(n) == n % (U32Max + 1)
AsI32(n) == IF n > U32Max \div 2 THEN n - (U32Max + 1) ELSE n
Pct(part, whole) == AsU32((part * 100) \div AtLeastOne(whole))
Distance(a, b) == SaturatingSub(a, b) + SaturatingSub(b, a)

(* A window is a sequence of at most size values, the oldest dropped. *)
Slide(window, v, size) ==
    LET w == Append(window, v)
    IN  IF Len(w) > size THEN Tail(w) ELSE w

\* The sum of a sequence: the last of its partial sums.
Total(s) ==
    LET sum[i \in 0..Len(s)] == IF i = 0 THEN 0 ELSE sum[i - 1] + s[i]
    IN  sum[Len(s)]
Mean(s) == IF s = << >> THEN 0 ELSE Total(s) \div Len(s)

(* BTreeMap get with a default, and insert. *)
Get(map, k, default) == IF k \in DOMAIN map THEN map[k] ELSE default
Put(map, k, v) == [x \in DOMAIN map \cup {k} |-> IF x = k THEN v ELSE map[x]]
=============================================================================
