--------------------------- MODULE LatencyHistogram ---------------------------
(***************************************************************************)
(* The histogram of dispatch latencies: one bucket per power of two, and   *)
(* the statistics made of it.  (A latency above u32::MAX, 71 minutes, is   *)
(* recorded modulo 2^32; that is left out.)                                *)
(***************************************************************************)
EXTENDS Integers, FiniteSetsExt, Functions

CONSTANTS Bits,    \* width of a latency in bits (32)
          Pct      \* Pct of Pct + 1 samples are in the percentile (99)

ASSUME LatencyAssumption == Bits \in Nat \ {0} /\ Pct \in Nat \ {0}

MAX == 2^Bits - 1
Latencies == 0..MAX
Buckets == 0..(Bits - 1)  \* of the 64, the ones that ilog2 of a u32 reaches

New == [buckets |-> [k \in Buckets |-> 0], total |-> 0, min_us |-> MAX, max_us |-> 0]

\* us.checked_ilog2().unwrap_or(0)
Ilog2(us) == IF us = 0 THEN 0 ELSE CHOOSE k \in Buckets : 2^k <= us /\ us < 2^(k + 1)

Record(h, us) == [buckets |-> [h.buckets EXCEPT ![Ilog2(us)] = @ + 1],
                  total |-> h.total + 1,
                  min_us |-> IF us < h.min_us THEN us ELSE h.min_us,
                  max_us |-> IF us > h.max_us THEN us ELSE h.max_us]

\* MUTANT: the number of samples in the percentile is rounded down.
ThresholdDown(h) == (h.total * Pct) \div (Pct + 1)

Threshold(h) == (h.total * Pct + Pct) \div (Pct + 1)

\* The first bucket that brings the count to the threshold, by its upper
\* bound; 1u32.checked_shl fails for the last bucket.
P99(h) ==
  LET Enough(k) == FoldFunctionOnSet(+, 0, h.buckets, 0..k) >= Threshold(h)
      i == Min({k \in Buckets : Enough(k)})
  IN  CASE h.total = 0 -> 0
        [] h.total > 0 /\ i + 1 = Bits -> MAX
        [] OTHER -> 2^(i + 1)

\* to_stats, as the fields of a LatencyStats.
ToStats(h) == IF h.total = 0 THEN <<0, 0, 0>> ELSE <<h.min_us, h.max_us, P99(h)>>
==============================================================================
