------------------------ MODULE MCThresholdEncoding ------------------------
(***************************************************************************)
(* Gradients in units of half a threshold: sent twice, sent once with and    *)
(* without a rest, sent by the bitmap only, and kept.                        *)
(***************************************************************************)
EXTENDS ThresholdEncoding

MCInputs ==
  {g \in [0..4 -> {-3, -1, 0, 2, 4}] :
     <<g[0], g[1], g[2], g[3], g[4]>> \in
       {<<2, -3, 4, -1, 2>>, <<-1, 4, 0, -3, 2>>, <<0, 2, -1, 0, 0>>, <<2, 0, 2, 2, -3>>}}

\* Counts of up to 17 blocks: three levels of at most 4 counts at a time.
MCScanInputs ==
  UNION {[1..n -> 0..2] : n \in 1..5}
    \cup {[i \in 1..n |-> (i * k) \div 4 % 2] : n \in 6..17, k \in 1..3}
============================================================================
