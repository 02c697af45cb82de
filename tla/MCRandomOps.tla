---------------------------- MODULE MCRandomOps ----------------------------
(* Ops for TLC: even and odd lengths, shorter and longer than the buffer, with *)
(* one thread and with several, and shuffles of every form.                    *)
EXTENDS RandomOps

Fill(kind, len, trials, far) == [kind |-> kind, len |-> len, trials |-> trials, far |-> far]
Mix(len, inplace, vector) ==
  [kind |-> "shuffle", len |-> len, inplace |-> inplace, vector |-> vector]

MCOps == {Fill("plain", n, 0, FALSE) : n \in {1, 4}}
         \cup {Fill("gauss", n, 0, FALSE) : n \in {1, 4, 9}}
         \cup {Fill("truncated", 5, 0, TRUE), Fill("truncated", 5, 0, FALSE),
               Fill("truncated", 10, 0, FALSE)}
         \cup {Fill("binomial", 4, t, FALSE) : t \in {0, 2}}
         \cup {Mix(n, p, v) : n \in {2, 4}, p \in BOOLEAN, v \in BOOLEAN}

\* Pairs are rejected by the index of their first number.
MCRejects(pair) == pair[1].idx = 1
===========================================================================
