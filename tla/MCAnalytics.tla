-------------------------- MODULE MCAnalytics --------------------------
(* Analytics with two batches for decay, of two addresses and one port, and *)
(* the damping factors of PageRank (a coarse one) and of the Markov chain.  *)
EXTENDS Analytics

CONSTANTS i1, i2, i3, p1

Dampings == {<<1, 2>>, <<1, 1>>}
OneInTen == <<1, 10>>

TwoBatches ==
  {[rows |-> 2, counts |-> "dst_ip" :> (i1 :> 1 @@ i2 :> 1) @@ "dst_port" :> (p1 :> 1)],
   [rows |-> 1, counts |-> "dst_ip" :> (i2 :> 1) @@ "dst_port" :> <<>>]}
=============================================================================
