--------------------------- MODULE Analytics ---------------------------
(***************************************************************************)
(* The algorithms that share no state: four plugins of Lane B              *)
(* (counting_ones, sampling, decay and the second moment of moments),      *)
(* which the dispatcher calls one after the other, and the link analysis   *)
(* of the dashboard.  Every behaviour of all of them is made of            *)
(* independent behaviours of each: focus picks the one that moves, and the *)
(* others stay as they are.                                                *)
(***************************************************************************)
EXTENDS Dgim, Sampling, Decay, Ams, LinkGraph

VARIABLE focus

vars == <<focus, dgimVars, samplingVars, decayVars, amsVars, linkVars>>

Init ==
  /\ focus \in {"counting_ones", "sampling", "decay", "moments", "links"}
  /\ DgimInit /\ SamplingInit /\ DecayInit /\ AmsInit /\ LinkInit

Next ==
  /\ UNCHANGED focus
  /\ \/ focus = "counting_ones" /\ DgimNext
        /\ UNCHANGED <<samplingVars, decayVars, amsVars, linkVars>>
     \/ focus = "sampling" /\ SamplingNext
        /\ UNCHANGED <<dgimVars, decayVars, amsVars, linkVars>>
     \/ focus = "decay" /\ DecayNext
        /\ UNCHANGED <<dgimVars, samplingVars, amsVars, linkVars>>
     \/ focus = "moments" /\ AmsNext
        /\ UNCHANGED <<dgimVars, samplingVars, decayVars, linkVars>>
     \/ focus = "links" /\ LinkNext
        /\ UNCHANGED <<dgimVars, samplingVars, decayVars, amsVars>>

Spec == Init /\ [][Next]_vars
=============================================================================
