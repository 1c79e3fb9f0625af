------------------------------ MODULE MCSelection ------------------------------
(***************************************************************************)
(* Instances of Selection for TLC: up to seven candidates with scores from *)
(* all different to all equal, for beams of one to four and both limits.   *)
(***************************************************************************)
EXTENDS Selection

CONSTANTS MaxSize, MaxBeam, Values

MCRequests ==
  UNION {[size : {n}, score : [0 .. n - 1 -> Values], beam : {b}, limit : {2 * b, (b * 4) \div 3}]
           : n \in 1 .. MaxSize, b \in 1 .. MaxBeam}
===============================================================================
