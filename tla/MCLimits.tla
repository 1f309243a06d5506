------------------------------- MODULE MCLimits -------------------------------
(* Limits on a small instance.  The track's bucket holds more than a       *)
(* sender's and gains less in a second, so that a Retry-After is about the *)
(* one bucket or the other; the idle timeout just fills both.              *)
EXTENDS Limits, TLC

CONSTANTS a, b, none

MCSenders == {a, b, none}
MCTrackLimit == [rate |-> 2, burst |-> 3]
MCSenderLimit == [rate |-> 4, burst |-> 1]
Symmetry == Permutations({a, b})

===============================================================================
