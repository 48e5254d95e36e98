---------------------------- MODULE MCEventLoop ----------------------------
(***************************************************************************)
(* Small instances of EventLoop.  int has 4 bits and uint64_t 6, a         *)
(* millisecond is 2 units: "tick" lasts 7 units, the longest (int) keeps    *)
(* (3 ms), "tiny" less than 1 ms (so it is started with 0), "shot" 1 ms.   *)
(***************************************************************************)
EXTENDS EventLoop

CONSTANTS a, tick, tiny, shot

MCDuration ==
    [t \in Timers |-> CASE t = tick -> 7 [] t = tiny -> 1 [] t = shot -> 2]
=============================================================================
