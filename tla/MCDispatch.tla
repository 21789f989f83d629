------------------------------- MODULE MCDispatch ------------------------------
(***************************************************************************)
(* Dispatch on one or two collections.  The schedule starts s1 of the      *)
(* collection c1; the worker w1 has s2, of c1 too, and s3, of c2.          *)
(***************************************************************************)
EXTENDS Dispatch

CONSTANTS c1, c2, s1, s2, s3, w1, clock, person, waker, i1, i2, i3, i4

MCCollOf == [s \in Sweeps |-> IF s = s3 THEN c2 ELSE c1]
MCWorkerOf == [s \in Sweeps |-> IF s = s1 THEN NoWorker ELSE w1]

\* One clock, all sweeps; quotas are used up, the trigger restarts.
TheClock ==
    [who |-> {clock}, sweeps |-> {s1, s2, s3}, ids |-> {i1, i2, i3, i4}, slots |-> 2,
     perRun |-> 2, throttled |-> {w1}, tended |-> {}, faults |-> {"restart"}]

\* A person who runs s1 beside the clock.
APerson ==
    [who |-> {clock, person}, sweeps |-> {s1}, ids |-> {i1, i2, i3, i4}, slots |-> 1,
     perRun |-> 1, throttled |-> {}, tended |-> {}, faults |-> {}]

\* A request that wakes w1 beside the clock, under every fault.
EveryFault ==
    [who |-> {clock, waker}, sweeps |-> {s3}, ids |-> {i1, i2, i3}, slots |-> 1,
     perRun |-> 1, throttled |-> {}, tended |-> {},
     faults |-> {"lost_reply", "unreachable", "crash", "restart"}]

\* People switch c1 on and off and take entries out.
Tended ==
    [who |-> {clock}, sweeps |-> {s1, s3}, ids |-> {i1, i2, i3}, slots |-> 1,
     perRun |-> 1, throttled |-> {}, tended |-> {c1}, faults |-> {}]

\* A sweep of the schedule and a worker's for one slot.
OneSlot ==
    [who |-> {clock}, sweeps |-> {s1, s3}, ids |-> {i1, i2, i3, i4}, slots |-> 1,
     perRun |-> 1, throttled |-> {}, tended |-> {}, faults |-> {"restart"}]

SafetyCasts == <<TheClock, APerson, EveryFault, Tended>>
LiveCasts == <<OneSlot>>

================================================================================
