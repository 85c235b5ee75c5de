----------------------------- MODULE MCBusLock -----------------------------
(* Model values for BusLock: two driver nodes whose groups share two buses  *)
(* in opposite orders, and a tool that opens one of them in shared mode.    *)
EXTENDS BusLock

CONSTANTS left, right, tool, can0, can1, varLock, custom

MCProcs == {left, right, tool}
MCBuses == {can0, can1}
MCPlace ==
  [p \in MCProcs |->
    [b \in MCBuses |->
      CASE p = left  -> IF b = can0 THEN 1 ELSE 2
        [] p = right -> IF b = can0 THEN 2 ELSE 1
        [] p = tool  -> IF b = can0 THEN 0 ELSE 1]]
\* lock_dir is configured; the ros2_control component does not pass it on.
MCPair     == {left, right}
MCPairBus  == {can0}
PairPlace  == [p \in MCPair |-> [b \in MCPairBus |-> 1]]
PairMode   == [p \in MCPair |-> "exclusive"]
OtherDirs  == [p \in MCPair |-> IF p = left THEN custom ELSE varLock]

MCLockMode == [p \in MCProcs |-> IF p = tool THEN "shared" ELSE "exclusive"]
SameDir    == [p \in MCProcs |-> varLock]
=============================================================================
