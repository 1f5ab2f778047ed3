---------------------------- MODULE MCSlaClock ----------------------------
(* Two priorities; days of three minutes of which the first two are open.   *)
EXTENDS SlaClock

MCLadder       == <<"low", "high">>
MCSweepOrder   == <<"high", "low">>
MCTargets      == {[resp |-> 1, res |-> 2], [resp |-> 1, res |-> 1]}
MCPromise      == [p \in Priority |-> IF p = "low" THEN [resp |-> 1, res |-> 2]
                                  ELSE [resp |-> 1, res |-> 1]]
MCBusinessOnly == [p \in Priority |-> p = "low"]
MCOpenMinutes  == {m \in 0 .. 23 : m % 3 < 2}
MCSweeper == {1, 2}
MCRule ==
    <<[policy |-> "low", trigger |-> "response", after |-> 0, action |-> "change_priority"]>>
=============================================================================
