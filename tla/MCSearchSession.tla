--------------------------- MODULE MCSearchSession ---------------------------
(* One session with a sibling and every kind of `go` line.                  *)
EXTENDS SearchSession

Lim(fields) == [f \in DOMAIN NoLimits |-> IF f \in DOMAIN fields THEN fields[f] ELSE NoLimits[f]]

Bare          == Lim([x \in {} |-> TRUE])
Handicapped   == Lim([infinite |-> TRUE, skill |-> TRUE])
Depth         == Lim([depth |-> 1])
Cap           == Lim([cap |-> TRUE])
ClockDepth    == Lim([clock |-> TRUE, depth |-> 2])
Ponder        == Lim([ponder |-> TRUE, clock |-> TRUE])
PonderBare    == Lim([ponder |-> TRUE])
Mate          == Lim([mate |-> TRUE])

MCLimits == {Bare, Handicapped, Depth, Cap, ClockDepth, Ponder, PonderBare, Mate}
MCBench  == {Depth}
=============================================================================
