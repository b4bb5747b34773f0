---------------------------- MODULE MCHostWrites ----------------------------
(* Instances of HostWrites: which threads take part and how much they do.    *)
EXTENDS HostWrites

TwoPipes == {"v1", "legacy"}
Everyone == {"start", "v1", "legacy", "tick", "game"}

\* A script that makes two calls matters where the first one ends the session's
\* writes; one thread whose scripts do is enough.
OneCall == [t \in Thread |-> 1]
TwoOfLegacy == [OneCall EXCEPT !["legacy"] = 2]
=============================================================================
