--------------------------- MODULE MCFollowupQueue ---------------------------
(* FollowupQueue on small sets, for TLC. *)
EXTENDS FollowupQueue, TLC

CONSTANTS m1, m2, m3, here, there

MCMessageId == [m \in Msgs |-> m]
MCRedelivery == [m \in Msgs |-> IF m = m3 THEN m1 ELSE m]
MCOneRoute == [m \in Msgs |-> here]
MCTwoRoutes == [m \in Msgs |-> IF m = m2 THEN there ELSE here]

With(modes, caps, drops) == [mode : modes, cap : caps, dropPolicy : drops]

BothModes == With({"collect", "followup"}, {5}, {"old"})
FollowupOld == With({"followup"}, {2}, {"old"})
AnySettings == With({"collect", "followup"}, {2}, {"old", "new", "summarize"})

\* The messages of MCFollowupQueueFull.cfg differ in nothing but their arrival.
Interchangeable == Permutations(Msgs)

=============================================================================
