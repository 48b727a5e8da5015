--------------------------- MODULE MCCronService ---------------------------
(* CronService on small sets, for TLC. *)
EXTENDS CronService, TLC

CONSTANTS once, often, s1, s2, c1, c2

MCInitially == {{once}, Jobs}
MCKind == [j \in Jobs |-> IF j = once THEN "at" ELSE "cron"]
MCOutcomes == [j \in Jobs |-> IF j = once THEN {"ok"} ELSE {"error"}]
MCAt == [j \in Jobs |-> 1]

ServiceSymmetry == Permutations(Services)

=============================================================================
