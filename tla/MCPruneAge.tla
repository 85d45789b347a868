----------------------------- MODULE MCPruneAge -----------------------------
(* Small instances of PruneAge for TLC. *)
EXTENDS PruneAge

Setting(count, alwaysPullLatest, logLevel) ==
  [type |-> "accessed", dur |-> 0, count |-> count, dryRun |-> FALSE,
   alwaysPullLatest |-> alwaysPullLatest, logLevel |-> logLevel]

\* A background pruner by access time, one manifest at a time.
OneAtATime == {Setting(1, TRUE, "info"), Setting(1, FALSE, "error")}

\* The pruner of the defaults.
AccessedUnlimited == {[Setting(0, FALSE, "error") EXCEPT !.dur = 1]}

\* A prune command without a limit; one by pattern that does not say dryRun, so
\* it is a dry run; one by creation time whose dryRun is not a boolean.
AgeParams ==
  {[type |-> "accessed", dur |-> 0, count |-> -1, dryRun |-> "false"],
   [type |-> "pattern", dur |-> 0, count |-> 1, dryRun |-> "absent"],
   [type |-> "created", dur |-> 0, count |-> 50, dryRun |-> "junk"]}
=============================================================================
