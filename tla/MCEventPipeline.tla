-------------------------- MODULE MCEventPipeline --------------------------
EXTENDS EventPipeline, TLC

MCPolicy ==
  [max_deliveries |-> 2, dead_letter_on_exhaustion |-> TRUE,
   dead_letter_non_retryable |-> TRUE, base_delay |-> 1, multiplier |-> 1,
   max_delay |-> 1, jitter_percent |-> 0]

MCErrors == {[retryable |-> TRUE, discardable |-> FALSE],
             [retryable |-> FALSE, discardable |-> FALSE],
             [retryable |-> TRUE, discardable |-> TRUE]}

MCSymmetry == Permutations(Worker)
=============================================================================
