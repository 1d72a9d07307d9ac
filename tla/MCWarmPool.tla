----------------------------- MODULE MCWarmPool -----------------------------
EXTENDS WarmPool

\* One pool; two pools that count each other's instances; a pool next to one
\* without subnets, which validation reports and start-up tolerates.
OnePool     == <<[desired |-> 1, subnets |-> TRUE]>>
TwoPools    == <<[desired |-> 1, subnets |-> TRUE], [desired |-> 2, subnets |-> TRUE]>>
NoSubnets   == <<[desired |-> 1, subnets |-> TRUE], [desired |-> 1, subnets |-> FALSE]>>
MCConfigs   == {TwoPools, NoSubnets}
OneConfig   == {OnePool}
=============================================================================
