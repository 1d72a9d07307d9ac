--------------------------- MODULE MCEc2Provider ---------------------------
(* Instances of Ec2Provider for TLC. *)
EXTENDS Ec2Provider, TLC

\* Instances are interchangeable where PoolInstances and OldInstances are all
\* or none of them.
InstanceSymmetry == Permutations(Instances)
=============================================================================
