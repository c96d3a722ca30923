-------------------------- MODULE MCPublisherAudit --------------------------
(* Instances of PublisherAudit for TLC, small enough for every limit to be *)
(* reached within a few packets.                                           *)
EXTENDS PublisherAudit, TLC

\* Locations are alike.
MCSymmetry == Permutations(Iatas)

=============================================================================
