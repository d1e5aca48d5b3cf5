------------------------------ MODULE MC_Forwarder ------------------------------
\* Two processes of the same group or of two, a device with two ports and two host ports.
EXTENDS Forwarder, TLC

MCSymmetry == Permutations(Proc) \cup Permutations(Group) \cup Permutations(HostPort)
=============================================================================
