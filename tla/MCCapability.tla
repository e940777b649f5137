---------------------------- MODULE MCCapability ----------------------------
(* Small instances of Capability for TLC. *)
EXTENDS Capability, TLC

\* Objects that do not exist at boot may be exchanged.
NewObjects == Permutations(Processes \ {Root})
                  \cup Permutations(Threads \ {RootThread})
                  \cup Permutations(Vmspaces \ {RootVmspace})
=============================================================================
