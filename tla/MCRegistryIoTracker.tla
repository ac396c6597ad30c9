------------------------- MODULE MCRegistryIoTracker -------------------------
(* Model checking of RegistryIoTracker: two addresses, a root key, a name      *)
(* relative to an open key, one or two processors.                             *)
EXTENDS RegistryIoTracker, TLC

CONSTANTS cpu0, cpu1, key1, key2

MCAddresses == {key1, key2}
MCRootKeys == {"hklm"}
MCRelatives == {"sub"}
MCPids == {7}
OneProcessor == {cpu0}
TwoProcessors == {cpu0, cpu1}
MCSymmetry == Permutations(TwoProcessors) \cup Permutations(MCAddresses)
NoAddress == {}
=============================================================================
