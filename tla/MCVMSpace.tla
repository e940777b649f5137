----------------------------- MODULE MCVMSpace ------------------------------
(* Small instances of VMSpace for TLC. *)
EXTENDS VMSpace, TLC

CONSTANTS data, lazy, device, heap1

MCPmoType == data :> "DATA" @@ lazy :> "ANONYM" @@ device :> "DEVICE"
MCPmoSize == data :> 2 @@ lazy :> 3 @@ device :> 1
MCHeapPmo == [s \in Spaces |-> heap1]
MCPerms == {"r", "rw"}
=============================================================================
