---------------------------- MODULE MCProxyAtomic ----------------------------
(***************************************************************************)
(* The device of MCProxyDevice, with the history of its partitions.        *)
(***************************************************************************)
EXTENDS ProxyAtomic, MCProxyDevice
=============================================================================
