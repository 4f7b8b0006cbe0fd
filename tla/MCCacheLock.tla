---------------------------- MODULE MCCacheLock ----------------------------
(***************************************************************************)
(* Three runs at the file lock, or two at a remote one.                    *)
(***************************************************************************)
EXTENDS CacheLock

CONSTANTS p1, p2, p3

LockSetups ==
  {[remote |-> "none", callers |-> {p1, p2, p3}, blind |-> {}],
   [remote |-> "none", callers |-> {p1, p2, p3}, blind |-> {<<p2, p1>>, <<p3, p1>>}],
   [remote |-> "vk", callers |-> {p1, p2}, blind |-> {}],
   [remote |-> "redis", callers |-> {p1, p2}, blind |-> {<<p1, p2>>}]}
=============================================================================
