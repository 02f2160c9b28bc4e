-------------------------- MODULE MCStackMapTracker --------------------------
(* Small trackers, and two paths.  Offset 3 is both where a frame may be    *)
(* recorded and where the uninitialized object was created; objects on the  *)
(* stack come from initializing it.                                         *)
EXTENDS StackMapPaths

MCObjects == {Object(c) : c \in Classes}
MCStackTypes == {VT("long"), Uninit(3)}

=============================================================================
