--------------------------- MODULE MCLocSyncCall ---------------------------
(* Instances of LocSyncCall: the threads that issue IOCTLs are the         *)
(* deferred-action thread, the framework's and the NI thread.              *)
EXTENDS LocSyncCall, TLC

(* Each thread has an IOCTL type of its own. *)
MCOwnTypes == {<<"deferred", 1>>, <<"framework", 2>>}

(* All threads use all types. *)
MCAllTypes == Callers \X Ioctls
=============================================================================
