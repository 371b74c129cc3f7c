------------------------------ MODULE MCRpcClnt ------------------------------
(* Instances of RpcClnt: one caller uses loc_api_sync_ioctl, one calls       *)
(* directly, as loc_start_fix does.                                          *)
EXTENDS RpcClnt, TLC

CONSTANTS sync, direct

BothCallers == {sync, direct}
SyncOnly == {sync}
NoCallers == {}
=============================================================================
