----------------------------- MODULE MCRpcClient -----------------------------
(* Three calls in batches of up to three, on one or two permits.           *)
EXTENDS RpcClient

MCConfigs ==
  [capacity : {1, 2}, max_batch : {2, 3}, per_window : {2, 3}, internal : BOOLEAN]
=============================================================================
