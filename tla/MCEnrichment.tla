---------------------------- MODULE MCEnrichment ----------------------------
EXTENDS Enrichment

Checks(on, frames) ==
  [verify_block_hash |-> on, verify_tx_sender |-> on, verify_tx_root |-> on, verify_receipts_root |-> on,
   verify_withdrawals_root |-> on, verify_logs_bloom |-> on, check_log_index |-> on,
   check_cumulative_gas_used |-> on, use_gas_used_for_receipts_root |-> FALSE, call_frame_validation |-> frames]

Request(legs) ==
  [logs |-> "logs" \in legs, receipts |-> "receipts" \in legs, traces |-> "traces" \in legs,
   state_diffs |-> "diffs" \in legs, use_trace_api |-> "trace_api" \in legs,
   use_debug_api_for_state_diffs |-> "debug_diffs" \in legs,
   use_debug_trace_block_by_number |-> "by_number" \in legs]

(* On bor is_unsigned exempts no state-sync transaction, so with the       *)
(* sender check on its blocks fail.  One setup has the check on; the       *)
(* others leave it out, to see what follows the header.                    *)
For(n, o) == IF n = "bor" THEN [o EXCEPT !.verify_tx_sender = FALSE] ELSE o

MCSetups ==
  {[net |-> n, options |-> For(n, [Checks(TRUE, "observe") EXCEPT !.verify_receipts_root = FALSE]),
    req |-> Request({"logs"})] : n \in Networks}
  \cup {[net |-> n, options |-> For(n, Checks(TRUE, "off")), req |-> Request({"receipts"})] : n \in Networks}
  \cup {[net |-> n, options |-> Checks(FALSE, "off"), req |-> Request({"logs", "receipts"})] : n \in {"baseline", "stable"}}
  \cup {[net |-> "baseline", options |-> Checks(TRUE, "reject"), req |-> Request({"receipts", "traces"})],
        [net |-> "bor", options |-> Checks(TRUE, "off"), req |-> Request({"receipts"})],
        [net |-> "bor", options |-> Checks(FALSE, "observe"), req |-> Request({"traces", "by_number"})],
        [net |-> "baseline", options |-> Checks(FALSE, "off"), req |-> Request({"diffs", "debug_diffs", "by_number"})],
        [net |-> "baseline", options |-> [Checks(TRUE, "off") EXCEPT !.verify_receipts_root = FALSE],
         req |-> Request({"diffs", "debug_diffs"})],
        [net |-> "baseline", options |-> Checks(FALSE, "off"), req |-> Request({"logs", "traces", "diffs", "trace_api"})],
        [net |-> "baseline", options |-> Checks(FALSE, "off"), req |-> Request({"traces", "trace_api"})],
        [net |-> "baseline", options |-> Checks(TRUE, "off"), req |-> Request({"logs"})],
        [net |-> "baseline", options |-> Checks(FALSE, "off"), req |-> Request({})]}

Frame(kind, from, to) == [kind |-> kind, from |-> from, to |-> to, input |-> "in", output |-> None, gas_used |-> "1"]
Roots == {Frame("Call", "alice", "x"), Frame("Stop", "", None), Frame("Create", "alice", ""), Frame("Call", "alice", None)}
Subs == {Frame("Call", "x", "y"), Frame("DelegateCall", "x", "y"), Frame("Stop", "x", None),
         Frame("Selfdestruct", "x", None), Frame("Unknown", "x", "y"), [Frame("Create", "x", "y") EXCEPT !.gas_used = None]}
MCTrees ==
  {(Root :> r) : r \in Roots} \cup {(Root :> r @@ <<0>> :> s) : r \in Roots, s \in Subs}
  \cup {(Root :> Frame("Call", "alice", "x") @@ <<0>> :> s @@ <<0, 0>> :> Frame("Call", "x", "y") @@ <<1>> :> t) : s, t \in Subs}
=============================================================================
