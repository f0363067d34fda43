----------------------------- MODULE MCSplitter -----------------------------
(***************************************************************************)
(* Model-checking instance of Splitter: three upstream nodes, the policy   *)
(* of the tests (two responses, two agreeing), block heights 1 and 2, and  *)
(* one method of each strategy plus one unregistered method.               *)
(***************************************************************************)
EXTENDS Splitter

MCValues == {1, 2}

MCMethods == {"eth_blockNumber", "eth_getBlockByHash", "net_version", "eth_call"}

(* The exact-match methods only: the registered one and the default.      *)
MCMethodsExact == {"eth_getBlockByHash", "eth_call"}

(* eth_call is left unregistered and takes the default strategy.           *)
MCStrategyTable == [m \in {"eth_blockNumber", "eth_getBlockByHash", "net_version"} |->
                      CASE m = "eth_blockNumber"    -> "numeric"
                        [] m = "eth_getBlockByHash" -> "exact"
                        [] m = "net_version"        -> "first"]
(* No definition names a particular source (the arrival order is state,   *)
(* and is permuted with it), so sources are symmetric in safety runs.      *)
MCSourceSymmetry == Permutations(Sources)
=============================================================================
