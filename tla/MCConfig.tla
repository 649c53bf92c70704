------------------------------ MODULE MCConfig ------------------------------
(***************************************************************************)
(* An instance of Config for TLC, with numbers of 3 and 4 bits.            *)
(***************************************************************************)
EXTENDS Config, TLC

MCDefaultNumber ==
    ("http-port" :> 3) @@ ("http-query-port" :> 4) @@ ("history-retention-window" :> 5)
    @@ ("fee-stats-retention-window" :> 5) @@ ("max-limit" :> 6) @@ ("default-limit" :> 5)
    @@ ("queue-limit" :> 5)

MCTexts ==
    [n \in Names |->
        CASE n = "config-path" -> {"path"}
          [] n \in {"config-strict", "backfill", "serve-ledgers-from-datastore"} -> {"true"}
          [] n = "http-port" -> {9}
          [] n = "fee-stats-retention-window" -> {7}
          [] n \in {"queue-limit", "default-limit"} -> {0, 16}
          [] n = "network" -> {"testnet", "pubnet"}
          [] n \in {"network-passphrase", "history-archive-urls"} -> {"", "custom"}
          [] n = "captive-core-storage-path" -> {"."}
          [] n \in {"captive-core-config-path", "datastore_config"} -> {"a"}
          [] n = "log-level" -> {"bad", "panic"}
          [] n = "execution-duration" -> {"0s"}
          [] OTHER -> {}]
=============================================================================
