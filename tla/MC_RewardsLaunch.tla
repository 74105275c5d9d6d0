--------------------------- MODULE MC_RewardsLaunch ---------------------------
(* A `rewards` command line for TLC: every required flag, a slot range of  *)
(* two epochs' worth and no --workers-num.                                 *)
EXTENDS RewardsLaunch, TLC

MCGiven == {"bn-endpoint", "outfolder", "init-slot", "final-slot",
            "validator-indexes", "db-url", "db-workers-num"}

MCIntArg == ("init-slot" :> 64) @@ ("final-slot" :> 128) @@ ("db-workers-num" :> 2)
=============================================================================
