---------------------------- MODULE MCChainQueue ----------------------------
(* Instance of ChainQueue: any two of a match, two jobs for the same     *)
(* badge of the same address (a wallet that moved to another account), a   *)
(* registration and a mail.                                                *)
EXTENDS ChainQueue

MCRecordJobs == {"rec"}
MCMintJobs == {"mint1", "mint2"}
MCMailJobs == {"mail"}
MCRegistrations == {"reg"}
MCKeys == {"match", "badge", "player"}
MCKey == [c \in {"rec", "mint1", "mint2", "reg"} |->
            CASE c = "rec" -> "match" [] c = "reg" -> "player" [] OTHER -> "badge"]
=============================================================================
