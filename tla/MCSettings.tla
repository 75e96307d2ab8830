----------------------------- MODULE MCSettings -----------------------------
(***************************************************************************)
(* Settings with one setting of each kind that registerSettings registers    *)
(* (src/main.cpp), and texts on both sides of the bounds.                   *)
(***************************************************************************)
EXTENDS Settings, TLC

MCNames == {"chain.reset.enable", "rest.port", "peers.file", "logs.level"}

MCValidator ==
    "chain.reset.enable" :> "bool" @@ "rest.port" :> "range" @@
    "peers.file" :> "notempty" @@ "logs.level" :> "none"

MCDefault ==
    "chain.reset.enable" :> [type |-> "boolean", text |-> "true"] @@
    "rest.port" :> [type |-> "unsigned", text |-> "27182"] @@
    "peers.file" :> [type |-> "string", text |-> "name"] @@
    "logs.level" :> [type |-> "string", text |-> "name"]

MCTexts == {"", "name", "true", "on", "false", "1", "27182", "+27182"}

\* "+27182" is another way to write the number.
MCNumber == "1" :> 1 @@ "27182" :> 27182 @@ "+27182" :> 27182
MCDigits == 1 :> "1" @@ 27182 :> "27182"

MCEdits ==
    {[type |-> "string", text |-> "on"], [type |-> "string", text |-> "27182"],
     [type |-> "unsigned", text |-> "1"], [type |-> "null", text |-> "name"]}
=============================================================================
