----------------------------- MODULE MCSettings -----------------------------
(***************************************************************************)
(* A small instance of Settings: one text of every kind the code tells     *)
(* apart, for one variable of every kind.                                  *)
(***************************************************************************)
EXTENDS Settings

MCTexts == {"", " ON ", "off", "Allow", "-7", "k2, ,k1,k2"}

MCStripLower == [t \in MCTexts |->
    CASE t = " ON " -> "on" [] t = "Allow" -> "allow" [] OTHER -> t]

MCIntOf == [t \in {"-7"} |-> -7]

MCItems == [t \in MCTexts |->
    CASE t = "k2, ,k1,k2" -> <<"k2", "", "k1", "k2">> [] t = " ON " -> <<"ON">> [] OTHER -> <<t>>]

MCEditable == {"CONNECTOR_REQUIRE_HMAC", "CONNECTOR_DEBUG_DOCUMENT_SCAN", "CONNECTOR_FAIL_MODE",
               "CONNECTOR_API_KEYS", "NONCE_TTL_SEC", "OMEGA_RETRY_COUNT"}
=============================================================================
