--------------------------- MODULE MCBfwEngineClient ---------------------------
(* The instance of BfwEngineClient that TLC checks.                          *)
EXTENDS BfwEngineClient
=============================================================================
