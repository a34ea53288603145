---------------------------- MODULE MCHttpStore -----------------------------
(* HttpStore for TLC.                                                      *)
EXTENDS HttpStore

CONSTANTS good, bad, pub

MCPsk == {good, bad}

\* One public key for every init request: the hardest case for NonceOnce.
MCPublic == {pub}
=============================================================================
