----------------------------- MODULE PdcpTokens -----------------------------
(***************************************************************************)
(* The crypto token manager of a PDCP entity (lib/pdcp/pdcp_crypto_token.h).*)
(* Every PDU handed to the crypto executor carries a token; the entity     *)
(* itself owns one more, which stop() gives back.  The counter is therefore*)
(* -1 (UINT32_MAX in the code) once stop() was called and every token came *)
(* back, and that is when the event that a key change or a release awaits  *)
(* is set.                                                                 *)
(***************************************************************************)
EXTENDS Integers

Manager == [tokens : Int, pending_crypto : BOOLEAN]

ManagerInit == [tokens |-> 0, pending_crypto |-> FALSE]

increment_tokens(m, n) == [m EXCEPT !.tokens = @ + n]

return_token_set_early(m) ==
  [tokens |-> m.tokens - 1, pending_crypto |-> m.pending_crypto \/ m.tokens <= 1]

\* The event, once set, stays set until start().
return_token(m) ==
  [tokens |-> m.tokens - 1, pending_crypto |-> m.pending_crypto \/ m.tokens = 0]

stop(m) == return_token(m)

start(m) == increment_tokens([m EXCEPT !.pending_crypto = FALSE], 1)
=============================================================================
