---------------------------- MODULE AccessToken ----------------------------
(***************************************************************************)
(* Verification of access tokens, as the offline verifier does it.  A      *)
(* token is [format, key, expires_at]: its wire format, the key whose      *)
(* signature its payload carries, and its expiry.  Two formats exist: the  *)
(* signed JSON object of the Stellar server and the compact string of the  *)
(* Lightning server.  Each is an unreadable string to the other's decoder. *)
(***************************************************************************)
EXTENDS Integers

\* Mutant of the check below: expiry is left to the caller.
JsonTokenVerifiesForever(token, key, t) ==
  token.format = "json" /\ token.key = key

\* verify_token_string, through verify_signed_token_at.  Decoding and encoding
\* the token again gives the signed bytes, whatever the order of the keys in
\* the JSON it came in.
verify_token_string(token, key, t) ==
  token.format = "json" /\ token.key = key /\ token.expires_at > t

sign_compact_payload(payment_hash, expires_at, key) ==
  [format |-> "compact", payment_hash |-> payment_hash, expires_at |-> expires_at,
   key |-> key]

\* verify_compact_token and the verifier's is_expired.
verify_compact_token(token, key) ==
  token.format = "compact" /\ token.key = key

is_expired(expires_at, t) == t > expires_at

\* run of verifier_cli: VALID?
Verifies(token, key, t) ==
  \/ verify_token_string(token, key, t)
  \/ verify_compact_token(token, key) /\ ~is_expired(token.expires_at, t)
=============================================================================
