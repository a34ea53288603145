------------------------------- MODULE Crypto -------------------------------
(***************************************************************************)
(* The cryptography of src/src/crypto.rs, symbolically.  A value nobody    *)
(* else can compute is a term: the Diffie-Hellman key is the unordered     *)
(* pair of the two ephemeral keys it was made from, a hash is the tuple it *)
(* was taken of, and a sealed packet carries the key and the counter its   *)
(* nonce was made from.  An ephemeral key pair is one value, which stands  *)
(* for the secret at its owner and for the public key everywhere else.     *)
(***************************************************************************)

\* Handshake::derive_key: X25519 commutes, and HKDF adds nothing to it.
\* (Mutant: one side's key only.)
DeriveKeyOfPeer(secret, peerPublic) == {peerPublic}
DeriveKey(secret, peerPublic) == {secret, peerPublic}

\* build_auth_payload: the public key, and the hash of the PSK and that key.
AuthPayload(public, psk) == [public |-> public, tag |-> <<psk, public>>]

\* verify_auth_payload: the hash is recomputed with the verifier's PSK.
VerifyAuth(payload, psk) == payload.tag = <<psk, payload.public>>

\* encrypt: the nonce is the counter, so the pair (key, counter) is one use.
Encrypt(key, counter, packet) ==
    [key |-> key, counter |-> counter, packet |-> packet]

\* decrypt: the tag verifies under the key and counter it was made with only.
Opens(key, counter, sealed) == sealed.key = key /\ sealed.counter = counter
=============================================================================
