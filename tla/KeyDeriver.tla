----------------------------- MODULE KeyDeriver -----------------------------
(***************************************************************************)
(* The storage key derivation of the enclave (src/stf/src/sgx.rs:          *)
(* storage_value_key, storage_map_key, storage_double_map_key, key_hash):  *)
(* an address is twox_128(module) ++ twox_128(storage) ++ the hash of each *)
(* map key under its StorageHasher.                                        *)
(*                                                                         *)
(* Hashes are ideal: a digest is one opaque piece determined by the hash   *)
(* function and its input, so two digests are equal exactly when function *)
(* and input are (the spec treats addresses as opaque and collision-free). *)
(* A map key is given by its SCALE encoding, EncLen bytes for the keys of  *)
(* one map.  Module Stf takes keys as tuples of their inputs; the          *)
(* injectivity checked here is what justifies that.                        *)
(***************************************************************************)
EXTENDS Naturals, Sequences

CONSTANTS
    Names,   \* module and storage prefixes (their UTF-8 bytes)
    Bytes,   \* the byte values map keys are made of
    EncLen   \* length of a map key's encoding

ASSUME EncLenAssumption == EncLen \in Nat \ {0}

Hashers == {"Identity", "Blake2_128", "Blake2_128Concat", "Blake2_256",
            "Twox128", "Twox256", "Twox64Concat"}

\* Encoded map keys.
Encoded == [1..EncLen -> Bytes]

\* The digest of input x under hash function f: one opaque piece.
Digest(f, x) == <<[fn |-> f, of |-> x]>>

\* Mutant: Blake2_128Concat returns the digest without the key.
key_hash_NoConcat(k, h) ==
    IF h = "Identity" THEN k
    ELSE IF h \in {"Blake2_128Concat", "Blake2_128"} THEN Digest("blake2_128", k)
    ELSE IF h = "Twox64Concat" THEN Digest("twox_64", k)
    ELSE IF h = "Blake2_256" THEN Digest("blake2_256", k)
    ELSE IF h = "Twox128" THEN Digest("twox_128", k)
    ELSE Digest("twox_256", k)

(***************************************************************************)
(* key_hash: the encoded key under the selected hasher.  Blake2_128Concat  *)
(* appends the encoded key to its digest; Twox64Concat returns the digest  *)
(* alone.                                                                  *)
(***************************************************************************)
key_hash(k, h) ==
    IF h = "Identity" THEN k
    ELSE IF h = "Blake2_128Concat" THEN Digest("blake2_128", k) \o k
    ELSE IF h = "Twox64Concat" THEN Digest("twox_64", k)
    ELSE IF h = "Blake2_128" THEN Digest("blake2_128", k)
    ELSE IF h = "Blake2_256" THEN Digest("blake2_256", k)
    ELSE IF h = "Twox128" THEN Digest("twox_128", k)
    ELSE Digest("twox_256", k)

storage_value_key(m, s) == Digest("twox_128", m) \o Digest("twox_128", s)

storage_map_key(m, s, k1, h1) ==
    Digest("twox_128", m) \o Digest("twox_128", s) \o key_hash(k1, h1)

\* Mutant: the second key is hashed from mapkey1.
storage_double_map_key_FirstKeyTwice(m, s, k1, h1, k2, h2) ==
    Digest("twox_128", m) \o Digest("twox_128", s) \o key_hash(k1, h1)
        \o key_hash(k1, h2)

storage_double_map_key(m, s, k1, h1, k2, h2) ==
    Digest("twox_128", m) \o Digest("twox_128", s) \o key_hash(k1, h1)
        \o key_hash(k2, h2)

-----------------------------------------------------------------------------
(***************************************************************************)
(* A derivation request: a storage value, map or double map entry.         *)
(***************************************************************************)
Requests ==
    [kind : {"value"}, m : Names, s : Names]
    \cup [kind : {"map"}, m : Names, s : Names, k1 : Encoded, h1 : Hashers]
    \cup [kind : {"double"}, m : Names, s : Names, k1 : Encoded, h1 : Hashers,
          k2 : Encoded, h2 : Hashers]

derive(r) ==
    IF r.kind = "value" THEN storage_value_key(r.m, r.s)
    ELSE IF r.kind = "map" THEN storage_map_key(r.m, r.s, r.k1, r.h1)
    ELSE storage_double_map_key(r.m, r.s, r.k1, r.h1, r.k2, r.h2)

\* Every request is checked in a state of its own.
VARIABLE req

Init == req \in Requests
Next == UNCHANGED req
Spec == Init /\ [][Next]_req

-----------------------------------------------------------------------------
(***************************************************************************)
(* Spec 8: derivation is injective.  A storage item (module and storage     *)
(* prefix) has one layout, its kind and hashers; two requests for items of *)
(* different prefixes, or for the same layout with different keys, give    *)
(* different addresses.  This is what lets Stf treat storage keys as       *)
(* tuples of their inputs.                                                 *)
(***************************************************************************)
Layout(r) ==
    IF r.kind = "value" THEN <<"value">>
    ELSE IF r.kind = "map" THEN <<"map", r.h1>>
    ELSE <<"double", r.h1, r.h2>>

AddressesInjective ==
    \A r \in Requests :
        /\ <<r.m, r.s>> # <<req.m, req.s>> \/ Layout(r) = Layout(req)
        /\ derive(r) = derive(req)
        => r = req

(***************************************************************************)
(* The host ledger's hashers (spec 4.1): identity, the plain digests, and  *)
(* the Concat variants that append the encoded key to the digest, for 64   *)
(* as for 128 bits.                                                        *)
(***************************************************************************)
HostDigestFn == [Blake2_128 |-> "blake2_128", Blake2_128Concat |-> "blake2_128",
                 Blake2_256 |-> "blake2_256", Twox128 |-> "twox_128",
                 Twox256 |-> "twox_256", Twox64Concat |-> "twox_64"]

HostKeyHash(k, h) ==
    IF h = "Identity" THEN k
    ELSE IF h \in {"Blake2_128Concat", "Twox64Concat"} THEN Digest(HostDigestFn[h], k) \o k
    ELSE Digest(HostDigestFn[h], k)

HostAddress(r) ==
    Digest("twox_128", r.m) \o Digest("twox_128", r.s)
        \o (IF r.kind = "value" THEN <<>> ELSE HostKeyHash(r.k1, r.h1))
        \o (IF r.kind = "double" THEN HostKeyHash(r.k2, r.h2) ELSE <<>>)

\* The hashers the enclave's own keys use (sgx.rs nonce_key_hash,
\* get_account_info, get_encointer_balance): value keys and Blake2_128Concat.
StfRequest(r) ==
    /\ r.kind \in {"map", "double"} => r.h1 = "Blake2_128Concat"
    /\ r.kind = "double" => r.h2 = "Blake2_128Concat"

(***************************************************************************)
(* The addresses the enclave derives for its own keys (System::Account,    *)
(* EncointerBalances::Balance, the scheduler and ceremony values) are the  *)
(* addresses the public chain stores them at, so that update_storage       *)
(* copies chain values to the keys execute and get_state read.             *)
(***************************************************************************)
StfKeysMatchHost == StfRequest(req) => derive(req) = HostAddress(req)

=============================================================================
