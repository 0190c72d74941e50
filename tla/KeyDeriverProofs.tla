-------------------------- MODULE KeyDeriverProofs --------------------------
(***************************************************************************)
(* Proofs about the storage key derivation (module KeyDeriver), for every  *)
(* set of prefixes, every byte set and every length of a map key's         *)
(* encoding.  An address is a sequence of pieces: the cells of an encoded  *)
(* key and the opaque digests.                                             *)
(***************************************************************************)
EXTENDS KeyDeriver, SequenceTheorems, TLAPS

\* The hash functions key_hash and the prefixes use.
DigestFns == {"blake2_128", "twox_64", "blake2_256", "twox_128", "twox_256"}

\* What an address is made of.
Pieces == Bytes \cup [fn : DigestFns, of : Names \cup Encoded]

\* The length of key_hash(k, h) for a key of EncLen bytes.
KeyHashLen(h) ==
    IF h = "Identity" THEN EncLen
    ELSE IF h = "Blake2_128Concat" THEN 1 + EncLen
    ELSE 1

\* A digest is one piece that names its function and its input.
LEMMA DigestShape ==
    ASSUME NEW f \in DigestFns, NEW x \in Names \cup Encoded
    PROVE  /\ Digest(f, x) \in Seq(Pieces)
           /\ Len(Digest(f, x)) = 1
           /\ Digest(f, x)[1] = [fn |-> f, of |-> x]
  BY DEF Digest, Pieces

\* An encoded key is a sequence of EncLen bytes.
LEMMA EncodedShape ==
    ASSUME NEW k \in Encoded
    PROVE  k \in Seq(Pieces) /\ Len(k) = EncLen
  <1>1. EncLen \in Nat BY EncLenAssumption
  <1> QED BY <1>1 DEF Encoded, Pieces

\* key_hash is a sequence of pieces whose length depends on the hasher only.
LEMMA KeyHashShape ==
    ASSUME NEW k \in Encoded, NEW h \in Hashers
    PROVE  key_hash(k, h) \in Seq(Pieces) /\ Len(key_hash(k, h)) = KeyHashLen(h)
  <1>1. k \in Seq(Pieces) /\ Len(k) = EncLen BY EncodedShape
  <1>2. CASE h = "Identity" BY <1>1, <1>2 DEF key_hash, KeyHashLen
  <1>3. CASE h = "Blake2_128Concat"
    <2>1. Digest("blake2_128", k) \in Seq(Pieces) /\ Len(Digest("blake2_128", k)) = 1
      BY DigestShape DEF DigestFns
    <2>2. Digest("blake2_128", k) \o k \in Seq(Pieces)
          /\ Len(Digest("blake2_128", k) \o k) = 1 + EncLen
      BY <1>1, <2>1, ConcatProperties
    <2> QED BY <1>3, <2>2 DEF key_hash, KeyHashLen
  <1>4. CASE h \notin {"Identity", "Blake2_128Concat"}
    <2>1. PICK f \in DigestFns : key_hash(k, h) = Digest(f, k)
      BY <1>4 DEF key_hash, DigestFns, Hashers
    <2>2. Digest(f, k) \in Seq(Pieces) /\ Len(Digest(f, k)) = 1 BY DigestShape
    <2>3. KeyHashLen(h) = 1 BY <1>4 DEF KeyHashLen
    <2> QED BY <2>1, <2>2, <2>3
  <1> QED BY <1>2, <1>3, <1>4

\* key_hash under one hasher is injective: each digest holds its input.
LEMMA KeyHashInjective ==
    ASSUME NEW k \in Encoded, NEW k2 \in Encoded, NEW h \in Hashers,
           key_hash(k, h) = key_hash(k2, h)
    PROVE  k = k2
  <1>1. CASE h = "Identity" BY <1>1 DEF key_hash
  <1>2. CASE h = "Blake2_128Concat"
    <2>1. /\ (Digest("blake2_128", k) \o k)[1] = [fn |-> "blake2_128", of |-> k]
          /\ (Digest("blake2_128", k2) \o k2)[1] = [fn |-> "blake2_128", of |-> k2]
      <3>1. ASSUME NEW x \in Encoded
            PROVE  (Digest("blake2_128", x) \o x)[1] = [fn |-> "blake2_128", of |-> x]
        <4>1. x \in Seq(Pieces) /\ Len(x) = EncLen BY EncodedShape
        <4>2. /\ Digest("blake2_128", x) \in Seq(Pieces)
              /\ Len(Digest("blake2_128", x)) = 1
              /\ Digest("blake2_128", x)[1] = [fn |-> "blake2_128", of |-> x]
          BY DigestShape DEF DigestFns
        <4>3. EncLen \in Nat BY EncLenAssumption
        <4> QED BY <4>1, <4>2, <4>3, ConcatProperties
      <3> QED BY <3>1
    <2>2. key_hash(k, h) = Digest("blake2_128", k) \o k
          /\ key_hash(k2, h) = Digest("blake2_128", k2) \o k2
      BY <1>2 DEF key_hash
    <2>3. [fn |-> "blake2_128", of |-> k] = [fn |-> "blake2_128", of |-> k2]
      BY <2>1, <2>2
    <2> QED BY <2>3
  <1>3. CASE h \notin {"Identity", "Blake2_128Concat"}
    <2>1. PICK f \in DigestFns : key_hash(k, h) = Digest(f, k) /\ key_hash(k2, h) = Digest(f, k2)
      BY <1>3 DEF key_hash, DigestFns, Hashers
    <2>2. Digest(f, k)[1] = [fn |-> f, of |-> k] /\ Digest(f, k2)[1] = [fn |-> f, of |-> k2]
      BY DigestShape
    <2>3. [fn |-> f, of |-> k] = [fn |-> f, of |-> k2] BY <2>1, <2>2
    <2> QED BY <2>3
  <1> QED BY <1>1, <1>2, <1>3


\* Two concatenations with first parts of one length have equal parts.
LEMMA ConcatSplit ==
    ASSUME NEW S, NEW s1 \in Seq(S), NEW s2 \in Seq(S), NEW t1 \in Seq(S),
           NEW t2 \in Seq(S), Len(s1) = Len(t1), s1 \o s2 = t1 \o t2
    PROVE  s1 = t1 /\ s2 = t2
  <1>1. \A i \in 1..Len(s1) : s1[i] = t1[i]
    <2>1. /\ \A i \in 1..Len(s1) + Len(s2) : (s1 \o s2)[i] = IF i <= Len(s1) THEN s1[i] ELSE s2[i - Len(s1)]
          /\ \A i \in 1..Len(t1) + Len(t2) : (t1 \o t2)[i] = IF i <= Len(t1) THEN t1[i] ELSE t2[i - Len(t1)]
      BY ConcatProperties
    <2> QED BY <2>1
  <1>2. s1 = t1 BY <1>1, SeqEqual
  <1>3. s2 = t2 BY <1>2, ConcatSimplifications
  <1> QED BY <1>2, <1>3

\* The module and storage prefix of a request's address.
Prefix(r) == Digest("twox_128", r.m) \o Digest("twox_128", r.s)

\* What follows the prefix.
Suffix(r) ==
    IF r.kind = "value" THEN << >>
    ELSE IF r.kind = "map" THEN key_hash(r.k1, r.h1)
    ELSE key_hash(r.k1, r.h1) \o key_hash(r.k2, r.h2)

\* An address is its prefix, two digests of the prefixes, and its suffix.
LEMMA DeriveShape ==
    ASSUME NEW r \in Requests
    PROVE  /\ Prefix(r) \in Seq(Pieces) /\ Len(Prefix(r)) = 2
           /\ Prefix(r)[1] = [fn |-> "twox_128", of |-> r.m]
           /\ Prefix(r)[2] = [fn |-> "twox_128", of |-> r.s]
           /\ Suffix(r) \in Seq(Pieces)
           /\ derive(r) = Prefix(r) \o Suffix(r)
  <1>1. r.m \in Names /\ r.s \in Names BY DEF Requests
  <1>2. /\ Digest("twox_128", r.m) \in Seq(Pieces) /\ Len(Digest("twox_128", r.m)) = 1
        /\ Digest("twox_128", r.m)[1] = [fn |-> "twox_128", of |-> r.m]
        /\ Digest("twox_128", r.s) \in Seq(Pieces) /\ Len(Digest("twox_128", r.s)) = 1
        /\ Digest("twox_128", r.s)[1] = [fn |-> "twox_128", of |-> r.s]
    BY <1>1, DigestShape DEF DigestFns
  <1>3. /\ Prefix(r) \in Seq(Pieces) /\ Len(Prefix(r)) = 2
        /\ Prefix(r)[1] = [fn |-> "twox_128", of |-> r.m]
        /\ Prefix(r)[2] = [fn |-> "twox_128", of |-> r.s]
    BY <1>2, ConcatProperties DEF Prefix
  <1>4. CASE r.kind = "value"
    <2>1. Prefix(r) \o << >> = Prefix(r) BY <1>3, ConcatEmptySeq
    <2> QED BY <1>3, <1>4, <2>1 DEF Suffix, derive, storage_value_key, Prefix
  <1>5. CASE r.kind = "map"
    <2>1. r.k1 \in Encoded /\ r.h1 \in Hashers BY <1>5 DEF Requests
    <2>2. key_hash(r.k1, r.h1) \in Seq(Pieces) BY <2>1, KeyHashShape
    <2> QED BY <1>3, <1>5, <2>2 DEF Suffix, derive, storage_map_key, Prefix
  <1>6. CASE r.kind \notin {"value", "map"}
    <2>1. r.k1 \in Encoded /\ r.h1 \in Hashers /\ r.k2 \in Encoded /\ r.h2 \in Hashers
      BY <1>6 DEF Requests
    <2>2. key_hash(r.k1, r.h1) \in Seq(Pieces) /\ key_hash(r.k2, r.h2) \in Seq(Pieces)
      BY <2>1, KeyHashShape
    <2>3. key_hash(r.k1, r.h1) \o key_hash(r.k2, r.h2) \in Seq(Pieces)
      BY <2>2, ConcatProperties
    <2>4. (Prefix(r) \o key_hash(r.k1, r.h1)) \o key_hash(r.k2, r.h2)
            = Prefix(r) \o (key_hash(r.k1, r.h1) \o key_hash(r.k2, r.h2))
      BY <1>3, <2>2, ConcatAssociative
    <2> QED BY <1>3, <1>6, <2>3, <2>4 DEF Suffix, derive, storage_double_map_key, Prefix
  <1> QED BY <1>3, <1>4, <1>5, <1>6


(***************************************************************************)
(* Derivation is injective on requests of one layout: equal addresses     *)
(* have equal prefix digests, hence equal prefixes; the layout then fixes  *)
(* the kind and the hashers, the suffixes are equal after the common       *)
(* prefix, and under one hasher each key_hash has a fixed length and       *)
(* determines its key.                                                     *)
(***************************************************************************)
LEMMA DeriveInjective ==
    ASSUME NEW r \in Requests, NEW q \in Requests,
           <<r.m, r.s>> # <<q.m, q.s>> \/ Layout(r) = Layout(q),
           derive(r) = derive(q)
    PROVE  r = q
  <1>1. /\ Prefix(r) \in Seq(Pieces) /\ Len(Prefix(r)) = 2 /\ Suffix(r) \in Seq(Pieces)
        /\ Prefix(r)[1] = [fn |-> "twox_128", of |-> r.m]
        /\ Prefix(r)[2] = [fn |-> "twox_128", of |-> r.s]
        /\ derive(r) = Prefix(r) \o Suffix(r)
        /\ Prefix(q) \in Seq(Pieces) /\ Len(Prefix(q)) = 2 /\ Suffix(q) \in Seq(Pieces)
        /\ Prefix(q)[1] = [fn |-> "twox_128", of |-> q.m]
        /\ Prefix(q)[2] = [fn |-> "twox_128", of |-> q.s]
        /\ derive(q) = Prefix(q) \o Suffix(q)
    BY DeriveShape
  <1>2. Prefix(r) = Prefix(q) /\ Suffix(r) = Suffix(q)
    BY <1>1, ConcatSplit
  <1>3. r.m = q.m /\ r.s = q.s
    <2>1. [fn |-> "twox_128", of |-> r.m] = [fn |-> "twox_128", of |-> q.m]
          /\ [fn |-> "twox_128", of |-> r.s] = [fn |-> "twox_128", of |-> q.s]
      BY <1>1, <1>2
    <2> QED BY <2>1
  <1>4. Layout(r) = Layout(q) BY <1>3
  <1>5. CASE r.kind = "value"
    <2>1. q.kind = "value" BY <1>4, <1>5 DEF Layout
    <2> QED BY <1>3, <1>5, <2>1 DEF Requests
  <1>6. CASE r.kind = "map"
    <2>1. q.kind = "map" /\ r.h1 = q.h1 BY <1>4, <1>6 DEF Layout
    <2>2. r.k1 \in Encoded /\ q.k1 \in Encoded /\ r.h1 \in Hashers
      BY <1>6, <2>1 DEF Requests
    <2>3. key_hash(r.k1, r.h1) = key_hash(q.k1, r.h1) BY <1>2, <1>6, <2>1 DEF Suffix
    <2>4. r.k1 = q.k1 BY <2>2, <2>3, KeyHashInjective
    <2> QED BY <1>3, <1>6, <2>1, <2>4 DEF Requests
  <1>7. CASE r.kind \notin {"value", "map"}
    <2>1. r.kind = "double" BY <1>7 DEF Requests
    <2>2. q.kind = "double" /\ r.h1 = q.h1 /\ r.h2 = q.h2
      <3>1. Layout(r) = <<"double", r.h1, r.h2>> BY <2>1 DEF Layout
      <3>2. q.kind \in {"value", "map", "double"} BY DEF Requests
      <3>3. q.kind = "double" BY <1>4, <3>1, <3>2 DEF Layout
      <3> QED BY <1>4, <3>1, <3>3 DEF Layout
    <2>3. /\ r.k1 \in Encoded /\ q.k1 \in Encoded /\ r.h1 \in Hashers
          /\ r.k2 \in Encoded /\ q.k2 \in Encoded /\ r.h2 \in Hashers
      BY <2>1, <2>2 DEF Requests
    <2>4. /\ key_hash(r.k1, r.h1) \in Seq(Pieces) /\ key_hash(q.k1, r.h1) \in Seq(Pieces)
          /\ key_hash(r.k2, r.h2) \in Seq(Pieces) /\ key_hash(q.k2, r.h2) \in Seq(Pieces)
          /\ Len(key_hash(r.k1, r.h1)) = Len(key_hash(q.k1, r.h1))
      BY <2>3, KeyHashShape
    <2>5. key_hash(r.k1, r.h1) \o key_hash(r.k2, r.h2)
            = key_hash(q.k1, r.h1) \o key_hash(q.k2, r.h2)
      BY <1>2, <2>1, <2>2 DEF Suffix
    <2>6. key_hash(r.k1, r.h1) = key_hash(q.k1, r.h1)
          /\ key_hash(r.k2, r.h2) = key_hash(q.k2, r.h2)
      <3> DEFINE a1 == key_hash(r.k1, r.h1)  a2 == key_hash(r.k2, r.h2)
                 b1 == key_hash(q.k1, r.h1)  b2 == key_hash(q.k2, r.h2)
      <3>1. a1 \in Seq(Pieces) /\ a2 \in Seq(Pieces) /\ b1 \in Seq(Pieces)
            /\ b2 \in Seq(Pieces) /\ Len(a1) = Len(b1) /\ a1 \o a2 = b1 \o b2
        BY <2>4, <2>5
      <3> HIDE DEF a1, a2, b1, b2
      <3>2. a1 = b1 /\ a2 = b2 BY <3>1, ConcatSplit
      <3> QED BY <3>2 DEF a1, a2, b1, b2
    <2>7. r.k1 = q.k1 /\ r.k2 = q.k2 BY <2>3, <2>6, KeyHashInjective
    <2> QED BY <1>3, <2>1, <2>2, <2>7 DEF Requests
  <1> QED BY <1>5, <1>6, <1>7

\* The host's Blake2_128Concat is the enclave's.
LEMMA HostBlakeConcat ==
    ASSUME NEW k
    PROVE  HostKeyHash(k, "Blake2_128Concat") = key_hash(k, "Blake2_128Concat")
  BY DEF HostKeyHash, HostDigestFn, key_hash

\* Every request the enclave makes for its own keys derives the host's address.
LEMMA StfKeysMatch ==
    ASSUME NEW r \in Requests, StfRequest(r)
    PROVE  derive(r) = HostAddress(r)
  <1>1. /\ Prefix(r) \in Seq(Pieces) /\ Suffix(r) \in Seq(Pieces)
        /\ derive(r) = Prefix(r) \o Suffix(r)
    BY DeriveShape
  <1>2. CASE r.kind = "value"
    <2>1. HostAddress(r) = (Prefix(r) \o << >>) \o << >> BY <1>2 DEF HostAddress, Prefix
    <2>2. Prefix(r) \o << >> = Prefix(r) BY <1>1, ConcatEmptySeq
    <2> QED BY <1>1, <1>2, <2>1, <2>2 DEF Suffix
  <1>3. CASE r.kind = "map"
    <2>1. r.h1 = "Blake2_128Concat" BY <1>3 DEF StfRequest
    <2>2. HostAddress(r) = (Prefix(r) \o key_hash(r.k1, r.h1)) \o << >>
      BY <1>3, <2>1, HostBlakeConcat DEF HostAddress, Prefix
    <2>3. Prefix(r) \o key_hash(r.k1, r.h1) = derive(r)
      BY <1>3 DEF derive, storage_map_key, Prefix
    <2>4. derive(r) \in Seq(Pieces) BY <1>1, ConcatProperties
    <2> QED BY <2>2, <2>3, <2>4, ConcatEmptySeq
  <1>4. CASE r.kind \notin {"value", "map"}
    <2>1. r.kind = "double" BY <1>4 DEF Requests
    <2>2. r.h1 = "Blake2_128Concat" /\ r.h2 = "Blake2_128Concat" BY <2>1 DEF StfRequest
    <2> QED BY <2>1, <2>2, HostBlakeConcat
            DEF HostAddress, Prefix, derive, storage_double_map_key
  <1> QED BY <1>2, <1>3, <1>4

\* The request never changes; Init picks any request.
LEMMA ReqType == Spec => [](req \in Requests)
  <1>1. Init => req \in Requests BY DEF Init
  <1>2. req \in Requests /\ [Next]_req => (req \in Requests)' BY DEF Next
  <1> QED BY <1>1, <1>2, PTL DEF Spec

(***************************************************************************)
(* Spec 8, for every set of prefixes, byte set and key length: storage     *)
(* key derivation (storage_value_key, storage_map_key,                     *)
(* storage_double_map_key) is injective on the requests of one storage     *)
(* item's layout (property AddressesInjective).                            *)
(***************************************************************************)
THEOREM AddressesInjectiveHolds == Spec => []AddressesInjective
  <1>1. req \in Requests => AddressesInjective BY DeriveInjective DEF AddressesInjective
  <1> QED BY <1>1, ReqType, PTL

(***************************************************************************)
(* For every instance, the addresses the enclave derives for its own keys  *)
(* are the host ledger's addresses for them (property StfKeysMatchHost),   *)
(* so that update_storage writes where execute and get_state read.         *)
(***************************************************************************)
THEOREM StfKeysMatchHostHolds == Spec => []StfKeysMatchHost
  <1>1. req \in Requests => StfKeysMatchHost BY StfKeysMatch DEF StfKeysMatchHost
  <1> QED BY <1>1, ReqType, PTL

=============================================================================
