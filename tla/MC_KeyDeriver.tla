---------------------------- MODULE MC_KeyDeriver ----------------------------
(* Two prefixes, one-byte keys over two byte values: every shape of        *)
(* request with every hasher, and keys that differ in one byte.            *)
EXTENDS KeyDeriver

CONSTANTS n1, n2, x0, x1

MCNames == {n1, n2}
\* Bytes are model values: a byte is never equal to a digest.
MCBytes == {x0, x1}
=============================================================================
