---------------------------- MODULE BloomFilter ----------------------------
(***************************************************************************)
(* util/bloom.cc, the Bloom filter, on the hash of util/hash.cc, and       *)
(* InternalFilterPolicy (db/dbformat.cc), which makes a filter of user     *)
(* keys from internal keys.  A filter is its bytes; in front of it stands  *)
(* what the string held before.  The bits of the filter's array are        *)
(* numbered through, byte after byte.                                      *)
(***************************************************************************)
EXTENDS Coding

\* Hash: four bytes at a time, then the last one to three.
Hash(data, seed) ==
    LET m == {0, 1, 4, 7, 8, 9, 10, 13, 15, 18, 21, 23, 25, 26, 30, 31}     \* 0xc6a4a793
        words == Len(data) \div 4
        Mixed(h, w, r) ==
            LET product == Times(Plus(h, w, 32), m, 32) IN Xor(product, Shr(product, r))
        go[n \in 0 .. words, h \in Word32] ==
            IF n = words THEN h ELSE go[n + 1, Mixed(h, DecodeFixed32(SubSeq(data, 4 * n + 1, 4 * n + 4)), 16)]
        h0 == go[0, Xor(seed, Times(FromNat(Len(data)), m, 32))]
        last == UNION {Shl(data[4 * words + i], 8 * (i - 1), 32) : i \in 1 .. Len(data) % 4}
    IN  IF Len(data) % 4 = 0 THEN h0 ELSE Mixed(h0, last, 24)

BloomHash(key) == Hash(key, {2, 4, 5, 8, 10, 11, 12, 16, 17, 18, 19, 20, 23, 26, 27, 28, 29, 31})     \* 0xbc9f1d34

\* The constructor: bits_per_key * 0.69, not less than 1 nor more than 30.
NumProbes(bits_per_key) ==
    LET k_ == (bits_per_key * 69) \div 100
    IN  IF k_ < 1 THEN 1 ELSE IF k_ > 30 THEN 30 ELSE k_

\* h % n
Mod(h, n) ==
    LET sum[i \in 0 .. 32] == IF i = 0 THEN 0 ELSE ((IF 32 - i \in h THEN 1 ELSE 0) + 2 * sum[i - 1]) % n
    IN  sum[32]

\* Double hashing: delta is h rotated right by 17, and the j-th probe, from 1, is at
\* h + (j - 1) * delta.
Probes(h, k, bits) ==
    LET delta == Shr(h, 17) \cup Shl(h, 15, 32)
        at[j \in 1 .. k] == IF j = 1 THEN h ELSE Plus(at[j - 1], delta, 32)
    IN  [j \in 1 .. k |-> Mod(at[j], bits)]

\* The length in bytes: 64 bits at least.
FilterBytes(n, bits_per_key) ==
    LET bits == n * bits_per_key
    IN  ((IF bits < 64 THEN 64 ELSE bits) + 7) \div 8

\* Append the filter of the keys, and the number of probes, to dst.
CreateFilter(keys, bits_per_key, dst) ==
    LET k_ == NumProbes(bits_per_key)
        bytes == FilterBytes(Len(keys), bits_per_key)
        positions == UNION {{Probes(BloomHash(keys[i]), k_, 8 * bytes)[j] : j \in 1 .. k_} : i \in 1 .. Len(keys)}
        array == [b \in 1 .. bytes |-> {p % 8 : p \in {q \in positions : q \div 8 = b - 1}}]
    IN  dst \o array \o <<FromNat(k_)>>

\* Mutant: the byte that holds the number of probes is taken for a part of the array.
KeyMayMatchWholeFilter(key, filter) ==
    LET len == Len(filter)
        k == ToNat(filter[len])
    IN  IF len < 2 THEN FALSE
        ELSE IF k > 30 THEN TRUE
        ELSE \A j \in 1 .. k : LET p == Probes(BloomHash(key), k, 8 * len)[j] IN p % 8 \in filter[p \div 8 + 1]

\* The number of probes is the filter's own; more than 30 are reserved and always match.
KeyMayMatch(key, filter) ==
    LET len == Len(filter)
        k == ToNat(filter[len])
    IN  IF len < 2 THEN FALSE
        ELSE IF k > 30 THEN TRUE
        ELSE \A j \in 1 .. k : LET p == Probes(BloomHash(key), k, 8 * (len - 1))[j] IN p % 8 \in filter[p \div 8 + 1]

\* InternalFilterPolicy::CreateFilter, and what it leaves in keys[].
StrippedKeys(keys) == [i \in 1 .. Len(keys) |-> ExtractUserKey(keys[i])]

InternalCreateFilter(keys, bits_per_key, dst) == CreateFilter(StrippedKeys(keys), bits_per_key, dst)

InternalKeyMayMatch(key, filter) == KeyMayMatch(ExtractUserKey(key), filter)
=============================================================================
