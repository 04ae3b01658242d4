----------------------------- MODULE HashChain -----------------------------
(***************************************************************************)
(* The hash-chained log that every module of src/aegis-cl-psi keeps: an    *)
(* entry holds its data, the hash of the entry before it and its own hash, *)
(* and verify_chain walks the entries recomputing both.                    *)
(*                                                                         *)
(* Data is a tuple of integers, one per field in the order the struct      *)
(* declares them; Boolean flags and enum classes are the bytes the code    *)
(* hashes.  SHA-256 is the injective constructor <<prev, covered>>: equal  *)
(* hashes have equal inputs, which is all the code relies on.              *)
(***************************************************************************)
EXTENDS Integers, Sequences, FiniteSets, FiniteSetsExt

Genesis == << >>

\* A hash field whose bits were flipped: equal to no hash of the code.
Flipped == <<"flipped">>

Byte(b) == IF b THEN 1 ELSE 0
AtLeastOne(n) == IF n = 0 THEN 1 ELSE n
AtMost(n, cap) == IF n > cap THEN cap ELSE n

\* The hash of an entry: its predecessor's hash and the fields in `covered',
\* the ones the file's compute_*_hash feeds to the hasher.
Sha256(prev, data, covered) == <<prev, [f \in covered |-> data[f]]>>

LastHash(log) == IF log = << >> THEN Genesis ELSE log[Len(log)].hash

ChainPush(log, data, covered) ==
    Append(log, [data |-> data,
                 prev |-> LastHash(log),
                 hash |-> Sha256(LastHash(log), data, covered)])

PrevStored(log, i) == IF i = 1 THEN Genesis ELSE log[i - 1].hash

\* Mutant: the links are walked, the hashes are not recomputed.
BadLinks(log, covered) ==
    { i \in DOMAIN log : log[i].prev # PrevStored(log, i) }

\* The entries whose link or whose hash does not fit what is stored.
BadEntries(log, covered) ==
    { i \in DOMAIN log :
        \/ log[i].prev # PrevStored(log, i)
        \/ log[i].hash # Sha256(PrevStored(log, i), log[i].data, covered) }

\* verify_chain: 0 stands for (true, None), i for (false, Some(i - 1)).
verify_chain(log, covered) ==
    LET bad == BadEntries(log, covered)
    IN  IF bad = {} THEN 0 ELSE Min(bad)

\* A stored entry with one of its fields, its link or its hash changed.
FieldDamaged(e, f) == [e EXCEPT !.data[f] = @ + 1]
PrevDamaged(e) == [e EXCEPT !.prev = Flipped]
HashDamaged(e) == [e EXCEPT !.hash = Flipped]
=============================================================================
