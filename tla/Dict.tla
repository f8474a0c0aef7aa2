--------------------------------- MODULE Dict ---------------------------------
(***************************************************************************)
(* dict_t of web/dict.c: chained hash buckets, a key being put in front of *)
(* its bucket and looked up from there with ssstr_cmp. Keys are compared   *)
(* whole, so they are values here, not characters.                         *)
(***************************************************************************)
EXTENDS Integers, Sequences, SequencesExt

CONSTANTS
    Hash,       \* the bucket of each key
    Null        \* what dict_get returns for a key that is not there

Keys == DOMAIN Hash
Buckets == {Hash[k] : k \in Keys}

DictInit == [b \in Buckets |-> <<>>]

(* Mutant of Put: the new node does not point to the old ones.             *)
PutAlone(d, k, v) == [d EXCEPT ![Hash[k]] = <<[k |-> k, v |-> v]>>]

Put(d, k, v) == [d EXCEPT ![Hash[k]] = <<[k |-> k, v |-> v]>> \o @]

Found(d, k) == {i \in DOMAIN d[Hash[k]] : d[Hash[k]][i].k = k}

Get(d, k) ==
    IF Found(d, k) = {} THEN Null ELSE d[Hash[k]][Min(Found(d, k))].v

(* Every entry of a static list is put, as the *_dict_init functions do.   *)
PutAll(list) ==
    LET puts[i \in 0..Len(list)] ==
            IF i = 0 THEN DictInit ELSE Put(puts[i - 1], list[i].k, list[i].v)
    IN puts[Len(list)]

=============================================================================
