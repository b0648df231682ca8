-------------------------------- MODULE Sorting --------------------------------
(***************************************************************************)
(* std::sort of a sequence whose elements have numbers for keys: an        *)
(* element goes to the place that is the number of those not behind it.    *)
(***************************************************************************)
EXTENDS Naturals, Sequences, FiniteSets

Place(keys, i) ==
    Cardinality({j \in DOMAIN keys :
        \/ keys[j] < keys[i]
        \/ keys[j] = keys[i] /\ j <= i})

SortBy(seq, keys) ==
    [k \in DOMAIN seq |-> seq[CHOOSE i \in DOMAIN seq : Place(keys, i) = k]]
==============================================================================
