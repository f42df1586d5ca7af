----------------------------- MODULE Dictionary -----------------------------
(****************************************************************************)
(* What a hash table promises: it finds for a key the value put last for    *)
(* it.  Keys without a hash code are never found.  The removal of a key     *)
(* may take other keys with it: the bindings that are lost come back only   *)
(* if they are put again.                                                   *)
(****************************************************************************)
CONSTANTS Keys, Hashable, Values, NULL

VARIABLES
    map,     \* the value found for each key, or NULL
    answer   \* what the last operation returned

Init == map = [k \in Keys |-> NULL] /\ answer = NULL

Put(k, v) ==
    /\ map' = IF k \in Hashable THEN [map EXCEPT ![k] = v] ELSE map
    /\ answer' = NULL

Get(k) == answer' = map[k] /\ UNCHANGED map

Remove(k) ==
    /\ answer' = (map[k] # NULL)
    /\ \/ map[k] = NULL /\ UNCHANGED map
       \/ /\ map[k] # NULL
          /\ \E lost \in SUBSET (Keys \ {k}) :
                map' = [q \in Keys |-> IF q \in lost \cup {k} THEN NULL ELSE map[q]]

Next ==
    \E k \in Keys : Get(k) \/ Remove(k) \/ \E v \in Values : Put(k, v)

Spec == Init /\ [][Next]_<<map, answer>>

=============================================================================
