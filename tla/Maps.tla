-------------------------------- MODULE Maps --------------------------------
(***************************************************************************)
(* The associative containers of the server (std::unordered_map, std::map) *)
(* as functions whose domain is the set of keys present.                   *)
(***************************************************************************)
EXTENDS Functions

EmptyMap == [k \in {} |-> {}]

\* m[k] = v: inserts the key or overwrites its value.
MapPut(m, k, v) == [x \in DOMAIN m \cup {k} |-> IF x = k THEN v ELSE m[x]]

\* m.erase(k) for every k in K; keys that are absent are ignored.
MapErase(m, K) == Restrict(m, DOMAIN m \ K)
=============================================================================
