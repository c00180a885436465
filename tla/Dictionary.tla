---------------------------- MODULE Dictionary ----------------------------
(* What a map of the store promises the code that uses it: the tables of  *)
(* visited blocks of the pickler and the minimizer, and the profiler's.   *)
CONSTANTS
    Maps, Keys,
    None   \* no value

VARIABLE contents  \* for every map the value of each key, or None

Empty == [k \in Keys |-> None]

Init == contents = [m \in Maps |-> Empty]

New(m) == contents' = [contents EXCEPT ![m] = Empty]
Put(m, k, v) == contents' = [contents EXCEPT ![m][k] = v]
Remove(m, k) == contents' = [contents EXCEPT ![m][k] = None]
Clear(m) == contents' = [contents EXCEPT ![m] = Empty]

(* A partial function is applied to all entries.                          *)
PartialMap(m, f) ==
    contents' = [contents EXCEPT ![m] = [k \in Keys |-> IF @[k] = None THEN None ELSE f[k]]]

(* What is dropped is as good as empty.                                   *)
Drop(m) == contents' = [contents EXCEPT ![m] = Empty]
=============================================================================
