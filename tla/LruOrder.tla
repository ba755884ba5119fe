------------------------------- MODULE LruOrder -------------------------------
(***************************************************************************)
(* The recency order of an LruCache (crate lru), which the replay cache    *)
(* and the rate limiter keep their keys in: a sequence of the keys, least  *)
(* recently used first.                                                    *)
(***************************************************************************)
EXTENDS Naturals, Sequences

\* LruCache::pop of every key of a set: the others keep their order.
Detach(order, gone) ==
    LET rest[i \in 0..Len(order)] ==
            IF i = 0 THEN <<>>
            ELSE IF order[i] \in gone THEN rest[i - 1]
            ELSE Append(rest[i - 1], order[i])
    IN  rest[Len(order)]

\* LruCache::get_mut: the key becomes the most recently used.
Touch(order, k) == Append(Detach(order, {k}), k)
=============================================================================
