----------------------------- MODULE MemoryStore -----------------------------
(***************************************************************************)
(* The relay's in-memory event store.  Every operation runs under the      *)
(* write lock, so it is one atomic step; RepositoryStore is the same store *)
(* kept in the database, one query at a time.                              *)
(*                                                                         *)
(* An event is abstracted to its author, its date, the replaceable key it  *)
(* competes for (NoKey if it is not replaceable) and, for a kind 5 event,  *)
(* the ids and the addresses it asks to delete.                            *)
(***************************************************************************)
EXTENDS Integers

CONSTANTS
    Events, Keys,
    Author, CreatedAt, \* Events -> authors, Events -> dates
    Key,               \* Events -> Keys \union {NoKey}: replaceable_key
    DeletesId,         \* Events -> SUBSET Events: its "e" tags, {} unless kind 5
    DeletesKey,        \* Events -> SUBSET Keys: its "a" tags, {} unless kind 5
    NoKey, NoEvent

VARIABLES events, replaceable

storeVars == <<events, replaceable>>

StoreInit ==
    /\ events = {}
    /\ replaceable = [k \in Keys |-> NoEvent]

\* A deletion reaches its author's own events, up to the date it was signed.
may_delete(e, x) == Author[x] = Author[e] /\ CreatedAt[x] <= CreatedAt[e]

\* apply_delete: what the "e" and the "a" tags of a kind 5 event remove.
apply_delete(e) ==
    {x \in events : may_delete(e, x) /\
        (x \in DeletesId[e] \/ \E k \in DeletesKey[e] : replaceable[k] = x)}

\* remove_event also drops the index entry of a replaceable event.
remove(gone, index) ==
    [k \in Keys |-> IF index[k] \in gone THEN NoEvent ELSE index[k]]

superseded(e) ==
    Key[e] # NoKey /\ replaceable[Key[e]] # NoEvent
    /\ CreatedAt[replaceable[Key[e]]] >= CreatedAt[e]

Insert(e) ==
    LET replaced == IF Key[e] = NoKey THEN {} ELSE {replaceable[Key[e]]}
        gone == apply_delete(e) \union replaced
    IN  /\ e \notin events
        /\ ~superseded(e)
        /\ events' = (events \ gone) \union {e}
        /\ replaceable' = [k \in Keys |-> IF k = Key[e] THEN e
                                          ELSE remove(gone, replaceable)[k]]

Delete(e) ==
    /\ events' = events \ {e}
    /\ replaceable' = remove({e}, replaceable)

StoreNext == \E e \in Events : Insert(e) \/ Delete(e)

StoreSpec == StoreInit /\ [][StoreNext]_storeVars
-----------------------------------------------------------------------------
\* The index names exactly the replaceable events of the table: so a key has
\* at most one current event, and whatever removes an event removes its entry.
IndexAgrees ==
    \A k \in Keys, e \in Events : replaceable[k] = e <=> (e \in events /\ Key[e] = k)

\* A current replaceable event only gives way to a newer one of its key, to a
\* deletion by its author, or to a delete of its id; never to an older event.
NewestWins ==
    [][\A k \in Keys : (replaceable[k] # NoEvent /\ replaceable'[k] \notin {NoEvent, replaceable[k]})
          => CreatedAt[replaceable'[k]] > CreatedAt[replaceable[k]]]_storeVars
=============================================================================
