----------------------------- MODULE EngineStore -----------------------------
(***************************************************************************)
(* What the engine cache promises its callers: a table from keys to whole  *)
(* engines. An engine appears under its key at once, may be replaced by    *)
(* another build for the same key, is never taken away, and a caller that  *)
(* opens a key holds one whole engine until it is done with it.            *)
(***************************************************************************)
CONSTANTS Thread, Key, Engine, NoEngine

VARIABLES store, held

storeVars == <<store, held>>

Init == /\ store = [k \in Key |-> NoEngine]
        /\ held = [t \in Thread |-> NoEngine]

Put(k) == /\ \E e \in Engine : e.key = k /\ store' = [store EXCEPT ![k] = e]
          /\ UNCHANGED held

Get(t, k) == /\ held[t] = NoEngine
             /\ store[k] # NoEngine
             /\ held' = [held EXCEPT ![t] = store[k]]
             /\ UNCHANGED store

Drop(T) == /\ held' = [t \in Thread |-> IF t \in T THEN NoEngine ELSE held[t]]
           /\ UNCHANGED store

Next == \/ \E k \in Key : Put(k) \/ \E t \in Thread : Get(t, k)
        \/ \E T \in SUBSET Thread : Drop(T)

Spec == Init /\ [][Next]_storeVars
=============================================================================
