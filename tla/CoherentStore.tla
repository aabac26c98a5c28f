---------------------------- MODULE CoherentStore ----------------------------
(***************************************************************************)
(* What the caches of the nodes promise about the shared store, whatever   *)
(* the messages, locks and timers that keep the promise: a node's entry    *)
(* for a key differs from the store only while an invalidation of that key *)
(* is owed to the node, and a wrong entry is never replaced by another     *)
(* one, only forgotten.  TokenAuth implements this module.                 *)
(***************************************************************************)
CONSTANTS Nodes, Keys, Values, Miss

VARIABLES store,   \* store[k]: the value every node should see
          view,    \* view[n][k]: what node n has for k, or Miss
          owed     \* <<n, k>>: n has yet to be told to forget k

storeVars == <<store, view, owed>>

StoreTypeOK ==
  /\ store \in [Keys -> Values]
  /\ view \in [Nodes -> [Keys -> Values \cup {Miss}]]
  /\ owed \in SUBSET (Nodes \X Keys)

StoreInit ==
  /\ store \in [Keys -> Values]
  /\ view = [n \in Nodes |-> [k \in Keys |-> Miss]]
  /\ owed = {}

(* Every node is owed an invalidation as soon as the store changes.        *)
Write(k, v) ==
  /\ store' = [store EXCEPT ![k] = v]
  /\ owed' = owed \cup (Nodes \X {k})
  /\ UNCHANGED view

(* A node without an entry gets the current one; an older one only if it   *)
(* is about to be told so.                                                 *)
Fill(n, k, v) ==
  /\ view[n][k] = Miss
  /\ v = store[k] \/ <<n, k>> \in owed
  /\ view' = [view EXCEPT ![n][k] = v]
  /\ UNCHANGED <<store, owed>>

(* Nodes forget entries.  An invalidation stops being owed to n for k only *)
(* in a step after which n has no entry for k.                             *)
Forget(D) ==
  /\ view' = [n \in Nodes |-> [k \in Keys |->
                IF <<n, k>> \in D THEN Miss ELSE view[n][k]]]
  /\ owed' \subseteq owed
  /\ \A n \in Nodes, k \in Keys :
       <<n, k>> \in owed \ owed' => view'[n][k] = Miss
  /\ UNCHANGED store

StoreNext ==
  \/ \E k \in Keys, v \in Values : Write(k, v)
  \/ \E n \in Nodes, k \in Keys, v \in Values : Fill(n, k, v)
  \/ \E D \in SUBSET (Nodes \X Keys) : Forget(D)

StoreSpec == StoreInit /\ [][StoreNext]_storeVars

(* A node that is owed nothing has the store's value, or nothing.          *)
Coherent ==
  \A n \in Nodes, k \in Keys :
    <<n, k>> \in owed \/ view[n][k] \in {Miss, store[k]}
=============================================================================
