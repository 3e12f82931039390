------------------------------ MODULE SortedSet ------------------------------
(***************************************************************************)
(* What the search tree of cli/js/rbtree.ts promises its user, the timers: *)
(* a set of due times, where insert and remove say whether they changed    *)
(* it.  RBTree implements this module.                                     *)
(***************************************************************************)
CONSTANTS Keys, Nil

VARIABLES
  set,      \* the keys that were inserted and not removed
  op, key,  \* the operation that runs and its argument, or "idle" and Nil
  ret       \* what the last operation returned

setVars == <<set, op, key, ret>>

Init == set = {} /\ op = "idle" /\ key = Nil /\ ret = FALSE

Call == /\ op = "idle"
        /\ op' \in {"insert", "remove"} /\ key' \in Keys
        /\ UNCHANGED <<set, ret>>

Insert == /\ op = "insert"
          /\ set' = set \cup {key} /\ ret' = (key \notin set)
          /\ op' = "idle" /\ key' = Nil

Remove == /\ op = "remove"
          /\ set' = set \ {key} /\ ret' = (key \in set)
          /\ op' = "idle" /\ key' = Nil

Next == Call \/ Insert \/ Remove

Spec == Init /\ [][Next]_setVars
=============================================================================
