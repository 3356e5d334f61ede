------------------------------ MODULE TodoBoard ------------------------------
(***************************************************************************)
(* What driving a plan promises, seen from the list of todos alone: a todo *)
(* is worked on once, after everything it depends on is done; edits wait   *)
(* for all exploration and only so many are worked on at a time; what is   *)
(* worked on is done or dropped in the end; and a todo that was not worked *)
(* on is only dropped because something it depends on was.                 *)
(***************************************************************************)
EXTENDS Integers, FiniteSets

CONSTANTS
    Items,      \* the todos
    MaxEdits    \* edits worked on at a time

VARIABLES
    state,      \* "waiting", "working", "done" or "dropped"
    edits,      \* the items that are edits
    after       \* the items an item depends on

boardVars == <<state, edits, after>>

In(x) == {i \in Items : state[i] = x}

BoardInit ==
    /\ state = [i \in Items |-> "waiting"]
    /\ edits \subseteq Items
    /\ after \in [Items -> SUBSET Items]

Start(i) ==
    /\ state[i] = "waiting"
    /\ after[i] \subseteq In("done")
    /\ IF i \in edits
         THEN /\ Cardinality(In("working") \cap edits) < MaxEdits
              /\ Items \ edits \subseteq In("done") \cup In("dropped")
         ELSE In("working") \cap edits = {}
    /\ state' = [state EXCEPT ![i] = "working"]
    /\ UNCHANGED <<edits, after>>

Complete(i) ==
    /\ state[i] = "working"
    /\ state' = [state EXCEPT ![i] = "done"]
    /\ UNCHANGED <<edits, after>>

\* Items fall together: the ones of a batch, or the ones that wait in vain.
Drop(is) ==
    /\ is # {}
    /\ \/ is \subseteq In("working")
       \/ /\ is \subseteq In("waiting")
          /\ \A i \in is : after[i] \cap In("dropped") # {}
    /\ state' = [i \in Items |-> IF i \in is THEN "dropped" ELSE state[i]]
    /\ UNCHANGED <<edits, after>>

BoardNext ==
    \/ \E i \in Items : Start(i) \/ Complete(i)
    \/ \E is \in SUBSET Items : Drop(is)

Settle(i) == Complete(i) \/ \E is \in SUBSET Items : i \in is /\ Drop(is)

\* Work that has begun comes to an end.
BoardSpec == BoardInit /\ [][BoardNext]_boardVars
BoardFairSpec == BoardSpec /\ \A i \in Items : WF_boardVars(state[i] = "working" /\ Settle(i))
=============================================================================
