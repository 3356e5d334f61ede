------------------------------ MODULE MCRecords ------------------------------
(***************************************************************************)
(* What the backend keeps, in small instances: the history of a            *)
(* conversation, edits and checkpoints, memories, and the event bus and    *)
(* the plan under every operation on them.  They share no state; `part'    *)
(* says which of them moves, and the others stay in one initial state.     *)
(***************************************************************************)
EXTENDS Conversation, WorkspaceEdits, Memory, EventBus, PlanExec

VARIABLE part

\* Two spellings of a text, and another text.
SomeContents == {<<"a", 1>>, <<"a", 2>>, <<"b", 1>>}

-----------------------------------------------------------------------------
RecordsVars == <<part, convVars, editVars, memVars, busVars, planVars>>

RecordsInit ==
    /\ part \in {"history", "edits", "memory", "bus", "plan"}
    /\ ConvInit /\ EditInit /\ MemInit /\ BusInit /\ PlanInit
    /\ part # "history" => blob = [s \in Convs |-> <<>>]
    /\ part # "plan" => kind = [t \in Todos |-> "edit"] /\ deps = [t \in Todos |-> {}]

RecordsNext ==
    /\ \/ /\ part = "history" /\ ConvNext
          /\ UNCHANGED <<editVars, memVars, busVars, planVars>>
       \/ /\ part = "edits" /\ EditNext
          /\ UNCHANGED <<convVars, memVars, busVars, planVars>>
       \/ /\ part = "memory" /\ MemNext
          /\ UNCHANGED <<convVars, editVars, busVars, planVars>>
       \/ /\ part = "bus" /\ BusNext
          /\ UNCHANGED <<convVars, editVars, memVars, planVars>>
       \/ /\ part = "plan" /\ PlanNext
          /\ UNCHANGED <<convVars, editVars, memVars, busVars>>
    /\ UNCHANGED part

(* What tells two states apart: the part that moves.                          *)
Moving ==
    CASE part = "history" -> <<part, convVars>>
      [] part = "edits" -> <<part, editVars>>
      [] part = "memory" -> <<part, memVars>>
      [] part = "bus" -> <<part, busVars>>
      [] part = "plan" -> <<part, planVars>>

RecordsSpec == RecordsInit /\ [][RecordsNext]_RecordsVars
=============================================================================
