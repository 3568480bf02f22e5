---------------------------- MODULE RunOnStream ----------------------------
(***************************************************************************)
(* The run of RunLoop as the event bus and its subscribers see it.         *)
(* EventStream reduces a run to its phase and to a log of numbered events, *)
(* of which at most the last is terminal; here the run of RunLoop is shown *)
(* to be such a run, so what EventStream establishes for its clients holds *)
(* for the events this orchestrator publishes.                             *)
(***************************************************************************)
EXTENDS RunLoop

CONSTANTS ThisRun,    \* the run_id of RunLoop's run
          NoRun,      \* EventStream's "not connected"
          MaxProgress \* at least the events a run of Plans publishes

ASSUME ThisRunAssumption == NoRun # ThisRun
ASSUME MaxProgressAssumption ==
    MaxProgress \in Nat \ {0} /\ \A p \in Plans : MaxProgress >= 2 * Len(p) + 3

\* The phase of EventStream that a place of execute_run stands for.
PhaseOf(place) ==
    CASE place = "absent" -> "absent"
      [] place = "raised" -> "silent"
      [] place = "returned" -> "completed"
      [] OTHER -> "executing"

\* RunState.events, as numbered and possibly terminal frames of this run.
LogOf(published) ==
    [k \in DOMAIN published |->
        [run |-> ThisRun, n |-> k, last |-> published[k].type = "run_completed"]]

Stream == INSTANCE EventStream
            WITH Runs <- {ThisRun}, Clients <- {},
                 phase <- [r \in {ThisRun} |-> PhaseOf(pc)],
                 log <- [r \in {ThisRun} |-> LogOf(events)],
                 subs <- [r \in {ThisRun} |-> {}],
                 pc <- [c \in {} |-> "idle"], watch <- [c \in {} |-> NoRun],
                 replay <- [c \in {} |-> <<>>], queue <- [c \in {} |-> <<>>],
                 frames <- [c \in {} |-> <<>>], lastId <- [c \in {} |-> 0]

(***************************************************************************)
(* Each step of execute_run publishes at most one event, only while the    *)
(* run executes, the terminal one exactly with the return; a run that      *)
(* raised has published planning_started only (orchestrator.py:240-318).   *)
(***************************************************************************)
StreamSpec == Stream!Spec
=============================================================================
