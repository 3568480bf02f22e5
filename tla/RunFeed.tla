------------------------------ MODULE RunFeed ------------------------------
(***************************************************************************)
(* What GET /agent/{run_id}/stream promises, with no queue, no replay      *)
(* buffer and no subscriber list: every run keeps one growing log, and a   *)
(* client that watches a run hears that log from its first event, one      *)
(* event at a time and in order, until it leaves.  EventStream implements  *)
(* this specification.                                                     *)
(***************************************************************************)
EXTENDS Naturals, Sequences

CONSTANTS Runs,     \* run identifiers
          Clients,  \* stream clients
          NoRun     \* "watches nothing"

VARIABLES log,       \* log[r]: the events of run r, oldest first
          watching,  \* watching[c]: the run c listens to, or NoRun
          feed       \* feed[c]: what c heard since it last began to listen

vars == <<log, watching, feed>>

Event == [run : Runs, n : Nat \ {0}, last : BOOLEAN]

Ended(r) == log[r] # <<>> /\ log[r][Len(log[r])].last

----------------------------------------------------------------------------
Init == /\ log = [r \in Runs |-> <<>>]
        /\ watching = [c \in Clients |-> NoRun]
        /\ feed = [c \in Clients |-> <<>>]

\* A run that has not ended says one more thing.
Emit(r) ==
    /\ ~Ended(r)
    /\ \E last \in BOOLEAN :
         log' = [log EXCEPT ![r] =
                   Append(@, [run |-> r, n |-> Len(@) + 1, last |-> last])]
    /\ UNCHANGED <<watching, feed>>

Watch(c, r) ==
    /\ watching[c] = NoRun
    /\ watching' = [watching EXCEPT ![c] = r]
    /\ feed' = [feed EXCEPT ![c] = <<>>]
    /\ UNCHANGED log

\* The only way to hear anything: the next event of the log of one's own run.
Hear(c) ==
    /\ watching[c] # NoRun
    /\ Len(feed[c]) < Len(log[watching[c]])
    /\ feed' = [feed EXCEPT ![c] = Append(@, log[watching[c]][Len(@) + 1])]
    /\ UNCHANGED <<log, watching>>

Leave(c) ==
    /\ watching[c] # NoRun
    /\ watching' = [watching EXCEPT ![c] = NoRun]
    /\ UNCHANGED <<log, feed>>

Next == \/ \E r \in Runs : Emit(r)
        \/ \E c \in Clients : (\E r \in Runs : Watch(c, r)) \/ Hear(c) \/ Leave(c)

Spec == Init /\ [][Next]_vars
=============================================================================
