---------------------------- MODULE MCLLMService ----------------------------
(***************************************************************************)
(* LLMService with the history that its disagreement with a comment is     *)
(* about: which backends answered a call and have stayed up since.         *)
(* Callers are interchangeable.                                            *)
(***************************************************************************)
EXTENDS LLMService, TLC

VARIABLE witnessed

MCvars == <<vars, witnessed>>

\* The backends that end a call with an answer in this step.
Answering == {backend(c) : c \in {d \in Callers : /\ calls[d].state = "asking"
                                                 /\ calls'[d].result = "answer"}}

MCSpec == /\ Init /\ witnessed = {}
          /\ [][Next /\ witnessed' = (witnessed \cup Answering) \cap up']_MCvars

CallerSymmetry == Permutations(Callers)

(***************************************************************************)
(* NeverSuppressesReachable: what _breaker_reset says of the breaker       *)
(* (llm.py:526-527).  No call is answered offline without trying the       *)
(* network while a backend that answered an earlier call is still up.      *)
(***************************************************************************)
NeverSuppressesReachable ==
  [][\A c \in Callers :
       /\ calls'[c] # calls[c]
       /\ calls'[c].result \in {"skipped", "raised"}
       => witnessed = {}]_MCvars

=============================================================================
