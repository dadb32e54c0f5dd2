------------------------------ MODULE FileAudit ------------------------------
(***************************************************************************)
(* What `evaluate` (cmd/test/main.go) promises about the files it is given *)
(* before it looks at any policy: every path of the command line receives  *)
(* one verdict, a verdict is never withdrawn, and the run goes on to the   *)
(* policy checks only when no path is left without one.  The goroutines,   *)
(* channels and wait groups that make this true are in TestPipeline, which *)
(* implements this module.                                                 *)
(***************************************************************************)

CONSTANT Occ           \* the occurrences of paths on the command line

VARIABLES verdict,     \* the verdict of each occurrence, "pending" at first
          finished     \* has the run moved on to the policy checks?

Verdicts == {"badYaml", "ignored", "valid", "invalid"}

Init == /\ verdict = [o \in Occ |-> "pending"]
        /\ finished = FALSE

Decide(o) == /\ ~finished
             /\ verdict[o] = "pending"
             /\ \E v \in Verdicts : verdict' = [verdict EXCEPT ![o] = v]
             /\ UNCHANGED finished

Finish == /\ ~finished
          /\ \A o \in Occ : verdict[o] # "pending"
          /\ finished' = TRUE
          /\ UNCHANGED verdict

Next == Finish \/ \E o \in Occ : Decide(o)

vars == <<verdict, finished>>

Safety == Init /\ [][Next]_vars

Spec == Safety /\ WF_vars(Next)
=============================================================================
