---------------------------- MODULE MissionLedger ----------------------------
(***************************************************************************)
(* What the budgeted Core bridge promises of a whole mission, without      *)
(* sessions, documents, rows or crashes: stages are granted one at a time  *)
(* out of a fixed budget, a grant is used at most once, a grant that is    *)
(* lost is not paid back, and nothing that was executed is granted again.  *)
(***************************************************************************)
EXTENDS Integers

CONSTANTS MaxDispatches, MaxReserved,
          Tasks,                  \* the stages of all sessions of the mission
          Nil

VARIABLES granted, grantedSteps,  \* what has been charged to the budget
          open,                   \* the stage granted and not yet started
          done                    \* the stages that were started

ledger == <<granted, grantedSteps, open, done>>

Init == granted = 0 /\ grantedSteps = 0 /\ open = Nil /\ done = {}

Grant(t) ==
    /\ open = Nil
    /\ t \notin done
    /\ granted < MaxDispatches
    /\ granted' = granted + 1
    /\ \E n \in 1..32 :                         \* max_steps of the stage
          /\ grantedSteps + n <= MaxReserved
          /\ grantedSteps' = grantedSteps + n
    /\ open' = t
    /\ UNCHANGED done

\* The granted stage is started.
Spend ==
    /\ open # Nil
    /\ done' = done \cup {open}
    /\ open' = Nil
    /\ UNCHANGED <<granted, grantedSteps>>

\* The grant is lost with the process that held it.
Void ==
    /\ open # Nil
    /\ open' = Nil
    /\ UNCHANGED <<granted, grantedSteps, done>>

Next == (\E t \in Tasks : Grant(t)) \/ Spend \/ Void

Spec == Init /\ [][Next]_ledger
=============================================================================
