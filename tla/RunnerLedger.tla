---------------------------- MODULE RunnerLedger ----------------------------
(***************************************************************************)
(* The budgeted runner implements MissionLedger.  What is charged is read  *)
(* from the saved documents; a grant is open from the save that reserves   *)
(* it until the executor is called or the call that held it is gone.       *)
(***************************************************************************)
EXTENDS RunnerInvariant, FiniteSetsExt

\* The pair of a session and a stage is not Nil.
ASSUME GrantAssumption == Nil \notin Sessions \X Stage

Saved == {s \in Sessions : blob[s] # Nil}

Granted == Max({blob[s].used : s \in Saved} \cup {0})
GrantedSteps == Max({blob[s].reserved : s \in Saved} \cup {0})
Open == IF Reserved THEN <<run.sid, run.stage>> ELSE Nil
Done == {t \in Sessions \X Stage : calls[t[1]][t[2]] > 0}

ML == INSTANCE MissionLedger WITH
        Tasks <- Sessions \X Stage,
        granted <- Granted, grantedSteps <- GrantedSteps, open <- Open, done <- Done

\* A budgeted mission, with its lineage of sessions, its separate durable
\* writes and its crashes, behaves as one ledger: one stage at a time, charged
\* before it starts, never refunded, never granted again once started.
ImplementsLedger == ML!Spec
=============================================================================
