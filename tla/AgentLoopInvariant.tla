------------------------ MODULE AgentLoopInvariant -------------------------
(***************************************************************************)
(* The inductive invariant behind the properties of AgentLoop.             *)
(***************************************************************************)
EXTENDS AgentLoop

\* Where the loop is tells how far the task's records have come.
RecordsFollowLoop ==
    /\ loop.pc # "idle" =>
          task # Nil /\ task.status = "investigating" /\ loop.stopped = "none"
    /\ loop.pc = "think" => task.acts = task.seen
    /\ loop.pc \in {"invoke", "reject"} => task.acts = task.seen + 1

\* An interactive run works on the task it has saved.
RunIsSaved == ~ Stage /\ loop.pc # "idle" => disk = task

\* A stage that is still running has seen no failure.
StageIsClean ==
    Stage /\ loop.pc # "idle" => task.good = task.seen /\ task.proven = task.linked

\* The loop's state and the task of this process agree on how the run ended.
EndingsAgree ==
    task # Nil => EndIsSaved /\ FinalPassesGate /\ StageStopsBlocked

\* The inductive invariant of the tool-use loop: the four facts above hold
\* together in every reachable state of run_tool_loop and its callers.
LoopInv == TypeOK /\ RecordsFollowLoop /\ RunIsSaved /\ StageIsClean /\ EndingsAgree
=============================================================================
