----------------------------- MODULE Supervisor -----------------------------
(***************************************************************************)
(* The engine's lifecycle supervisor (src/node/src/engine.rs, Engine::run). *)
(* run() spawns the eight actors in a fixed order, wraps every handle and  *)
(* the runtime stop signal in a NamedTask, awaits select_all over them,    *)
(* aborts every task that did not complete, and logs what ended the node.  *)
(* Actors run concurrently with the engine task: any of them may exit, Ok  *)
(* or Err, at any point after it was spawned, and the stop signal may fire *)
(* (or its sender be dropped) at any time.                                 *)
(***************************************************************************)
EXTENDS Naturals, Sequences, SequencesExt, FiniteSets

\* Bound on how many actors may exit on their own in one behaviour.
CONSTANT MaxExits
ASSUME MaxExits \in Nat \ {0}

\* The actors in the order run() spawns them and lists them in `tasks`.
ActorOrder == <<"system_metrics", "seeder", "aggregation", "aggregator",
                "buffer", "application", "marshal", "consensus">>

Actors == ToSet(ActorOrder)

\* The vector handed to select_all: the actors, then the stop signal task.
TaskOrder == ActorOrder \o <<"engine">>

VARIABLES
    spawned,    \* how many actors of ActorOrder run() has started so far
    task,       \* task[a]: the state of actor a's spawned task
    signal,     \* the runtime stop signal: pending, raised (Ok(value)) or dropped (Err)
    phase,      \* where run() is: spawning, selecting, aborting, done
    completed,  \* the TaskCompletion select_all returned
    remaining   \* the NamedTasks the abort loop has still to visit

vars == <<spawned, task, signal, phase, completed, remaining>>

TaskStates == {"idle", "running", "ok", "err", "aborted"}
NoCompletion == [kind |-> "none"]
Completions ==
    {NoCompletion}
    \cup [kind : {"actor"}, name : Actors, result : {"ok", "err"}]
    \cup [kind : {"stop"}, value : {"signalled", "zero"}]

TypeOK ==
    /\ spawned \in 0..Len(ActorOrder)
    /\ task \in [Actors -> TaskStates]
    /\ signal \in {"pending", "raised", "dropped"}
    /\ phase \in {"spawning", "selecting", "aborting", "done"}
    /\ completed \in Completions
    /\ remaining \in Seq(ToSet(TaskOrder))

Init ==
    /\ spawned = 0
    /\ task = [a \in Actors |-> "idle"]
    /\ signal = "pending"
    /\ phase = "spawning"
    /\ completed = NoCompletion
    /\ remaining = <<>>

(***************************************************************************)
(* run(): the seven `start` calls and spawn_process_metrics, one per step  *)
(* in ActorOrder; start() spawns and returns a Handle without waiting.     *)
(***************************************************************************)
Spawn ==
    /\ phase = "spawning"
    /\ spawned < Len(ActorOrder)
    /\ task' = [task EXCEPT ![ActorOrder[spawned + 1]] = "running"]
    /\ spawned' = spawned + 1
    /\ UNCHANGED <<signal, phase, completed, remaining>>

\* Building `tasks` (stopped() taken last) and entering select_all.
StartSelect ==
    /\ phase = "spawning"
    /\ spawned = Len(ActorOrder)
    /\ phase' = "selecting"
    /\ UNCHANGED <<spawned, task, signal, completed, remaining>>

(***************************************************************************)
(* An actor's task finishes on its own. spawn_process_metrics loops on     *)
(* sleep/update forever, so its handle can only resolve with an error.     *)
(***************************************************************************)
ActorExit(a, r) ==
    /\ task[a] = "running"
    /\ Cardinality({b \in Actors : task[b] \in {"ok", "err"}}) < MaxExits
    /\ r \in IF a = "system_metrics" THEN {"err"} ELSE {"ok", "err"}
    /\ task' = [task EXCEPT ![a] = r]
    /\ UNCHANGED <<spawned, signal, phase, completed, remaining>>

\* The runtime raises the stop signal, or drops it (poll yields Err).
StopSignal(s) ==
    /\ signal = "pending"
    /\ signal' = s
    /\ UNCHANGED <<spawned, task, phase, completed, remaining>>

\* Mutant: the stop task counts as ready only when the signal was raised.
ReadyIgnoresDropped(t) ==
    IF t = "engine" THEN signal = "raised" ELSE task[t] \in {"ok", "err"}

\* NamedTask::poll: an actor task is ready once its handle resolved, the
\* stop task once the signal resolved either way.
Ready(t) ==
    IF t = "engine" THEN signal # "pending" ELSE task[t] \in {"ok", "err"}

\* NamedTask::poll's output for a ready task.
Completion(t) ==
    IF t = "engine"
    THEN [kind |-> "stop", value |-> IF signal = "raised" THEN "signalled" ELSE "zero"]
    ELSE [kind |-> "actor", name |-> t, result |-> task[t]]

\* Mutant: only the tasks after the completed one are kept for the abort.
SelectRemainingAfter ==
    /\ phase = "selecting"
    /\ \E t \in ToSet(TaskOrder) : Ready(t)
    /\ LET i == SelectInSeq(TaskOrder, Ready)
       IN  /\ completed' = Completion(TaskOrder[i])
           /\ remaining' = SubSeq(TaskOrder, i + 1, Len(TaskOrder))
    /\ phase' = "aborting"
    /\ UNCHANGED <<spawned, task, signal>>

(***************************************************************************)
(* select_all polls the futures in vector order and returns the first one  *)
(* ready, with the vector of all the others.                               *)
(***************************************************************************)
Select ==
    /\ phase = "selecting"
    /\ \E t \in ToSet(TaskOrder) : Ready(t)
    /\ LET i == SelectInSeq(TaskOrder, Ready)
       IN  /\ completed' = Completion(TaskOrder[i])
           /\ remaining' = RemoveAt(TaskOrder, i)
    /\ phase' = "aborting"
    /\ UNCHANGED <<spawned, task, signal>>

\* One iteration of `for task in &remaining { task.abort() }`: abort only
\* acts on an actor handle, and cancels a task that has not finished.
AbortNext ==
    /\ phase = "aborting"
    /\ remaining # <<>>
    /\ LET t == Head(remaining)
       IN  task' = IF t \in Actors /\ task[t] = "running"
                   THEN [task EXCEPT ![t] = "aborted"]
                   ELSE task
    /\ remaining' = Tail(remaining)
    /\ UNCHANGED <<spawned, signal, phase, completed>>

\* The final match on `completed` only logs; run() then returns.
Finish ==
    /\ phase = "aborting"
    /\ remaining = <<>>
    /\ phase' = "done"
    /\ UNCHANGED <<spawned, task, signal, completed, remaining>>

\* Steps of the engine task itself.
EngineStep == Spawn \/ StartSelect \/ Select \/ AbortNext \/ Finish

Next ==
    \/ EngineStep
    \/ \E a \in Actors, r \in {"ok", "err"} : ActorExit(a, r)
    \/ \E s \in {"raised", "dropped"} : StopSignal(s)

\* The runtime polls the engine task whenever it is woken, so its steps are
\* weakly fair; actors and the stop signal need not do anything.
Spec == Init /\ [][Next]_vars /\ WF_vars(EngineStep)

-----------------------------------------------------------------------------
Running == {a \in Actors : task[a] = "running"}

(***************************************************************************)
(* Partial liveness is forbidden (engine.rs: "If we allowed the engine     *)
(* task to continue, we'd leave the system in a partially alive state"):   *)
(* once run() has returned, no actor is still running.                     *)
(***************************************************************************)
NoPartialLiveness == phase = "done" => Running = {}

(***************************************************************************)
(* Whatever ends the node, an actor's exit or the stop signal, run()       *)
(* eventually returns with every actor stopped (spec 4.1, "a single        *)
(* actor's exit brings the engine down").                                  *)
(***************************************************************************)
ShutdownCompletes ==
    (\/ \E a \in Actors : task[a] \in {"ok", "err"}
     \/ signal # "pending")
    ~> (phase = "done" /\ Running = {})

=============================================================================
