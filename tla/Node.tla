------------------------------- MODULE Node -------------------------------
(***************************************************************************)
(* The engine's supervisor and the application's mailbox, composed. The   *)
(* mailbox's receiver lives in the application actor's task, so that task  *)
(* exiting or being aborted by run() drops the receiver; the mailbox's stop *)
(* signal is the runtime's, the one run() also selects on. Consensus makes *)
(* the genesis/propose/verify calls, marshal reports finalized blocks one  *)
(* at a time; a caller only takes steps while its own task runs.           *)
(*                                                                         *)
(* Marshal (not in this repository) waits for report() to return and then *)
(* records the block as processed, its "save point": the comment at        *)
(* ingress.rs:227-228, "Wait for the item to be processed (used to         *)
(* increment "save point" in marshal)".                                    *)
(***************************************************************************)
EXTENDS Naturals, Sequences, FiniteSets

CONSTANTS MaxExits, Calls, CallKind, MailboxSize,
          FinalizedOrder  \* the Finalized calls, in the order marshal reports them

ASSUME /\ FinalizedOrder \in Seq(Calls)
       /\ \A i \in 1..Len(FinalizedOrder) : CallKind[FinalizedOrder[i]] = "Finalized"

VARIABLES spawned, task, signal, phase, completed, remaining,
          queue, parked, rx, pc, reply, outcome,
          stopped,    \* the mailbox's view of the runtime stop signal
          savePoint   \* how many of FinalizedOrder marshal recorded as processed

svars == <<spawned, task, signal, phase, completed, remaining>>
mvars == <<queue, parked, rx, stopped, pc, reply, outcome>>
vars == <<svars, mvars, savePoint>>

S == INSTANCE Supervisor
M == INSTANCE Mailbox

\* The actor whose task makes call c.
Owner(c) ==
    IF CallKind[c] = "Finalized" THEN "marshal"
    ELSE IF CallKind[c] \in {"Seeded", "Ancestry"} THEN "application"
    ELSE "consensus"

TypeOK ==
    /\ S!TypeOK /\ M!TypeOK
    /\ stopped = (signal # "pending")
    /\ savePoint \in 0..Len(FinalizedOrder)

Init == S!Init /\ M!Init /\ savePoint = 0

-----------------------------------------------------------------------------
\* The application's task ending, by itself or by abort, drops its receiver.
DropReceiverIf(ends) == IF ends THEN M!AppClose ELSE UNCHANGED mvars

EngineStep ==
    \/ (S!Spawn \/ S!StartSelect \/ S!Select \/ S!Finish) /\ UNCHANGED mvars
    \/ /\ S!AbortNext
       /\ DropReceiverIf(Head(remaining) = "application"
                         /\ task["application"] = "running")

ActorExit(a, r) ==
    /\ S!ActorExit(a, r)
    /\ DropReceiverIf(a = "application")
    /\ UNCHANGED savePoint

\* The signal resolving, either way, is what the mailbox's select! sees.
StopSignal(s) ==
    /\ S!StopSignal(s)
    /\ stopped' = TRUE
    /\ UNCHANGED <<queue, parked, rx, pc, reply, outcome, savePoint>>

\* Marshal reports the next finalized block only after recording the last.
NextReport ==
    IF savePoint < Len(FinalizedOrder) THEN FinalizedOrder[savePoint + 1] ELSE "none"

CallStep(c) ==
    /\ task[Owner(c)] = "running"
    /\ CallKind[c] = "Finalized" /\ pc[c] = "idle" => c = NextReport
    /\ M!CallStep(c)
    /\ UNCHANGED <<svars, savePoint>>

AppReceive ==
    /\ task["application"] = "running"
    /\ M!AppReceive
    /\ UNCHANGED <<svars, savePoint>>

\* Marshal, once report() returned, records the block as processed.
Persist ==
    /\ task["marshal"] = "running"
    /\ NextReport # "none"
    /\ pc[NextReport] = "done"
    /\ savePoint' = savePoint + 1
    /\ UNCHANGED <<svars, mvars>>

Next ==
    \/ EngineStep /\ UNCHANGED savePoint
    \/ \E a \in S!Actors, r \in {"ok", "err"} : ActorExit(a, r)
    \/ \E s \in {"raised", "dropped"} : StopSignal(s)
    \/ \E c \in Calls : CallStep(c)
    \/ AppReceive
    \/ Persist

Spec ==
    /\ Init /\ [][Next]_vars
    /\ WF_vars(EngineStep /\ UNCHANGED savePoint)
    /\ WF_vars(AppReceive)
    /\ WF_vars(Persist)
    /\ \A c \in Calls : WF_vars(CallStep(c) /\ pc[c] # "idle")

-----------------------------------------------------------------------------
(***************************************************************************)
(* Marshal's save point never runs ahead of the application: every block   *)
(* marshal has recorded as processed was committed by the application's    *)
(* Finalized handler, as the comment at ingress.rs:227-228 says report()'s *)
(* wait is there to ensure.                                                *)
(***************************************************************************)
SavePointNotAhead ==
    \A i \in 1..savePoint : reply[FinalizedOrder[i]] # M!NoReply

=============================================================================
