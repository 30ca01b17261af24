--------------------------- MODULE MailboxAbstract ---------------------------
(***************************************************************************)
(* What the application mailbox promises its callers (spec 4.2), with no   *)
(* channel in it: a call is made, the application may serve it while it is *)
(* alive, and the call returns either the application's own answer or,     *)
(* only once the application is gone or the node is stopping, the degraded *)
(* answer of its kind. Calls that do not wait for an answer may return as  *)
(* soon as they are made. Every call that waits returns.                   *)
(***************************************************************************)
EXTENDS Naturals

CONSTANTS Calls, CallKind, NoReply, AppReplies(_), Fallback(_), Awaits(_)

VARIABLES
    status,    \* status[c]: idle, pending or done
    answered,  \* answered[c]: the application's answer to c, or NoReply
    result,    \* result[c]: what c's caller got back
    alive,     \* the application still receives requests
    stopping   \* the node's stop signal has fired

avars == <<status, answered, result, alive, stopping>>

Init ==
    /\ status = [c \in Calls |-> "idle"]
    /\ answered = [c \in Calls |-> NoReply]
    /\ result = [c \in Calls |-> [from |-> "none"]]
    /\ alive = TRUE
    /\ stopping = FALSE

Call(c) ==
    /\ status[c] = "idle"
    /\ status' = [status EXCEPT ![c] = "pending"]
    /\ UNCHANGED <<answered, result, alive, stopping>>

\* The application answers a request it received; its caller may already
\* have given up on it.
Serve(c) ==
    /\ alive
    /\ status[c] # "idle"
    /\ answered[c] = NoReply
    /\ \E v \in AppReplies(CallKind[c]) : answered' = [answered EXCEPT ![c] = v]
    /\ UNCHANGED <<status, result, alive, stopping>>

\* The answers a caller may get back, given what is known when it returns.
Allowed(c) ==
    LET k == CallKind[c] IN
    (IF answered[c] # NoReply THEN {[from |-> "app", val |-> answered[c]]} ELSE {})
    \cup (IF ~alive \/ stopping THEN {[from |-> "fallback", val |-> Fallback(k)]} ELSE {})
    \cup (IF ~alive /\ answered[c] = NoReply
          THEN {[from |-> "canceled", val |-> "dropped"]} ELSE {})
    \cup (IF stopping /\ k = "Finalized" THEN {[from |-> "stopped", val |-> "dropped"]} ELSE {})
    \cup (IF ~Awaits(k) THEN {[from |-> "sent", val |-> "dropped"]} ELSE {})

\* A call returns; one that does not wait may be made and return at once.
Return(c) ==
    /\ status[c] \in {"idle", "pending"}
    /\ \E r \in Allowed(c) : result' = [result EXCEPT ![c] = r]
    /\ status' = [status EXCEPT ![c] = "done"]
    /\ UNCHANGED <<answered, alive, stopping>>

AppGone ==
    /\ alive
    /\ alive' = FALSE
    /\ UNCHANGED <<status, answered, result, stopping>>

Stop ==
    /\ ~stopping
    /\ stopping' = TRUE
    /\ UNCHANGED <<status, answered, result, alive>>

Next ==
    \/ \E c \in Calls : Call(c) \/ Serve(c) \/ Return(c)
    \/ AppGone
    \/ Stop

\* A pending request is served while the application lives, and a pending
\* caller returns once it may.
Spec ==
    /\ Init /\ [][Next]_avars
    /\ \A c \in Calls : WF_avars(Serve(c) /\ status[c] = "pending")
    /\ \A c \in Calls : WF_avars(Return(c) /\ status[c] = "pending")

=============================================================================
