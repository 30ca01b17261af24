------------------------------ MODULE Mailbox ------------------------------
(***************************************************************************)
(* The application's mailbox (src/node/src/application/ingress.rs): the    *)
(* Automaton, Relay and Reporter calls consensus and marshal make, and the *)
(* seeded/ancestry calls of the application's own tasks. Every call clones *)
(* the bounded mpsc sender and races `sender.send(msg)` against the stop   *)
(* signal; calls with a reply carry a oneshot sender in the message.       *)
(*                                                                         *)
(* The channel follows futures::channel::mpsc: a freshly cloned Sender is  *)
(* always ready, so send() enqueues the message at once while the receiver *)
(* is open; when the queue then holds more than MailboxSize messages the   *)
(* sender is parked and send() waits in flush until the receiver unparks   *)
(* it (one parked sender per received message) or disconnects (flush then *)
(* returns Ok). Dropping the receiver drops the queued messages, and with  *)
(* them their oneshot senders. select! polls its branches in the order    *)
(* written, so the send (or, in report's second select!, the oneshot) wins *)
(* whenever it is ready: the first poll always queues the message, and the *)
(* stop branch can win only while the sender is parked.                    *)
(***************************************************************************)
EXTENDS Naturals, Sequences

CONSTANTS
    Calls,        \* the calls made during a behaviour
    CallKind,     \* CallKind[c]: the Message variant call c sends
    MailboxSize   \* the channel's buffer (cfg.consensus.mailbox_size)

Kinds == {"Genesis", "Propose", "Verify", "Broadcast", "Ancestry",
          "Finalized", "Seeded"}

ASSUME /\ CallKind \in [Calls -> Kinds]
       /\ MailboxSize \in Nat

VARIABLES
    queue,    \* the messages in the channel, one per call, oldest first
    parked,   \* the parked sender tasks, in the order they parked
    rx,       \* the application's receiver: open or closed (dropped)
    stopped,  \* the stop signal has fired
    pc,       \* pc[c]: where call c is
    reply,    \* reply[c]: what the application sent on c's oneshot
    outcome   \* outcome[c]: what the caller of c got back

mvars == <<queue, parked, rx, stopped, pc, reply, outcome>>

NoReply == "none"
NoOutcome == [from |-> "none"]

\* What the application answers to each kind of request.
AppReplies(k) ==
    CASE k = "Genesis"   -> {"genesis"}
      [] k = "Propose"   -> {"built"}
      [] k = "Verify"    -> {"true", "false"}
      [] k = "Ancestry"  -> {"digest"}
      [] k \in {"Finalized", "Seeded"} -> {"ack"}
      [] k = "Broadcast" -> {NoReply}

\* The degraded answer a call returns when it cannot reach the application.
Fallback(k) ==
    CASE k = "Genesis" -> "genesis_digest"
      [] k = "Propose" -> "parent"
      [] k = "Verify"  -> "false"
      [] OTHER         -> "dropped"

\* Calls whose caller waits on the oneshot after the send: genesis awaits it,
\* report awaits it against the stop signal, and propose/verify return the
\* receiver, which consensus awaits.
Awaits(k) == k \in {"Genesis", "Propose", "Verify", "Finalized"}

Outcomes ==
    [from : {"app", "fallback", "canceled", "stopped", "sent"},
     val : UNION {AppReplies(k) \cup {Fallback(k)} : k \in Kinds}]

TypeOK ==
    /\ queue \in Seq(Calls)
    /\ parked \in Seq(Calls)
    /\ rx \in {"open", "closed"}
    /\ stopped \in BOOLEAN
    /\ pc \in [Calls -> {"idle", "parked", "awaiting", "done"}]
    /\ reply \in [Calls -> {NoReply} \cup UNION {AppReplies(k) : k \in Kinds}]
    /\ outcome \in [Calls -> {NoOutcome} \cup Outcomes]

Init ==
    /\ queue = <<>>
    /\ parked = <<>>
    /\ rx = "open"
    /\ stopped = FALSE
    /\ pc = [c \in Calls |-> "idle"]
    /\ reply = [c \in Calls |-> NoReply]
    /\ outcome = [c \in Calls |-> NoOutcome]

-----------------------------------------------------------------------------
\* Once the send completed: wait on the oneshot, or return.
AfterSend(c) ==
    IF Awaits(CallKind[c])
    THEN /\ pc' = [pc EXCEPT ![c] = "awaiting"]
         /\ UNCHANGED outcome
    ELSE /\ pc' = [pc EXCEPT ![c] = "done"]
         /\ outcome' = [outcome EXCEPT ![c] = [from |-> "sent", val |-> "dropped"]]

\* A select! that ends on an error or on the stop signal: return the fallback.
GiveUp(c) ==
    /\ pc' = [pc EXCEPT ![c] = "done"]
    /\ outcome' = [outcome EXCEPT ![c] =
                      [from |-> "fallback", val |-> Fallback(CallKind[c])]]

(***************************************************************************)
(* A call's select!, send branch: a closed receiver fails the send         *)
(* (result.is_err()); otherwise the message is queued, and the sender      *)
(* parks if the queue is now over the buffer.                              *)
(***************************************************************************)
SendBranch(c) ==
    /\ pc[c] = "idle"
    /\ IF rx = "closed"
       THEN /\ GiveUp(c)
            /\ UNCHANGED <<queue, parked>>
       ELSE /\ queue' = Append(queue, c)
            /\ IF Len(queue') > MailboxSize
               THEN /\ parked' = Append(parked, c)
                    /\ pc' = [pc EXCEPT ![c] = "parked"]
                    /\ UNCHANGED outcome
               ELSE /\ UNCHANGED parked
                    /\ AfterSend(c)
    /\ UNCHANGED <<rx, stopped, reply>>

\* A call's select!, stop branch, while the send is still parked (its flush
\* pending). The message already queued stays queued.
StopBranch(c) ==
    /\ pc[c] = "parked"
    /\ rx = "open"
    /\ \E i \in 1..Len(parked) : parked[i] = c
    /\ stopped
    /\ GiveUp(c)
    /\ UNCHANGED <<queue, parked, rx, stopped, reply>>

\* The parked send's flush completes: the receiver unparked it, or went away.
Flush(c) ==
    /\ pc[c] = "parked"
    /\ \A i \in 1..Len(parked) : parked[i] # c \/ rx = "closed"
    /\ AfterSend(c)
    /\ UNCHANGED <<queue, parked, rx, stopped, reply>>

(***************************************************************************)
(* The caller's wait on the oneshot. genesis maps a dropped response to    *)
(* genesis_digest(); report races the wait against the stop signal and     *)
(* ignores the result; propose/verify hand the receiver to consensus.      *)
(***************************************************************************)
AwaitReply(c) ==
    /\ pc[c] = "awaiting"
    /\ \/ /\ reply[c] # NoReply
          /\ outcome' = [outcome EXCEPT ![c] = [from |-> "app", val |-> reply[c]]]
       \/ /\ reply[c] = NoReply
          /\ rx = "closed"
          /\ outcome' = [outcome EXCEPT ![c] =
                IF CallKind[c] = "Genesis"
                THEN [from |-> "fallback", val |-> Fallback("Genesis")]
                ELSE [from |-> "canceled", val |-> "dropped"]]
       \/ /\ CallKind[c] = "Finalized"
          /\ reply[c] = NoReply
          /\ rx = "open"
          /\ stopped
          /\ outcome' = [outcome EXCEPT ![c] = [from |-> "stopped", val |-> "dropped"]]
    /\ pc' = [pc EXCEPT ![c] = "done"]
    /\ UNCHANGED <<queue, parked, rx, stopped, reply>>

-----------------------------------------------------------------------------
\* Mutant: receiving a message does not unpark a waiting sender.
AppReceiveNoUnpark ==
    /\ rx = "open"
    /\ queue # <<>>
    /\ LET c == Head(queue)
       IN  \E v \in AppReplies(CallKind[c]) : reply' = [reply EXCEPT ![c] = v]
    /\ queue' = Tail(queue)
    /\ UNCHANGED <<parked, rx, stopped, pc, outcome>>

(***************************************************************************)
(* The application actor receives the oldest message (unparking the       *)
(* oldest parked sender) and answers on its oneshot.                       *)
(***************************************************************************)
AppReceive ==
    /\ rx = "open"
    /\ queue # <<>>
    /\ LET c == Head(queue)
       IN  \E v \in AppReplies(CallKind[c]) : reply' = [reply EXCEPT ![c] = v]
    /\ queue' = Tail(queue)
    /\ parked' = IF parked = <<>> THEN parked ELSE Tail(parked)
    /\ UNCHANGED <<rx, stopped, pc, outcome>>

\* The application drops its receiver (it exited or was aborted): the
\* queued messages are dropped and every parked sender is woken.
AppClose ==
    /\ rx = "open"
    /\ rx' = "closed"
    /\ queue' = <<>>
    /\ parked' = <<>>
    /\ UNCHANGED <<stopped, pc, reply, outcome>>

RaiseStop ==
    /\ ~stopped
    /\ stopped' = TRUE
    /\ UNCHANGED <<queue, parked, rx, pc, reply, outcome>>

CallStep(c) == SendBranch(c) \/ StopBranch(c) \/ Flush(c) \/ AwaitReply(c)

Next ==
    \/ \E c \in Calls : CallStep(c)
    \/ AppReceive
    \/ AppClose
    \/ RaiseStop

\* A started call's task is polled whenever woken, and the application
\* actor keeps draining its mailbox while it is alive; calls need not start,
\* the application need not exit and the stop signal need not fire.
Spec ==
    /\ Init /\ [][Next]_mvars
    /\ \A c \in Calls : WF_mvars(Flush(c) \/ AwaitReply(c) \/ StopBranch(c))
    /\ WF_mvars(AppReceive)

-----------------------------------------------------------------------------
Abstract == INSTANCE MailboxAbstract
    WITH status   <- [c \in Calls |-> IF pc[c] \in {"parked", "awaiting"}
                                      THEN "pending" ELSE pc[c]],
         answered <- reply,
         result   <- outcome,
         alive    <- (rx = "open"),
         stopping <- stopped

ImplementsAbstract == Abstract!Spec

=============================================================================
