----------------------------- MODULE MCMailbox -----------------------------
(* Model-checking instance of Mailbox: genesis, verify and report, the    *)
(* three ways a caller waits on the oneshot, and a seeded notification    *)
(* that does not wait, through a one-slot buffer so that later sends park *)
(* behind earlier ones. Propose takes verify's path with another fallback. *)
EXTENDS Mailbox

MCCalls == {"genesis", "verify", "finalized", "seeded"}

MCCallKind ==
    [c \in MCCalls |->
        CASE c = "genesis"   -> "Genesis"
          [] c = "verify"    -> "Verify"
          [] c = "finalized" -> "Finalized"
          [] c = "seeded"    -> "Seeded"]

MCMailboxSize == 1
=============================================================================
