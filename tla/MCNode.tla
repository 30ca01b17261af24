------------------------------- MODULE MCNode -------------------------------
\* Model-checking instance of Node: consensus asks for genesis while marshal
\* reports a finalized block, one call per calling actor (Mailbox checks the
\* other call kinds). With a zero buffer every send parks until the
\* application receives it. One actor may exit on its own.
EXTENDS Node

MCCalls == {"genesis", "fin1"}

MCCallKind ==
    [c \in MCCalls |->
        CASE c = "genesis" -> "Genesis"
          [] c = "verify"  -> "Verify"
          [] OTHER         -> "Finalized"]

MCFinalizedOrder == <<"fin1">>
MCMailboxSize == 0
MCMaxExits == 1
=============================================================================
