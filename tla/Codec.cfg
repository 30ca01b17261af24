\* Every economy struct, every release its reader accepts, every tail cut.
\* A value cut inside a required field fails to load and nothing follows,
\* so such states have no successor.
SPECIFICATION Spec
INVARIANT LegacyDecode
CHECK_DEADLOCK FALSE
