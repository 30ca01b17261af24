---------------------------- MODULE VaultRegistry ----------------------------
(***************************************************************************)
(* The registry of vault owners (src/types/src/casino/economy.rs,          *)
(* VaultRegistry). write() stores the Vec<PublicKey> as it is in memory:   *)
(* its length, then the keys in order. read_cfg reads the Vec, refusing a  *)
(* length outside 0..=100_000 (read_range), then sort_unstable()s it and   *)
(* dedup()s it: Vec::dedup removes only consecutive repeats.               *)
(*                                                                         *)
(* The code that adds vaults is not in this repository, so any Vec of keys *)
(* may be stored: a writer stores the registry it has in memory.           *)
(* Keys are numbers, their order standing for PublicKey's byte order.      *)
(***************************************************************************)
EXTENDS Naturals, Sequences, SequencesExt

CONSTANTS
    Keys,       \* the owners' public keys
    MaxVaults,  \* read_range's upper bound (100_000 in the code)
    MaxLen      \* the longest registry a writer stores in the model

ASSUME /\ Keys \subseteq Nat
       /\ MaxVaults \in Nat /\ MaxLen \in Nat

\* Registries a writer may hold in memory and store.
Registries == UNION {[1..n -> Keys] : n \in 0..MaxLen}

VARIABLES
    stored,  \* the Vec last written under the registry's key
    loaded   \* the outcome of the last read: not yet, an error, or the Vec

vars == <<stored, loaded>>

NotLoaded == [ok |-> FALSE, err |-> "none"]

\* Vec::dedup: drop every element equal to the one kept before it.
RECURSIVE Dedup(_)
Dedup(s) ==
    IF Len(s) <= 1 THEN s
    ELSE IF s[1] = s[2] THEN Dedup(Tail(s))
    ELSE <<s[1]>> \o Dedup(Tail(s))

\* Mutant: the duplicates are removed before sorting.
ReadCfgDedupFirst(v) ==
    IF Len(v) > MaxVaults
    THEN [ok |-> FALSE, err |-> "InvalidLength"]
    ELSE [ok |-> TRUE, vaults |-> SortSeq(Dedup(v), <)]

\* read_cfg: read_range's length check, then sort_unstable and dedup.
ReadCfg(v) ==
    IF Len(v) > MaxVaults
    THEN [ok |-> FALSE, err |-> "InvalidLength"]
    ELSE [ok |-> TRUE, vaults |-> Dedup(SortSeq(v, <))]

TypeOK ==
    /\ stored \in Registries
    /\ loaded \in {NotLoaded}
                  \cup [ok : {FALSE}, err : {"InvalidLength"}]
                  \cup [ok : {TRUE}, vaults : Seq(Keys)]

Init ==
    /\ stored = <<>>
    /\ loaded = NotLoaded

\* A node stores the registry it holds in memory (write()).
Write(v) ==
    /\ stored' = v
    /\ UNCHANGED loaded

\* A node loads the registry (read_cfg).
Load ==
    /\ loaded' = ReadCfg(stored)
    /\ UNCHANGED stored

\* A node that loaded the registry stores it back unchanged.
WriteLoaded ==
    /\ loaded.ok
    /\ stored' = loaded.vaults
    /\ UNCHANGED loaded

Next ==
    \/ \E v \in Registries : Write(v)
    \/ Load
    \/ WriteLoaded

Spec == Init /\ [][Next]_vars

-----------------------------------------------------------------------------
(***************************************************************************)
(* Every node that loads the same stored registry gets the same canonical  *)
(* one (spec 3.3.5 and the determinism invariant 3.3.1): exactly the keys  *)
(* stored, each once, in ascending order, however the writer ordered or    *)
(* repeated them; and a registry loaded, stored back and loaded again is   *)
(* unchanged.                                                              *)
(***************************************************************************)
LoadCanonical ==
    /\ LET r == ReadCfg(stored) IN
       r.ok => /\ \A i \in 1..Len(r.vaults) - 1 : r.vaults[i] < r.vaults[i + 1]
               /\ ToSet(r.vaults) = ToSet(stored)
    /\ loaded.ok => ReadCfg(loaded.vaults) = loaded

=============================================================================
