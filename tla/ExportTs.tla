------------------------------- MODULE ExportTs -------------------------------
(***************************************************************************)
(* The TypeScript bindings generator (src/types/src/bin/export_ts.rs, with *)
(* the "ts" feature). main() has casino_state::export_ts write one .ts file *)
(* per type into packages/types/src/generated, then fix_import_extensions  *)
(* rewrites, in every .ts entry of that directory, each line that imports  *)
(* from "./..." and ends with `";` and has no `.js"` yet, by replacing     *)
(* `";` with `.js";`, so that the imports resolve as ES modules. Any I/O   *)
(* error ends the run with exit code 1; a developer runs it again.         *)
(*                                                                         *)
(* The directory may hold, besides what export_ts writes, .ts files of     *)
(* types a later release no longer exports (Stale) and entries that are    *)
(* not .ts (Others), as earlier runs left them. A line is abstracted to    *)
(* what the rewrite looks at: whether it contains `from "./`, whether it   *)
(* ends with `";`, and how many `.js` suffixes its specifier has. ts-rs    *)
(* writes one statement per line. fs::write truncates the file and then    *)
(* writes it, so a failed write leaves the old contents or any byte       *)
(* prefix of the new ones; the line it cuts keeps what the rewrite can     *)
(* still see of it.                                                        *)
(***************************************************************************)
EXTENDS Naturals, Sequences, FiniteSets, TLC

CONSTANTS
    Generated,  \* the .ts files export_ts writes
    Stale,      \* .ts files of earlier releases that export_ts no longer writes
    Others,     \* directory entries whose extension is not "ts"
    Content,    \* Content[f]: the lines export_ts writes to f
    MaxRuns     \* how many times the binary is run in a behaviour

Entries == Generated \cup Stale \cup Others
TsEntries == Generated \cup Stale

\* The kinds of line ts-rs emits.
Import == [rel |-> TRUE,  endq |-> TRUE,  js |-> 0]  \* import type { X } from "./X";
Decl   == [rel |-> FALSE, endq |-> FALSE, js |-> 0]  \* export type X = { a: number, };
Lit    == [rel |-> FALSE, endq |-> TRUE,  js |-> 0]  \* export type K = "a" | "b";

ASSUME /\ Content \in [Generated -> Seq({Import, Decl, Lit})]
       /\ MaxRuns \in Nat

VARIABLES
    dir,   \* the directory: dir[e] is the lines of each entry e it holds
    pc,    \* where main() is: idle, export, fix, ok (exit 0) or failed (exit 1)
    todo,  \* the files export_ts has still to write, or the read_dir entries still to visit
    runs   \* how many times the binary has been started

vars == <<dir, pc, todo, runs>>

Line == [rel : BOOLEAN, endq : BOOLEAN, js : 0..MaxRuns + 1]

\* The line a run of the rewrite gives a line of Content: js suffixes added.
WithJs(l, n) == [l EXCEPT !.js = n]

\* Contents an earlier run can have left in a file: as written, or rewritten.
Previous(lines) ==
    {lines, [i \in DOMAIN lines |-> IF lines[i].rel THEN WithJs(lines[i], 1) ELSE lines[i]]}

\* A line cut short at some byte: before `from "./`, inside the specifier,
\* or (for a rewritten import) after `.js"` but before the closing `;`.
LineCuts(l) ==
    {[rel |-> FALSE, endq |-> FALSE, js |-> 0]}
    \cup (IF l.rel THEN {[rel |-> TRUE, endq |-> FALSE, js |-> 0]} ELSE {})
    \cup (IF l.rel /\ l.js > 0 THEN {[rel |-> TRUE, endq |-> FALSE, js |-> l.js]} ELSE {})

\* What a failed fs::write(path, new) that truncated the file leaves: the
\* first k lines, and possibly part of the next one.
TornWrite(new) ==
    {SubSeq(new, 1, k) : k \in 0..Len(new) - 1}
    \cup UNION {{Append(SubSeq(new, 1, k), p) : p \in LineCuts(new[k + 1])} : k \in 0..Len(new) - 1}

-----------------------------------------------------------------------------
\* One line of the loop: the rewrite condition and line.replace("\";", ".js\";").
FixLine(l) ==
    IF l.rel /\ l.endq /\ l.js = 0 THEN WithJs(l, l.js + 1) ELSE l

\* The output string the loop builds, line by line.
FixContents(lines) == [i \in DOMAIN lines |-> FixLine(lines[i])]

Changed(lines) == \E i \in DOMAIN lines : FixLine(lines[i]) # lines[i]

-----------------------------------------------------------------------------
TypeOK ==
    /\ DOMAIN dir \subseteq Entries
    /\ \A e \in DOMAIN dir : dir[e] \in Seq(Line)
    /\ pc \in {"idle", "export", "fix", "ok", "failed"}
    /\ todo \subseteq Entries
    /\ runs \in 0..MaxRuns

\* The directory as earlier runs left it; the binary has not been started.
Init ==
    /\ \E held \in SUBSET TsEntries :
          dir \in [held \cup Others -> {<<Import>>} \cup Previous(<<Import, Decl>>)
                                    \cup UNION {Previous(Content[f]) : f \in Generated}]
    /\ \A f \in Generated \cap DOMAIN dir : dir[f] \in Previous(Content[f])
    /\ \A f \in Stale \cap DOMAIN dir : dir[f] \in Previous(<<Import, Decl>>)
    /\ \A f \in Others : dir[f] = <<Import>>
    /\ pc = "idle"
    /\ todo = {}
    /\ runs = 0

\* The binary is run: main() calls export_ts(&out_dir).
Start ==
    /\ pc \in {"idle", "ok", "failed"}
    /\ runs < MaxRuns
    /\ pc' = "export"
    /\ todo' = Generated
    /\ runs' = runs + 1
    /\ UNCHANGED dir

\* export_ts writes one binding file.
ExportWrite(f) ==
    /\ pc = "export"
    /\ f \in todo
    /\ dir' = (f :> Content[f]) @@ dir
    /\ todo' = todo \ {f}
    /\ UNCHANGED <<pc, runs>>

\* export_ts fails writing f: its Err skips the fix and main exits 1.
ExportFail(f) ==
    /\ pc = "export"
    /\ f \in todo
    /\ \/ UNCHANGED dir
       \/ \E c \in TornWrite(Content[f]) : dir' = (f :> c) @@ dir
    /\ pc' = "failed"
    /\ todo' = {}
    /\ UNCHANGED runs

\* export_ts returned Ok: fix_import_extensions lists the directory.
ExportDone ==
    /\ pc = "export"
    /\ todo = {}
    /\ pc' = "fix"
    /\ todo' = DOMAIN dir
    /\ UNCHANGED <<dir, runs>>

(***************************************************************************)
(* One iteration of the read_dir loop, in whatever order read_dir yields   *)
(* the entries: an entry that is not .ts is skipped; a .ts file is read,   *)
(* rewritten line by line, and written back only if a line changed.        *)
(***************************************************************************)
FixFile(e) ==
    /\ pc = "fix"
    /\ e \in todo
    /\ dir' = IF e \in TsEntries /\ Changed(dir[e])
              THEN [dir EXCEPT ![e] = FixContents(dir[e])]
              ELSE dir
    /\ todo' = todo \ {e}
    /\ UNCHANGED <<pc, runs>>

\* The `?` on the entry, read_to_string or fs::write fails at entry e:
\* main exits 1, leaving e as it was or, if the write failed, cut short.
FixFail(e) ==
    /\ pc = "fix"
    /\ e \in todo
    /\ \/ UNCHANGED dir
       \/ /\ e \in TsEntries
          /\ Changed(dir[e])
          /\ \E c \in TornWrite(FixContents(dir[e])) : dir' = [dir EXCEPT ![e] = c]
    /\ pc' = "failed"
    /\ todo' = {}
    /\ UNCHANGED runs

\* Every entry was visited: Ok(()), exit code 0.
FixDone ==
    /\ pc = "fix"
    /\ todo = {}
    /\ pc' = "ok"
    /\ UNCHANGED <<dir, todo, runs>>

Next ==
    \/ Start
    \/ \E f \in Generated : ExportWrite(f) \/ ExportFail(f)
    \/ ExportDone
    \/ \E e \in Entries : FixFile(e) \/ FixFail(e)
    \/ FixDone

Spec == Init /\ [][Next]_vars

-----------------------------------------------------------------------------
=============================================================================
