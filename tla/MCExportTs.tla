----------------------------- MODULE MCExportTs -----------------------------
\* Two bindings, one importing the other ("./B") and one with a string
\* literal line that ends with `";` but imports nothing, one stale binding
\* and one entry that is not .ts; the binary is run twice, so a failed run
\* is retried.
EXTENDS ExportTs

MCGenerated == {"A", "B"}
MCStale == {"S"}
MCOthers == {"N"}
MCContent == [f \in MCGenerated |-> IF f = "A" THEN <<Import, Decl>> ELSE <<Lit, Decl>>]
MCMaxRuns == 2

=============================================================================
