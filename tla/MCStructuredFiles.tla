--------------------------- MODULE MCStructuredFiles ---------------------------
EXTENDS StructuredFiles, MCDocuments

\* json alone, with the live-only keys a but not a.a
JsonDocs == [f \in {"json"} |-> MCDoc[f]]
Denylist == [f \in {"json"} |-> {[exact |-> {<<"a">>}, regex |-> {}, notExact |-> {<<"a", "a">>}, notRegex |-> {},
                                 strategy |-> "deny"]}]
=============================================================================
