----------------------------- MODULE MCDocuments -----------------------------
(* Instances of Documents for TLC. *)
EXTENDS MCPipeline, Documents, TLC

\* Blanks around a text are trimmed; Paperless is given "a" for "b", as for another
\* spelling of the same value.
MCTrim == "" :> "" @@ "a" :> "a" @@ "a " :> "a" @@ "b" :> "b"
MCNormal == "" :> "" @@ "a" :> "a" @@ "a " :> "a" @@ "b" :> "a"

MCTypeOf == <<"t", "u">>
MCTagSets == {{}, {"Strom"}, {"ai-pending", "ai-low-confidence"}, {"ai-error", "Strom"},
              {"ai-approved"}, {"ai-rejected", "wichtig"}, {"ai-approved", "ai-rejected"},
              {"ai-propagated", "ai-index-error", "Strom"},
              {"ai-propagated", "ai-auto-approved"}}
=============================================================================
