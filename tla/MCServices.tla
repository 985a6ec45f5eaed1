------------------------------ MODULE MCServices ------------------------------
(* The documents of an inbox and the schema of an LLM's reply. *)
EXTENDS Services, TLC

MCInboxDocs == 1..2
MCFieldNames == <<"a_x", "b_x">>
MCGarbled == {"a_?", "b"}
MCPrefix == "a_x" :> "a" @@ "b_x" :> "b" @@ "a_?" :> "a" @@ "b" :> "b"
=============================================================================
