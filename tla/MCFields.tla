------------------------------- MODULE MCFields -------------------------------
(* The instance of DocumentData for TLC. *)
EXTENDS DocumentData, TLC

MCTypeFieldNames == "A" :> {"x", "z"} @@ "B" :> {"z"}
MCLower == "a" :> "a" @@ "A" :> "a"
MCOrder == "a" :> 2 @@ "A" :> 1

Content(name, type, refs, amount) ==
    [correspondent |-> name, issueDate |-> "d", documentType |-> type, refs |-> refs, amount |-> amount]

MCContents ==
    {Content("A", "", {"r"}, 10), Content("A ", "t", {"r"}, Null),
     Content("a", "t", {"r"}, Null), Content("A", "u", {}, 11),
     Content(" ", "", {"r"}, 10)}
MCTrim == "" :> "" @@ " " :> "" @@ "A" :> "A" @@ "A " :> "A" @@ "a" :> "a" @@ "t" :> "t" @@ "u" :> "u"
MCLowerText == "" :> "" @@ "A" :> "a" @@ "a" :> "a" @@ "t" :> "t" @@ "u" :> "u"
=============================================================================
