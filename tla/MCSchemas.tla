----------------------------- MODULE MCSchemas -----------------------------
(* Instances of Schemas for TLC. *)
EXTENDS Schemas

CONSTANTS n1, n2, s1, s2, a, b

MCTexts == {"lo", "hi", "LO", "7", "2026-01-05", "true", "false"}
MCNodeIds == <<n1, n2>>
\* n1 has one type, n2 has both.
MCTypes == (n1 :> <<s1>>) @@ (n2 :> <<s1, s2>>)

Str(text) == Scalar("string", text)
Def(type, enums, required, dflt, open) ==
  [type |-> type, item |-> "number", enums |-> enums, required |-> required, dflt |-> dflt, open |-> open]
MkClaim(required, dflt, enums) == [required |-> required, dflt |-> dflt, enums |-> enums]

Plain == MkClaim({}, {}, {})
NoClaims == [f \in {} |-> Plain]      \* a function, as the claims that operations compute
Narrow == MkClaim({}, {}, {<<"lo">>})
Needed == MkClaim({TRUE}, {Str("lo")}, {})

Words == Def("string", <<>>, FALSE, NoValue, TRUE)
Members == Def("enum", <<"lo", "hi">>, FALSE, NoValue, TRUE)
Fewer == Def("enum", <<"LO">>, TRUE, Str("lo"), TRUE)

MCFieldInputs == {Words, Fewer, Def("list", <<>>, FALSE, NoValue, FALSE)}
MCClaimInputs == {NoClaims, a :> Plain, a :> Narrow, (a :> Needed) @@ (b :> Plain), b :> Needed}
MCValueInputs == {Str("lo"), Str("hi"), Str("7")}

\* s1 claims the enum a; n2 has a value of b that nobody claims.
MCStart ==
  [fields |-> (a :> Members) @@ (b :> NoField),
   claims |-> (s1 :> (a :> Plain)) @@ (s2 :> NoSchema),
   rows |-> (n1 :> ((a :> Str("lo")) @@ (b :> NoValue))) @@ (n2 :> ((a :> NoValue) @@ (b :> Str("hi"))))]
=============================================================================
