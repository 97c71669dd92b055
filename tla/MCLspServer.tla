---------------------------- MODULE MCLspServer ----------------------------
(* Instances of LspServer: one document per way a request can go.          *)
EXTENDS LspServer, TLC

CONSTANTS unused, missing,          \* warnings
          lexical, syntax, symbol, member, body

MCDiag == {unused, missing, lexical, syntax, symbol, member, body}
MCWarnings == {unused, missing}
MCStartup == {missing}

Document(finds, throws) ==
    [finds |-> finds @@ [s \in Stages |-> {}], throws |-> throws, ends |-> "none"]

Ending(document, stage) == [document EXCEPT !.ends = stage]

Legal == Document([x \in {} |-> {}], "none")
Warned == Document("tokenize" :> {unused} @@ "bodies" :> {body}, "none")
BadNames == Document("tokenize" :> {lexical} @@ "symbols" :> {symbol}
                        @@ "members" :> {member}, "none")
BadMembers == Document("members" :> {member} @@ "bodies" :> {body}, "none")
InnerClass == Document("parse" :> {syntax, unused}, "parse")
NotUtf8 == Document([x \in {} |-> {}], "tokenize")
Unsupported == Document("tokenize" :> {unused} @@ "bodies" :> {body}, "bodies")

(* Super types that lead back to their type: pass three does not return.   *)
Cyclic == Ending(Warned, "bodies")

MCDocs == {Legal, Warned, BadNames, BadMembers, InnerClass, NotUtf8, Unsupported, Cyclic}

(* The length alone or after another line, and a block without a length.   *)
MCHeaderBlocks == {<<"length">>, <<"type", "length">>, <<"other">>}
=============================================================================
