----------------------------- MODULE LspServer -----------------------------
(***************************************************************************)
(* The language server of codeshc (lsp_server and                          *)
(* handle_lsp_diagnostic_request in main.cpp, lsp/lsp_receiever.cpp).      *)
(* A client writes framed messages to the standard input; the server reads *)
(* one, analyses the document it carries and publishes the diagnostics.    *)
(*                                                                         *)
(* Two globals outlive a request: the blasphemy collector and the source   *)
(* info map its file ids point into.  Both are cleared after a report was  *)
(* sent, and anything thrown before that is swallowed by the loop.  The    *)
(* framing, too, survives a failure: a frame without a length is refused   *)
(* before its body is read.                                                *)
(*                                                                         *)
(* The loop catches C++ exceptions only.  A stage can also end the process *)
(* (a hierarchy that leads back to itself overflows the stack, and so does *)
(* a phrase nested too deep; a fatal blasphemy would call std::exit): then *)
(* nobody answers the message, nor those after it.                         *)
(***************************************************************************)
EXTENDS Integers, Sequences, FiniteSets

CONSTANTS
    Diag,         \* diagnostics, by what they say and where
    Warnings,     \* those that are warnings, not errors
    Startup,      \* warnings of the class loaders, before the first request
    Docs,         \* documents a client may send
    HeaderBlocks, \* header blocks a client may put before a message
    MaxRequests,  \* bound: messages sent in a run
    NoFile        \* the collector has no file id

Stages == {"tokenize", "parse", "symbols", "members", "bodies"}
Lines == {"length", "type", "other"}

(***************************************************************************)
(* A document: what each stage reports about it when it is run, the stage  *)
(* that throws a C++ exception, if any, after reporting finds of it, and   *)
(* the one that ends the process.  The tokenizer, a loop, never does.      *)
(***************************************************************************)
Doc == [finds:  [Stages -> SUBSET Diag],
        throws: Stages \cup {"none"},
        ends:   (Stages \ {"tokenize"}) \cup {"none"}]

(* didOpen and didChange carry a text; a malformed message is one that     *)
(* json::parse or at() throws on; every other method is ignored.           *)
Methods == {"document", "initialize", "other", "malformed"}

ASSUME DiagAssumption == Warnings \subseteq Diag /\ Startup \subseteq Warnings
ASSUME DocsAssumption == Docs \subseteq Doc /\ Docs # {}
ASSUME HeadersAssumption == HeaderBlocks \subseteq Seq(Lines) \ {<<>>}
ASSUME BoundAssumption == MaxRequests \in Nat
ASSUME NoFileAssumption == NoFile \notin Nat

VARIABLES
    requests,    \* [headers, method, doc]: the messages sent so far
    stdin,       \* [kind, msg]: header lines, blank lines and bodies unread
    closed,      \* the client closed its end
    pc,          \* where the server is in its loop
    cur,         \* the message being handled
    unit,        \* the file id the tokens and the tree of cur carry
    fileId,      \* blasphemy_collector::file_id
    collected,   \* [diag, owner, file]: blasphemies and warnings
    sourceMap,   \* the global source info map, as whose entry each is
    published,   \* the last publishDiagnostics: [to, diags]
    outcome      \* what became of each message

vars == <<requests, stdin, closed, pc, cur, unit, fileId, collected,
          sourceMap, published, outcome>>

server == <<pc, cur, unit, fileId, collected, sourceMap, published>>

Blasphemy == [diag: Diag, owner: 0..MaxRequests, file: Nat \cup {NoFile}]
Outcomes == {"waiting", "refused", "failed", "ignored", "answered", "published"}

Doing(n) == requests[n].doc
Own(n) == {b \in collected : b.owner = n}
HasErrors == \E b \in collected : b.diag \notin Warnings

Found(stage, file) ==
    {[diag |-> d, owner |-> cur, file |-> file] : d \in Doing(cur).finds[stage]}

Init ==
    /\ requests = <<>>
    /\ stdin = <<>>
    /\ closed = FALSE
    /\ pc = "idle"
    /\ cur = 0
    /\ unit = NoFile
    /\ fileId = NoFile
    /\ collected = {[diag |-> d, owner |-> 0, file |-> NoFile] : d \in Startup}
    /\ sourceMap = <<>>
    /\ published = [to |-> 0, diags |-> {}]
    /\ outcome = <<>>

-----------------------------------------------------------------------------
(* The client *)

Frame(headers, n) ==
    [i \in 1..Len(headers) |-> [kind |-> headers[i], msg |-> n]]
        \o <<[kind |-> "blank", msg |-> n], [kind |-> "body", msg |-> n]>>

Send(headers, method, doc) ==
    /\ ~closed
    /\ Len(requests) < MaxRequests
    /\ requests' = Append(requests, [headers |-> headers, method |-> method, doc |-> doc])
    /\ stdin' = stdin \o Frame(headers, Len(requests) + 1)
    /\ outcome' = Append(outcome, "waiting")
    /\ UNCHANGED <<closed, server>>

Close ==
    /\ ~closed
    /\ closed' = TRUE
    /\ UNCHANGED <<requests, stdin, outcome, server>>

-----------------------------------------------------------------------------
(* Reading a frame: wait_for_request *)

Blanks == {i \in DOMAIN stdin : stdin[i].kind = "blank"}
BlockEnd == CHOOSE i \in Blanks : \A j \in Blanks : i <= j

(* A body no one read has no line end: the next header line is glued to it *)
(* and does not begin with the key any more.                               *)
LengthLine(i) == stdin[i].kind = "length" /\ (i > 1 => stdin[i - 1].kind # "body")

HasLength == \E i \in 1..(BlockEnd - 1) : LengthLine(i)

From(i) == SubSeq(stdin, i, Len(stdin))

Disposed(n, how) == outcome' = [outcome EXCEPT ![n] = how]

(* The block has a length: the body is read, parsed and dispatched.        *)
ReadMessage ==
    /\ pc = "idle"
    /\ Blanks # {}
    /\ HasLength
    /\ stdin' = From(BlockEnd + 2)
    /\ LET n == stdin[BlockEnd + 1].msg
       IN  \/ /\ requests[n].method = "document"
              /\ pc' = "tokenize"
              /\ cur' = n
              /\ UNCHANGED outcome
           \/ /\ requests[n].method = "initialize"
              /\ Disposed(n, "answered")
              /\ UNCHANGED <<pc, cur>>
           \/ /\ requests[n].method = "other"
              /\ Disposed(n, "ignored")
              /\ UNCHANGED <<pc, cur>>
           \/ /\ requests[n].method = "malformed"
              /\ Disposed(n, "failed")
              /\ UNCHANGED <<pc, cur>>
    /\ UNCHANGED <<requests, closed, unit, fileId, collected, sourceMap, published>>

(* "LSP request missing Content-Length header", thrown past the body.      *)
RefuseFrame ==
    /\ pc = "idle"
    /\ Blanks # {}
    /\ ~HasLength
    /\ stdin' = From(BlockEnd + 1)
    /\ Disposed(stdin[BlockEnd].msg, "refused")
    /\ UNCHANGED <<requests, closed, server>>

(* At the end of the input the reader sees an empty block, throws, and the *)
(* loop calls it again, for ever.                                          *)
ReadEnd ==
    /\ pc = "idle"
    /\ closed
    /\ Blanks = {}
    /\ stdin' = <<>>
    /\ UNCHANGED <<requests, closed, outcome, server>>

-----------------------------------------------------------------------------
(* Handling a document: handle_lsp_diagnostic_request *)

(* Mutant: the loop is inside the try block, so an exception ends it.      *)
CaughtOutside == pc' = "ended" /\ Disposed(cur, "failed")

Caught == pc' = "idle" /\ Disposed(cur, "failed")

(* No handler runs: nothing is sent, cleared or read any more.             *)
ProcessEnds == pc' = "ended" /\ UNCHANGED outcome

(* What follows a stage: the next one, unless it threw or never returned.  *)
Proceed(stage, next) ==
    \/ /\ Doing(cur).throws = stage
       /\ Caught
    \/ /\ Doing(cur).ends = stage
       /\ ProcessEnds
    \/ /\ stage \notin {Doing(cur).throws, Doing(cur).ends}
       /\ pc' = next
       /\ UNCHANGED outcome

(* Mutant: the collector keeps the file id of the request before.          *)
TokenizeForgetful ==
    /\ pc = "tokenize"
    /\ Doing(cur).throws # "tokenize"
    /\ sourceMap' = Append(sourceMap, cur)
    /\ unit' = Len(sourceMap)
    /\ fileId' = IF fileId = NoFile THEN unit' ELSE fileId
    /\ collected' = collected \cup Found("tokenize", fileId')
    /\ pc' = "parse"
    /\ UNCHANGED <<requests, stdin, closed, cur, published, outcome>>

(* utf8to16 throws before the file gets its entry in the source info map.  *)
TokenizeBadText ==
    /\ pc = "tokenize"
    /\ Doing(cur).throws = "tokenize"
    /\ Caught
    /\ UNCHANGED <<requests, stdin, closed, cur, unit, fileId, collected, sourceMap, published>>

Tokenize ==
    /\ pc = "tokenize"
    /\ Doing(cur).throws # "tokenize"
    /\ sourceMap' = Append(sourceMap, cur)
    /\ unit' = Len(sourceMap)
    /\ fileId' = unit'
    /\ collected' = collected \cup Found("tokenize", fileId')
    /\ pc' = "parse"
    /\ UNCHANGED <<requests, stdin, closed, cur, published, outcome>>

Parse ==
    /\ pc = "parse"
    /\ collected' = collected \cup Found("parse", fileId)
    /\ Proceed("parse", "symbols")
    /\ UNCHANGED <<requests, stdin, closed, cur, unit, fileId, sourceMap, published>>

(* Mutant: a pass runs whatever the passes before it reported.             *)
UngatedNext(next) == next

(* analyze_asts returns between its passes once anything was reported.     *)
GatedNext(next) == IF HasErrors' THEN "send" ELSE next

(* A pass of analyze_asts; update_source_file(context.root) comes first.   *)
Pass(stage, next) ==
    /\ pc = stage
    /\ fileId' = unit
    /\ collected' = collected \cup Found(stage, fileId')
    /\ Proceed(stage, next)
    /\ UNCHANGED <<requests, stdin, closed, cur, unit, sourceMap, published>>

CollectSymbols == Pass("symbols", GatedNext("members"))
PostCollect == Pass("members", GatedNext("bodies"))
Analyze == Pass("bodies", "send")

SendDiagnostics ==
    /\ pc = "send"
    /\ published' = [to |-> cur, diags |-> collected]
    /\ Disposed(cur, "published")
    /\ pc' = "clear"
    /\ UNCHANGED <<requests, stdin, closed, cur, unit, fileId, collected, sourceMap>>

(* Mutant: the collector keeps its warnings.                               *)
ClearErrors ==
    /\ pc = "clear"
    /\ collected' = {b \in collected : b.diag \in Warnings}
    /\ sourceMap' = <<>>
    /\ pc' = "idle"
    /\ UNCHANGED <<requests, stdin, closed, cur, unit, fileId, published, outcome>>

Clear ==
    /\ pc = "clear"
    /\ collected' = {}
    /\ sourceMap' = <<>>
    /\ pc' = "idle"
    /\ UNCHANGED <<requests, stdin, closed, cur, unit, fileId, published, outcome>>

Client ==
    \/ \E headers \in HeaderBlocks, doc \in Docs : Send(headers, "document", doc)
    \/ \E headers \in HeaderBlocks, method \in Methods \ {"document"} :
           Send(headers, method, CHOOSE doc \in Docs : TRUE)
    \/ Close

Server ==
    \/ ReadMessage \/ RefuseFrame \/ ReadEnd
    \/ TokenizeBadText \/ Tokenize \/ Parse
    \/ CollectSymbols \/ PostCollect \/ Analyze
    \/ SendDiagnostics \/ Clear

(* The client may write on; no one reads.                                  *)
Ended == pc = "ended" /\ UNCHANGED vars

Next == Client \/ Server \/ Ended

(* One thread that blocks on its input only: it runs when it can.          *)
Spec == Init /\ [][Next]_vars /\ WF_vars(Server)

-----------------------------------------------------------------------------
(* Properties *)

TypeOK ==
    /\ requests \in Seq([headers: HeaderBlocks, method: Methods, doc: Docs])
    /\ Len(requests) <= MaxRequests
    /\ stdin \in Seq([kind: Lines \cup {"blank", "body"}, msg: 1..MaxRequests])
    /\ closed \in BOOLEAN
    /\ pc \in Stages \cup {"idle", "send", "clear", "ended"}
    /\ cur \in 0..Len(requests)
    /\ unit \in Nat \cup {NoFile}
    /\ fileId \in Nat \cup {NoFile}
    /\ collected \subseteq Blasphemy
    /\ sourceMap \in Seq(1..MaxRequests)
    /\ published \in [to: 0..MaxRequests, diags: SUBSET Blasphemy]
    /\ outcome \in [1..Len(requests) -> Outcomes]

(* Every file id the collector holds indexes the source info map, at the   *)
(* entry of the document that was being analysed: token_to_lsp_end reads   *)
(* the map with .at(file_id), which would throw and lose the report or     *)
(* measure a keyword of another document.  Failed requests leave ids and   *)
(* entries behind, and the two are cleared one after the other.            *)
FileIdsValid ==
    pc # "clear" =>
        \A b \in collected : b.file # NoFile =>
            b.file < Len(sourceMap) /\ sourceMap[b.file + 1] = b.owner

(* What a report holds of other requests than its own was left behind by   *)
(* requests that failed, or by the class loaders: the diagnostics of a     *)
(* request that was answered are never published again.                    *)
ForeignHasCause ==
    \A b \in published.diags :
        \/ b.owner = published.to
        \/ b.owner = 0
        \/ b.owner < published.to /\ outcome[b.owner] = "failed"

(* What the compiler would say of a document alone.                        *)
Errs(ds) == ds \ Warnings # {}
Expected(doc) ==
    LET f == doc.finds
        first == f["tokenize"] \cup f["parse"] \cup f["symbols"]
        second == first \cup f["members"]
    IN  IF Errs(first) THEN first
        ELSE IF Errs(second) THEN second
        ELSE second \cup f["bodies"]

(* A report with no error of another request is the compiler's whole and   *)
(* only verdict on its document.                                           *)
CompleteReport ==
    LET n == published.to
        foreign == {b \in published.diags : b.owner # n}
    IN  (n > 0 /\ ~Errs({b.diag : b \in foreign}))
        => {b.diag : b \in published.diags \ foreign} = Expected(Doing(n))

(* Every message is disposed of, whatever exceptions it and those before   *)
(* it raise, unless a stage ended the process on its document or on one    *)
(* that was sent before it: then it waits for ever, and the messages sent  *)
(* before the one that ended the server are disposed of all the same.      *)
EndedOn(n) == pc = "ended" /\ cur = n /\ Doing(n).ends # "none"

EveryRequestDisposed ==
    \A n \in 1..MaxRequests :
        (n <= Len(requests)) ~>
            \/ n <= Len(outcome) /\ outcome[n] # "waiting"
            \/ \E m \in 1..n : EndedOn(m) /\ outcome[m] = "waiting"

=============================================================================
