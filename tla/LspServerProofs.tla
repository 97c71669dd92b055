-------------------------- MODULE LspServerProofs --------------------------
(***************************************************************************)
(* For every set of documents, every framing and any number of messages:   *)
(* the file ids in the collector are valid, and a report holds diagnostics *)
(* of other requests only if those failed.                                 *)
(*                                                                         *)
(* A frame is consumed in order and disposed of once, so `failed' is never *)
(* overwritten; the diagnostics of a request stay in the collector exactly *)
(* as long as it is being handled, and after it failed.                    *)
(***************************************************************************)
EXTENDS LspServer, SequenceTheorems, WellFoundedInduction, TLAPS

Item == [kind: Lines \cup {"blank", "body"}, msg: Nat]
Working == Stages \cup {"send"}

BlankAt(i) == i \in 1..Len(stdin) /\ stdin[i].kind = "blank"

(* The types the steps need. *)
TypesInv ==
    /\ requests \in Seq([headers: HeaderBlocks, method: Methods, doc: Docs])
    /\ stdin \in Seq(Item)
    /\ outcome \in Seq(Outcomes)
    /\ Len(outcome) = Len(requests)
    /\ pc \in Working \cup {"idle", "clear", "ended"}
    /\ sourceMap \in Seq(Nat)
    /\ \A b \in collected : b.owner \in Nat /\ b.file \in Nat \cup {NoFile}

(* A blank line is followed by the body of its message; messages are in    *)
(* the order they were sent, and those not read yet are waiting.           *)
FramingInv ==
    /\ \A i \in 1..Len(stdin) : stdin[i].msg \in 1..Len(outcome)
    /\ \A i \in 1..Len(stdin) : stdin[i].kind = "blank" =>
        /\ i + 1 <= Len(stdin)
        /\ stdin[i + 1].kind = "body"
        /\ stdin[i + 1].msg = stdin[i].msg
        /\ outcome[stdin[i].msg] = "waiting"
    /\ \A i, j \in 1..Len(stdin) :
        (i < j /\ stdin[i].kind = "blank" /\ stdin[j].kind = "blank")
            => stdin[i].msg < stdin[j].msg

(* The message being handled comes before those not read yet.              *)
CurrentInv ==
    pc \in Working =>
        /\ cur \in 1..Len(outcome)
        /\ outcome[cur] = "waiting"
        /\ \A i \in 1..Len(stdin) : stdin[i].kind = "blank" => cur < stdin[i].msg

(* The tokens and the tree of the current message carry its own file id.   *)
UnitInv ==
    pc \in Working \ {"tokenize"} =>
        /\ unit \in Nat /\ unit < Len(sourceMap) /\ sourceMap[unit + 1] = cur
        /\ fileId = unit

Failed(n) == n \in 1..Len(outcome) /\ outcome[n] = "failed"

(* Whose diagnostics the collector holds.                                  *)
OwnersInv ==
    pc \notin {"clear", "ended"} =>
        \A b \in collected :
            \/ b.owner = 0
            \/ pc \in Working /\ b.owner = cur
            \/ /\ Failed(b.owner)
               /\ pc \in Working => b.owner < cur
               /\ \A i \in 1..Len(stdin) : stdin[i].kind = "blank" => b.owner < stdin[i].msg

(* ForeignHasCause, with the range of the owners.                          *)
PublishedInv ==
    \A b \in published.diags :
        \/ b.owner = published.to
        \/ b.owner = 0
        \/ b.owner < published.to /\ Failed(b.owner)

IInv == /\ TypesInv /\ FramingInv /\ CurrentInv /\ UnitInv
        /\ FileIdsValid /\ OwnersInv /\ PublishedInv

-----------------------------------------------------------------------------
(* The input *)

(* The concatenation of two sequences of input items. *)
LEMMA ItemsConcatenated ==
    ASSUME NEW s \in Seq(Item), NEW t \in Seq(Item)
    PROVE  /\ s \o t \in Seq(Item)
           /\ Len(s \o t) = Len(s) + Len(t)
           /\ \A i \in 1..(Len(s) + Len(t)) :
                  (s \o t)[i] = IF i <= Len(s) THEN s[i] ELSE t[i - Len(s)]
  BY ConcatProperties, Zenon

(* A frame is its header lines, a blank line and a body, of one message.   *)
LEMMA FrameShape ==
    ASSUME NEW h \in HeaderBlocks, NEW n \in Nat
    PROVE  /\ Frame(h, n) \in Seq(Item)
           /\ Len(Frame(h, n)) = Len(h) + 2
           /\ \A i \in 1..Len(h) : Frame(h, n)[i].kind # "blank" /\ Frame(h, n)[i].msg = n
           /\ Frame(h, n)[Len(h) + 1] = [kind |-> "blank", msg |-> n]
           /\ Frame(h, n)[Len(h) + 2] = [kind |-> "body", msg |-> n]
<1>1. Len(h) \in Nat /\ \A i \in 1..Len(h) : h[i] \in Lines /\ h[i] # "blank"
  BY HeadersAssumption DEF Lines
<1>2. PICK lines : lines = [i \in 1..Len(h) |-> [kind |-> h[i], msg |-> n]]
  OBVIOUS
<1>3. PICK rest : rest = <<[kind |-> "blank", msg |-> n], [kind |-> "body", msg |-> n]>>
  OBVIOUS
<1>4. lines \in Seq(Item) /\ Len(lines) = Len(h)
  BY <1>1, <1>2 DEF Item
<1>5. rest \in Seq(Item) /\ Len(rest) = 2
  BY <1>3 DEF Item
<1>6. /\ lines \o rest \in Seq(Item)
      /\ Len(lines \o rest) = Len(lines) + Len(rest)
      /\ \A i \in 1..(Len(lines) + Len(rest)) :
             (lines \o rest)[i] = IF i <= Len(lines) THEN lines[i] ELSE rest[i - Len(lines)]
  BY <1>4, <1>5, ItemsConcatenated
<1>7. \A i \in 1..Len(h) : (lines \o rest)[i] = lines[i]
  BY <1>1, <1>4, <1>5, <1>6
<1>8. (lines \o rest)[Len(h) + 1] = rest[1] /\ (lines \o rest)[Len(h) + 2] = rest[2]
  BY <1>1, <1>4, <1>5, <1>6
<1>9. \A i \in 1..Len(h) : lines[i].kind # "blank" /\ lines[i].msg = n
  BY <1>1, <1>2
<1>10. Frame(h, n) = lines \o rest
  BY <1>2, <1>3 DEF Frame
<1> QED
  BY <1>3, <1>4, <1>5, <1>6, <1>7, <1>8, <1>9, <1>10

(* What is left of the input is its tail. *)
LEMMA FromShape ==
    ASSUME TypesInv, NEW k \in 1..(Len(stdin) + 1)
    PROVE  /\ From(k) \in Seq(Item)
           /\ Len(From(k)) = Len(stdin) - k + 1
           /\ \A i \in 1..Len(From(k)) : From(k)[i] = stdin[i + k - 1] /\ i + k - 1 \in k..Len(stdin)
<1>1. stdin \in Seq(Item) /\ Len(stdin) \in Nat
  BY DEF TypesInv
<1>2. \A i \in k..Len(stdin) : stdin[i] \in Item
  BY <1>1, ElementOfSeq
<1>3. /\ From(k) \in Seq(Item)
      /\ Len(From(k)) = IF k <= Len(stdin) THEN Len(stdin) - k + 1 ELSE 0
      /\ \A i \in 1..(Len(stdin) - k + 1) : From(k)[i] = stdin[k + i - 1]
  BY <1>1, <1>2, SubSeqProperties DEF From
<1> QED
  BY <1>1, <1>3

(* The block that is read ends at the first blank line. *)
LEMMA BlockEndIsFirst ==
    ASSUME TypesInv, Blanks # {}
    PROVE  /\ BlockEnd \in 1..Len(stdin)
           /\ stdin[BlockEnd].kind = "blank"
<1>1. Blanks \subseteq Nat /\ Blanks \subseteq 1..Len(stdin)
  BY DEF Blanks, TypesInv
<1>2. PICK i \in Blanks : \A j \in Blanks : ~ (<<j, i>> \in OpToRel(<, Nat))
  BY <1>1, NatLessThanWellFounded, WFMin
<1>3. ASSUME NEW j \in Blanks
      PROVE  i <= j
  <2>1. i \in Nat /\ j \in Nat
    BY <1>1
  <2>2. <<j, i>> \notin OpToRel(<, Nat)
    BY <1>2
  <2>3. ~ (j < i)
    BY <2>1, <2>2 DEF OpToRel
  <2> QED
    BY <2>1, <2>3
<1>4. BlockEnd \in Blanks
  BY <1>3 DEF BlockEnd
<1> QED
  BY <1>1, <1>4 DEF Blanks

(* Reading from the front keeps the framing, when nothing that is still in *)
(* the input is disposed of.                                               *)
LEMMA FramingKept ==
    ASSUME IInv, NEW k \in 1..(Len(stdin) + 1), stdin' = From(k),
           Len(outcome') = Len(outcome),
           \A i \in k..Len(stdin) : stdin[i].kind = "blank" => outcome'[stdin[i].msg] = "waiting"
    PROVE  FramingInv'
<1>1. /\ Len(stdin) \in Nat /\ Len(stdin') = Len(stdin) - k + 1
      /\ \A i \in 1..Len(stdin') : stdin'[i] = stdin[i + k - 1] /\ i + k - 1 \in k..Len(stdin)
  <2>1. TypesInv /\ Len(stdin) \in Nat
    BY DEF IInv, TypesInv
  <2> QED
    BY <2>1, FromShape
<1>2. \A i \in 1..Len(stdin') : stdin'[i].msg \in 1..Len(outcome')
  BY <1>1 DEF IInv, FramingInv
<1>3. ASSUME NEW i \in 1..Len(stdin'), stdin'[i].kind = "blank"
      PROVE  /\ i + 1 <= Len(stdin') /\ stdin'[i + 1].kind = "body"
             /\ stdin'[i + 1].msg = stdin'[i].msg /\ outcome'[stdin'[i].msg] = "waiting"
  <2> DEFINE j == i + k - 1
  <2>1. j \in k..Len(stdin) /\ j \in 1..Len(stdin) /\ stdin[j].kind = "blank" /\ stdin'[i] = stdin[j]
    BY <1>1, <1>3
  <2>2. j + 1 <= Len(stdin) /\ stdin[j + 1].kind = "body" /\ stdin[j + 1].msg = stdin[j].msg
    BY <2>1 DEF IInv, FramingInv
  <2>3. i + 1 \in 1..Len(stdin') /\ (i + 1) + k - 1 = j + 1
    BY <1>1, <2>2
  <2> QED
    BY <1>1, <2>1, <2>2, <2>3
<1>4. ASSUME NEW i \in 1..Len(stdin'), NEW j \in 1..Len(stdin'),
             i < j, stdin'[i].kind = "blank", stdin'[j].kind = "blank"
      PROVE  stdin'[i].msg < stdin'[j].msg
  <2>k. k \in Nat /\ k >= 1 /\ Len(stdin) \in Nat /\ i \in Int /\ j \in Int
    BY <1>1
  <2>i. i + k - 1 \in k..Len(stdin) /\ stdin'[i] = stdin[i + k - 1]
    BY <1>1
  <2>j. j + k - 1 \in k..Len(stdin) /\ stdin'[j] = stdin[j + k - 1]
    BY <1>1
  <2>b. i + k - 1 \in 1..Len(stdin) /\ j + k - 1 \in 1..Len(stdin)
    BY <2>k, <2>i, <2>j
  <2>c. i + k - 1 < j + k - 1
    BY <1>4, <2>k
  <2>1. /\ i + k - 1 \in 1..Len(stdin) /\ stdin'[i] = stdin[i + k - 1]
        /\ j + k - 1 \in 1..Len(stdin) /\ stdin'[j] = stdin[j + k - 1]
        /\ i + k - 1 < j + k - 1
    BY <2>i, <2>j, <2>b, <2>c
  <2>2. \A a, b \in 1..Len(stdin) :
            (a < b /\ stdin[a].kind = "blank" /\ stdin[b].kind = "blank")
                => stdin[a].msg < stdin[b].msg
    BY DEF IInv, FramingInv
  <2> QED
    BY <1>4, <2>1, <2>2
<1> QED
  BY <1>2, <1>3, <1>4 DEF FramingInv

-----------------------------------------------------------------------------
(* Handling a document *)

(* Disposing of the current message touches no message that is not read    *)
(* yet, and none that failed.                                              *)
LEMMA DisposingOfCurrent ==
    ASSUME IInv, pc \in Working, UNCHANGED stdin,
           \/ outcome' = outcome
           \/ \E how \in Outcomes : outcome' = [outcome EXCEPT ![cur] = how]
    PROVE  /\ outcome' \in Seq(Outcomes) /\ Len(outcome') = Len(outcome)
           /\ FramingInv'
           /\ \A m : Failed(m) => Failed(m)'
<1>1. outcome \in Seq(Outcomes) /\ cur \in 1..Len(outcome) /\ outcome[cur] = "waiting"
  BY DEF IInv, TypesInv, CurrentInv
<1>2. /\ outcome' \in Seq(Outcomes) /\ Len(outcome') = Len(outcome)
      /\ \A m \in 1..Len(outcome) : m # cur => outcome'[m] = outcome[m]
  BY <1>1, ExceptSeq
<1>3. \A i \in 1..Len(stdin) : stdin[i].kind = "blank"
          => stdin[i].msg # cur /\ stdin[i].msg \in 1..Len(outcome)
  BY DEF IInv, CurrentInv, FramingInv
<1>4. FramingInv'
  BY <1>2, <1>3 DEF IInv, FramingInv
<1>5. \A m : Failed(m) => Failed(m)'
  BY <1>1, <1>2 DEF Failed
<1> QED
  BY <1>2, <1>4, <1>5

(* A stage reports on the current message under its own file id, and goes  *)
(* on, throws or ends the process.                                         *)
LEMMA StageKeepsIInv ==
    ASSUME IInv, pc \in Working,
           UNCHANGED <<requests, stdin, cur, published>>,
           sourceMap' \in Seq(Nat),
           \A i \in 1..Len(sourceMap) : i \in 1..Len(sourceMap') /\ sourceMap'[i] = sourceMap[i],
           unit' \in Nat, unit' < Len(sourceMap'), sourceMap'[unit' + 1] = cur,
           fileId' = unit',
           \A b \in collected' : b \in collected \/ (b.owner = cur /\ b.file = fileId'),
           \/ pc' \in Working \ {"tokenize"} /\ outcome' = outcome
           \/ Caught
           \/ ProcessEnds
    PROVE  IInv'
<1>1. /\ cur \in 1..Len(outcome) /\ outcome[cur] = "waiting"
      /\ outcome \in Seq(Outcomes)
      /\ \A i \in 1..Len(stdin) : stdin[i].kind = "blank" => cur < stdin[i].msg
  BY DEF IInv, CurrentInv, TypesInv
<1>2. "failed" \in Outcomes
  BY DEF Outcomes
<1>3. outcome' = outcome \/ \E how \in Outcomes : outcome' = [outcome EXCEPT ![cur] = how]
  BY <1>2 DEF Caught, Disposed, ProcessEnds
<1>4. /\ outcome' \in Seq(Outcomes) /\ Len(outcome') = Len(outcome)
      /\ FramingInv'
      /\ \A m : Failed(m) => Failed(m)'
  BY <1>3, DisposingOfCurrent
<1>5. \/ pc' \in Working \ {"tokenize"} /\ outcome' = outcome
      \/ pc' = "idle" /\ Failed(cur)'
      \/ pc' = "ended" /\ outcome' = outcome
  BY <1>1 DEF Caught, Disposed, Failed, ProcessEnds
<1>6. pc' # "clear" /\ pc # "clear" /\ (pc' \in Working => outcome' = outcome)
  BY <1>5 DEF Working, Stages
<1>7. TypesInv'
  BY <1>1, <1>4, <1>5 DEF IInv, TypesInv
<1>8. CurrentInv'
  BY <1>1, <1>6 DEF CurrentInv
<1>9. UnitInv'
  BY DEF UnitInv
<1>10. FileIdsValid'
  <2> SUFFICES ASSUME NEW b \in collected', b.file # NoFile
               PROVE  b.file < Len(sourceMap') /\ sourceMap'[b.file + 1] = b.owner
    BY DEF FileIdsValid
  <2>1. CASE b \in collected
    <3>1. b.file \in Nat /\ b.file < Len(sourceMap) /\ sourceMap[b.file + 1] = b.owner
      BY <1>6, <2>1 DEF IInv, FileIdsValid, TypesInv
    <3>a. sourceMap \in Seq(Nat)
      BY DEF IInv, TypesInv
    <3>b. Len(sourceMap) \in Nat /\ Len(sourceMap') \in Nat
      BY <3>a, LenProperties
    <3>2. b.file + 1 \in 1..Len(sourceMap)
      BY <3>1, <3>b
    <3>3. b.file + 1 \in 1..Len(sourceMap') /\ sourceMap'[b.file + 1] = sourceMap[b.file + 1]
      BY <3>2
    <3>4. b.file < Len(sourceMap')
      BY <3>1, <3>3, <3>b
    <3> QED
      BY <3>1, <3>3, <3>4
  <2>2. CASE b.owner = cur /\ b.file = fileId'
    BY <2>2
  <2> QED
    BY <2>1, <2>2
<1>11. OwnersInv'
  <2> SUFFICES ASSUME NEW b \in collected', pc' # "ended"
               PROVE  \/ b.owner = 0
                      \/ pc' \in Working /\ b.owner = cur
                      \/ /\ Failed(b.owner)'
                         /\ pc' \in Working => b.owner < cur
                         /\ \A i \in 1..Len(stdin) :
                                stdin[i].kind = "blank" => b.owner < stdin[i].msg
    BY DEF OwnersInv
  <2>1. CASE b.owner = cur
    BY <1>1, <1>5, <2>1
  <2>2. CASE b \in collected /\ b.owner # cur
    <3>1. pc \notin {"clear", "ended"}
      BY DEF Working, Stages
    <3> QED
      BY <1>4, <1>6, <2>2, <3>1 DEF IInv, OwnersInv
  <2> QED
    BY <2>1, <2>2
<1>12. PublishedInv'
  BY <1>4 DEF IInv, PublishedInv
<1> QED
  BY <1>4, <1>7, <1>8, <1>9, <1>10, <1>11, <1>12 DEF IInv

(* The diagnostics of a stage are those of the current message.            *)
LEMMA FoundIsOwn ==
    ASSUME NEW stage, NEW file
    PROVE  \A b \in Found(stage, file) : b.owner = cur /\ b.file = file
BY DEF Found

LEMMA TokenizeStep == ASSUME IInv, Tokenize PROVE IInv'
<1>1. pc = "tokenize" /\ pc \in Working /\ pc' = "parse" /\ pc' \in Working \ {"tokenize"}
  BY DEF Tokenize, Working, Stages
<1>2. sourceMap \in Seq(Nat) /\ cur \in Nat /\ Len(sourceMap) \in Nat
  BY <1>1 DEF IInv, TypesInv, CurrentInv
<1>3. /\ sourceMap' \in Seq(Nat) /\ Len(sourceMap') = Len(sourceMap) + 1
      /\ \A i \in 1..Len(sourceMap) : i \in 1..Len(sourceMap') /\ sourceMap'[i] = sourceMap[i]
      /\ sourceMap'[Len(sourceMap) + 1] = cur
  BY <1>2, AppendProperties DEF Tokenize
<1>4. unit' = Len(sourceMap) /\ fileId' = unit'
  BY DEF Tokenize
<1>5. \A b \in collected' : b \in collected \/ (b.owner = cur /\ b.file = fileId')
  BY FoundIsOwn DEF Tokenize
<1>6. UNCHANGED <<requests, stdin, cur, published>> /\ outcome' = outcome
  BY DEF Tokenize
<1> QED
  BY <1>1, <1>2, <1>3, <1>4, <1>5, <1>6, StageKeepsIInv

(* The passes and the parser: the file has its entry already.              *)
LEMMA LaterStage ==
    ASSUME IInv, pc \in Working \ {"tokenize"},
           NEW stage, NEW next \in Working \ {"tokenize"},
           UNCHANGED <<requests, stdin, cur, unit, sourceMap, published>>,
           fileId' = unit,
           collected' = collected \cup Found(stage, fileId'),
           Proceed(stage, next)
    PROVE  IInv'
<1>1. /\ unit \in Nat /\ unit < Len(sourceMap) /\ sourceMap[unit + 1] = cur
      /\ sourceMap \in Seq(Nat)
  BY DEF IInv, UnitInv, TypesInv
<1>2. \A b \in collected' : b \in collected \/ (b.owner = cur /\ b.file = fileId')
  BY FoundIsOwn
<1>3. \/ pc' \in Working \ {"tokenize"} /\ outcome' = outcome
      \/ Caught
      \/ ProcessEnds
  BY DEF Proceed
<1> QED
  BY <1>1, <1>2, <1>3, StageKeepsIInv

LEMMA ParseStep == ASSUME IInv, Parse PROVE IInv'
<1>1. pc \in Working \ {"tokenize"} /\ "symbols" \in Working \ {"tokenize"}
  BY DEF Parse, Working, Stages
<1>2. fileId' = unit
  BY <1>1 DEF Parse, IInv, UnitInv
<1>3. collected' = collected \cup Found("parse", fileId')
  BY DEF Parse
<1>4. UNCHANGED <<requests, stdin, cur, unit, sourceMap, published>> /\ Proceed("parse", "symbols")
  BY DEF Parse
<1> QED
  BY <1>1, <1>2, <1>3, <1>4, LaterStage

LEMMA PassStep ==
    ASSUME IInv, CollectSymbols \/ PostCollect \/ Analyze
    PROVE  IInv'
<1>1. PICK stage, next : /\ stage \in Stages \ {"tokenize"}
                         /\ next \in Working \ {"tokenize"}
                         /\ Pass(stage, next)
  <2>1. /\ GatedNext("members") \in Working \ {"tokenize"}
        /\ GatedNext("bodies") \in Working \ {"tokenize"}
        /\ "send" \in Working \ {"tokenize"}
        /\ {"symbols", "members", "bodies"} \subseteq Stages \ {"tokenize"}
    BY DEF GatedNext, Working, Stages
  <2> QED
    BY <2>1 DEF CollectSymbols, PostCollect, Analyze
<1>2. pc \in Working \ {"tokenize"}
  BY <1>1 DEF Pass, Working
<1>3. /\ UNCHANGED <<requests, stdin, cur, unit, sourceMap, published>>
      /\ fileId' = unit
      /\ collected' = collected \cup Found(stage, fileId')
      /\ Proceed(stage, next)
  BY <1>1 DEF Pass
<1> QED
  BY <1>1, <1>2, <1>3, LaterStage

(* The text is not UTF-8: nothing was reported, and no entry made.         *)
LEMMA BadTextStep == ASSUME IInv, TokenizeBadText PROVE IInv'
<1>1. pc \in Working /\ pc' = "idle" /\ pc # "clear"
  BY DEF TokenizeBadText, Caught, Working, Stages
<1>2. UNCHANGED <<requests, stdin, cur, unit, fileId, collected, sourceMap, published>>
  BY DEF TokenizeBadText
<1>3. outcome' = [outcome EXCEPT ![cur] = "failed"] /\ "failed" \in Outcomes
  BY DEF TokenizeBadText, Caught, Disposed, Outcomes
<1>4. /\ outcome' \in Seq(Outcomes) /\ Len(outcome') = Len(outcome)
      /\ FramingInv' /\ \A m : Failed(m) => Failed(m)'
  BY <1>1, <1>2, <1>3, DisposingOfCurrent
<1>5. /\ outcome \in Seq(Outcomes) /\ cur \in 1..Len(outcome)
      /\ \A i \in 1..Len(stdin) : stdin[i].kind = "blank" => cur < stdin[i].msg
  BY <1>1 DEF IInv, TypesInv, CurrentInv
<1>6. Failed(cur)'
  BY <1>2, <1>3, <1>5 DEF Failed
<1>7. TypesInv'
  BY <1>1, <1>2, <1>4 DEF IInv, TypesInv
<1>8. CurrentInv' /\ UnitInv'
  BY <1>1 DEF CurrentInv, UnitInv, Working, Stages
<1>9. FileIdsValid'
  BY <1>1, <1>2 DEF IInv, FileIdsValid
<1>10. OwnersInv'
  BY <1>1, <1>2, <1>4, <1>5, <1>6 DEF IInv, OwnersInv, Working, Stages
<1>11. PublishedInv'
  BY <1>2, <1>4 DEF IInv, PublishedInv
<1> QED
  BY <1>4, <1>7, <1>8, <1>9, <1>10, <1>11 DEF IInv

(* What is published is what the collector holds.                          *)
LEMMA SendDiagnosticsStep == ASSUME IInv, SendDiagnostics PROVE IInv'
<1>1. pc = "send" /\ pc \in Working /\ pc' = "clear"
  BY DEF SendDiagnostics, Working
<1>2. /\ UNCHANGED <<requests, stdin, cur, unit, fileId, collected, sourceMap>>
      /\ published' = [to |-> cur, diags |-> collected]
  BY DEF SendDiagnostics
<1>3. outcome' = [outcome EXCEPT ![cur] = "published"] /\ "published" \in Outcomes
  BY DEF SendDiagnostics, Disposed, Outcomes
<1>4. /\ outcome' \in Seq(Outcomes) /\ Len(outcome') = Len(outcome)
      /\ FramingInv' /\ \A m : Failed(m) => Failed(m)'
  BY <1>1, <1>2, <1>3, DisposingOfCurrent
<1>5. TypesInv'
  BY <1>1, <1>2, <1>4 DEF IInv, TypesInv
<1>6. CurrentInv' /\ UnitInv' /\ FileIdsValid' /\ OwnersInv'
  BY <1>1 DEF CurrentInv, UnitInv, FileIdsValid, OwnersInv, Working, Stages
<1>7. PublishedInv'
  BY <1>1, <1>2, <1>4 DEF IInv, OwnersInv, PublishedInv
<1> QED
  BY <1>4, <1>5, <1>6, <1>7 DEF IInv

(* The collector and the map the ids point into are emptied together.      *)
LEMMA ClearStep == ASSUME IInv, Clear PROVE IInv'
<1>1. /\ pc' = "idle" /\ collected' = {} /\ sourceMap' = <<>>
      /\ UNCHANGED <<requests, stdin, outcome, published>>
  BY DEF Clear
<1>2. TypesInv'
  BY <1>1 DEF IInv, TypesInv
<1>3. FramingInv' /\ PublishedInv'
  BY <1>1 DEF IInv, FramingInv, PublishedInv, Failed
<1>4. CurrentInv' /\ UnitInv' /\ FileIdsValid' /\ OwnersInv'
  BY <1>1 DEF CurrentInv, UnitInv, FileIdsValid, OwnersInv, Working, Stages
<1> QED
  BY <1>2, <1>3, <1>4 DEF IInv

-----------------------------------------------------------------------------
(* Reading frames *)

(* What disposing of the message of the first frame leaves as it was.      *)
LEMMA DisposingOfNext ==
    ASSUME IInv, pc = "idle", Blanks # {},
           NEW k \in (BlockEnd + 1)..(Len(stdin) + 1), stdin' = From(k),
           NEW n, n = stdin[BlockEnd].msg,
           outcome' = outcome \/ \E how \in Outcomes : outcome' = [outcome EXCEPT ![n] = how]
    PROVE  /\ outcome' \in Seq(Outcomes) /\ Len(outcome') = Len(outcome)
           /\ stdin' \in Seq(Item) /\ FramingInv'
           /\ \A m : Failed(m) => Failed(m)'
           /\ n \in 1..Len(outcome) /\ outcome[n] = "waiting"
           /\ \A i \in 1..Len(stdin') : stdin'[i].kind = "blank" => n < stdin'[i].msg
           /\ \A b \in collected :
                \/ b.owner = 0
                \/ /\ Failed(b.owner)' /\ b.owner < n
                   /\ \A i \in 1..Len(stdin') : stdin'[i].kind = "blank" => b.owner < stdin'[i].msg
<1>1. BlockEnd \in 1..Len(stdin) /\ stdin[BlockEnd].kind = "blank" /\ Len(stdin) \in Nat
  BY BlockEndIsFirst DEF IInv, TypesInv
<1>2. outcome \in Seq(Outcomes) /\ n \in 1..Len(outcome) /\ outcome[n] = "waiting"
  BY <1>1 DEF IInv, TypesInv, FramingInv
<1>3. /\ outcome' \in Seq(Outcomes) /\ Len(outcome') = Len(outcome)
      /\ \A m \in 1..Len(outcome) : m # n => outcome'[m] = outcome[m]
  BY <1>2, ExceptSeq
<1>4. k \in 1..(Len(stdin) + 1) /\ k > BlockEnd
  BY <1>1
<1>5. ASSUME NEW i \in k..Len(stdin), stdin[i].kind = "blank"
      PROVE  n < stdin[i].msg /\ stdin[i].msg \in 1..Len(outcome) /\ outcome[stdin[i].msg] = "waiting"
  <2>1. i \in 1..Len(stdin) /\ BlockEnd < i
    BY <1>1, <1>4
  <2> QED
    BY <1>1, <1>5, <2>1 DEF IInv, FramingInv
<1>6. \A i \in k..Len(stdin) : stdin[i].kind = "blank" => outcome'[stdin[i].msg] = "waiting"
  BY <1>2, <1>3, <1>5
<1>7. FramingInv'
  BY <1>3, <1>4, <1>6, FramingKept
<1>8. /\ stdin' \in Seq(Item)
      /\ \A i \in 1..Len(stdin') : stdin'[i] = stdin[i + k - 1] /\ i + k - 1 \in k..Len(stdin)
  BY <1>4, FromShape DEF IInv
<1>9. \A m : Failed(m) => Failed(m)'
  BY <1>2, <1>3 DEF Failed
<1>10. \A i \in 1..Len(stdin') : stdin'[i].kind = "blank" => n < stdin'[i].msg
  BY <1>5, <1>8
<1>11. ASSUME NEW b \in collected, b.owner # 0
       PROVE  /\ Failed(b.owner)' /\ b.owner < n
              /\ \A i \in 1..Len(stdin') : stdin'[i].kind = "blank" => b.owner < stdin'[i].msg
  <2>1. Failed(b.owner) /\ \A i \in 1..Len(stdin) : stdin[i].kind = "blank" => b.owner < stdin[i].msg
    BY <1>11 DEF IInv, OwnersInv, Working, Stages
  <2>2. \A i \in k..Len(stdin) : i \in 1..Len(stdin)
    BY <1>1, <1>4
  <2>3. Failed(b.owner)'
    BY <1>9, <2>1
  <2>4. b.owner < n
    BY <1>1, <2>1
  <2>5. \A i \in 1..Len(stdin') : stdin'[i].kind = "blank" => b.owner < stdin'[i].msg
    BY <1>8, <2>1, <2>2
  <2> QED
    BY <2>3, <2>4, <2>5
<1> QED
  BY <1>2, <1>3, <1>7, <1>8, <1>9, <1>10, <1>11

LEMMA ReadMessageStep == ASSUME IInv, ReadMessage PROVE IInv'
<1> DEFINE n == stdin[BlockEnd + 1].msg
<1>1. /\ pc = "idle" /\ Blanks # {} /\ stdin' = From(BlockEnd + 2)
      /\ UNCHANGED <<requests, unit, fileId, collected, sourceMap, published>>
  BY DEF ReadMessage
<1>2. /\ BlockEnd \in 1..Len(stdin) /\ BlockEnd + 1 <= Len(stdin) /\ Len(stdin) \in Nat
      /\ n = stdin[BlockEnd].msg
  BY <1>1, BlockEndIsFirst DEF IInv, TypesInv, FramingInv
<1>3. BlockEnd + 2 \in (BlockEnd + 1)..(Len(stdin) + 1)
  BY <1>2
<1>4. {"answered", "ignored", "failed"} \subseteq Outcomes
  BY DEF Outcomes
<1>5. \/ pc' = "tokenize" /\ cur' = n /\ outcome' = outcome
      \/ /\ pc' = "idle"
         /\ \E how \in Outcomes : outcome' = [outcome EXCEPT ![n] = how]
  BY <1>1, <1>4 DEF ReadMessage, Disposed
<1> HIDE DEF n
<1>6. /\ outcome' \in Seq(Outcomes) /\ Len(outcome') = Len(outcome)
      /\ stdin' \in Seq(Item) /\ FramingInv'
      /\ \A m : Failed(m) => Failed(m)'
      /\ n \in 1..Len(outcome) /\ outcome[n] = "waiting"
      /\ \A i \in 1..Len(stdin') : stdin'[i].kind = "blank" => n < stdin'[i].msg
      /\ \A b \in collected :
            \/ b.owner = 0
            \/ /\ Failed(b.owner)' /\ b.owner < n
               /\ \A i \in 1..Len(stdin') : stdin'[i].kind = "blank" => b.owner < stdin'[i].msg
  BY <1>1, <1>2, <1>3, <1>5, DisposingOfNext
<1>7. pc' \in {"tokenize", "idle"} /\ pc' # "clear"
  BY <1>5
<1>8. TypesInv'
  BY <1>1, <1>6, <1>7 DEF IInv, TypesInv, Working, Stages
<1>9. CurrentInv'
  BY <1>5, <1>6 DEF CurrentInv, Working, Stages
<1>10. UnitInv'
  BY <1>7 DEF UnitInv, Working, Stages
<1>11. FileIdsValid'
  BY <1>1 DEF IInv, FileIdsValid
<1>12. OwnersInv'
  BY <1>1, <1>5, <1>6 DEF OwnersInv, Working, Stages
<1>13. PublishedInv'
  BY <1>1, <1>6 DEF IInv, PublishedInv
<1> QED
  BY <1>6, <1>8, <1>9, <1>10, <1>11, <1>12, <1>13 DEF IInv

LEMMA RefuseFrameStep == ASSUME IInv, RefuseFrame PROVE IInv'
<1> DEFINE n == stdin[BlockEnd].msg
<1>1. /\ pc = "idle" /\ Blanks # {} /\ stdin' = From(BlockEnd + 1)
      /\ UNCHANGED <<requests, server>>
  BY DEF RefuseFrame
<1>2. BlockEnd + 1 \in (BlockEnd + 1)..(Len(stdin) + 1)
  BY <1>1, BlockEndIsFirst DEF IInv, TypesInv
<1>3. \E how \in Outcomes : outcome' = [outcome EXCEPT ![n] = how]
  BY DEF RefuseFrame, Disposed, Outcomes
<1>4. /\ outcome' \in Seq(Outcomes) /\ Len(outcome') = Len(outcome)
      /\ stdin' \in Seq(Item) /\ FramingInv'
      /\ \A m : Failed(m) => Failed(m)'
      /\ \A b \in collected :
            \/ b.owner = 0
            \/ /\ Failed(b.owner)' /\ b.owner < n
               /\ \A i \in 1..Len(stdin') : stdin'[i].kind = "blank" => b.owner < stdin'[i].msg
  BY <1>1, <1>2, <1>3, DisposingOfNext
<1>5. TypesInv'
  BY <1>1, <1>4 DEF IInv, TypesInv, server
<1>6. CurrentInv' /\ UnitInv'
  BY <1>1 DEF CurrentInv, UnitInv, Working, Stages, server
<1>7. FileIdsValid'
  BY <1>1 DEF IInv, FileIdsValid, server
<1>8. OwnersInv'
  BY <1>1, <1>4 DEF OwnersInv, Working, Stages, server
<1>9. PublishedInv'
  BY <1>1, <1>4 DEF IInv, PublishedInv, server
<1> QED
  BY <1>4, <1>5, <1>6, <1>7, <1>8, <1>9 DEF IInv

LEMMA ReadEndStep == ASSUME IInv, ReadEnd PROVE IInv'
<1>1. /\ pc = "idle" /\ stdin' = <<>> /\ stdin' \in Seq(Item) /\ Len(stdin') = 0
      /\ UNCHANGED <<requests, outcome, server>>
  BY DEF ReadEnd
<1>2. TypesInv'
  BY <1>1 DEF IInv, TypesInv, server
<1>3. FramingInv' /\ CurrentInv' /\ UnitInv'
  BY <1>1 DEF FramingInv, CurrentInv, UnitInv, Working, Stages, server
<1>4. FileIdsValid' /\ PublishedInv'
  BY <1>1 DEF IInv, FileIdsValid, PublishedInv, Failed, server
<1>5. OwnersInv'
  BY <1>1 DEF IInv, OwnersInv, Failed, Working, Stages, server
<1> QED
  BY <1>2, <1>3, <1>4, <1>5 DEF IInv

-----------------------------------------------------------------------------
(* The client *)

(* A frame is appended to what is unread, and its message is the youngest. *)
LEMMA SendStep ==
    ASSUME IInv, NEW headers \in HeaderBlocks, NEW method \in Methods, NEW doc \in Docs,
           Send(headers, method, doc)
    PROVE  IInv'
<1>0. PICK n : n = Len(requests) + 1
  OBVIOUS
<1>f. PICK frame : frame = Frame(headers, n)
  OBVIOUS
<1>1. /\ requests \in Seq([headers: HeaderBlocks, method: Methods, doc: Docs])
      /\ stdin \in Seq(Item) /\ outcome \in Seq(Outcomes) /\ Len(outcome) = Len(requests)
      /\ Len(stdin) \in Nat /\ Len(outcome) \in Nat /\ n \in Nat /\ n = Len(outcome) + 1
  BY <1>0 DEF IInv, TypesInv
<1>2. /\ stdin' = stdin \o frame /\ outcome' = Append(outcome, "waiting")
      /\ requests' = Append(requests, [headers |-> headers, method |-> method, doc |-> doc])
      /\ UNCHANGED server
  BY <1>0, <1>f DEF Send
<1>3. Len(headers) \in Nat
  BY HeadersAssumption
<1>4. /\ frame \in Seq(Item) /\ Len(frame) = Len(headers) + 2
      /\ \A i \in 1..Len(headers) : frame[i].kind # "blank" /\ frame[i].msg = n
      /\ frame[Len(headers) + 1] = [kind |-> "blank", msg |-> n]
      /\ frame[Len(headers) + 2] = [kind |-> "body", msg |-> n]
  BY <1>1, <1>f, FrameShape
<1>5. /\ outcome' \in Seq(Outcomes) /\ Len(outcome') = Len(outcome) + 1
      /\ \A m \in 1..Len(outcome) : outcome'[m] = outcome[m]
      /\ outcome'[n] = "waiting" /\ "waiting" \in Outcomes
  <2>1. "waiting" \in Outcomes
    BY DEF Outcomes
  <2> QED
    BY <1>1, <1>2, <2>1, AppendProperties
<1>6. /\ requests' \in Seq([headers: HeaderBlocks, method: Methods, doc: Docs])
      /\ Len(requests') = Len(requests) + 1
  BY <1>1, <1>2, AppendProperties
<1>7. /\ stdin' \in Seq(Item) /\ Len(stdin') = Len(stdin) + Len(frame)
      /\ \A i \in 1..(Len(stdin) + Len(frame)) :
             stdin'[i] = IF i <= Len(stdin) THEN stdin[i] ELSE frame[i - Len(stdin)]
  <2>1. stdin \in Seq(Item) /\ frame \in Seq(Item)
    BY <1>1, <1>4
  <2>2. /\ stdin \o frame \in Seq(Item) /\ Len(stdin \o frame) = Len(stdin) + Len(frame)
        /\ \A i \in 1..(Len(stdin) + Len(frame)) :
             (stdin \o frame)[i] = IF i <= Len(stdin) THEN stdin[i] ELSE frame[i - Len(stdin)]
    BY <2>1, ItemsConcatenated
  <2>3. stdin' = stdin \o frame
    BY <1>2
  <2> QED
    BY <2>2, <2>3
<1>8. \A i \in 1..Len(stdin) : i \in 1..Len(stdin') /\ stdin'[i] = stdin[i]
  BY <1>1, <1>3, <1>4, <1>7
<1>9. ASSUME NEW i \in 1..Len(stdin'), i \notin 1..Len(stdin)
      PROVE  stdin'[i].msg = n /\ (stdin'[i].kind = "blank" => i = Len(stdin) + Len(headers) + 1)
  <2>1. stdin'[i] = frame[i - Len(stdin)] /\ i - Len(stdin) \in 1..(Len(headers) + 2)
    BY <1>1, <1>3, <1>4, <1>7, <1>9
  <2>2. CASE i - Len(stdin) \in 1..Len(headers)
    BY <1>4, <2>1, <2>2
  <2>3. CASE i - Len(stdin) = Len(headers) + 1
    BY <1>1, <1>3, <1>4, <2>1, <2>3
  <2>4. CASE i - Len(stdin) = Len(headers) + 2
    BY <1>4, <2>1, <2>4
  <2> QED
    BY <1>1, <1>3, <2>1, <2>2, <2>3, <2>4
<1>10. LET b == Len(stdin) + Len(headers) + 1
       IN  b + 1 <= Len(stdin') /\ stdin'[b + 1].kind = "body" /\ stdin'[b + 1].msg = n
  BY <1>1, <1>3, <1>4, <1>7
<1>11. FramingInv'
  <2>1. ASSUME NEW i \in 1..Len(stdin')
        PROVE  stdin'[i].msg \in 1..Len(outcome')
    <3>1. CASE i \in 1..Len(stdin)
      BY <1>1, <1>5, <1>8, <3>1 DEF IInv, FramingInv
    <3>2. CASE i \notin 1..Len(stdin)
      BY <1>1, <1>5, <1>9, <3>2
    <3> QED
      BY <3>1, <3>2
  <2>2. ASSUME NEW i \in 1..Len(stdin'), stdin'[i].kind = "blank"
        PROVE  /\ i + 1 <= Len(stdin') /\ stdin'[i + 1].kind = "body"
               /\ stdin'[i + 1].msg = stdin'[i].msg /\ outcome'[stdin'[i].msg] = "waiting"
    <3>1. CASE i \in 1..Len(stdin)
      <4>1. /\ i + 1 \in 1..Len(stdin) /\ stdin[i + 1].kind = "body"
            /\ stdin[i + 1].msg = stdin[i].msg /\ outcome[stdin[i].msg] = "waiting"
            /\ stdin[i].msg \in 1..Len(outcome)
        <5>1. stdin[i].kind = "blank"
          BY <1>8, <2>2, <3>1
        <5>2. /\ i + 1 <= Len(stdin) /\ stdin[i + 1].kind = "body"
              /\ stdin[i + 1].msg = stdin[i].msg /\ outcome[stdin[i].msg] = "waiting"
              /\ stdin[i].msg \in 1..Len(outcome)
          BY <3>1, <5>1 DEF IInv, FramingInv
        <5> QED
          BY <1>1, <3>1, <5>2
      <4>2. stdin'[i + 1] = stdin[i + 1] /\ stdin'[i] = stdin[i] /\ i + 1 \in 1..Len(stdin')
        BY <1>8, <3>1, <4>1
      <4> QED
        BY <1>5, <4>1, <4>2
    <3>2. CASE i \notin 1..Len(stdin)
      BY <1>5, <1>9, <1>10, <2>2, <3>2
    <3> QED
      BY <3>1, <3>2
  <2>3. ASSUME NEW i \in 1..Len(stdin'), NEW j \in 1..Len(stdin'),
               i < j, stdin'[i].kind = "blank", stdin'[j].kind = "blank"
        PROVE  stdin'[i].msg < stdin'[j].msg
    <3>1. CASE j \in 1..Len(stdin)
      <4>1. i \in 1..Len(stdin) /\ stdin'[i] = stdin[i] /\ stdin'[j] = stdin[j]
        BY <1>1, <1>8, <2>3, <3>1
      <4> QED
        BY <2>3, <3>1, <4>1 DEF IInv, FramingInv
    <3>2. CASE j \notin 1..Len(stdin) /\ i \in 1..Len(stdin)
      BY <1>1, <1>8, <1>9, <2>3, <3>2 DEF IInv, FramingInv
    <3>3. CASE j \notin 1..Len(stdin) /\ i \notin 1..Len(stdin)
      BY <1>1, <1>3, <1>9, <2>3, <3>3
    <3> QED
      BY <3>1, <3>2, <3>3
  <2> QED
    BY <2>1, <2>2, <2>3 DEF FramingInv
<1>12. \A m : Failed(m) => Failed(m)' /\ m < n
  BY <1>1, <1>5 DEF Failed
<1>13. TypesInv'
  BY <1>1, <1>2, <1>5, <1>6, <1>7 DEF IInv, TypesInv, server
<1>14. CurrentInv'
  <2> SUFFICES ASSUME pc \in Working
               PROVE  /\ cur \in 1..Len(outcome') /\ outcome'[cur] = "waiting"
                      /\ \A i \in 1..Len(stdin') : stdin'[i].kind = "blank" => cur < stdin'[i].msg
    BY <1>2 DEF CurrentInv, server
  <2>1. /\ cur \in 1..Len(outcome) /\ outcome[cur] = "waiting"
        /\ \A i \in 1..Len(stdin) : stdin[i].kind = "blank" => cur < stdin[i].msg
    BY DEF IInv, CurrentInv
  <2>2. cur \in 1..Len(outcome') /\ outcome'[cur] = "waiting" /\ cur < n
    BY <1>1, <1>5, <2>1
  <2>3. ASSUME NEW i \in 1..Len(stdin'), stdin'[i].kind = "blank"
        PROVE  cur < stdin'[i].msg
    <3>1. CASE i \in 1..Len(stdin)
      BY <1>8, <2>1, <2>3, <3>1
    <3>2. CASE i \notin 1..Len(stdin)
      BY <1>9, <2>2, <3>2
    <3> QED
      BY <3>1, <3>2
  <2> QED
    BY <2>2, <2>3
<1>15. UnitInv' /\ FileIdsValid'
  BY <1>2 DEF IInv, UnitInv, FileIdsValid, server
<1>16. OwnersInv'
  BY <1>2, <1>8, <1>9, <1>12 DEF IInv, OwnersInv, server
<1>17. PublishedInv'
  BY <1>2, <1>12 DEF IInv, PublishedInv, server
<1> QED
  BY <1>11, <1>13, <1>14, <1>15, <1>16, <1>17 DEF IInv

(* Steps that touch nothing the invariant speaks of.                       *)
LEMMA IdleStep ==
    ASSUME IInv, UNCHANGED <<requests, stdin, outcome, server>>
    PROVE  IInv'
BY DEF IInv, TypesInv, FramingInv, CurrentInv, UnitInv, FileIdsValid, OwnersInv,
       PublishedInv, Failed, server

-----------------------------------------------------------------------------
(* The theorems *)

LEMMA InitIInv == ASSUME Init PROVE IInv
<1>1. TypesInv
  BY DEF Init, TypesInv
<1>2. FramingInv /\ CurrentInv /\ UnitInv /\ PublishedInv
  BY DEF Init, FramingInv, CurrentInv, UnitInv, PublishedInv, Working, Stages
<1>3. FileIdsValid /\ OwnersInv
  BY DEF Init, FileIdsValid, OwnersInv
<1> QED
  BY <1>1, <1>2, <1>3 DEF IInv

LEMMA NextIInv == ASSUME IInv, [Next]_vars PROVE IInv'
<1>1. CASE Client
  <2>1. ASSUME NEW headers \in HeaderBlocks, NEW doc \in Docs, Send(headers, "document", doc)
        PROVE  IInv'
    BY <2>1, SendStep DEF Methods
  <2>2. ASSUME NEW headers \in HeaderBlocks, NEW method \in Methods \ {"document"},
               Send(headers, method, CHOOSE doc \in Docs : TRUE)
        PROVE  IInv'
    BY <2>2, DocsAssumption, SendStep
  <2>3. CASE Close
    BY <2>3, IdleStep DEF Close
  <2> QED
    BY <1>1, <2>1, <2>2, <2>3 DEF Client
<1>2. CASE Server
  BY <1>2, ReadMessageStep, RefuseFrameStep, ReadEndStep, BadTextStep, TokenizeStep, ParseStep,
     PassStep, SendDiagnosticsStep, ClearStep DEF Server
<1>3. CASE Ended \/ UNCHANGED vars
  BY <1>3, IdleStep DEF Ended, vars, server
<1> QED
  BY <1>1, <1>2, <1>3 DEF Next

THEOREM Invariance == Spec => []IInv
<1>1. Init => IInv
  BY InitIInv
<1>2. IInv /\ [Next]_vars => IInv'
  BY NextIInv
<1> QED
  BY <1>1, <1>2, PTL DEF Spec

(* token_to_lsp_end's .at(file_id) never throws and reads the entry of the *)
(* document the diagnostic is about.                                       *)
THEOREM FileIds == Spec => []FileIdsValid
<1>1. IInv => FileIdsValid
  BY DEF IInv
<1> QED
  BY <1>1, Invariance, PTL

(* A report repeats the diagnostics of failed requests only.               *)
THEOREM ForeignCaused == Spec => []ForeignHasCause
<1>1. IInv => ForeignHasCause
  BY DEF IInv, PublishedInv, ForeignHasCause, Failed
<1> QED
  BY <1>1, Invariance, PTL

-----------------------------------------------------------------------------
(* For every set of documents and any number of messages: a report with no *)
(* error of another request is what the compiler says of the document      *)
(* alone (CompleteReport).  The gates of analyze_asts ask the collector,   *)
(* not the document; the proof shows where the two agree: a gate that is   *)
(* passed saw no error at all, one that is not saw an error, which is the  *)
(* document's own unless the report shows a foreign one.                   *)

Diags(bs) == {b.diag : b \in bs}

First(doc)  == doc.finds["tokenize"] \cup doc.finds["parse"] \cup doc.finds["symbols"]
Second(doc) == First(doc) \cup doc.finds["members"]

(* No error in the collector is of another request. *)
Quiet == \A b \in collected : b.owner # cur => b.diag \in Warnings

(* What the collector holds of the current document, by stage. *)
ReportInv ==
    LET own == Diags(Own(cur))
        doc == Doing(cur)
    IN  /\ pc = "tokenize" => own = {}
        /\ pc = "parse" => own = doc.finds["tokenize"]
        /\ pc = "symbols" => own = doc.finds["tokenize"] \cup doc.finds["parse"]
        /\ pc = "members" => own = First(doc) /\ ~HasErrors
        /\ pc = "bodies" => own = Second(doc) /\ ~HasErrors
        /\ pc = "send" => (Quiet => own = Expected(doc))

(* Reports answer messages that were sent. *)
AnswerInv == published.to \in 0..Len(requests) /\ CompleteReport

RInv == ReportInv /\ AnswerInv

-----------------------------------------------------------------------------
(* What a document is expected to say, gate by gate. *)
LEMMA ExpectedIs ==
    ASSUME NEW doc
    PROVE  /\ Errs(First(doc)) => Expected(doc) = First(doc)
           /\ (~Errs(First(doc)) /\ Errs(Second(doc))) => Expected(doc) = Second(doc)
           /\ ~Errs(Second(doc)) => Expected(doc) = Second(doc) \cup doc.finds["bodies"]
BY DEF Expected, First, Second, Errs

(* A stage adds what it finds to what is known of the document. *)
LEMMA StageAdds ==
    ASSUME NEW stage, NEW file, cur' = cur, requests' = requests,
           collected' = collected \cup Found(stage, file)
    PROVE  /\ Diags(Own(cur))' = Diags(Own(cur)) \cup Doing(cur).finds[stage]
           /\ Doing(cur)' = Doing(cur)
<1>1. Own(cur)' = Own(cur) \cup Found(stage, file)
  <2>1. \A b \in Found(stage, file) : b.owner = cur
    BY FoundIsOwn
  <2> QED
    BY <2>1 DEF Own
<1>2. {b.diag : b \in Found(stage, file)} = Doing(cur).finds[stage]
  <2>1. \A d \in Doing(cur).finds[stage] :
            /\ [diag |-> d, owner |-> cur, file |-> file] \in Found(stage, file)
            /\ [diag |-> d, owner |-> cur, file |-> file].diag = d
    BY DEF Found
  <2>2. \A b \in Found(stage, file) : b.diag \in Doing(cur).finds[stage]
    BY DEF Found
  <2> QED
    BY <2>1, <2>2
<1>3. Diags(Own(cur))' = {b.diag : b \in Own(cur)'}
  BY DEF Diags
<1>4. {b.diag : b \in Own(cur) \cup Found(stage, file)}
          = {b.diag : b \in Own(cur)} \cup {b.diag : b \in Found(stage, file)}
  OBVIOUS
<1> QED
  BY <1>1, <1>2, <1>3, <1>4 DEF Diags, Doing

(* An error is the document's own or a foreign one. *)
LEMMA WhoseErrors ==
    /\ Errs(Diags(Own(cur))) => HasErrors
    /\ (HasErrors /\ Quiet) => Errs(Diags(Own(cur)))
BY DEF Errs, Diags, Own, HasErrors, Quiet

(* A step that neither reports nor sends keeps the reports complete. *)
LEMMA AnswerKept ==
    ASSUME IInv, RInv, published' = published, requests' = requests
    PROVE  AnswerInv'
BY DEF RInv, AnswerInv, CompleteReport, Doing

-----------------------------------------------------------------------------
(* The stages *)

LEMMA TokenizeReports == ASSUME IInv, RInv, Tokenize PROVE RInv'
<1>1. /\ pc = "tokenize" /\ pc' = "parse" /\ UNCHANGED <<requests, cur, published>>
      /\ collected' = collected \cup Found("tokenize", fileId')
  BY DEF Tokenize
<1>2. Diags(Own(cur))' = Doing(cur)'.finds["tokenize"]
  BY <1>1, StageAdds DEF RInv, ReportInv
<1> QED
  BY <1>1, <1>2, AnswerKept DEF RInv, ReportInv

LEMMA ParseReports == ASSUME IInv, RInv, Parse PROVE RInv'
<1>1. /\ pc = "parse" /\ pc' \in {"symbols", "idle", "ended"} /\ UNCHANGED <<requests, cur, published>>
      /\ collected' = collected \cup Found("parse", fileId)
  BY DEF Parse, Proceed, Caught, ProcessEnds
<1>2. Diags(Own(cur))' = Doing(cur)'.finds["tokenize"] \cup Doing(cur)'.finds["parse"]
  BY <1>1, StageAdds DEF RInv, ReportInv
<1> QED
  BY <1>1, <1>2, AnswerKept DEF RInv, ReportInv

LEMMA SymbolsReport == ASSUME IInv, RInv, CollectSymbols PROVE RInv'
<1>0. /\ pc = "symbols" /\ UNCHANGED <<requests, cur, published>>
      /\ collected' = collected \cup Found("symbols", fileId')
      /\ pc' \in {"idle", "ended"} \/ pc' = GatedNext("members")
  BY DEF CollectSymbols, Pass, Proceed, Caught, ProcessEnds
<1>1. /\ pc = "symbols" /\ UNCHANGED <<requests, cur, published>>
      /\ collected' = collected \cup Found("symbols", fileId')
      /\ \/ pc' \in {"idle", "ended"}
         \/ pc' = "send" /\ HasErrors'
         \/ pc' = "members" /\ ~HasErrors'
  BY <1>0 DEF GatedNext
<1>2. Diags(Own(cur))' = First(Doing(cur)')
  BY <1>1, StageAdds DEF RInv, ReportInv, First
<1>3. (HasErrors' /\ Quiet') => Diags(Own(cur))' = Expected(Doing(cur)')
  <2>1. (HasErrors' /\ Quiet') => Errs(Diags(Own(cur))')
    BY DEF Errs, Diags, Own, HasErrors, Quiet
  <2> QED
    BY <1>2, <2>1, ExpectedIs
<1> QED
  BY <1>1, <1>2, <1>3, AnswerKept DEF RInv, ReportInv, Expected

LEMMA MembersReport == ASSUME IInv, RInv, PostCollect PROVE RInv'
<1>0. /\ pc = "members" /\ UNCHANGED <<requests, cur, published>>
      /\ collected' = collected \cup Found("members", fileId')
      /\ pc' \in {"idle", "ended"} \/ pc' = GatedNext("bodies")
  BY DEF PostCollect, Pass, Proceed, Caught, ProcessEnds
<1>1. /\ pc = "members" /\ UNCHANGED <<requests, cur, published>>
      /\ collected' = collected \cup Found("members", fileId')
      /\ \/ pc' \in {"idle", "ended"}
         \/ pc' = "send" /\ HasErrors'
         \/ pc' = "bodies" /\ ~HasErrors'
  BY <1>0 DEF GatedNext
<1>2. Doing(cur)' = Doing(cur) /\ Diags(Own(cur))' = Second(Doing(cur)')
  BY <1>1, StageAdds DEF RInv, ReportInv, Second
<1>3. ~Errs(First(Doing(cur)'))
  BY <1>1, <1>2, WhoseErrors DEF RInv, ReportInv
<1>4. (HasErrors' /\ Quiet') => Diags(Own(cur))' = Expected(Doing(cur)')
  <2>1. (HasErrors' /\ Quiet') => Errs(Diags(Own(cur))')
    BY DEF Errs, Diags, Own, HasErrors, Quiet
  <2> QED
    BY <1>2, <1>3, <2>1, ExpectedIs
<1> QED
  BY <1>1, <1>2, <1>4, AnswerKept DEF RInv, ReportInv, Expected

LEMMA BodiesReport == ASSUME IInv, RInv, Analyze PROVE RInv'
<1>1. /\ pc = "bodies" /\ UNCHANGED <<requests, cur, published>>
      /\ collected' = collected \cup Found("bodies", fileId')
      /\ pc' \in {"idle", "ended", "send"}
  BY DEF Analyze, Pass, Proceed, Caught, ProcessEnds
<1>2. /\ Doing(cur)' = Doing(cur)
      /\ Diags(Own(cur))' = Second(Doing(cur)') \cup Doing(cur)'.finds["bodies"]
  BY <1>1, StageAdds DEF RInv, ReportInv
<1>3. ~Errs(Second(Doing(cur)'))
  BY <1>1, <1>2, WhoseErrors DEF RInv, ReportInv
<1>4. Diags(Own(cur))' = Expected(Doing(cur)')
  BY <1>2, <1>3, ExpectedIs
<1> QED
  BY <1>1, <1>4, AnswerKept DEF RInv, ReportInv, Expected

(* What is sent is what the collector holds. *)
LEMMA SendingReports == ASSUME IInv, RInv, SendDiagnostics PROVE RInv'
<1>1. /\ pc = "send" /\ pc' = "clear" /\ published' = [to |-> cur, diags |-> collected]
      /\ UNCHANGED <<requests, cur>>
  BY DEF SendDiagnostics
<1>2. cur \in 1..Len(requests)
  BY <1>1 DEF IInv, CurrentInv, TypesInv, Working
<1>3. CompleteReport'
  <2> SUFFICES ASSUME ~Errs({b.diag : b \in {x \in collected : x.owner # cur}})
               PROVE  {b.diag : b \in collected \ {x \in collected : x.owner # cur}}
                          = Expected(Doing(cur))
    BY <1>1 DEF CompleteReport, Doing, Errs, Expected
  <2>1. Quiet
    BY DEF Quiet, Errs
  <2>2. {b.diag : b \in collected \ {x \in collected : x.owner # cur}} = Diags(Own(cur))
    BY DEF Diags, Own
  <2> QED
    BY <1>1, <2>1, <2>2 DEF RInv, ReportInv
<1> QED
  BY <1>1, <1>2, <1>3 DEF RInv, ReportInv, AnswerInv

-----------------------------------------------------------------------------
(* The other steps *)

LEMMA ReadingReports == ASSUME IInv, RInv, ReadMessage PROVE RInv'
<1> DEFINE n == stdin[BlockEnd + 1].msg
<1>1. /\ pc = "idle" /\ Blanks # {} /\ UNCHANGED <<requests, collected, published>>
      /\ pc' \in {"idle", "tokenize"} /\ (pc' = "tokenize" => cur' = n)
  BY DEF ReadMessage
<1>2. BlockEnd \in 1..Len(stdin) /\ stdin[BlockEnd].kind = "blank"
  BY <1>1, BlockEndIsFirst DEF IInv
<1>3. n = stdin[BlockEnd].msg /\ n \in 1..Len(outcome) /\ outcome[n] = "waiting"
  BY <1>2 DEF IInv, FramingInv
<1>4. \A b \in collected : b.owner # n
  BY <1>1, <1>3 DEF IInv, OwnersInv, Failed, Working, Stages
<1>5. pc' = "tokenize" => Diags(Own(cur))' = {}
  BY <1>1, <1>4 DEF Diags, Own
<1> QED
  BY <1>1, <1>5, AnswerKept DEF RInv, ReportInv

LEMMA SilentReports ==
    ASSUME IInv, RInv, UNCHANGED <<requests, published>>,
           pc' \notin Working \/ UNCHANGED <<pc, cur, collected>>
    PROVE  RInv'
<1>1. CASE pc' \notin Working
  BY <1>1, AnswerKept DEF RInv, ReportInv, Working, Stages
<1>2. CASE UNCHANGED <<pc, cur, collected>>
  <2>1. ReportInv'
    BY <1>2 DEF RInv, ReportInv, Diags, Own, Doing, HasErrors, Quiet, Expected
  <2> QED
    BY <2>1, AnswerKept DEF RInv
<1> QED
  BY <1>1, <1>2

(* A message that is sent leaves those before it as they are. *)
LEMMA ClientReports ==
    ASSUME IInv, RInv, NEW headers \in HeaderBlocks, NEW method \in Methods, NEW doc \in Docs,
           Send(headers, method, doc)
    PROVE  RInv'
<1>1. /\ requests \in Seq([headers: HeaderBlocks, method: Methods, doc: Docs])
      /\ requests' = Append(requests, [headers |-> headers, method |-> method, doc |-> doc])
      /\ UNCHANGED server
  BY DEF Send, IInv, TypesInv
<1>2. /\ Len(requests') = Len(requests) + 1 /\ Len(requests) \in Nat
      /\ \A n \in 1..Len(requests) : requests'[n] = requests[n]
  BY <1>1, AppendProperties
<1>3. AnswerInv'
  <2>1. published' = published /\ published.to \in 0..Len(requests)
    BY <1>1 DEF server, RInv, AnswerInv
  <2>2. published.to > 0 => requests'[published.to] = requests[published.to]
    BY <1>2, <2>1
  <2>3. CompleteReport'
    BY <2>1, <2>2 DEF RInv, AnswerInv, CompleteReport, Doing
  <2> QED
    BY <1>2, <2>1, <2>3 DEF AnswerInv
<1>4. ReportInv'
  <2>1. CASE pc \in Working
    <3>1. cur \in 1..Len(requests)
      BY <2>1 DEF IInv, CurrentInv, TypesInv
    <3>2. Doing(cur)' = Doing(cur)
      BY <1>1, <1>2, <3>1 DEF Doing, server
    <3>3. UNCHANGED <<pc, cur, collected>>
      BY <1>1 DEF server
    <3> QED
      BY <3>2, <3>3 DEF RInv, ReportInv, Diags, Own, HasErrors, Quiet, Expected
  <2>2. CASE pc \notin Working
    BY <1>1, <2>2 DEF ReportInv, Working, Stages, server
  <2> QED
    BY <2>1, <2>2
<1> QED
  BY <1>3, <1>4 DEF RInv

-----------------------------------------------------------------------------
(* What is published of a document is the compiler's whole verdict on it,   *)
(* unless the report also shows an error of another request.                *)
THEOREM ReportsComplete == Spec => []CompleteReport
<1>1. Init => RInv
  BY DEF Init, RInv, ReportInv, AnswerInv, CompleteReport
<1>2. IInv /\ RInv /\ [Next]_vars => RInv'
  <2> SUFFICES ASSUME IInv, RInv, [Next]_vars PROVE RInv'
    OBVIOUS
  <2>1. CASE Client
    <3>1. ASSUME NEW headers \in HeaderBlocks, NEW doc \in Docs, Send(headers, "document", doc)
          PROVE  RInv'
      BY <3>1, ClientReports DEF Methods
    <3>2. ASSUME NEW headers \in HeaderBlocks, NEW method \in Methods \ {"document"},
                 Send(headers, method, CHOOSE doc \in Docs : TRUE)
          PROVE  RInv'
      BY <3>2, DocsAssumption, ClientReports
    <3>3. CASE Close
      BY <3>3, SilentReports DEF Close, server
    <3> QED
      BY <2>1, <3>1, <3>2, <3>3 DEF Client
  <2>2. CASE RefuseFrame \/ ReadEnd
    BY <2>2, SilentReports DEF RefuseFrame, ReadEnd, server
  <2>3. CASE TokenizeBadText \/ Clear
    BY <2>3, SilentReports DEF TokenizeBadText, Caught, Clear, Working, Stages
  <2>4. CASE Ended \/ UNCHANGED vars
    BY <2>4, SilentReports DEF Ended, vars, server
  <2> QED
    BY <2>1, <2>2, <2>3, <2>4, ReadingReports, TokenizeReports, ParseReports, SymbolsReport,
       MembersReport, BodiesReport, SendingReports DEF Next, Server
<1>3. RInv => CompleteReport
  BY DEF RInv, AnswerInv
<1> QED
  BY <1>1, <1>2, <1>3, Invariance, PTL DEF Spec

=============================================================================
