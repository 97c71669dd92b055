------------------------ MODULE ConstantPoolProofs ------------------------
(***************************************************************************)
(* What goc_constant and the two walks guarantee for every tree and every  *)
(* order of evaluation, for class files of any size.                       *)
(*                                                                         *)
(* Entries never overlap and keep the index that was given out.            *)
(* Everything goc_* does is a composition of Add, so this is proved of Add *)
(* first.  Then, by what a list of tasks may hold: the references of a     *)
(* class file that is written resolve, a load names the constant of its    *)
(* node, and the second walk finds what it asks for at every node that the *)
(* first one has a way to.                                                 *)
(***************************************************************************)
EXTENDS ConstantPool, FiniteSetTheorems, SequenceTheorems, TLAPS

Good(p) ==
    /\ p.index \in Nat \ {0}
    /\ \A e \in DOMAIN p.slot : p.slot[e] \in Nat \ {0}
    /\ DisjointSlots(p)

(* The entries of p are in q, under the same index. *)
Kept(p, q) == \A e \in DOMAIN p.slot : e \in DOMAIN q.slot /\ q.slot[e] = p.slot[e]

(* Keeping is transitive: goc_* methods call each other. *)
LEMMA KeptTransitive ==
    ASSUME NEW p, NEW q, NEW r, Kept(p, q), Kept(q, r)
    PROVE  Kept(p, r)
BY DEF Kept

(* Get or create keeps the pool good and what is in it, and the entry is   *)
(* there afterwards.                                                       *)
LEMMA AddGood ==
    ASSUME NEW p, NEW e, Good(p)
    PROVE  Good(Add(p, e)) /\ Kept(p, Add(p, e)) /\ e \in DOMAIN Add(p, e).slot
<1>1. CASE e \in DOMAIN p.slot
  BY <1>1 DEF Add, Kept
<1>2. CASE e \notin DOMAIN p.slot
  <2> PICK q : q = Add(p, e)
    OBVIOUS
  <2>1. /\ DOMAIN q.slot = DOMAIN p.slot \cup {e}
        /\ \A f \in DOMAIN p.slot : q.slot[f] = p.slot[f]
        /\ q.slot[e] = p.index
        /\ q.index = p.index + Slots(e)
    BY <1>2 DEF Add
  <2>2. Slots(e) \in {1, 2} /\ \A f : Slots(f) \in {1, 2}
    BY DEF Slots
  <2>3. Kept(p, q) /\ e \in DOMAIN q.slot
    BY <2>1 DEF Kept
  <2>4. q.index \in Nat \ {0} /\ \A f \in DOMAIN q.slot : q.slot[f] \in Nat \ {0}
    BY <2>1, <2>2 DEF Good
  <2>5. \A f \in DOMAIN q.slot : 1 <= q.slot[f] /\ q.slot[f] + Slots(f) <= q.index
    <3> TAKE f \in DOMAIN q.slot
    <3>1. CASE f = e
      BY <3>1, <2>1, <2>2 DEF Good
    <3>2. CASE f # e
      BY <3>2, <2>1, <2>2 DEF Good, DisjointSlots
    <3> QED
      BY <3>1, <3>2
  <2>6. \A f, g \in DOMAIN q.slot :
            \/ f = g
            \/ q.slot[f] + Slots(f) <= q.slot[g]
            \/ q.slot[g] + Slots(g) <= q.slot[f]
    <3> TAKE f, g \in DOMAIN q.slot
    <3>1. CASE f # e /\ g # e
      BY <3>1, <2>1 DEF Good, DisjointSlots
    <3>2. CASE f = e /\ g # e
      BY <3>2, <2>1 DEF Good, DisjointSlots
    <3>3. CASE f # e /\ g = e
      BY <3>3, <2>1 DEF Good, DisjointSlots
    <3> QED
      BY <3>1, <3>2, <3>3
  <2> QED
    BY <2>3, <2>4, <2>5, <2>6 DEF Good, DisjointSlots
<1> QED
  BY <1>1, <1>2

(* goc_class_info and goc_string_info: the entry refers to its text by the *)
(* index the text has.                                                     *)
LEMMA NamedGood ==
    ASSUME NEW p, NEW tag, NEW t, Good(p)
    PROVE  LET q == AddNamed(p, tag, t)
           IN  /\ Good(q) /\ Kept(p, q)
               /\ TextOf(t) \in DOMAIN q.slot /\ NamedOf(q, tag, t) \in DOMAIN q.slot
<1> PICK q : q = Add(p, TextOf(t))
  OBVIOUS
<1> PICK r : r = Add(q, NamedOf(q, tag, t))
  OBVIOUS
<1>1. r = AddNamed(p, tag, t)
  BY DEF AddNamed
<1>2. Good(q) /\ Kept(p, q) /\ TextOf(t) \in DOMAIN q.slot
  BY AddGood
<1>3. Good(r) /\ Kept(q, r) /\ NamedOf(q, tag, t) \in DOMAIN r.slot
  BY <1>2, AddGood
<1>4. NamedOf(r, tag, t) = NamedOf(q, tag, t)
  BY <1>2, <1>3 DEF Kept, NamedOf
<1> QED
  BY <1>1, <1>2, <1>3, <1>4, KeptTransitive DEF Kept

(* goc_name_and_type_info, in either order of its arguments. *)
LEMMA NameAndTypeGood ==
    ASSUME NEW p, NEW n, NEW d, NEW ltr \in BOOLEAN, Good(p)
    PROVE  LET q == AddNameAndType(p, n, d, ltr)
           IN  /\ Good(q) /\ Kept(p, q)
               /\ TextOf(n) \in DOMAIN q.slot /\ TextOf(d) \in DOMAIN q.slot
               /\ NameAndTypeOf(q, n, d) \in DOMAIN q.slot
<1> PICK first : first = IF ltr THEN Add(p, TextOf(n)) ELSE Add(p, TextOf(d))
  OBVIOUS
<1> PICK q : q = IF ltr THEN Add(first, TextOf(d)) ELSE Add(first, TextOf(n))
  OBVIOUS
<1> PICK r : r = Add(q, NameAndTypeOf(q, n, d))
  OBVIOUS
<1>1. r = AddNameAndType(p, n, d, ltr)
  BY DEF AddNameAndType
<1>2. Good(first) /\ Kept(p, first) /\ (IF ltr THEN TextOf(n) ELSE TextOf(d)) \in DOMAIN first.slot
  BY AddGood
<1>3. Good(q) /\ Kept(first, q) /\ (IF ltr THEN TextOf(d) ELSE TextOf(n)) \in DOMAIN q.slot
  BY <1>2, AddGood
<1>4. TextOf(n) \in DOMAIN q.slot /\ TextOf(d) \in DOMAIN q.slot
  BY <1>2, <1>3 DEF Kept
<1>5. Good(r) /\ Kept(q, r) /\ NameAndTypeOf(q, n, d) \in DOMAIN r.slot
  BY <1>3, AddGood
<1>6. NameAndTypeOf(r, n, d) = NameAndTypeOf(q, n, d)
  BY <1>4, <1>5 DEF Kept, NameAndTypeOf
<1>7. Kept(p, r)
  BY <1>2, <1>3, <1>5, KeptTransitive
<1>8. TextOf(n) \in DOMAIN r.slot /\ TextOf(d) \in DOMAIN r.slot
  BY <1>4, <1>5 DEF Kept
<1> QED
  BY <1>1, <1>5, <1>6, <1>7, <1>8

(* goc_methodref_info and goc_fieldref_info, in either order. *)
LEMMA MemberGood ==
    ASSUME NEW p, NEW tag, NEW c, NEW n, NEW d, NEW ltr \in BOOLEAN, Good(p)
    PROVE  LET q == AddMember(p, tag, c, n, d, ltr)
           IN  /\ Good(q) /\ Kept(p, q) /\ MemberOf(q, tag, c, n, d) \in DOMAIN q.slot
               /\ \A x \in {c, n, d} : TextOf(x) \in DOMAIN q.slot
               /\ NamedOf(q, "Class", c) \in DOMAIN q.slot /\ NameAndTypeOf(q, n, d) \in DOMAIN q.slot
<1> PICK first : first = IF ltr THEN AddNamed(p, "Class", c) ELSE AddNameAndType(p, n, d, ltr)
  OBVIOUS
<1> PICK q : q = IF ltr THEN AddNameAndType(first, n, d, ltr) ELSE AddNamed(first, "Class", c)
  OBVIOUS
<1> PICK r : r = Add(q, MemberOf(q, tag, c, n, d))
  OBVIOUS
<1>1. r = AddMember(p, tag, c, n, d, ltr)
  BY DEF AddMember
<1>2. Good(q) /\ Kept(p, q)
      /\ NamedOf(q, "Class", c) \in DOMAIN q.slot /\ TextOf(c) \in DOMAIN q.slot
      /\ NameAndTypeOf(q, n, d) \in DOMAIN q.slot
      /\ TextOf(n) \in DOMAIN q.slot /\ TextOf(d) \in DOMAIN q.slot
  <2>1. CASE ltr
    <3>1. /\ Good(first) /\ Kept(p, first)
          /\ TextOf(c) \in DOMAIN first.slot /\ NamedOf(first, "Class", c) \in DOMAIN first.slot
      BY <2>1, NamedGood
    <3>2. /\ Good(q) /\ Kept(first, q)
          /\ TextOf(n) \in DOMAIN q.slot /\ TextOf(d) \in DOMAIN q.slot
          /\ NameAndTypeOf(q, n, d) \in DOMAIN q.slot
      BY <2>1, <3>1, NameAndTypeGood
    <3>3. NamedOf(q, "Class", c) = NamedOf(first, "Class", c)
      BY <3>1, <3>2 DEF Kept, NamedOf
    <3>4. NamedOf(q, "Class", c) \in DOMAIN q.slot /\ TextOf(c) \in DOMAIN q.slot
      BY <3>1, <3>2, <3>3 DEF Kept
    <3> QED
      BY <3>1, <3>2, <3>4, KeptTransitive
  <2>2. CASE ~ltr
    <3>1. /\ Good(first) /\ Kept(p, first)
          /\ TextOf(n) \in DOMAIN first.slot /\ TextOf(d) \in DOMAIN first.slot
          /\ NameAndTypeOf(first, n, d) \in DOMAIN first.slot
      BY <2>2, NameAndTypeGood
    <3>2. /\ Good(q) /\ Kept(first, q)
          /\ TextOf(c) \in DOMAIN q.slot /\ NamedOf(q, "Class", c) \in DOMAIN q.slot
      BY <2>2, <3>1, NamedGood
    <3>3. NameAndTypeOf(q, n, d) = NameAndTypeOf(first, n, d)
      BY <3>1, <3>2 DEF Kept, NameAndTypeOf
    <3>4. /\ NameAndTypeOf(q, n, d) \in DOMAIN q.slot
          /\ TextOf(n) \in DOMAIN q.slot /\ TextOf(d) \in DOMAIN q.slot
      BY <3>1, <3>2, <3>3 DEF Kept
    <3> QED
      BY <3>1, <3>2, <3>4, KeptTransitive
  <2> QED
    BY <2>1, <2>2
<1>3. Good(r) /\ Kept(q, r) /\ MemberOf(q, tag, c, n, d) \in DOMAIN r.slot
  BY <1>2, AddGood
<1>4. NamedOf(r, "Class", c) = NamedOf(q, "Class", c)
  BY <1>2, <1>3 DEF Kept, NamedOf
<1>5. NameAndTypeOf(r, n, d) = NameAndTypeOf(q, n, d)
  BY <1>2, <1>3 DEF Kept, NameAndTypeOf
<1>6. MemberOf(r, tag, c, n, d) = MemberOf(q, tag, c, n, d)
  BY <1>2, <1>3, <1>4, <1>5 DEF Kept, MemberOf
<1>7. /\ \A x \in {c, n, d} : TextOf(x) \in DOMAIN r.slot
      /\ NamedOf(r, "Class", c) \in DOMAIN r.slot /\ NameAndTypeOf(r, n, d) \in DOMAIN r.slot
  BY <1>2, <1>3, <1>4, <1>5 DEF Kept
<1> QED
  BY <1>1, <1>2, <1>3, <1>6, <1>7, KeptTransitive

(* Every goc_* method: the pool stays good, keeps what it has and contains *)
(* the entry of what was asked for.                                        *)
LEMMA GetOrCreateGood ==
    ASSUME NEW p, NEW c, NEW ltr \in BOOLEAN, Good(p)
    PROVE  LET q == GetOrCreate(p, c, ltr)
           IN  Good(q) /\ Kept(p, q) /\ EntryOf(q, c) \in DOMAIN q.slot
<1> PICK q : q = GetOrCreate(p, c, ltr)
  OBVIOUS
<1>1. CASE c.tag \in Named
  <2>1. q = AddNamed(p, c.tag, c.of[1]) /\ EntryOf(q, c) = NamedOf(q, c.tag, c.of[1])
    BY <1>1 DEF GetOrCreate, EntryOf, Named, Members
  <2> QED
    BY <2>1, NamedGood
<1>2. CASE c.tag = "NameAndType"
  <2>1. /\ q = AddNameAndType(p, c.of[1], c.of[2], ltr)
        /\ EntryOf(q, c) = NameAndTypeOf(q, c.of[1], c.of[2])
    BY <1>2 DEF GetOrCreate, EntryOf, Named, Members
  <2> QED
    BY <2>1, NameAndTypeGood
<1>3. CASE c.tag \in Members
  <2>1. /\ q = AddMember(p, c.tag, c.of[1], c.of[2], c.of[3], ltr)
        /\ EntryOf(q, c) = MemberOf(q, c.tag, c.of[1], c.of[2], c.of[3])
    BY <1>3 DEF GetOrCreate, EntryOf, Named, Members
  <2> QED
    BY <2>1, MemberGood
<1>4. CASE c.tag \notin Named \cup Members \cup {"NameAndType"}
  <2>1. q = Add(p, Text(c.tag, c.of[1])) /\ EntryOf(q, c) = Text(c.tag, c.of[1])
    BY <1>4 DEF GetOrCreate, EntryOf
  <2> QED
    BY <2>1, AddGood
<1> QED
  BY <1>1, <1>2, <1>3, <1>4

-----------------------------------------------------------------------------
(* The invariant: only PutConstant changes the pool, and what a node       *)
(* remembers is the index of an entry, so reading it back fits its bytes.  *)

IInv ==
    /\ Good(pool)
    /\ \A id \in DOMAIN cpi : cpi[id] \in Nat \ {0}

LEMMA EmptyGood == Good(EmptyPool)
BY DEF Good, EmptyPool, DisjointSlots

LEMMA Initially == Init => IInv
BY EmptyGood DEF Init, IInv

(* The one step that changes the pool, and the index a node remembers. *)
LEMMA PutKeeps ==
    ASSUME IInv, PutConstant
    PROVE  IInv' /\ Kept(pool, pool')
<1> DEFINE c == Head(tasks).constant
<1> PICK ltr \in BOOLEAN : pool' = GetOrCreate(pool, c, ltr)
  BY DEF PutConstant
<1>1. Good(pool') /\ Kept(pool, pool') /\ EntryOf(pool', c) \in DOMAIN pool'.slot
  BY GetOrCreateGood DEF IInv
<1>2. IndexGiven(pool, pool', c) \in Nat \ {0}
  BY <1>1 DEF IndexGiven, Good
<1>3. ASSUME NEW id \in DOMAIN cpi'
      PROVE  cpi'[id] \in Nat \ {0}
  <2>1. CASE Head(tasks).id = NoNode
    BY <2>1 DEF PutConstant, IInv
  <2>2. CASE Head(tasks).id # NoNode /\ id = Head(tasks).id
    BY <2>2, <1>2 DEF PutConstant
  <2>3. CASE Head(tasks).id # NoNode /\ id # Head(tasks).id
    BY <2>3 DEF PutConstant, IInv
  <2> QED
    BY <2>1, <2>2, <2>3
<1> QED
  BY <1>1, <1>3 DEF IInv

(* No other step changes the pool or what nodes remember. *)
LEMMA OthersKeep ==
    ASSUME [Next]_vars, ~PutConstant
    PROVE  UNCHANGED <<pool, cpi>>
BY DEF Next, vars, VisitToEmit, StartBuild, VisitToBuild, GetIndex, GetMissing, Throw, CountEntries,
       UseIndex, UseMissing, Loaded, Finish

LEMMA Stepwise ==
    ASSUME IInv, [Next]_vars
    PROVE  IInv' /\ Kept(pool, pool')
<1>1. CASE PutConstant
  BY <1>1, PutKeeps
<1>2. CASE ~PutConstant
  BY <1>2, OthersKeep DEF IInv, Kept
<1> QED
  BY <1>1, <1>2

THEOREM Invariance == Spec => []IInv
<1>1. IInv /\ [Next]_vars => IInv'
  BY Stepwise
<1> QED
  BY Initially, <1>1, PTL DEF Spec

(* SlotsDisjoint, for every tree and every width (goc_constant). *)
THEOREM SlotsNeverShared == Spec => []SlotsDisjoint
<1>1. IInv => SlotsDisjoint
  BY DEF IInv, Good, SlotsDisjoint
<1> QED
  BY <1>1, Invariance, PTL

(* An index that was given out stays that of its entry (goc_constant never *)
(* moves an entry), so that nodes may remember it.                         *)
THEOREM IndicesStable == Spec => [][Kept(pool, pool')]_vars
<1>1. IInv /\ [Next]_vars => [Kept(pool, pool')]_vars
  BY Stepwise
<1> QED
  BY <1>1, Invariance, PTL DEF Spec

-----------------------------------------------------------------------------
(* Type correctness: an operand is written modulo the width of its bytes.  *)

Span(n) == IF IsField(n) \/ n.kind = "double" THEN IndexSpan ELSE LdcSpan

LEMMA OperandFits ==
    ASSUME NEW n, NEW i \in Nat
    PROVE  Operand(n, i) \in 0..(Span(n) - 1)
<1>1. IndexSpan \in Nat \ {0} /\ LdcSpan \in Nat \ {0}
  BY SpanAssumption, LimitAssumption
<1> QED
  BY <1>1 DEF Operand, Span

LEMMA TypesKept ==
    ASSUME IInv, IInv', TypeOK, [Next]_vars
    PROVE  TypeOK'
<1>1. /\ pool'.index \in Nat \ {0}
      /\ \A e \in DOMAIN pool'.slot : pool'.slot[e] \in Nat \ {0}
      /\ \A id \in DOMAIN cpi' : cpi'[id] \in Nat \ {0}
  BY DEF IInv, Good
<1>2. type' \in Types /\ phase' \in {"emit", "build", "done", "fatal", "threw"}
  BY DEF TypeOK, Next, vars, VisitToEmit, PutConstant, StartBuild, VisitToBuild, GetIndex, GetMissing,
         Throw, CountEntries, UseIndex, UseMissing, Loaded, Finish
<1>3. \A l \in loads : l.operand \in 0..(Span(l.node) - 1)
  BY DEF TypeOK, Span
<1>4. ASSUME NEW n, NEW i \in Nat, Loaded(n, Operand(n, i))
      PROVE  \A l \in loads' : l.operand \in 0..(Span(l.node) - 1)
  <2>1. Operand(n, i) \in 0..(Span(n) - 1)
    BY OperandFits
  <2>2. loads' = loads \cup {[node |-> n, operand |-> Operand(n, i)]}
    BY <1>4 DEF Loaded
  <2> QED
    BY <2>1, <2>2, <1>3
<1>5. \A l \in loads' : l.operand \in 0..(Span(l.node) - 1)
  <2>1. CASE UseIndex
    <3>1. cpi[Head(tasks).node.id] \in Nat
      BY <2>1 DEF UseIndex, IInv
    <3> QED
      BY <2>1, <3>1, <1>4 DEF UseIndex
  <2>2. CASE UseMissing
    <3>1. CASE Throw
      BY <3>1, <1>3 DEF Throw
    <3>2. CASE \E garbage \in Garbage :
                   Loaded(Head(tasks).node, Operand(Head(tasks).node, garbage))
      BY <3>2, <1>4, SpanAssumption
    <3> QED
      BY <2>2, <3>1, <3>2 DEF UseMissing
  <2>3. CASE ~UseIndex /\ ~UseMissing
    <3>1. loads' = loads
      BY <2>3 DEF Next, vars, VisitToEmit, PutConstant, StartBuild, VisitToBuild, GetIndex,
                  GetMissing, Throw, CountEntries, Finish
    <3> QED
      BY <3>1, <1>3
  <2> QED
    BY <2>1, <2>2, <2>3
<1> QED
  BY <1>1, <1>2, <1>5 DEF TypeOK, Span

(* TypeOK, for every tree, also one whose two walks disagree: an operand   *)
(* fits the bytes it is written to even when it is garbage.                *)
THEOREM TypeCorrectness == Spec => []TypeOK
<1>1. Init => TypeOK
  BY DEF Init, TypeOK, EmptyPool
<1>2. IInv /\ IInv' /\ TypeOK /\ [Next]_vars => TypeOK'
  BY TypesKept
<1> QED
  BY <1>1, <1>2, Invariance, PTL DEF Spec

-----------------------------------------------------------------------------
(* For every tree, whatever its walks ask for and in whatever order, and   *)
(* for every width: a pool within the limit holds no reference that leads  *)
(* astray.  The entries written are made of indices in two bytes; each was *)
(* the index of an entry of the right kind when it was put there, entries  *)
(* keep their indices, and below the limit two bytes hold an index whole.  *)

(* The k-th reference of entry e leads to an entry of the kind the reader  *)
(* expects, as far as two bytes tell.                                      *)
Leads(p, e, k) ==
    \E f \in DOMAIN p.slot :
        f.tag = Expected(e.tag)[k] /\ e.refs[k] = p.slot[f] % IndexSpan

Leading(p, e) ==
    /\ DOMAIN e.refs = DOMAIN Expected(e.tag)
    /\ \A k \in DOMAIN e.refs : Leads(p, e, k)

AllLead(p) == Good(p) /\ \A e \in DOMAIN p.slot : Leading(p, e)

-----------------------------------------------------------------------------
(* Entries of a pool that grows lead where they led. *)
LEMMA LeadingKept ==
    ASSUME NEW p, NEW q, Kept(p, q), NEW e, Leading(p, e)
    PROVE  Leading(q, e)
<1> SUFFICES ASSUME NEW k \in DOMAIN e.refs
             PROVE  Leads(q, e, k)
  BY DEF Leading
<1>1. PICK f \in DOMAIN p.slot : f.tag = Expected(e.tag)[k] /\ e.refs[k] = p.slot[f] % IndexSpan
  BY DEF Leading, Leads
<1>2. f \in DOMAIN q.slot /\ q.slot[f] = p.slot[f]
  BY DEF Kept
<1> QED
  BY <1>1, <1>2 DEF Leads

(* Adding an entry that leads to entries of the pool. *)
LEMMA AddLeads ==
    ASSUME NEW p, NEW e, AllLead(p), Leading(p, e)
    PROVE  AllLead(Add(p, e))
<1> PICK q : q = Add(p, e)
  OBVIOUS
<1>1. Good(q) /\ Kept(p, q)
  BY AddGood DEF AllLead
<1>2. \A f \in DOMAIN q.slot : f \in DOMAIN p.slot \/ f = e
  BY DEF Add
<1>3. \A f \in DOMAIN q.slot : Leading(p, f)
  BY <1>2 DEF AllLead
<1> QED
  BY <1>1, <1>3, LeadingKept DEF AllLead

(* A text or a number refers to nothing. *)
LEMMA TextLeads ==
    ASSUME NEW p, NEW tag, NEW t, tag \notin Named \cup Members \cup {"NameAndType"}
    PROVE  Leading(p, Text(tag, t))
<1>1. Text(tag, t).refs = <<>> /\ Text(tag, t).tag = tag
  BY DEF Text
<1>2. Expected(tag) = <<>>
  BY DEF Expected, Named, Members
<1> QED
  BY <1>1, <1>2 DEF Leading

(* What an entry with references holds. *)
LEMMA OneRef ==
    ASSUME NEW tag, NEW i
    PROVE  LET e == Refs(tag, <<i>>)
           IN  e.tag = tag /\ DOMAIN e.refs = {1} /\ e.refs[1] = i % IndexSpan
<1>1. DOMAIN <<i>> = {1}
  OBVIOUS
<1> QED
  BY <1>1 DEF Refs

LEMMA TwoRefs ==
    ASSUME NEW tag, NEW i, NEW j
    PROVE  LET e == Refs(tag, <<i, j>>)
           IN  /\ e.tag = tag /\ DOMAIN e.refs = {1, 2}
               /\ e.refs[1] = i % IndexSpan /\ e.refs[2] = j % IndexSpan
<1>1. DOMAIN <<i, j>> = {1, 2}
  OBVIOUS
<1> QED
  BY <1>1 DEF Refs

(* An entry leads where it should when each of its references does. *)
LEMMA OneLeads ==
    ASSUME NEW p, NEW tag, NEW f \in DOMAIN p.slot, Expected(tag) = <<f.tag>>
    PROVE  Leading(p, Refs(tag, <<p.slot[f]>>))
<1> PICK e : e = Refs(tag, <<p.slot[f]>>)
  OBVIOUS
<1>1. e.tag = tag /\ DOMAIN e.refs = {1} /\ e.refs[1] = p.slot[f] % IndexSpan
  BY OneRef
<1>2. DOMAIN Expected(e.tag) = {1} /\ Expected(e.tag)[1] = f.tag
  BY <1>1
<1>3. Leads(p, e, 1)
  BY <1>1, <1>2 DEF Leads
<1> QED
  BY <1>1, <1>2, <1>3 DEF Leading

LEMMA TwoLead ==
    ASSUME NEW p, NEW tag, NEW f \in DOMAIN p.slot, NEW g \in DOMAIN p.slot,
           Expected(tag) = <<f.tag, g.tag>>
    PROVE  Leading(p, Refs(tag, <<p.slot[f], p.slot[g]>>))
<1> PICK e : e = Refs(tag, <<p.slot[f], p.slot[g]>>)
  OBVIOUS
<1>1. /\ e.tag = tag /\ DOMAIN e.refs = {1, 2}
      /\ e.refs[1] = p.slot[f] % IndexSpan /\ e.refs[2] = p.slot[g] % IndexSpan
  BY TwoRefs
<1>2. /\ DOMAIN Expected(e.tag) = {1, 2}
      /\ Expected(e.tag)[1] = f.tag /\ Expected(e.tag)[2] = g.tag
  BY <1>1
<1>3. Leads(p, e, 1) /\ Leads(p, e, 2)
  BY <1>1, <1>2 DEF Leads
<1> QED
  BY <1>1, <1>2, <1>3 DEF Leading

(* The entries the goc_* methods make of entries that are there. *)
LEMMA NamedOfLeads ==
    ASSUME NEW p, NEW tag \in Named, NEW t, TextOf(t) \in DOMAIN p.slot
    PROVE  Leading(p, NamedOf(p, tag, t))
<1>1. TextOf(t).tag = "Utf8"
  BY DEF TextOf, Text
<1>2. Expected(tag) = <<TextOf(t).tag>>
  BY <1>1 DEF Expected, Named, Members
<1> QED
  BY <1>2, OneLeads DEF NamedOf

LEMMA NameAndTypeOfLeads ==
    ASSUME NEW p, NEW n, NEW d, TextOf(n) \in DOMAIN p.slot, TextOf(d) \in DOMAIN p.slot
    PROVE  Leading(p, NameAndTypeOf(p, n, d))
<1>1. TextOf(n).tag = "Utf8" /\ TextOf(d).tag = "Utf8"
  BY DEF TextOf, Text
<1>2. Expected("NameAndType") = <<TextOf(n).tag, TextOf(d).tag>>
  BY <1>1 DEF Expected, Named, Members
<1> QED
  BY <1>2, TwoLead DEF NameAndTypeOf

LEMMA MemberOfLeads ==
    ASSUME NEW p, NEW tag \in Members, NEW c, NEW n, NEW d,
           NamedOf(p, "Class", c) \in DOMAIN p.slot, NameAndTypeOf(p, n, d) \in DOMAIN p.slot
    PROVE  Leading(p, MemberOf(p, tag, c, n, d))
<1>1. NamedOf(p, "Class", c).tag = "Class" /\ NameAndTypeOf(p, n, d).tag = "NameAndType"
  BY DEF NamedOf, NameAndTypeOf, Refs
<1>2. Expected(tag) = <<NamedOf(p, "Class", c).tag, NameAndTypeOf(p, n, d).tag>>
  BY <1>1 DEF Expected, Named, Members
<1> QED
  BY <1>2, TwoLead DEF MemberOf

-----------------------------------------------------------------------------
(* The goc_* methods, along their composition. *)

LEMMA TextAdded ==
    ASSUME NEW p, NEW t, AllLead(p)
    PROVE  AllLead(Add(p, TextOf(t))) /\ TextOf(t) \in DOMAIN Add(p, TextOf(t)).slot
<1>1. Leading(p, TextOf(t))
  BY TextLeads DEF TextOf, Named, Members
<1> QED
  BY <1>1, AddLeads, AddGood DEF AllLead

LEMMA NamedAdded ==
    ASSUME NEW p, NEW tag \in Named, NEW t, AllLead(p)
    PROVE  AllLead(AddNamed(p, tag, t))
<1> PICK q : q = Add(p, TextOf(t))
  OBVIOUS
<1>1. AllLead(q) /\ TextOf(t) \in DOMAIN q.slot
  BY TextAdded
<1>2. AllLead(Add(q, NamedOf(q, tag, t)))
  BY <1>1, NamedOfLeads, AddLeads
<1> QED
  BY <1>2 DEF AddNamed

LEMMA NameAndTypeAdded ==
    ASSUME NEW p, NEW n, NEW d, NEW ltr \in BOOLEAN, AllLead(p)
    PROVE  AllLead(AddNameAndType(p, n, d, ltr))
<1> PICK first : first = IF ltr THEN Add(p, TextOf(n)) ELSE Add(p, TextOf(d))
  OBVIOUS
<1> PICK q : q = IF ltr THEN Add(first, TextOf(d)) ELSE Add(first, TextOf(n))
  OBVIOUS
<1>1. AllLead(first) /\ (IF ltr THEN TextOf(n) ELSE TextOf(d)) \in DOMAIN first.slot
  BY TextAdded
<1>2. AllLead(q) /\ Kept(first, q) /\ (IF ltr THEN TextOf(d) ELSE TextOf(n)) \in DOMAIN q.slot
  BY <1>1, TextAdded, AddGood DEF AllLead
<1>3. TextOf(n) \in DOMAIN q.slot /\ TextOf(d) \in DOMAIN q.slot
  BY <1>1, <1>2 DEF Kept
<1>4. AllLead(Add(q, NameAndTypeOf(q, n, d)))
  BY <1>2, <1>3, NameAndTypeOfLeads, AddLeads
<1> QED
  BY <1>4 DEF AddNameAndType

LEMMA MemberAdded ==
    ASSUME NEW p, NEW tag \in Members, NEW c, NEW n, NEW d, NEW ltr \in BOOLEAN, AllLead(p)
    PROVE  AllLead(AddMember(p, tag, c, n, d, ltr))
<1> PICK first : first = IF ltr THEN AddNamed(p, "Class", c) ELSE AddNameAndType(p, n, d, ltr)
  OBVIOUS
<1> PICK q : q = IF ltr THEN AddNameAndType(first, n, d, ltr) ELSE AddNamed(first, "Class", c)
  OBVIOUS
<1>1. "Class" \in Named
  BY DEF Named
<1>2. AllLead(first)
  BY <1>1, NamedAdded, NameAndTypeAdded
<1>3. AllLead(q)
  BY <1>1, <1>2, NamedAdded, NameAndTypeAdded
<1>4. NamedOf(q, "Class", c) \in DOMAIN q.slot /\ NameAndTypeOf(q, n, d) \in DOMAIN q.slot
  <2>1. CASE ltr
    <3>1. TextOf(c) \in DOMAIN first.slot /\ NamedOf(first, "Class", c) \in DOMAIN first.slot
      BY <2>1, NamedGood DEF AllLead
    <3>2. Kept(first, q) /\ NameAndTypeOf(q, n, d) \in DOMAIN q.slot
      BY <1>2, <2>1, NameAndTypeGood DEF AllLead
    <3>3. NamedOf(q, "Class", c) = NamedOf(first, "Class", c)
      BY <3>1, <3>2 DEF Kept, NamedOf
    <3> QED
      BY <3>1, <3>2, <3>3 DEF Kept
  <2>2. CASE ~ltr
    <3>1. /\ TextOf(n) \in DOMAIN first.slot /\ TextOf(d) \in DOMAIN first.slot
          /\ NameAndTypeOf(first, n, d) \in DOMAIN first.slot
      BY <2>2, NameAndTypeGood DEF AllLead
    <3>2. Kept(first, q) /\ NamedOf(q, "Class", c) \in DOMAIN q.slot
      BY <1>2, <2>2, NamedGood DEF AllLead
    <3>3. NameAndTypeOf(q, n, d) = NameAndTypeOf(first, n, d)
      BY <3>1, <3>2 DEF Kept, NameAndTypeOf
    <3> QED
      BY <3>1, <3>2, <3>3 DEF Kept
  <2> QED
    BY <2>1, <2>2
<1>5. AllLead(Add(q, MemberOf(q, tag, c, n, d)))
  BY <1>3, <1>4, MemberOfLeads, AddLeads
<1> QED
  BY <1>5 DEF AddMember

LEMMA GetOrCreateLeads ==
    ASSUME NEW p, NEW c, NEW ltr \in BOOLEAN, AllLead(p)
    PROVE  AllLead(GetOrCreate(p, c, ltr))
<1>1. CASE c.tag \in Named
  BY <1>1, NamedAdded DEF GetOrCreate, Named, Members
<1>2. CASE c.tag = "NameAndType"
  BY <1>2, NameAndTypeAdded DEF GetOrCreate, Named, Members
<1>3. CASE c.tag \in Members
  BY <1>3, MemberAdded DEF GetOrCreate, Named, Members
<1>4. CASE c.tag \notin Named \cup Members \cup {"NameAndType"}
  <2>1. Leading(p, Text(c.tag, c.of[1]))
    BY <1>4, TextLeads
  <2>2. GetOrCreate(p, c, ltr) = Add(p, Text(c.tag, c.of[1]))
    BY <1>4 DEF GetOrCreate
  <2> QED
    BY <2>1, <2>2, AddLeads
<1> QED
  BY <1>1, <1>2, <1>3, <1>4

-----------------------------------------------------------------------------
(* Whatever the walks ask of the pool, its references lead where they       *)
(* should: each is the index of an entry of the kind the reader of the      *)
(* class file expects, or the pool is beyond its limit, for which           *)
(* CountEntries ends the compiler.                                          *)
THEOREM ReferencesLead ==
    Spec => [](~TooBig(pool) =>
        \A e \in DOMAIN pool.slot :
            /\ DOMAIN e.refs = DOMAIN Expected(e.tag)
            /\ \A k \in DOMAIN e.refs :
                   \E f \in DOMAIN pool.slot :
                       pool.slot[f] = e.refs[k] /\ f.tag = Expected(e.tag)[k])
<1>1. Init => AllLead(pool)
  BY EmptyGood DEF Init, AllLead, EmptyPool
<1>2. AllLead(pool) /\ [Next]_vars => AllLead(pool)'
  <2> SUFFICES ASSUME AllLead(pool), [Next]_vars PROVE AllLead(pool')
    BY DEF AllLead, Good, DisjointSlots, Leading, Leads
  <2>1. CASE PutConstant
    BY <2>1, GetOrCreateLeads DEF PutConstant
  <2>2. CASE ~PutConstant
    BY <2>2, OthersKeep
  <2> QED
    BY <2>1, <2>2
<1>3. ASSUME AllLead(pool), ~TooBig(pool),
             NEW e \in DOMAIN pool.slot, NEW k \in DOMAIN e.refs
      PROVE  \E f \in DOMAIN pool.slot : pool.slot[f] = e.refs[k] /\ f.tag = Expected(e.tag)[k]
  <2>1. PICK f \in DOMAIN pool.slot :
            f.tag = Expected(e.tag)[k] /\ e.refs[k] = pool.slot[f] % IndexSpan
    BY <1>3 DEF AllLead, Leading, Leads
  <2>2. pool.slot[f] \in Nat /\ pool.slot[f] < IndexSpan
    <3>1. pool.slot[f] \in Nat /\ Slots(f) \in {1, 2} /\ pool.index \in Nat
          /\ pool.slot[f] + Slots(f) <= pool.index
      BY <1>3 DEF AllLead, Good, DisjointSlots, Slots
    <3>2. pool.index <= MaxCount
      BY <1>3, <3>1, SpanAssumption DEF TooBig
    <3> QED
      BY <3>1, <3>2, SpanAssumption, LimitAssumption
  <2>3. pool.slot[f] % IndexSpan = pool.slot[f]
    BY <2>2, SpanAssumption
  <2> QED
    BY <2>1, <2>3
<1>4. AllLead(pool) =>
          (~TooBig(pool) =>
              \A e \in DOMAIN pool.slot :
                  /\ DOMAIN e.refs = DOMAIN Expected(e.tag)
                  /\ \A k \in DOMAIN e.refs :
                         \E f \in DOMAIN pool.slot :
                             pool.slot[f] = e.refs[k] /\ f.tag = Expected(e.tag)[k])
  BY <1>3 DEF AllLead, Leading
<1> QED
  BY <1>1, <1>2, <1>4, PTL DEF Spec

-----------------------------------------------------------------------------
(* Lists of tasks.  A walk puts together what the parts of a node ask for; *)
(* which tasks are in such a list, whatever their order, is all that the   *)
(* proofs below need.                                                      *)
Listed(s) == s \in Seq(Elements(s))

LEMMA ListedSeq ==
    ASSUME NEW S, NEW s \in Seq(S)
    PROVE  /\ Listed(s) /\ Elements(s) \subseteq S
           /\ Len(s) \in Nat /\ DOMAIN s = 1..Len(s)
           /\ \A k \in 1..Len(s) : s[k] \in Elements(s)
<1>1. Len(s) \in Nat /\ DOMAIN s = 1..Len(s) /\ s \in [1..Len(s) -> S]
  BY LenProperties
<1>2. \A k \in 1..Len(s) : s[k] \in Elements(s) /\ s[k] \in S
  BY <1>1 DEF Elements
<1>3. s \in [1..Len(s) -> Elements(s)]
  BY <1>1, <1>2
<1>4. s \in Seq(Elements(s))
  BY <1>1, <1>3
<1> QED
  BY <1>1, <1>2, <1>4 DEF Listed, Elements

LEMMA ListedFunction ==
    ASSUME NEW n \in Nat, NEW s, s = [k \in 1..n |-> s[k]]
    PROVE  Listed(s) /\ DOMAIN s = 1..n /\ Len(s) = n
<1>1. DOMAIN s = 1..n
  OBVIOUS
<1>2. s \in [1..n -> Elements(s)]
  BY <1>1 DEF Elements
<1>3. s \in Seq(Elements(s)) /\ Len(s) = n
  BY <1>2
<1> QED
  BY <1>1, <1>3 DEF Listed

LEMMA Joined ==
    ASSUME NEW s, NEW t, Listed(s), Listed(t)
    PROVE  Listed(s \o t) /\ Elements(s \o t) = Elements(s) \cup Elements(t)
<1> DEFINE S == Elements(s) \cup Elements(t)
<1>1. s \in Seq(S) /\ t \in Seq(S)
  BY SeqMonotonic DEF Listed
<1> HIDE DEF S
<1>2. /\ s \o t \in Seq(S) /\ Len(s \o t) = Len(s) + Len(t)
      /\ \A i \in 1..(Len(s) + Len(t)) :
             (s \o t)[i] = IF i <= Len(s) THEN s[i] ELSE t[i - Len(s)]
  BY <1>1, ConcatProperties
<1>3. /\ Len(s) \in Nat /\ DOMAIN s = 1..Len(s)
      /\ Len(t) \in Nat /\ DOMAIN t = 1..Len(t)
      /\ DOMAIN (s \o t) = 1..(Len(s) + Len(t)) /\ Listed(s \o t)
  BY <1>1, <1>2, ListedSeq
<1>4. ASSUME NEW x \in Elements(s \o t)
      PROVE  x \in Elements(s) \cup Elements(t)
  <2>1. PICK i \in 1..(Len(s) + Len(t)) : x = (s \o t)[i]
    BY <1>3 DEF Elements
  <2>2. CASE i <= Len(s)
    BY <2>1, <2>2, <1>2, <1>3 DEF Elements
  <2>3. CASE ~(i <= Len(s))
    <3>1. i - Len(s) \in DOMAIN t /\ x = t[i - Len(s)]
      BY <2>1, <2>3, <1>2, <1>3
    <3> QED
      BY <3>1 DEF Elements
  <2> QED
    BY <2>2, <2>3
<1>5. ASSUME NEW x \in Elements(s)
      PROVE  x \in Elements(s \o t)
  <2>1. PICK i \in 1..Len(s) : x = s[i]
    BY <1>3 DEF Elements
  <2>2. i \in 1..(Len(s) + Len(t)) /\ i <= Len(s)
    BY <1>3
  <2>3. x = (s \o t)[i]
    BY <2>1, <2>2, <1>2
  <2> QED
    BY <2>2, <2>3, <1>3 DEF Elements
<1>6. ASSUME NEW x \in Elements(t)
      PROVE  x \in Elements(s \o t)
  <2>1. PICK i \in 1..Len(t) : x = t[i]
    BY <1>3 DEF Elements
  <2>2. PICK j : j = Len(s) + i
    OBVIOUS
  <2>3. j \in 1..(Len(s) + Len(t)) /\ ~(j <= Len(s)) /\ j - Len(s) = i
    BY <2>2, <1>3
  <2>4. x = (s \o t)[j]
    BY <2>1, <2>3, <1>2
  <2> QED
    BY <2>3, <2>4, <1>3 DEF Elements
<1> QED
  BY <1>3, <1>4, <1>5, <1>6

LEMMA Popped ==
    ASSUME NEW s, Listed(s), s # <<>>
    PROVE  /\ Head(s) \in Elements(s) /\ Listed(Tail(s))
           /\ Elements(s) = {Head(s)} \cup Elements(Tail(s))
<1>1. /\ Head(s) = s[1] /\ Tail(s) \in Seq(Elements(s))
      /\ Len(Tail(s)) = Len(s) - 1 /\ \A i \in 1..Len(Tail(s)) : Tail(s)[i] = s[i + 1]
      /\ Len(s) \in Nat \ {0}
  BY HeadTailProperties, EmptySeq DEF Listed
<1>2. /\ DOMAIN s = 1..Len(s) /\ DOMAIN Tail(s) = 1..(Len(s) - 1)
      /\ Listed(Tail(s)) /\ Elements(Tail(s)) \subseteq Elements(s)
  BY <1>1, ListedSeq DEF Listed
<1>3. Head(s) \in Elements(s)
  BY <1>1, <1>2 DEF Elements
<1>4. ASSUME NEW x \in Elements(s), x # Head(s)
      PROVE  x \in Elements(Tail(s))
  <2>1. PICK i \in 1..Len(s) : x = s[i]
    BY <1>2 DEF Elements
  <2>2. PICK j : j = i - 1
    OBVIOUS
  <2>3. j \in 1..(Len(s) - 1) /\ i = j + 1
    BY <2>1, <2>2, <1>1, <1>4
  <2>4. x = Tail(s)[j]
    BY <2>1, <2>3, <1>1
  <2> QED
    BY <2>3, <2>4, <1>2 DEF Elements
<1> QED
  BY <1>2, <1>3, <1>4

(* What is there, one task after another. *)
LEMMA Few ==
    /\ Listed(<<>>) /\ Elements(<<>>) = {}
    /\ \A a : Listed(<<a>>) /\ Elements(<<a>>) = {a}
    /\ \A a, b : Listed(<<a, b>>) /\ Elements(<<a, b>>) = {a, b}
    /\ \A a, b, c : Listed(<<a, b, c>>) /\ Elements(<<a, b, c>>) = {a, b, c}
<1>1. Listed(<<>>) /\ Elements(<<>>) = {}
  BY EmptySeq DEF Listed, Elements
<1>2. ASSUME NEW a PROVE Listed(<<a>>) /\ Elements(<<a>>) = {a}
  <2>1. <<a>> \in Seq({a}) /\ DOMAIN <<a>> = {1} /\ <<a>>[1] = a
    OBVIOUS
  <2> QED
    BY <2>1 DEF Listed, Elements
<1>3. ASSUME NEW a, NEW b PROVE Listed(<<a, b>>) /\ Elements(<<a, b>>) = {a, b}
  <2>1. <<a, b>> \in Seq({a, b}) /\ DOMAIN <<a, b>> = {1, 2} /\ <<a, b>>[1] = a /\ <<a, b>>[2] = b
    OBVIOUS
  <2>2. Elements(<<a, b>>) = {a, b}
    BY <2>1 DEF Elements
  <2> QED
    BY <2>1, <2>2 DEF Listed
<1>4. ASSUME NEW a, NEW b, NEW c PROVE Listed(<<a, b, c>>) /\ Elements(<<a, b, c>>) = {a, b, c}
  <2>1. /\ <<a, b, c>> \in Seq({a, b, c}) /\ DOMAIN <<a, b, c>> = {1, 2, 3}
        /\ <<a, b, c>>[1] = a /\ <<a, b, c>>[2] = b /\ <<a, b, c>>[3] = c
    OBVIOUS
  <2>2. Elements(<<a, b, c>>) = {a, b, c}
    BY <2>1 DEF Elements
  <2> QED
    BY <2>1, <2>2 DEF Listed
<1> QED
  BY <1>1, <1>2, <1>3, <1>4

(* One task for each element of a list. *)
LEMMA Mapped ==
    ASSUME NEW s, Listed(s)
    PROVE  /\ Listed(Visits(s)) /\ Elements(Visits(s)) = {Visit(x) : x \in Elements(s)}
           /\ Listed(Puts(s)) /\ Elements(Puts(s)) = {Put(x) : x \in Elements(s)}
           /\ Listed(Gets(s)) /\ Elements(Gets(s)) = {Get(x) : x \in Elements(s)}
           /\ Listed(Classes(s)) /\ Elements(Classes(s)) = {Class(x) : x \in Elements(s)}
<1>1. Len(s) \in Nat /\ DOMAIN s = 1..Len(s)
  BY ListedSeq DEF Listed
<1>2. Listed(Visits(s)) /\ Elements(Visits(s)) = {Visit(x) : x \in Elements(s)}
  <2>1. Visits(s) = [k \in 1..Len(s) |-> Visit(s[k])]
    BY <1>1 DEF Visits
  <2> QED
    BY <1>1, <2>1, ListedFunction DEF Elements
<1>3. Listed(Puts(s)) /\ Elements(Puts(s)) = {Put(x) : x \in Elements(s)}
  <2>1. Puts(s) = [k \in 1..Len(s) |-> Put(s[k])]
    BY <1>1 DEF Puts
  <2> QED
    BY <1>1, <2>1, ListedFunction DEF Elements
<1>4. Listed(Gets(s)) /\ Elements(Gets(s)) = {Get(x) : x \in Elements(s)}
  <2>1. Gets(s) = [k \in 1..Len(s) |-> Get(s[k])]
    BY <1>1 DEF Gets
  <2> QED
    BY <1>1, <2>1, ListedFunction DEF Elements
<1>5. Listed(Classes(s)) /\ Elements(Classes(s)) = {Class(x) : x \in Elements(s)}
  <2>1. Classes(s) = [k \in 1..Len(s) |-> Class(s[k])]
    BY <1>1 DEF Classes
  <2> QED
    BY <1>1, <2>1, ListedFunction DEF Elements
<1> QED
  BY <1>2, <1>3, <1>4, <1>5

LEMMA Chosen ==
    ASSUME NEW s, Listed(s), NEW condition
    PROVE  /\ Listed(If(condition, s)) /\ Elements(If(condition, s)) \subseteq Elements(s)
           /\ condition => If(condition, s) = s
BY Few DEF If

-----------------------------------------------------------------------------
(* What the emit_constants methods ask for, kind by kind. *)

InTree(t, n) == t \in Types /\ n \in NodesOf(t)

LEMMA TreeFacts ==
    ASSUME NEW t, NEW n, InTree(t, n)
    PROVE  /\ WellFormed(n, NodesOf(t))
           /\ Listed(n.values) /\ Elements(n.values) \subseteq NodesOf(t)
           /\ Listed(n.parts) /\ Elements(n.parts) \subseteq NodesOf(t)
           /\ n.id \in Nat /\ n.id # NoNode
           /\ \A m \in NodesOf(t) : m.id = n.id => m = n
<1>1. WellFormed(n, NodesOf(t)) /\ \A m \in NodesOf(t) : m.id = n.id => m = n
  BY TreeAssumption DEF InTree
<1> QED
  BY <1>1, ListedSeq DEF WellFormed

(* A constant made of as many texts as its tag needs. *)
Shaped(c) ==
    /\ c.tag \in Named => DOMAIN c.of = {1}
    /\ c.tag = "NameAndType" => DOMAIN c.of = {1, 2}
    /\ c.tag \in Members => DOMAIN c.of = {1, 2, 3}

LEMMA Shapes ==
    /\ \A x : Shaped(Utf8(x)) /\ Shaped(Class(x)) /\ Shaped(Constant("String", <<x>>))
    /\ \A x : Shaped(Constant("Double", <<x>>)) /\ Shaped(Constant("Float", <<x>>))
              /\ Shaped(Constant("Integer", <<x>>))
    /\ \A x, y : Shaped(Constant("NameAndType", <<x, y>>))
    /\ \A x, y, z : Shaped(Methodref(x, y, z)) /\ Shaped(Fieldref(x, y, z))
BY DEF Shaped, Utf8, Class, Constant, Methodref, Fieldref, Named, Members

LEMMA OwnShaped ==
    ASSUME NEW n
    PROVE  Shaped(OwnConstant(n))
BY Shapes DEF OwnConstant

(* The tasks of the first walk. *)
EmitTask(t, x) ==
    \/ \E n \in NodesOf(t) : x = Visit(n)
    \/ \E c : Shaped(c) /\ x = Put(c)
    \/ \E n \in NodesOf(t) : x = Remember(n, OwnConstant(n))

EmitList(t, s) == Listed(s) /\ \A x \in Elements(s) : EmitTask(t, x)

LEMMA EmitNone ==
    ASSUME NEW t
    PROVE  EmitList(t, <<>>)
BY Few DEF EmitList

LEMMA EmitJoined ==
    ASSUME NEW t, NEW r, NEW s, EmitList(t, r), EmitList(t, s)
    PROVE  EmitList(t, r \o s)
BY Joined DEF EmitList

LEMMA EmitChosen ==
    ASSUME NEW t, NEW s, EmitList(t, s), NEW condition
    PROVE  EmitList(t, If(condition, s))
BY Chosen DEF EmitList

LEMMA EmitVisits ==
    ASSUME NEW t, NEW s, Listed(s), Elements(s) \subseteq NodesOf(t)
    PROVE  EmitList(t, Visits(s)) /\ Elements(Visits(s)) = {Visit(x) : x \in Elements(s)}
<1>1. Listed(Visits(s)) /\ Elements(Visits(s)) = {Visit(x) : x \in Elements(s)}
  BY Mapped
<1> QED
  BY <1>1 DEF EmitList, EmitTask

LEMMA EmitPuts ==
    ASSUME NEW t, NEW s, Listed(s), \A c \in Elements(s) : Shaped(c)
    PROVE  EmitList(t, Puts(s)) /\ Elements(Puts(s)) = {Put(x) : x \in Elements(s)}
<1>1. Listed(Puts(s)) /\ Elements(Puts(s)) = {Put(x) : x \in Elements(s)}
  BY Mapped
<1> QED
  BY <1>1 DEF EmitList, EmitTask

LEMMA EmitPut ==
    ASSUME NEW t, NEW c, Shaped(c)
    PROVE  EmitList(t, <<Put(c)>>) /\ Elements(<<Put(c)>>) = {Put(c)}
<1>1. Listed(<<Put(c)>>) /\ Elements(<<Put(c)>>) = {Put(c)}
  BY Few
<1> QED
  BY <1>1 DEF EmitList, EmitTask

LEMMA EmitRemember ==
    ASSUME NEW t, NEW n \in NodesOf(t)
    PROVE  /\ EmitList(t, <<Remember(n, OwnConstant(n))>>)
           /\ Elements(<<Remember(n, OwnConstant(n))>>) = {Remember(n, OwnConstant(n))}
<1>1. /\ Listed(<<Remember(n, OwnConstant(n))>>)
      /\ Elements(<<Remember(n, OwnConstant(n))>>) = {Remember(n, OwnConstant(n))}
  BY Few
<1> QED
  BY <1>1 DEF EmitList, EmitTask

LEMMA BothListed ==
    ASSUME NEW t, NEW n, InTree(t, n)
    PROVE  /\ Listed(n.values \o n.parts) /\ Elements(n.values \o n.parts) = Children(n)
           /\ Children(n) \subseteq NodesOf(t)
BY TreeFacts, Joined DEF Children

LEMMA EmitTypeIs ==
    ASSUME NEW t, NEW n, InTree(t, n), n.kind = "type"
    PROVE  /\ EmitList(t, EmitType(n))
           /\ \A m \in Children(n) : Visit(m) \in Elements(EmitType(n))
           /\ \A c \in {Utf8(n.sym.source), Utf8("SourceFile"), Class(n.sym.name), Class(n.sym.super),
                        SuperConstructor(n)} : Put(c) \in Elements(EmitType(n))
           /\ \A i \in Elements(n.sym.interfaces) : Put(Class(i)) \in Elements(EmitType(n))
<1> DEFINE five == <<Utf8(n.sym.source), Utf8("SourceFile"), Class(n.sym.name), Utf8(n.sym.descriptor),
                     Class(n.sym.super)>>
           names == Classes(n.sym.interfaces)
           both == five \o names
           all == both \o <<SuperConstructor(n)>>
           visits == Visits(n.values \o n.parts)
<1>1. /\ Listed(five)
      /\ Elements(five) = {Utf8(n.sym.source), Utf8("SourceFile"), Class(n.sym.name),
                           Utf8(n.sym.descriptor), Class(n.sym.super)}
  <2>1. /\ DOMAIN five = 1..5 /\ five[1] = Utf8(n.sym.source) /\ five[2] = Utf8("SourceFile")
        /\ five[3] = Class(n.sym.name) /\ five[4] = Utf8(n.sym.descriptor)
        /\ five[5] = Class(n.sym.super)
    OBVIOUS
  <2>2. five \in Seq({Utf8(n.sym.source), Utf8("SourceFile"), Class(n.sym.name),
                      Utf8(n.sym.descriptor), Class(n.sym.super)})
    OBVIOUS
  <2> HIDE DEF five
  <2>3. 1 \in 1..5 /\ 2 \in 1..5 /\ 3 \in 1..5 /\ 4 \in 1..5 /\ 5 \in 1..5
        /\ \A k \in 1..5 : k = 1 \/ k = 2 \/ k = 3 \/ k = 4 \/ k = 5
    OBVIOUS
  <2>4. /\ five[1] \in Elements(five) /\ five[2] \in Elements(five) /\ five[3] \in Elements(five)
        /\ five[4] \in Elements(five) /\ five[5] \in Elements(five)
        /\ \A x \in Elements(five) : x = five[1] \/ x = five[2] \/ x = five[3] \/ x = five[4] \/ x = five[5]
    BY <2>1, <2>3 DEF Elements
  <2> QED
    BY <2>1, <2>2, <2>4, ListedSeq
<1>2. Listed(n.sym.interfaces)
  BY TreeFacts, ListedSeq DEF WellFormed
<1>3. Listed(names) /\ Elements(names) = {Class(x) : x \in Elements(n.sym.interfaces)}
  BY <1>2, Mapped
<1> HIDE DEF five, names
<1>4. Listed(both) /\ Elements(both) = Elements(five) \cup Elements(names)
  BY <1>1, <1>3, Joined
<1>5. Listed(<<SuperConstructor(n)>>) /\ Elements(<<SuperConstructor(n)>>) = {SuperConstructor(n)}
  BY Few
<1> HIDE DEF both
<1>6. Listed(all) /\ Elements(all) = Elements(both) \cup {SuperConstructor(n)}
  BY <1>4, <1>5, Joined
<1>7. Shaped(SuperConstructor(n))
  BY Shapes DEF SuperConstructor
<1>8. \A c \in Elements(all) : Shaped(c)
  BY <1>1, <1>3, <1>4, <1>6, <1>7, Shapes
<1>9. EmitList(t, Puts(all)) /\ Elements(Puts(all)) = {Put(x) : x \in Elements(all)}
  <2> HIDE DEF all
  <2> QED BY <1>6, <1>8, EmitPuts
<1>10. EmitList(t, visits) /\ Elements(visits) = {Visit(x) : x \in Children(n)}
  BY BothListed, EmitVisits
<1>11. EmitType(n) = Puts(all) \o visits
  BY DEF EmitType, all, both, five, names
<1>12. EmitList(t, EmitType(n)) /\ Elements(EmitType(n)) = Elements(Puts(all)) \cup Elements(visits)
  <2> HIDE DEF all, visits
  <2> QED BY <1>9, <1>10, <1>11, EmitJoined, Joined DEF EmitList
<1> HIDE DEF all, visits
<1> QED
  BY <1>1, <1>3, <1>4, <1>6, <1>9, <1>10, <1>12

LEMMA DeclaredIs ==
    ASSUME NEW n
    PROVE  /\ Listed(Declared(n)) /\ \A c \in Elements(Declared(n)) : Shaped(c)
           /\ Utf8(n.sym.name) \in Elements(Declared(n))
           /\ Utf8(n.sym.descriptor) \in Elements(Declared(n))
           /\ n.sym.class # "" => Class(n.sym.class) \in Elements(Declared(n))
<1> DEFINE texts == <<Utf8(n.sym.name), Utf8(n.sym.descriptor)>>
           class == If(n.sym.class # "", <<Class(n.sym.class)>>)
<1>1. Listed(texts) /\ Elements(texts) = {Utf8(n.sym.name), Utf8(n.sym.descriptor)}
  BY Few
<1>2. Listed(<<Class(n.sym.class)>>) /\ Elements(<<Class(n.sym.class)>>) = {Class(n.sym.class)}
  BY Few
<1>3. /\ Listed(class) /\ Elements(class) \subseteq {Class(n.sym.class)}
      /\ n.sym.class # "" => Elements(class) = {Class(n.sym.class)}
  BY <1>2, Chosen
<1>4. Declared(n) = texts \o class
  BY DEF Declared
<1> HIDE DEF texts, class
<1>5. Listed(Declared(n)) /\ Elements(Declared(n)) = Elements(texts) \cup Elements(class)
  BY <1>1, <1>3, <1>4, Joined
<1> QED
  BY <1>1, <1>3, <1>5, Shapes

LEMMA EmitLocalIs ==
    ASSUME NEW t, NEW n
    PROVE  /\ EmitList(t, Puts(Declared(n)))
           /\ Put(Utf8(n.sym.name)) \in Elements(Puts(Declared(n)))
           /\ Put(Utf8(n.sym.descriptor)) \in Elements(Puts(Declared(n)))
           /\ n.sym.class # "" => Put(Class(n.sym.class)) \in Elements(Puts(Declared(n)))
BY DeclaredIs, EmitPuts

LEMMA EmitFieldIs ==
    ASSUME NEW t, NEW n, InTree(t, n), n.kind = "field"
    PROVE  /\ EmitList(t, EmitField(n))
           /\ Put(Utf8(n.sym.name)) \in Elements(EmitField(n))
           /\ Put(Utf8(n.sym.descriptor)) \in Elements(EmitField(n))
           /\ n.values # <<>> =>
                  /\ \A m \in Elements(n.values) : Visit(m) \in Elements(EmitField(n))
                  /\ \A c \in {Utf8("<clinit>"), Utf8("()V")} : Put(c) \in Elements(EmitField(n))
<1> DEFINE declared == Puts(Declared(n))
           init == Puts(<<Utf8("<clinit>"), Utf8("()V")>>)
           visits == Visits(n.values)
           own == <<Remember(n, OwnConstant(n))>>
           rest == (init \o visits) \o own
<1>1. /\ EmitList(t, declared)
      /\ Put(Utf8(n.sym.name)) \in Elements(declared) /\ Put(Utf8(n.sym.descriptor)) \in Elements(declared)
  BY EmitLocalIs
<1>2. EmitList(t, init) /\ Elements(init) = {Put(x) : x \in {Utf8("<clinit>"), Utf8("()V")}}
  <2> DEFINE both == <<Utf8("<clinit>"), Utf8("()V")>>
  <2>1. Listed(both) /\ Elements(both) = {Utf8("<clinit>"), Utf8("()V")}
    BY Few
  <2> HIDE DEF both
  <2>2. EmitList(t, Puts(both)) /\ Elements(Puts(both)) = {Put(x) : x \in Elements(both)}
    BY <2>1, EmitPuts, Shapes
  <2> QED
    BY <2>1, <2>2 DEF both
<1>3. EmitList(t, visits) /\ Elements(visits) = {Visit(x) : x \in Elements(n.values)}
  BY TreeFacts, EmitVisits
<1>4. EmitList(t, own)
  BY EmitRemember DEF InTree
<1>5. EmitField(n) = declared \o If(n.values # <<>>, rest)
  BY DEF EmitField
<1> HIDE DEF declared, init, visits, own
<1>6. EmitList(t, init \o visits) /\ Elements(init \o visits) = Elements(init) \cup Elements(visits)
  BY <1>2, <1>3, EmitJoined, Joined DEF EmitList
<1>7. EmitList(t, rest) /\ Elements(rest) = Elements(init \o visits) \cup Elements(own)
  BY <1>4, <1>6, EmitJoined, Joined DEF EmitList
<1> HIDE DEF rest
<1>8. /\ EmitList(t, If(n.values # <<>>, rest))
      /\ n.values # <<>> => If(n.values # <<>>, rest) = rest
  BY <1>7, EmitChosen DEF If
<1>9. /\ EmitList(t, EmitField(n))
      /\ Elements(EmitField(n)) = Elements(declared) \cup Elements(If(n.values # <<>>, rest))
  BY <1>1, <1>5, <1>8, EmitJoined, Joined DEF EmitList
<1> QED
  BY <1>1, <1>2, <1>3, <1>6, <1>7, <1>8, <1>9

LEMMA EmitMethodIs ==
    ASSUME NEW t, NEW n, InTree(t, n), n.kind = "method"
    PROVE  /\ EmitList(t, EmitMethod(n))
           /\ \A m \in Children(n) : Visit(m) \in Elements(EmitMethod(n))
           /\ \A c \in {Utf8("Code"), Utf8("LocalVariableTable"),
                        Constant("NameAndType", <<n.sym.name, n.sym.descriptor>>)} :
                  Put(c) \in Elements(EmitMethod(n))
           /\ HasInnerScopes(n) => Put(Utf8("StackMapTable")) \in Elements(EmitMethod(n))
           /\ n.sym.throws # <<>> => Put(Utf8("Exceptions")) \in Elements(EmitMethod(n))
           /\ \A i \in Elements(n.sym.throws) : Put(Class(i)) \in Elements(EmitMethod(n))
<1> DEFINE texts == <<Utf8("Code"), Utf8("LocalVariableTable")>>
           map == If(HasInnerScopes(n), <<Utf8("StackMapTable")>>)
           thrown == <<Utf8("Exceptions")>> \o Classes(n.sym.throws)
           throws == If(n.sym.throws # <<>>, thrown)
           all == (texts \o map) \o throws
           own == Constant("NameAndType", <<n.sym.name, n.sym.descriptor>>)
<1>1. Listed(texts) /\ Elements(texts) = {Utf8("Code"), Utf8("LocalVariableTable")}
  BY Few
<1>2. /\ Listed(map) /\ Elements(map) \subseteq {Utf8("StackMapTable")}
      /\ HasInnerScopes(n) => Elements(map) = {Utf8("StackMapTable")}
  <2>1. Listed(<<Utf8("StackMapTable")>>) /\ Elements(<<Utf8("StackMapTable")>>) = {Utf8("StackMapTable")}
    BY Few
  <2> QED
    BY <2>1, Few DEF If
<1>3. /\ Listed(thrown)
      /\ Elements(thrown) = {Utf8("Exceptions")} \cup {Class(x) : x \in Elements(n.sym.throws)}
  <2>1. Listed(n.sym.throws)
    BY TreeFacts, ListedSeq DEF WellFormed
  <2>2. /\ Listed(Classes(n.sym.throws))
        /\ Elements(Classes(n.sym.throws)) = {Class(x) : x \in Elements(n.sym.throws)}
    BY <2>1, Mapped
  <2>3. Listed(<<Utf8("Exceptions")>>) /\ Elements(<<Utf8("Exceptions")>>) = {Utf8("Exceptions")}
    BY Few
  <2> QED
    BY <2>2, <2>3, Joined
<1> HIDE DEF texts, map, thrown
<1>4. /\ Listed(throws) /\ Elements(throws) \subseteq Elements(thrown)
      /\ n.sym.throws # <<>> => Elements(throws) = Elements(thrown)
  BY <1>3, Few DEF If
<1>5. \A x \in Elements(n.sym.throws) : n.sym.throws # <<>>
  BY Few
<1> HIDE DEF throws
<1>6. Listed(all) /\ Elements(all) = Elements(texts) \cup Elements(map) \cup Elements(throws)
  <2>1. Listed(texts \o map) /\ Elements(texts \o map) = Elements(texts) \cup Elements(map)
    BY <1>1, <1>2, Joined
  <2> QED
    BY <2>1, <1>4, Joined
<1>7. \A c \in Elements(all) : Shaped(c)
  BY <1>1, <1>2, <1>3, <1>4, <1>6, Shapes
<1> HIDE DEF all
<1>8. EmitList(t, Puts(all)) /\ Elements(Puts(all)) = {Put(x) : x \in Elements(all)}
  BY <1>6, <1>7, EmitPuts
<1>9. EmitList(t, Visits(n.values)) /\ Elements(Visits(n.values)) = {Visit(x) : x \in Elements(n.values)}
  BY TreeFacts, EmitVisits
<1>10. EmitList(t, Visits(n.parts)) /\ Elements(Visits(n.parts)) = {Visit(x) : x \in Elements(n.parts)}
  BY TreeFacts, EmitVisits
<1>11. EmitList(t, <<Put(own)>>) /\ Elements(<<Put(own)>>) = {Put(own)}
  BY EmitPut, Shapes
<1>12. EmitMethod(n) = ((Puts(all) \o Visits(n.values)) \o <<Put(own)>>) \o Visits(n.parts)
  BY DEF EmitMethod, all, texts, map, throws, thrown
<1> HIDE DEF own
<1>13. /\ EmitList(t, Puts(all) \o Visits(n.values))
       /\ Elements(Puts(all) \o Visits(n.values)) = Elements(Puts(all)) \cup Elements(Visits(n.values))
  BY <1>8, <1>9, EmitJoined, Joined DEF EmitList
<1>14. /\ EmitList(t, (Puts(all) \o Visits(n.values)) \o <<Put(own)>>)
       /\ Elements((Puts(all) \o Visits(n.values)) \o <<Put(own)>>) =
              Elements(Puts(all) \o Visits(n.values)) \cup {Put(own)}
  BY <1>11, <1>13, EmitJoined, Joined DEF EmitList
<1>15. /\ EmitList(t, EmitMethod(n))
       /\ Elements(EmitMethod(n)) =
              Elements((Puts(all) \o Visits(n.values)) \o <<Put(own)>>) \cup Elements(Visits(n.parts))
  BY <1>10, <1>12, <1>14, EmitJoined, Joined DEF EmitList
<1>16. /\ Elements(all) \subseteq {c : c \in Elements(all)}
       /\ \A c \in Elements(all) : Put(c) \in Elements(EmitMethod(n))
  BY <1>8, <1>13, <1>14, <1>15
<1>17. Put(own) \in Elements(EmitMethod(n))
  BY <1>14, <1>15
<1>18. \A m \in Children(n) : Visit(m) \in Elements(EmitMethod(n))
  BY <1>9, <1>10, <1>13, <1>14, <1>15 DEF Children
<1> QED
  BY <1>1, <1>2, <1>3, <1>4, <1>5, <1>6, <1>15, <1>16, <1>17, <1>18 DEF own

(* The rest of the kinds: a list of values, of constants, or both. *)
LEMMA EmitForIs ==
    ASSUME NEW t, NEW n, InTree(t, n), n.kind = "for"
    PROVE  /\ EmitList(t, EmitFor(n))
           /\ \A m \in Children(n) : Visit(m) \in Elements(EmitFor(n))
<1> DEFINE visits == Visits(n.values \o n.parts)
           big == If(IsBig(n.values[2]), <<Remember(n, OwnConstant(n.values[2]))>>)
<1>1. EmitList(t, visits) /\ Elements(visits) = {Visit(x) : x \in Children(n)}
  BY BothListed, EmitVisits
<1>2. n.values[2].kind = "range"
  BY TreeFacts DEF WellFormed
<1>3. big = <<>>
  BY <1>2 DEF IsBig, If
<1>4. EmitFor(n) = visits \o big
  BY DEF EmitFor
<1> HIDE DEF visits, big
<1>5. EmitList(t, big)
  BY <1>3, EmitNone
<1>6. EmitList(t, EmitFor(n)) /\ Elements(EmitFor(n)) = Elements(visits) \cup Elements(big)
  BY <1>1, <1>4, <1>5, EmitJoined, Joined DEF EmitList
<1> QED
  BY <1>1, <1>6

LEMMA EmitAssignmentIs ==
    ASSUME NEW t, NEW n, InTree(t, n)
    PROVE  /\ EmitList(t, EmitAssignment(n))
           /\ \A m \in Elements(n.values) : Visit(m) \in Elements(EmitAssignment(n))
           /\ n.sym.big => Remember(n, OwnConstant(n)) \in Elements(EmitAssignment(n))
<1> DEFINE visits == Visits(n.values)
           own == <<Remember(n, OwnConstant(n))>>
           big == If(n.sym.big, own)
<1>1. EmitList(t, visits) /\ Elements(visits) = {Visit(x) : x \in Elements(n.values)}
  BY TreeFacts, EmitVisits
<1>2. EmitList(t, own) /\ Elements(own) = {Remember(n, OwnConstant(n))}
  BY EmitRemember DEF InTree
<1> HIDE DEF own
<1>3. EmitList(t, big) /\ (n.sym.big => big = own)
  BY <1>2, EmitChosen DEF If
<1>4. EmitAssignment(n) = visits \o big
  BY DEF EmitAssignment, own
<1> HIDE DEF visits, big
<1>5. /\ EmitList(t, EmitAssignment(n))
      /\ Elements(EmitAssignment(n)) = Elements(visits) \cup Elements(big)
  BY <1>1, <1>3, <1>4, EmitJoined, Joined DEF EmitList
<1> QED
  BY <1>1, <1>2, <1>3, <1>5

LEMMA EmitCallIs ==
    ASSUME NEW t, NEW n, InTree(t, n), n.kind \in {"call", "new"}
    PROVE  /\ EmitList(t, EmitTasks(n))
           /\ \A m \in Elements(n.values) : Visit(m) \in Elements(EmitTasks(n))
           /\ Put(Method(n)) \in Elements(EmitTasks(n))
<1>1. EmitTasks(n) = <<Put(Method(n))>> \o Visits(n.values)
  BY DEF EmitTasks, IsBig, NoEmitters
<1>2. EmitList(t, <<Put(Method(n))>>) /\ Elements(<<Put(Method(n))>>) = {Put(Method(n))}
  BY EmitPut, Shapes DEF Method
<1>3. EmitList(t, Visits(n.values)) /\ Elements(Visits(n.values)) = {Visit(x) : x \in Elements(n.values)}
  BY TreeFacts, EmitVisits
<1>4. /\ EmitList(t, EmitTasks(n))
      /\ Elements(EmitTasks(n)) = Elements(<<Put(Method(n))>>) \cup Elements(Visits(n.values))
  BY <1>1, <1>2, <1>3, EmitJoined, Joined DEF EmitList
<1> QED
  BY <1>2, <1>3, <1>4

LEMMA EmitCastIs ==
    ASSUME NEW t, NEW n, InTree(t, n), n.kind = "cast"
    PROVE  /\ EmitList(t, EmitTasks(n))
           /\ \A m \in Elements(n.values) : Visit(m) \in Elements(EmitTasks(n))
           /\ n.sym.class # "" => Put(Class(n.sym.class)) \in Elements(EmitTasks(n))
<1> DEFINE class == If(n.sym.class # "", <<Class(n.sym.class)>>)
<1>1. EmitTasks(n) = Visits(n.values) \o Puts(class)
  BY DEF EmitTasks, IsBig, NoEmitters
<1>2. /\ Listed(class) /\ \A c \in Elements(class) : Shaped(c)
      /\ n.sym.class # "" => Class(n.sym.class) \in Elements(class)
  <2>1. Listed(<<Class(n.sym.class)>>) /\ Elements(<<Class(n.sym.class)>>) = {Class(n.sym.class)}
    BY Few
  <2>2. Listed(class) /\ Elements(class) \subseteq {Class(n.sym.class)}
        /\ (n.sym.class # "" => class = <<Class(n.sym.class)>>)
    BY <2>1, Few DEF If
  <2> QED
    BY <2>1, <2>2, Shapes
<1> HIDE DEF class
<1>3. EmitList(t, Puts(class)) /\ Elements(Puts(class)) = {Put(x) : x \in Elements(class)}
  BY <1>2, EmitPuts
<1>4. EmitList(t, Visits(n.values)) /\ Elements(Visits(n.values)) = {Visit(x) : x \in Elements(n.values)}
  BY TreeFacts, EmitVisits
<1>5. /\ EmitList(t, EmitTasks(n))
      /\ Elements(EmitTasks(n)) = Elements(Visits(n.values)) \cup Elements(Puts(class))
  BY <1>1, <1>3, <1>4, EmitJoined, Joined DEF EmitList
<1> QED
  BY <1>2, <1>3, <1>4, <1>5

LEMMA EmitPartsIs ==
    ASSUME NEW t, NEW n, InTree(t, n), n.kind = "if"
    PROVE  /\ EmitList(t, EmitTasks(n))
           /\ \A m \in Elements(n.parts) : Visit(m) \in Elements(EmitTasks(n))
<1>1. EmitTasks(n) = Visits(n.parts)
  BY DEF EmitTasks, EmitIf, IsBig, NoEmitters
<1>2. EmitList(t, Visits(n.parts)) /\ Elements(Visits(n.parts)) = {Visit(x) : x \in Elements(n.parts)}
  BY TreeFacts, EmitVisits
<1> QED
  BY <1>1, <1>2

Remembers(n) == n.kind \in {"reference", "string", "double", "float"} \/ IsBig(n)

LEMMA EmitOwnIs ==
    ASSUME NEW t, NEW n, InTree(t, n), Remembers(n)
    PROVE  /\ EmitList(t, EmitTasks(n))
           /\ Remember(n, OwnConstant(n)) \in Elements(EmitTasks(n))
<1>1. EmitTasks(n) = <<Remember(n, OwnConstant(n))>>
  BY DEF EmitTasks, IsBig, NoEmitters, Remembers
<1>2. /\ EmitList(t, <<Remember(n, OwnConstant(n))>>)
      /\ Elements(<<Remember(n, OwnConstant(n))>>) = {Remember(n, OwnConstant(n))}
  BY EmitRemember DEF InTree
<1> QED
  BY <1>1, <1>2

(* Kinds with a method of their own. *)
Special == {"type", "field", "local", "method", "if", "for", "assign", "decrease", "call", "new", "cast"}

LEMMA EmitAllIs ==
    ASSUME NEW t, NEW n, InTree(t, n), n.kind \notin Special, ~Remembers(n), n.kind \notin NoEmitters
    PROVE  /\ EmitList(t, EmitTasks(n))
           /\ \A m \in Children(n) : Visit(m) \in Elements(EmitTasks(n))
<1>1. EmitTasks(n) = Visits(n.values \o n.parts)
  BY DEF EmitTasks, EmitWhile, NoEmitters, Remembers, Special
<1>2. /\ EmitList(t, Visits(n.values \o n.parts))
      /\ Elements(Visits(n.values \o n.parts)) = {Visit(x) : x \in Children(n)}
  BY BothListed, EmitVisits
<1> QED
  BY <1>1, <1>2

(* The tasks of the first walk stay what they are. *)
LEMMA EmitTyped ==
    ASSUME NEW t, NEW n, InTree(t, n)
    PROVE  EmitList(t, EmitTasks(n))
<1>1. CASE n.kind = "type"
  <2>1. EmitTasks(n) = EmitType(n)
    BY <1>1 DEF EmitTasks, IsBig, NoEmitters
  <2> QED
    BY <1>1, <2>1, EmitTypeIs
<1>2. CASE n.kind = "field"
  <2>1. EmitTasks(n) = EmitField(n)
    BY <1>2 DEF EmitTasks, IsBig, NoEmitters
  <2> QED
    BY <1>2, <2>1, EmitFieldIs
<1>3. CASE n.kind = "local"
  <2>1. EmitTasks(n) = Puts(Declared(n))
    BY <1>3 DEF EmitTasks, IsBig, NoEmitters
  <2> QED
    BY <2>1, EmitLocalIs
<1>4. CASE n.kind = "method"
  <2>1. EmitTasks(n) = EmitMethod(n)
    BY <1>4 DEF EmitTasks, IsBig, NoEmitters
  <2> QED
    BY <1>4, <2>1, EmitMethodIs
<1>5. CASE n.kind = "if"
  BY <1>5, EmitPartsIs
<1>6. CASE n.kind = "for"
  <2>1. EmitTasks(n) = EmitFor(n)
    BY <1>6 DEF EmitTasks, IsBig, NoEmitters
  <2> QED
    BY <1>6, <2>1, EmitForIs
<1>7. CASE n.kind \in {"assign", "decrease"}
  <2>1. EmitTasks(n) = EmitAssignment(n)
    BY <1>7 DEF EmitTasks, IsBig, NoEmitters
  <2> QED
    BY <2>1, EmitAssignmentIs
<1>8. CASE n.kind \in {"call", "new"}
  BY <1>8, EmitCallIs
<1>9. CASE n.kind = "cast"
  BY <1>9, EmitCastIs
<1>10. CASE Remembers(n)
  BY <1>10, EmitOwnIs
<1>11. CASE n.kind \in NoEmitters
  <2>1. EmitTasks(n) = <<>>
    BY <1>11 DEF EmitTasks, IsBig, NoEmitters
  <2> QED
    BY <2>1, EmitNone
<1>12. CASE n.kind \notin Special /\ ~Remembers(n) /\ n.kind \notin NoEmitters
  BY <1>12, EmitAllIs
<1> QED
  BY <1>1, <1>2, <1>3, <1>4, <1>5, <1>6, <1>7, <1>8, <1>9, <1>10, <1>11, <1>12 DEF Special

(* The first walk goes on to every child, but for the conditions of an if  *)
(* and below a node that is no emitter.                                    *)
LEMMA EmitGoesOn ==
    ASSUME NEW t, NEW n, InTree(t, n), NEW m \in Children(n),
           n.kind \notin NoEmitters, n.kind = "if" => m \notin Elements(n.values)
    PROVE  Visit(m) \in Elements(EmitTasks(n))
<1>1. CASE n.kind = "type"
  BY <1>1, EmitTypeIs DEF EmitTasks, IsBig, NoEmitters
<1>2. CASE n.kind = "method"
  BY <1>2, EmitMethodIs DEF EmitTasks, IsBig, NoEmitters
<1>3. CASE n.kind = "if"
  BY <1>3, EmitPartsIs DEF Children
<1>4. CASE n.kind = "for"
  BY <1>4, EmitForIs DEF EmitTasks, IsBig, NoEmitters
<1>5. CASE n.kind \in {"field", "assign", "decrease", "call", "new", "cast"}
  <2>1. m \in Elements(n.values)
    BY <1>5, TreeFacts, Few DEF WellFormed, Children
  <2>2. CASE n.kind = "field"
    <3>1. EmitTasks(n) = EmitField(n)
      BY <2>2 DEF EmitTasks, IsBig, NoEmitters
    <3>2. n.values # <<>>
      BY <2>1, Few
    <3> QED
      BY <2>1, <2>2, <3>1, <3>2, EmitFieldIs
  <2>3. CASE n.kind \in {"assign", "decrease"}
    <3>1. EmitTasks(n) = EmitAssignment(n)
      BY <2>3 DEF EmitTasks, IsBig, NoEmitters
    <3> QED
      BY <2>1, <3>1, EmitAssignmentIs
  <2>4. CASE n.kind \in {"call", "new"}
    BY <2>1, <2>4, EmitCallIs
  <2>5. CASE n.kind = "cast"
    BY <2>1, <2>5, EmitCastIs
  <2> QED
    BY <1>5, <2>2, <2>3, <2>4, <2>5
<1>6. CASE n.kind = "local" \/ Remembers(n)
  BY <1>6, TreeFacts DEF WellFormed, Remembers, IsBig
<1>7. CASE n.kind \notin Special /\ ~Remembers(n)
  BY <1>7, EmitAllIs
<1> QED
  BY <1>1, <1>2, <1>3, <1>4, <1>5, <1>6, <1>7 DEF Special

-----------------------------------------------------------------------------
(* The get_* methods find what goc_* put there, and go on finding it.      *)

LEMMA HasGiven ==
    ASSUME NEW p, NEW c, NEW ltr \in BOOLEAN, Good(p), Shaped(c)
    PROVE  Has(GetOrCreate(p, c, ltr), c)
<1> PICK q : q = GetOrCreate(p, c, ltr)
  OBVIOUS
<1>1. EntryOf(q, c) \in DOMAIN q.slot
  BY GetOrCreateGood
<1>2. CASE c.tag \in Named
  <2>1. q = AddNamed(p, c.tag, c.of[1])
    BY <1>2 DEF GetOrCreate, Named, Members
  <2>2. TextOf(c.of[1]) \in DOMAIN q.slot
    BY <2>1, NamedGood
  <2> QED
    BY <1>1, <1>2, <2>2 DEF Has, Shaped, Named, Members
<1>3. CASE c.tag = "NameAndType"
  <2>1. q = AddNameAndType(p, c.of[1], c.of[2], ltr)
    BY <1>3 DEF GetOrCreate, Named, Members
  <2>2. TextOf(c.of[1]) \in DOMAIN q.slot /\ TextOf(c.of[2]) \in DOMAIN q.slot
    BY <2>1, NameAndTypeGood
  <2> QED
    BY <1>1, <1>3, <2>2 DEF Has, Shaped, Named, Members
<1>4. CASE c.tag \in Members
  <2>1. q = AddMember(p, c.tag, c.of[1], c.of[2], c.of[3], ltr)
    BY <1>4 DEF GetOrCreate, Named, Members
  <2>2. /\ TextOf(c.of[1]) \in DOMAIN q.slot /\ TextOf(c.of[2]) \in DOMAIN q.slot
        /\ TextOf(c.of[3]) \in DOMAIN q.slot
        /\ NamedOf(q, "Class", c.of[1]) \in DOMAIN q.slot
        /\ NameAndTypeOf(q, c.of[2], c.of[3]) \in DOMAIN q.slot
    BY <2>1, MemberGood
  <2> QED
    BY <1>1, <1>4, <2>2 DEF Has, Shaped, Named, Members
<1>5. CASE c.tag \notin Named \cup Members \cup {"NameAndType"}
  BY <1>1, <1>5 DEF Has
<1> QED
  BY <1>2, <1>3, <1>4, <1>5

LEMMA HasKept ==
    ASSUME NEW p, NEW q, Kept(p, q), NEW c, Shaped(c), Has(p, c)
    PROVE  Has(q, c) /\ EntryOf(q, c) = EntryOf(p, c) /\ q.slot[EntryOf(q, c)] = p.slot[EntryOf(p, c)]
<1>1. EntryOf(p, c) \in DOMAIN p.slot
  BY DEF Has
<1>2. CASE c.tag \in Named
  <2>1. 1 \in DOMAIN c.of /\ TextOf(c.of[1]) \in DOMAIN p.slot
    BY <1>2 DEF Shaped, Has
  <2>2. EntryOf(p, c) = NamedOf(p, c.tag, c.of[1]) /\ EntryOf(q, c) = NamedOf(q, c.tag, c.of[1])
    BY <1>2 DEF EntryOf, Named, Members
  <2>3. EntryOf(q, c) = EntryOf(p, c)
    BY <2>1, <2>2 DEF Kept, NamedOf
  <2> QED
    BY <1>1, <1>2, <2>3 DEF Kept, Has, Named, Members
<1>3. CASE c.tag = "NameAndType"
  <2>1. 1 \in DOMAIN c.of /\ 2 \in DOMAIN c.of
        /\ TextOf(c.of[1]) \in DOMAIN p.slot /\ TextOf(c.of[2]) \in DOMAIN p.slot
    BY <1>3 DEF Shaped, Has
  <2>2. /\ EntryOf(p, c) = NameAndTypeOf(p, c.of[1], c.of[2])
        /\ EntryOf(q, c) = NameAndTypeOf(q, c.of[1], c.of[2])
    BY <1>3 DEF EntryOf, Named, Members
  <2>3. EntryOf(q, c) = EntryOf(p, c)
    BY <2>1, <2>2 DEF Kept, NameAndTypeOf
  <2> QED
    BY <1>1, <1>3, <2>3 DEF Kept, Has, Named, Members
<1>4. CASE c.tag \in Members
  <2>1. /\ 1 \in DOMAIN c.of /\ 2 \in DOMAIN c.of /\ 3 \in DOMAIN c.of
        /\ TextOf(c.of[1]) \in DOMAIN p.slot /\ TextOf(c.of[2]) \in DOMAIN p.slot
        /\ TextOf(c.of[3]) \in DOMAIN p.slot
        /\ NamedOf(p, "Class", c.of[1]) \in DOMAIN p.slot
        /\ NameAndTypeOf(p, c.of[2], c.of[3]) \in DOMAIN p.slot
    BY <1>4 DEF Shaped, Has
  <2>2. /\ EntryOf(p, c) = MemberOf(p, c.tag, c.of[1], c.of[2], c.of[3])
        /\ EntryOf(q, c) = MemberOf(q, c.tag, c.of[1], c.of[2], c.of[3])
    BY <1>4 DEF EntryOf, Named, Members
  <2>3. NamedOf(q, "Class", c.of[1]) = NamedOf(p, "Class", c.of[1])
    BY <2>1 DEF Kept, NamedOf
  <2>4. NameAndTypeOf(q, c.of[2], c.of[3]) = NameAndTypeOf(p, c.of[2], c.of[3])
    BY <2>1 DEF Kept, NameAndTypeOf
  <2>5. EntryOf(q, c) = EntryOf(p, c)
    BY <2>1, <2>2, <2>3, <2>4 DEF Kept, MemberOf
  <2>6. /\ \A k \in DOMAIN c.of : TextOf(c.of[k]) \in DOMAIN q.slot
        /\ NamedOf(q, "Class", c.of[1]) \in DOMAIN q.slot
        /\ NameAndTypeOf(q, c.of[2], c.of[3]) \in DOMAIN q.slot
    BY <1>4, <2>1, <2>3, <2>4 DEF Kept, Has
  <2> QED
    BY <1>1, <1>4, <2>5, <2>6 DEF Kept, Has
<1>5. CASE c.tag \notin Named \cup Members \cup {"NameAndType"}
  <2>1. EntryOf(q, c) = Text(c.tag, c.of[1]) /\ EntryOf(p, c) = Text(c.tag, c.of[1])
    BY <1>5 DEF EntryOf
  <2> QED
    BY <1>1, <1>5, <2>1 DEF Kept, Has
<1> QED
  BY <1>2, <1>3, <1>4, <1>5

(* Of a constant that is found its parts are found too. *)
LEMMA PartsFound ==
    ASSUME NEW p
    PROVE  /\ \A x : Has(p, Class(x)) => Has(p, Utf8(x))
           /\ \A x, y : Has(p, Constant("NameAndType", <<x, y>>)) => Has(p, Utf8(x)) /\ Has(p, Utf8(y))
           /\ \A x, y, z : Has(p, Methodref(x, y, z)) => Has(p, Class(x))
<1>1. \A x : Has(p, Utf8(x)) <=> TextOf(x) \in DOMAIN p.slot
  <2> TAKE x
  <2>1. Utf8(x).tag = "Utf8" /\ Utf8(x).of[1] = x
    BY DEF Utf8, Constant
  <2>2. EntryOf(p, Utf8(x)) = TextOf(x)
    BY <2>1 DEF EntryOf, TextOf, Named, Members
  <2> QED
    BY <2>1, <2>2 DEF Has, Named, Members
<1>2. \A x : Has(p, Class(x)) <=> TextOf(x) \in DOMAIN p.slot /\ NamedOf(p, "Class", x) \in DOMAIN p.slot
  <2> TAKE x
  <2>1. Class(x).tag = "Class" /\ DOMAIN Class(x).of = {1} /\ Class(x).of[1] = x
    BY DEF Class, Constant
  <2>2. EntryOf(p, Class(x)) = NamedOf(p, "Class", x)
    BY <2>1 DEF EntryOf, Named, Members
  <2> QED
    BY <2>1, <2>2 DEF Has, Named, Members
<1>3. \A x, y : Has(p, Constant("NameAndType", <<x, y>>)) =>
                    TextOf(x) \in DOMAIN p.slot /\ TextOf(y) \in DOMAIN p.slot
  <2> TAKE x, y
  <2> PICK c : c = Constant("NameAndType", <<x, y>>)
    OBVIOUS
  <2>1. c.tag = "NameAndType" /\ DOMAIN c.of = {1, 2} /\ c.of[1] = x /\ c.of[2] = y
    BY DEF Constant
  <2> QED
    BY <2>1 DEF Has
<1>4. \A x, y, z : Has(p, Methodref(x, y, z)) =>
                       TextOf(x) \in DOMAIN p.slot /\ NamedOf(p, "Class", x) \in DOMAIN p.slot
  <2> TAKE x, y, z
  <2> PICK c : c = Methodref(x, y, z)
    OBVIOUS
  <2>1. c.tag = "Methodref" /\ DOMAIN c.of = {1, 2, 3} /\ c.of[1] = x
    BY DEF Methodref, Constant
  <2> QED
    BY <2>1 DEF Has, Members
<1> QED
  BY <1>1, <1>2, <1>3, <1>4

-----------------------------------------------------------------------------
(* What the second walk asks for, kind by kind.                            *)

AsStatic(n) == [n EXCEPT !.kind = "static"]
AsFrame(n) == [n EXCEPT !.kind = "frame"]

(* The nodes it visits, some of them in a role. *)
Walked(t, n) ==
    \/ n \in NodesOf(t)
    \/ \E f \in NodesOf(t) : f.kind = "field" /\ n = AsStatic(f)
    \/ \E l \in NodesOf(t) : l.kind = "local" /\ n = AsFrame(l)

LEMMA Roles ==
    ASSUME NEW t, NEW f, InTree(t, f)
    PROVE  /\ AsStatic(f).kind = "static" /\ AsStatic(f).id = f.id
           /\ AsStatic(f).sym = f.sym /\ AsStatic(f).values = f.values
           /\ AsFrame(f).kind = "frame" /\ AsFrame(f).id = f.id /\ AsFrame(f).sym = f.sym
           /\ [AsStatic(f) EXCEPT !.kind = "field"].kind = "field"
           /\ [AsStatic(f) EXCEPT !.kind = "field"].id = f.id
           /\ [AsStatic(f) EXCEPT !.kind = "field"].sym = f.sym
<1>1. DOMAIN f = {"kind", "id", "sym", "values", "parts"}
  BY TreeFacts DEF WellFormed
<1> QED
  BY <1>1 DEF AsStatic, AsFrame

(* A list that goes on to nodes of tree t, and asks at most for the        *)
(* constants cs and the indices of the nodes ns.                           *)
Asks(t, cs, ns, s) ==
    /\ Listed(s)
    /\ \A x \in Elements(s) :
           \/ \E n : Walked(t, n) /\ x = Visit(n)
           \/ \E c \in cs : x = Get(c)
           \/ \E n \in ns : x = Load(n)
           \/ x = Count

LEMMA AskJoined ==
    ASSUME NEW t, NEW cs, NEW ns, NEW r, NEW s, Asks(t, cs, ns, r), Asks(t, cs, ns, s)
    PROVE  Asks(t, cs, ns, r \o s)
BY Joined DEF Asks

LEMMA AskChosen ==
    ASSUME NEW t, NEW cs, NEW ns, NEW s, NEW condition, condition => Asks(t, cs, ns, s)
    PROVE  Asks(t, cs, ns, If(condition, s))
BY Few DEF Asks, If

LEMMA AskVisits ==
    ASSUME NEW t, NEW cs, NEW ns, NEW s, Listed(s), \A n \in Elements(s) : Walked(t, n)
    PROVE  Asks(t, cs, ns, Visits(s))
BY Mapped DEF Asks

LEMMA AskGets ==
    ASSUME NEW t, NEW cs, NEW ns, NEW s, Listed(s), Elements(s) \subseteq cs
    PROVE  Asks(t, cs, ns, Gets(s))
BY Mapped DEF Asks

LEMMA AskOne ==
    ASSUME NEW t, NEW cs, NEW ns
    PROVE  /\ Asks(t, cs, ns, <<>>) /\ Asks(t, cs, ns, <<Count>>)
           /\ \A c \in cs : Asks(t, cs, ns, <<Get(c)>>)
           /\ \A n \in ns : Asks(t, cs, ns, <<Load(n)>>)
           /\ \A n : Walked(t, n) => Asks(t, cs, ns, <<Visit(n)>>)
BY Few DEF Asks

LEMMA AskTree ==
    ASSUME NEW t, NEW n, InTree(t, n), NEW cs, NEW ns
    PROVE  Asks(t, cs, ns, Visits(n.values)) /\ Asks(t, cs, ns, Visits(n.parts))
<1>1. /\ Listed(n.values) /\ \A m \in Elements(n.values) : Walked(t, m)
      /\ Listed(n.parts) /\ \A m \in Elements(n.parts) : Walked(t, m)
  BY TreeFacts DEF Walked
<1> QED
  BY <1>1, AskVisits

HasStatics(n) == \E k \in DOMAIN n.values : IsStatic(n.values[k])
AskedByType(n) ==
    {Class(n.sym.name), Class(n.sym.super), Utf8("SourceFile"), Utf8(n.sym.source)}
    \cup {Class(i) : i \in Elements(n.sym.interfaces)}
    \cup {c \in {Utf8("Code"), Utf8("<clinit>"), Utf8("()V")} : HasStatics(n)}

LEMMA AskType ==
    ASSUME NEW t, NEW n, InTree(t, n), n.kind = "type"
    PROVE  Asks(t, AskedByType(n), {}, BuildType(n)) /\ Count \in Elements(BuildType(n))
<1> DEFINE cs == AskedByType(n)
           own == Gets(Classes(<<n.sym.name, n.sym.super>>))
           first == own \o <<Count>>
           names == Gets(Classes(n.sym.interfaces))
           values == Visits(n.values)
           parts == Visits(n.parts)
           statics == [k \in DOMAIN n.values |-> Visit([n.values[k] EXCEPT !.kind = "static"])]
           clinit == Gets(<<Utf8("Code"), Utf8("<clinit>"), Utf8("()V")>>)
           source == Gets(<<Utf8("SourceFile"), Utf8(n.sym.source)>>)
<1>1. Asks(t, cs, {}, own)
  <2> DEFINE both == <<n.sym.name, n.sym.super>>
  <2>1. Listed(both) /\ Elements(both) = {n.sym.name, n.sym.super}
    BY Few
  <2> HIDE DEF both
  <2>2. Listed(Classes(both)) /\ Elements(Classes(both)) = {Class(x) : x \in Elements(both)}
    BY <2>1, Mapped
  <2>3. Elements(Classes(both)) \subseteq cs
    BY <2>1, <2>2 DEF AskedByType
  <2> HIDE DEF cs
  <2>4. Asks(t, cs, {}, Gets(Classes(both)))
    BY <2>2, <2>3, AskGets
  <2> QED
    BY <2>4 DEF both
<1>2. Asks(t, cs, {}, names)
  <2>1. Listed(n.sym.interfaces)
    BY TreeFacts, ListedSeq DEF WellFormed
  <2>2. /\ Listed(Classes(n.sym.interfaces))
        /\ Elements(Classes(n.sym.interfaces)) = {Class(x) : x \in Elements(n.sym.interfaces)}
    BY <2>1, Mapped
  <2>3. Elements(Classes(n.sym.interfaces)) \subseteq cs
    BY <2>2 DEF AskedByType
  <2> HIDE DEF cs
  <2> QED
    BY <2>2, <2>3, AskGets
<1>3. Asks(t, cs, {}, values) /\ Asks(t, cs, {}, parts)
  BY AskTree
<1>4. Asks(t, cs, {}, statics)
  <2>1. Listed(n.values) /\ Elements(n.values) \subseteq NodesOf(t)
        /\ \A f \in Elements(n.values) : f.kind = "field"
    BY TreeFacts DEF WellFormed
  <2>2. Len(n.values) \in Nat /\ DOMAIN n.values = 1..Len(n.values)
    BY <2>1, ListedSeq DEF Listed
  <2>3. statics = [k \in 1..Len(n.values) |-> statics[k]]
    BY <2>2
  <2>4. \A k \in DOMAIN n.values : statics[k] = Visit(AsStatic(n.values[k]))
    BY DEF AsStatic
  <2>5. DOMAIN statics = DOMAIN n.values
    OBVIOUS
  <2> HIDE DEF statics
  <2>6. Listed(statics)
    BY <2>2, <2>3, ListedFunction
  <2>7. \A x \in Elements(statics) : \E m : Walked(t, m) /\ x = Visit(m)
    BY <2>1, <2>4, <2>5 DEF Elements, Walked
  <2> QED
    BY <2>6, <2>7 DEF Asks
<1>5. Asks(t, cs, {}, If(HasStatics(n), clinit))
  <2>1. ASSUME HasStatics(n)
        PROVE  Asks(t, cs, {}, clinit)
    <3> DEFINE three == <<Utf8("Code"), Utf8("<clinit>"), Utf8("()V")>>
    <3>1. Listed(three) /\ Elements(three) = {Utf8("Code"), Utf8("<clinit>"), Utf8("()V")}
      BY Few
    <3>2. Elements(three) \subseteq cs
      BY <2>1, <3>1 DEF AskedByType
    <3> HIDE DEF three, cs
    <3>3. Asks(t, cs, {}, Gets(three))
      BY <3>1, <3>2, AskGets
    <3> QED
      BY <3>3 DEF three
  <2> HIDE DEF clinit, cs
  <2> QED
    BY <2>1, AskChosen
<1>6. Asks(t, cs, {}, source)
  <2> DEFINE both == <<Utf8("SourceFile"), Utf8(n.sym.source)>>
  <2>1. Listed(both) /\ Elements(both) = {Utf8("SourceFile"), Utf8(n.sym.source)}
    BY Few
  <2>2. Elements(both) \subseteq cs
    BY <2>1 DEF AskedByType
  <2> HIDE DEF both, cs
  <2>3. Asks(t, cs, {}, Gets(both))
    BY <2>1, <2>2, AskGets
  <2> QED
    BY <2>3 DEF both
<1>7. BuildType(n) =
          (((((first \o names) \o values) \o parts) \o statics) \o If(HasStatics(n), clinit)) \o source
  BY DEF BuildType, HasStatics
<1> HIDE DEF cs, own, names, values, parts, statics, clinit, source
<1>8. Asks(t, cs, {}, first) /\ Count \in Elements(first)
  <2>1. Asks(t, cs, {}, <<Count>>) /\ Listed(<<Count>>) /\ Elements(<<Count>>) = {Count}
    BY AskOne, Few
  <2> QED
    BY <1>1, <2>1, AskJoined, Joined DEF Asks
<1> HIDE DEF first
<1>9. Asks(t, cs, {}, first \o names) /\ Count \in Elements(first \o names)
  BY <1>2, <1>8, AskJoined, Joined DEF Asks
<1>10. Asks(t, cs, {}, (first \o names) \o values) /\ Count \in Elements((first \o names) \o values)
  BY <1>3, <1>9, AskJoined, Joined DEF Asks
<1>11. /\ Asks(t, cs, {}, ((first \o names) \o values) \o parts)
       /\ Count \in Elements(((first \o names) \o values) \o parts)
  BY <1>3, <1>10, AskJoined, Joined DEF Asks
<1>12. /\ Asks(t, cs, {}, (((first \o names) \o values) \o parts) \o statics)
       /\ Count \in Elements((((first \o names) \o values) \o parts) \o statics)
  BY <1>4, <1>11, AskJoined, Joined DEF Asks
<1>13. /\ Asks(t, cs, {}, ((((first \o names) \o values) \o parts) \o statics) \o If(HasStatics(n), clinit))
       /\ Count \in Elements(((((first \o names) \o values) \o parts) \o statics)
                             \o If(HasStatics(n), clinit))
  BY <1>5, <1>12, AskJoined, Joined DEF Asks
<1> PICK all : all = ((((first \o names) \o values) \o parts) \o statics) \o If(HasStatics(n), clinit)
  OBVIOUS
<1>14. Asks(t, cs, {}, BuildType(n)) /\ Count \in Elements(BuildType(n))
  <2>1. Asks(t, cs, {}, all) /\ Count \in Elements(all) /\ BuildType(n) = all \o source
    BY <1>7, <1>13
  <2>2. Asks(t, cs, {}, all \o source)
    BY <1>6, <2>1, AskJoined
  <2>3. Elements(all \o source) = Elements(all) \cup Elements(source)
    BY <1>6, <2>1, Joined DEF Asks
  <2> QED
    BY <2>1, <2>2, <2>3
<1> QED
  BY <1>14 DEF cs

AskedByMethod(n) ==
    {Utf8(n.sym.name), Utf8(n.sym.descriptor), Utf8("Code"), Utf8("LocalVariableTable")}
    \cup {c \in {Utf8("StackMapTable")} : HasInnerScopes(n)}
    \cup {c \in {Utf8("Exceptions")} : n.sym.throws # <<>>}
    \cup {Class(i) : i \in Elements(n.sym.throws)}

LEMMA AskMethod ==
    ASSUME NEW t, NEW n, InTree(t, n), n.kind = "method"
    PROVE  Asks(t, AskedByMethod(n), {}, BuildMethod(n))
<1> DEFINE cs == AskedByMethod(n)
           own == Gets(<<Utf8(n.sym.name), Utf8(n.sym.descriptor), Utf8("Code")>>)
           parts == Visits(n.parts)
           table == <<Get(Utf8("LocalVariableTable"))>>
           locals == Visits(n.sym.locals)
           frames == [k \in DOMAIN n.sym.locals |-> Visit([n.sym.locals[k] EXCEPT !.kind = "frame"])]
           map == <<Get(Utf8("StackMapTable"))>>
           names == Gets(Classes(n.sym.throws))
           thrown == <<Get(Utf8("Exceptions"))>>
<1>1. Asks(t, cs, {}, own)
  <2> DEFINE three == <<Utf8(n.sym.name), Utf8(n.sym.descriptor), Utf8("Code")>>
  <2>1. Listed(three) /\ Elements(three) = {Utf8(n.sym.name), Utf8(n.sym.descriptor), Utf8("Code")}
    BY Few
  <2>2. Elements(three) \subseteq cs
    BY <2>1 DEF AskedByMethod
  <2> HIDE DEF three, cs
  <2>3. Asks(t, cs, {}, Gets(three))
    BY <2>1, <2>2, AskGets
  <2> QED
    BY <2>3 DEF three
<1>2. Asks(t, cs, {}, parts)
  BY AskTree
<1>3. Asks(t, cs, {}, table)
  <2>1. Utf8("LocalVariableTable") \in cs
    BY DEF AskedByMethod
  <2> HIDE DEF cs
  <2> QED
    BY <2>1, AskOne
<1>4. /\ Listed(n.sym.locals) /\ Elements(n.sym.locals) \subseteq NodesOf(t)
      /\ \A l \in Elements(n.sym.locals) : l.kind = "local"
  BY TreeFacts, ListedSeq DEF WellFormed
<1>5. Asks(t, cs, {}, locals)
  BY <1>4, AskVisits DEF Walked
<1>6. Asks(t, cs, {}, frames)
  <2>1. Len(n.sym.locals) \in Nat /\ DOMAIN n.sym.locals = 1..Len(n.sym.locals)
    BY <1>4, ListedSeq DEF Listed
  <2>2. frames = [k \in 1..Len(n.sym.locals) |-> frames[k]]
    BY <2>1
  <2>3. \A k \in DOMAIN n.sym.locals : frames[k] = Visit(AsFrame(n.sym.locals[k]))
    BY DEF AsFrame
  <2>4. DOMAIN frames = DOMAIN n.sym.locals
    OBVIOUS
  <2> HIDE DEF frames
  <2>5. Listed(frames)
    BY <2>1, <2>2, ListedFunction
  <2>6. \A x \in Elements(frames) : \E m : Walked(t, m) /\ x = Visit(m)
    BY <1>4, <2>3, <2>4 DEF Elements, Walked
  <2> QED
    BY <2>5, <2>6 DEF Asks
<1>7. HasInnerScopes(n) => Asks(t, cs, {}, map \o frames)
  <2>1. HasInnerScopes(n) => Utf8("StackMapTable") \in cs
    BY DEF AskedByMethod
  <2> HIDE DEF cs, frames
  <2> QED
    BY <1>6, <2>1, AskOne, AskJoined
<1>8. n.sym.throws # <<>> => Asks(t, cs, {}, thrown \o names)
  <2>1. Listed(n.sym.throws)
    BY TreeFacts, ListedSeq DEF WellFormed
  <2>2. /\ Listed(Classes(n.sym.throws))
        /\ Elements(Classes(n.sym.throws)) = {Class(x) : x \in Elements(n.sym.throws)}
    BY <2>1, Mapped
  <2>3. /\ Elements(Classes(n.sym.throws)) \subseteq cs
        /\ n.sym.throws # <<>> => Utf8("Exceptions") \in cs
    BY <2>2 DEF AskedByMethod
  <2> HIDE DEF cs
  <2>4. Asks(t, cs, {}, names)
    BY <2>2, <2>3, AskGets
  <2> QED
    BY <2>3, <2>4, AskOne, AskJoined
<1>9. BuildMethod(n) = ((((own \o parts) \o table) \o locals) \o If(HasInnerScopes(n), map \o frames))
                       \o If(n.sym.throws # <<>>, thrown \o names)
  BY DEF BuildMethod
<1> HIDE DEF cs, own, parts, table, locals, frames, map, names, thrown
<1>10. Asks(t, cs, {}, ((own \o parts) \o table) \o locals)
  BY <1>1, <1>2, <1>3, <1>5, AskJoined
<1>11. /\ Asks(t, cs, {}, If(HasInnerScopes(n), map \o frames))
       /\ Asks(t, cs, {}, If(n.sym.throws # <<>>, thrown \o names))
  BY <1>7, <1>8, AskChosen
<1>12. Asks(t, cs, {}, BuildMethod(n))
  BY <1>9, <1>10, <1>11, AskJoined
<1> QED
  BY <1>12 DEF cs

(* The branches of an if, and the else beyond them. *)
LEMMA AskIf ==
    ASSUME NEW t, NEW n, InTree(t, n), n.kind = "if"
    PROVE  Asks(t, {}, {}, BuildIf(n))
<1> DEFINE branches == Len(n.values)
           both == [k \in 1..(2 * branches) |->
                       IF k % 2 = 1 THEN n.parts[(k + 1) \div 2] ELSE n.values[k \div 2]]
           rest == SubSeq(n.parts, branches + 1, Len(n.parts))
<1>1. /\ n.values \in Seq(NodesOf(t)) /\ n.parts \in Seq(NodesOf(t)) /\ Len(n.values) <= Len(n.parts)
      /\ Len(n.values) \in Nat /\ Len(n.parts) \in Nat
  BY TreeFacts, ListedSeq DEF WellFormed
<1>2. Listed(both) /\ \A m \in Elements(both) : Walked(t, m)
  <2>1. both = [k \in 1..(2 * branches) |-> both[k]] /\ 2 * branches \in Nat
        /\ DOMAIN both = 1..(2 * branches)
    BY <1>1
  <2>2. ASSUME NEW k \in 1..(2 * branches)
        PROVE  both[k] \in NodesOf(t)
    <3>1. CASE k % 2 = 1
      <4>1. (k + 1) \div 2 \in 1..Len(n.parts)
        BY <3>1, <1>1
      <4> QED
        BY <3>1, <4>1, <1>1
    <3>2. CASE k % 2 # 1
      <4>1. k \div 2 \in 1..Len(n.values)
        BY <3>2, <1>1
      <4> QED
        BY <3>2, <4>1, <1>1
    <3> QED
      BY <3>1, <3>2
  <2> HIDE DEF both
  <2> QED
    BY <2>1, <2>2, ListedFunction DEF Elements, Walked
<1>3. Listed(rest) /\ \A m \in Elements(rest) : Walked(t, m)
  <2>1. rest \in Seq(NodesOf(t))
    BY <1>1, SubSeqProperties
  <2> QED
    BY <2>1, ListedSeq DEF Walked
<1>4. BuildIf(n) = Visits(both) \o Visits(rest)
  BY DEF BuildIf
<1> HIDE DEF both, rest
<1> QED
  BY <1>2, <1>3, <1>4, AskVisits, AskJoined

(* The loop asks for its own index when its step is a big literal. *)
LEMMA AskFor ==
    ASSUME NEW t, NEW n, InTree(t, n), n.kind = "for"
    PROVE  Asks(t, {}, {m \in {n} : IsBig(Step(n))}, BuildFor(n))
<1> DEFINE ns == {m \in {n} : IsBig(Step(n))}
           range == n.values[2]
           first == <<Visit(range.values[1]), Visit(n.parts[2])>>
           step == IF IsInt(Step(n)) THEN If(IsBig(Step(n)), <<Load(n)>>) ELSE <<Visit(Step(n))>>
           last == <<Visit(range.values[2])>>
<1>1. /\ n.values \in Seq(NodesOf(t)) /\ n.parts \in Seq(NodesOf(t)) /\ Len(n.values) = 2
      /\ Len(n.parts) = 2 /\ Len(range.values) = 3
  BY TreeFacts DEF WellFormed
<1>2. range \in NodesOf(t) /\ n.parts[2] \in NodesOf(t)
  BY <1>1
<1>3. range.values \in Seq(NodesOf(t))
  BY <1>2, TreeFacts DEF InTree, WellFormed
<1>4. range.values[1] \in NodesOf(t) /\ range.values[2] \in NodesOf(t) /\ Step(n) \in NodesOf(t)
  BY <1>1, <1>3 DEF Step
<1>5. Asks(t, {}, ns, first)
  <2>1. first = <<Visit(range.values[1])>> \o <<Visit(n.parts[2])>>
    OBVIOUS
  <2> HIDE DEF ns
  <2> QED
    BY <1>2, <1>4, <2>1, AskOne, AskJoined DEF Walked
<1>6. Asks(t, {}, ns, step)
  <2>1. IsBig(Step(n)) => n \in ns
    OBVIOUS
  <2> HIDE DEF ns
  <2>2. IsBig(Step(n)) => Asks(t, {}, ns, <<Load(n)>>)
    BY <2>1, AskOne
  <2>3. Asks(t, {}, ns, If(IsBig(Step(n)), <<Load(n)>>))
    BY <2>2, AskChosen
  <2>4. Asks(t, {}, ns, <<Visit(Step(n))>>)
    BY <1>4, AskOne DEF Walked
  <2> QED
    BY <2>3, <2>4
<1>7. Asks(t, {}, ns, last)
  BY <1>4, AskOne DEF Walked
<1>8. BuildFor(n) = (first \o step) \o last
  BY DEF BuildFor
<1> HIDE DEF ns, first, step, last
<1>9. Asks(t, {}, ns, BuildFor(n))
  BY <1>5, <1>6, <1>7, <1>8, AskJoined
<1> QED
  BY <1>9 DEF ns

(* What a node asks for in the second walk: constants of the pool, and     *)
(* indices that nodes remember.                                            *)
ClassIfAny(n) == {c \in {Class(n.sym.class)} : n.sym.class # ""}
AskedBy(n) ==
    CASE n.kind = "type"   -> AskedByType(n)
      [] n.kind = "method" -> AskedByMethod(n)
      [] n.kind \in {"field", "local"}         -> {Utf8(n.sym.name), Utf8(n.sym.descriptor)}
      [] n.kind \in {"frame", "cast", "array"} -> ClassIfAny(n)
      [] n.kind = "call"                       -> {Method(n)}
      [] n.kind = "new"                        -> {Class(n.sym.owner), Method(n)}
      [] n.kind = "superCall"                  -> {SuperConstructor(n)}
      [] OTHER -> {}
LoadedBy(n) ==
    CASE n.kind = "static"   -> {m \in {[n EXCEPT !.kind = "field"]} : IsStatic(n)}
      [] n.kind = "for"      -> {m \in {n} : IsBig(Step(n))}
      [] n.kind = "assign"   -> {m \in {n.values[1]} : m.kind = "reference"}
      [] n.kind = "decrease" -> {m \in {n} : n.sym.big}
      [] Remembers(n)        -> {n}
      [] OTHER -> {}

LEMMA AskDeclared ==
    ASSUME NEW t, NEW n, InTree(t, n), n.kind \in {"field", "local"}
    PROVE  Asks(t, AskedBy(n), {}, BuildTasks(n))
<1> DEFINE both == <<Utf8(n.sym.name), Utf8(n.sym.descriptor)>>
<1>1. Listed(both) /\ Elements(both) = {Utf8(n.sym.name), Utf8(n.sym.descriptor)}
  BY Few
<1>2. AskedBy(n) = {Utf8(n.sym.name), Utf8(n.sym.descriptor)}
  BY DEF AskedBy
<1>3. BuildTasks(n) = Gets(both)
  BY DEF BuildTasks, IsBig
<1> HIDE DEF both
<1> QED
  BY <1>1, <1>2, <1>3, AskGets

LEMMA AskClass ==
    ASSUME NEW t, NEW n
    PROVE  Asks(t, ClassIfAny(n), {}, Gets(If(n.sym.class # "", <<Class(n.sym.class)>>)))
<1> DEFINE one == <<Class(n.sym.class)>>
<1>1. Listed(one) /\ Elements(one) = {Class(n.sym.class)}
  BY Few
<1>2. Listed(If(n.sym.class # "", one)) /\ Elements(If(n.sym.class # "", one)) \subseteq ClassIfAny(n)
  <2>1. CASE n.sym.class # ""
    BY <1>1, <2>1 DEF If, ClassIfAny
  <2>2. CASE n.sym.class = ""
    BY <2>2, Few DEF If
  <2> QED
    BY <2>1, <2>2
<1> HIDE DEF one
<1>3. Asks(t, ClassIfAny(n), {}, Gets(If(n.sym.class # "", one)))
  BY <1>2, AskGets
<1> QED
  BY <1>3 DEF one

LEMMA AskCall ==
    ASSUME NEW t, NEW n, InTree(t, n), n.kind \in {"call", "new", "superCall", "cast", "array"}
    PROVE  Asks(t, AskedBy(n), {}, BuildTasks(n))
<1>1. CASE n.kind = "call"
  <2>1. AskedBy(n) = {Method(n)} /\ BuildTasks(n) = Visits(n.values) \o <<Get(Method(n))>>
    BY <1>1 DEF AskedBy, BuildTasks, IsBig
  <2> QED
    BY <2>1, AskTree, AskOne, AskJoined
<1>2. CASE n.kind = "new"
  <2>1. /\ AskedBy(n) = {Class(n.sym.owner), Method(n)}
        /\ BuildTasks(n) = (<<Get(Class(n.sym.owner))>> \o Visits(n.values)) \o <<Get(Method(n))>>
    BY <1>2 DEF AskedBy, BuildTasks, IsBig
  <2>2. Class(n.sym.owner) \in AskedBy(n) /\ Method(n) \in AskedBy(n)
    BY <2>1
  <2>3. /\ Asks(t, AskedBy(n), {}, <<Get(Class(n.sym.owner))>>)
        /\ Asks(t, AskedBy(n), {}, <<Get(Method(n))>>)
    BY <2>2, AskOne
  <2>4. Asks(t, AskedBy(n), {}, <<Get(Class(n.sym.owner))>> \o Visits(n.values))
    BY <2>3, AskTree, AskJoined
  <2> QED
    BY <2>1, <2>3, <2>4, AskJoined
<1>3. CASE n.kind = "superCall"
  <2>1. AskedBy(n) = {SuperConstructor(n)} /\ BuildTasks(n) = <<Get(SuperConstructor(n))>>
    BY <1>3 DEF AskedBy, BuildTasks, IsBig
  <2> QED
    BY <2>1, AskOne
<1>4. CASE n.kind \in {"cast", "array"}
  <2>1. /\ AskedBy(n) = ClassIfAny(n)
        /\ BuildTasks(n) = Visits(n.values) \o Gets(If(n.sym.class # "", <<Class(n.sym.class)>>))
    BY <1>4 DEF AskedBy, BuildTasks, IsBig
  <2> QED
    BY <2>1, AskTree, AskClass, AskJoined
<1> QED
  BY <1>1, <1>2, <1>3, <1>4

LEMMA AskIndex ==
    ASSUME NEW t, NEW n, InTree(t, n), n.kind \in {"assign", "decrease"} \/ Remembers(n)
    PROVE  Asks(t, {}, LoadedBy(n), BuildTasks(n))
<1>1. CASE n.kind = "assign"
  <2> DEFINE own == <<Load(n.values[1])>>
             value == <<Visit(n.values[2])>>
  <2>1. n.values[2] \in NodesOf(t)
    BY <1>1, TreeFacts DEF WellFormed
  <2>2. LoadedBy(n) = {m \in {n.values[1]} : m.kind = "reference"}
    BY <1>1 DEF LoadedBy, Remembers, IsBig
  <2>3. n.values[1].kind = "reference" => n.values[1] \in LoadedBy(n)
    BY <2>2
  <2>4. n.values[1].kind = "reference" => Asks(t, {}, LoadedBy(n), own)
    BY <2>3, AskOne
  <2>5. Asks(t, {}, LoadedBy(n), value)
    BY <2>1, AskOne DEF Walked
  <2>6. BuildTasks(n) = value \o If(n.values[1].kind = "reference", own)
    BY <1>1 DEF BuildTasks, BuildAssign, IsBig
  <2> HIDE DEF own, value
  <2>7. Asks(t, {}, LoadedBy(n), If(n.values[1].kind = "reference", own))
    BY <2>4, AskChosen
  <2> QED
    BY <2>5, <2>6, <2>7, AskJoined
<1>2. CASE n.kind = "decrease"
  <2>1. /\ BuildTasks(n) = If(n.sym.big, <<Load(n)>>)
        /\ LoadedBy(n) = {m \in {n} : n.sym.big}
    BY <1>2 DEF BuildTasks, LoadedBy, IsBig, Remembers
  <2>2. n.sym.big => Asks(t, {}, LoadedBy(n), <<Load(n)>>)
    BY <2>1, AskOne
  <2> QED
    BY <2>1, <2>2, AskChosen
<1>3. CASE Remembers(n)
  <2>1. BuildTasks(n) = <<Load(n)>> /\ LoadedBy(n) = {n}
    BY <1>3 DEF BuildTasks, LoadedBy, IsBig, Remembers
  <2> QED
    BY <2>1, AskOne
<1> QED
  BY <1>1, <1>2, <1>3

LEMMA AskStatic ==
    ASSUME NEW t, NEW f, InTree(t, f), NEW n, n = AsStatic(f)
    PROVE  Asks(t, {}, LoadedBy(n), BuildTasks(n))
<1> DEFINE own == <<Load([n EXCEPT !.kind = "field"])>>
<1>1. n.kind = "static" /\ n.values = f.values
  BY Roles
<1>2. BuildTasks(n) = If(IsStatic(n), Visits(n.values) \o own)
  BY <1>1 DEF BuildTasks, BuildStatic, IsBig
<1>3. LoadedBy(n) = {m \in {[n EXCEPT !.kind = "field"]} : IsStatic(n)}
  BY <1>1 DEF LoadedBy, Remembers, IsBig
<1>4. IsStatic(n) => Asks(t, {}, LoadedBy(n), own)
  <2>1. IsStatic(n) => [n EXCEPT !.kind = "field"] \in LoadedBy(n)
    BY <1>3
  <2> QED
    BY <2>1, AskOne
<1>5. Asks(t, {}, LoadedBy(n), Visits(n.values))
  BY <1>1, AskTree
<1> HIDE DEF own
<1> QED
  BY <1>2, <1>4, <1>5, AskJoined, AskChosen

LEMMA AskMore ==
    ASSUME NEW t, NEW cs, NEW ns, NEW ds, NEW ms, NEW s, Asks(t, ds, ms, s),
           ds \subseteq cs, ms \subseteq ns
    PROVE  Asks(t, cs, ns, s)
BY DEF Asks

(* Whatever is visited in the second walk asks for no more than this, and  *)
(* goes on to nodes of the tree.                                           *)
LEMMA AskWalked ==
    ASSUME NEW t \in Types, NEW n, Walked(t, n)
    PROVE  Asks(t, AskedBy(n), LoadedBy(n), BuildTasks(n))
<1>1. CASE \E f \in NodesOf(t) : f.kind = "field" /\ n = AsStatic(f)
  BY <1>1, AskStatic, AskMore DEF InTree
<1>2. CASE \E l \in NodesOf(t) : l.kind = "local" /\ n = AsFrame(l)
  <2>1. n.kind = "frame"
    BY <1>2, Roles DEF InTree
  <2>2. /\ BuildTasks(n) = Gets(If(n.sym.class # "", <<Class(n.sym.class)>>))
        /\ AskedBy(n) = ClassIfAny(n)
    BY <2>1 DEF BuildTasks, AskedBy, IsBig
  <2>3. Asks(t, ClassIfAny(n), {}, BuildTasks(n))
    BY <2>2, AskClass
  <2>4. Asks(t, ClassIfAny(n), LoadedBy(n), BuildTasks(n))
    BY <2>3, AskMore
  <2> QED
    BY <2>2, <2>4
<1>3. CASE n \in NodesOf(t)
  <2> InTree(t, n)
    BY <1>3 DEF InTree
  <2>1. n.kind # "static" /\ n.kind # "frame"
    BY TreeFacts DEF WellFormed
  <2>2. CASE n.kind = "type"
    <3>1. BuildTasks(n) = BuildType(n) /\ AskedBy(n) = AskedByType(n)
      BY <2>2 DEF BuildTasks, AskedBy, IsBig
    <3> QED
      BY <2>2, <3>1, AskType, AskMore
  <2>3. CASE n.kind = "method"
    <3>1. BuildTasks(n) = BuildMethod(n) /\ AskedBy(n) = AskedByMethod(n)
      BY <2>3 DEF BuildTasks, AskedBy, IsBig
    <3> QED
      BY <2>3, <3>1, AskMethod, AskMore
  <2>4. CASE n.kind \in {"field", "local"}
    BY <2>4, AskDeclared, AskMore
  <2>5. CASE n.kind \in {"call", "new", "superCall", "cast", "array"}
    BY <2>5, AskCall, AskMore
  <2>6. CASE n.kind \in {"assign", "decrease"} \/ Remembers(n)
    BY <2>6, AskIndex, AskMore
  <2>7. CASE n.kind = "if"
    <3>1. BuildTasks(n) = BuildIf(n)
      BY <2>7 DEF BuildTasks, IsBig
    <3> QED
      BY <2>7, <3>1, AskIf, AskMore
  <2>8. CASE n.kind = "for"
    <3>1. BuildTasks(n) = BuildFor(n) /\ LoadedBy(n) = {m \in {n} : IsBig(Step(n))}
      BY <2>8 DEF BuildTasks, LoadedBy, IsBig, Remembers
    <3> QED
      BY <2>8, <3>1, AskFor, AskMore
  <2>9. CASE n.kind = "while"
    <3>1. BuildTasks(n) = Visits(n.parts \o n.values)
      BY <2>9 DEF BuildTasks, IsBig
    <3>2. Listed(n.parts \o n.values) /\ \A m \in Elements(n.parts \o n.values) : Walked(t, m)
      BY TreeFacts, Joined DEF Walked
    <3> QED
      BY <3>1, <3>2, AskVisits
  <2>10. CASE n.kind = "scope"
    <3>1. BuildTasks(n) = Visits(n.parts)
      BY <2>10 DEF BuildTasks, IsBig
    <3> QED
      BY <3>1, AskTree
  <2>11. CASE /\ n.kind \notin Special \cup {"superCall", "array", "while", "scope"}
              /\ ~Remembers(n)
    <3>1. BuildTasks(n) = Visits(n.values)
      BY <2>1, <2>11 DEF BuildTasks, Special, Remembers
    <3> QED
      BY <3>1, AskTree
  <2> QED
    BY <2>2, <2>3, <2>4, <2>5, <2>6, <2>7, <2>8, <2>9, <2>10, <2>11 DEF Special
<1> QED
  BY <1>1, <1>2, <1>3 DEF Walked

(* A node in a role remembers what the node itself does. *)
Same(m, n) == m.id = n.id /\ OwnConstant(m) = OwnConstant(n)

LEMMA LoadsOwn ==
    ASSUME NEW t \in Types, NEW n, Walked(t, n), NEW m \in LoadedBy(n)
    PROVE  \E own \in NodesOf(t) : Same(m, own)
<1>1. CASE \E f \in NodesOf(t) : f.kind = "field" /\ n = AsStatic(f)
  <2> PICK f \in NodesOf(t) : f.kind = "field" /\ n = AsStatic(f)
    BY <1>1
  <2>1. n.kind = "static" /\ m = [n EXCEPT !.kind = "field"]
    BY Roles DEF InTree, LoadedBy, Remembers, IsBig
  <2>2. m.kind = f.kind /\ m.id = f.id /\ m.sym = f.sym
    BY <2>1, Roles DEF InTree
  <2>3. OwnConstant(m) = OwnConstant(f)
    BY <2>2 DEF OwnConstant
  <2> QED
    BY <2>2, <2>3 DEF Same
<1>2. CASE \E l \in NodesOf(t) : l.kind = "local" /\ n = AsFrame(l)
  <2>1. n.kind = "frame"
    BY <1>2, Roles DEF InTree
  <2>2. LoadedBy(n) = {}
    BY <2>1 DEF LoadedBy, Remembers, IsBig
  <2> QED
    BY <2>2
<1>3. CASE n \in NodesOf(t)
  <2>1. n.kind # "static"
    BY <1>3, TreeFacts DEF InTree, WellFormed
  <2>2. CASE n.kind = "assign"
    <3>1. m = n.values[1]
      BY <2>2 DEF LoadedBy, Remembers, IsBig
    <3>2. n.values \in Seq(NodesOf(t)) /\ Len(n.values) = 2
      BY <1>3, <2>2, TreeFacts DEF InTree, WellFormed
    <3>3. m \in NodesOf(t)
      BY <3>1, <3>2
    <3> QED
      BY <3>3 DEF Same
  <2>3. CASE n.kind # "assign"
    <3>1. m = n
      BY <2>1, <2>3 DEF LoadedBy
    <3> QED
      BY <3>1, <1>3 DEF Same
  <2> QED
    BY <2>2, <2>3
<1> QED
  BY <1>1, <1>2, <1>3 DEF Walked

(* The tasks of the second walk. *)
BuildTask(t, x) ==
    \/ \E n : Walked(t, n) /\ x = Visit(n)
    \/ \E c : x = Get(c)
    \/ \E m : x = Load(m) /\ \E own \in NodesOf(t) : Same(m, own)
    \/ x = Count

LEMMA BuildTyped ==
    ASSUME NEW t \in Types, NEW n, Walked(t, n)
    PROVE  Listed(BuildTasks(n)) /\ \A x \in Elements(BuildTasks(n)) : BuildTask(t, x)
<1>1. Asks(t, AskedBy(n), LoadedBy(n), BuildTasks(n))
  BY AskWalked
<1>2. \A m \in LoadedBy(n) : \E own \in NodesOf(t) : Same(m, own)
  BY LoadsOwn
<1> QED
  BY <1>1, <1>2 DEF Asks, BuildTask

(* What a task is shows in what it does. *)
LEMMA TaskKinds ==
    /\ \A n : Visit(n).do = "visit" /\ Visit(n).node = n
    /\ \A c : Put(c).do = "put" /\ Put(c).constant = c /\ Put(c).id = NoNode
    /\ \A n, c : Remember(n, c).do = "put" /\ Remember(n, c).constant = c /\ Remember(n, c).id = n.id
    /\ \A c : Get(c).do = "get" /\ Get(c).constant = c
    /\ \A n : Load(n).do = "load" /\ Load(n).node = n
    /\ Count.do = "count"
BY DEF Visit, Put, Remember, Get, Load, Count

-----------------------------------------------------------------------------
(* What nodes remember, what was loaded, and the pool within its limit.    *)

Tasked == Listed(tasks) /\ \A x \in Elements(tasks) :
              IF phase = "emit" THEN EmitTask(type, x) ELSE BuildTask(type, x)

Remembered == \A n \in NodesOf(type) : n.id \in DOMAIN cpi => Names(cpi[n.id], OwnConstant(n))

LoadsTrue ==
    /\ phase = "emit" => loads = {}
    /\ \A l \in loads :
           /\ \E own \in NodesOf(type) : Same(l.node, own)
           /\ l.node.id \in DOMAIN cpi => l.operand = Operand(l.node, cpi[l.node.id])

Counted ==
    /\ phase = "build" =>
           ~TooBig(pool) \/ Count \in Elements(tasks) \/ Visit(type) \in Elements(tasks)
    /\ phase = "done" => ~TooBig(pool)

JInv == type \in Types /\ Tasked /\ Remembered /\ LoadsTrue /\ Counted

LEMMA TaskedFirst ==
    ASSUME NEW t \in Types, InTree(t, t)
    PROVE  /\ Listed(<<Visit(t)>>) /\ Elements(<<Visit(t)>>) = {Visit(t)}
           /\ EmitTask(t, Visit(t)) /\ BuildTask(t, Visit(t))
BY Few DEF EmitTask, BuildTask, Walked, InTree

LEMMA JInitially == Init => JInv
<1> SUFFICES ASSUME Init PROVE JInv
  OBVIOUS
<1>1. InTree(type, type)
  BY TreeAssumption DEF Init, InTree
<1>2. Tasked
  BY <1>1, TaskedFirst DEF Init, Tasked
<1> QED
  BY <1>2 DEF Init, JInv, Remembered, LoadsTrue, Counted

LEMMA JVisitToEmit ==
    ASSUME JInv, VisitToEmit
    PROVE  JInv'
<1> PICK n : n = Head(tasks).node
  OBVIOUS
<1>1. tasks # <<>> /\ Listed(tasks) /\ phase = "emit" /\ Head(tasks).do = "visit"
  BY DEF JInv, Tasked, VisitToEmit, Doing
<1>2. EmitTask(type, Head(tasks)) /\ Listed(Tail(tasks)) /\ Elements(Tail(tasks)) \subseteq Elements(tasks)
  BY <1>1, Popped DEF JInv, Tasked
<1>3. n \in NodesOf(type)
  BY <1>1, <1>2, TaskKinds DEF EmitTask
<1>4. EmitList(type, EmitTasks(n))
  BY <1>3, EmitTyped DEF JInv, InTree
<1>5. tasks' = EmitTasks(n) \o Tail(tasks)
  BY DEF VisitToEmit
<1>6. Listed(tasks') /\ Elements(tasks') = Elements(EmitTasks(n)) \cup Elements(Tail(tasks))
  BY <1>2, <1>4, <1>5, Joined DEF EmitList
<1>7. Tasked'
  <2>1. \A x \in Elements(tasks') : EmitTask(type, x)
    BY <1>1, <1>2, <1>4, <1>6 DEF JInv, Tasked, EmitList
  <2>2. phase' = "emit" /\ type' = type
    BY <1>1 DEF VisitToEmit
  <2> QED
    BY <1>6, <2>1, <2>2 DEF Tasked, Listed, Elements, EmitTask
<1> QED
  BY <1>1, <1>7 DEF VisitToEmit, JInv, Remembered, Names, LoadsTrue, Counted, TooBig

LEMMA JPutConstant ==
    ASSUME IInv, JInv, PutConstant
    PROVE  JInv'
<1> PICK x : x = Head(tasks)
  OBVIOUS
<1>1. tasks # <<>> /\ x.do = "put" /\ x \in Elements(tasks)
      /\ Listed(Tail(tasks)) /\ Elements(Tail(tasks)) \subseteq Elements(tasks)
  BY Popped DEF JInv, Tasked, PutConstant, Doing
<1>2. phase = "emit"
  BY <1>1, TaskKinds DEF JInv, Tasked, BuildTask
<1>3. EmitTask(type, x)
  BY <1>1, <1>2 DEF JInv, Tasked
<1>4. /\ Shaped(x.constant)
      /\ x.id = NoNode \/ \E n \in NodesOf(type) : x.id = n.id /\ x.constant = OwnConstant(n)
  BY <1>1, <1>3, TaskKinds, OwnShaped DEF EmitTask
<1>5. PICK ltr \in BOOLEAN : pool' = GetOrCreate(pool, x.constant, ltr)
  BY DEF PutConstant
<1>6. Kept(pool, pool') /\ Has(pool', x.constant)
  BY <1>4, <1>5, GetOrCreateGood, HasGiven DEF IInv
<1>7. phase' = phase /\ type' = type /\ loads' = loads /\ tasks' = Tail(tasks)
  BY DEF PutConstant
<1>8. Tasked'
  BY <1>1, <1>2, <1>7 DEF JInv, Tasked, Listed, Elements, EmitTask
<1>9. ASSUME NEW n \in NodesOf(type), n.id \in DOMAIN cpi'
      PROVE  /\ Has(pool', OwnConstant(n))
             /\ pool'.slot[EntryOf(pool', OwnConstant(n))] = cpi'[n.id]
  <2>1. CASE x.id # NoNode /\ n.id = x.id
    <3>1. x.constant = OwnConstant(n)
      BY <1>4, <2>1, TreeFacts DEF JInv, InTree
    <3>2. cpi'[n.id] = pool'.slot[EntryOf(pool', x.constant)]
      BY <2>1 DEF PutConstant, IndexGiven
    <3> QED
      BY <3>1, <3>2, <1>6
  <2>2. CASE ~(x.id # NoNode /\ n.id = x.id)
    <3>1. n.id \in DOMAIN cpi /\ cpi'[n.id] = cpi[n.id]
      BY <1>9, <2>2 DEF PutConstant
    <3>2. Has(pool, OwnConstant(n)) /\ pool.slot[EntryOf(pool, OwnConstant(n))] = cpi[n.id]
      BY <3>1 DEF JInv, Remembered, Names
    <3> QED
      BY <3>1, <3>2, <1>6, HasKept, OwnShaped
  <2> QED
    BY <2>1, <2>2
<1>10. Remembered'
  <2>1. \A n \in NodesOf(type) : n.id \in DOMAIN cpi' =>
            Has(pool', OwnConstant(n)) /\ pool'.slot[EntryOf(pool', OwnConstant(n))] = cpi'[n.id]
    BY <1>9
  <2> QED
    BY <2>1, <1>7 DEF Remembered, Names
<1>11. LoadsTrue' /\ Counted'
  BY <1>2, <1>7 DEF JInv, LoadsTrue, Counted
<1> QED
  BY <1>7, <1>8, <1>10, <1>11 DEF JInv

LEMMA JStartBuild ==
    ASSUME JInv, StartBuild
    PROVE  JInv'
<1>1. phase' = "build" /\ tasks' = <<Visit(type)>> /\ UNCHANGED <<type, pool, cpi, loads>>
  BY DEF StartBuild
<1>2. InTree(type, type)
  BY TreeAssumption DEF JInv, InTree
<1>3. Listed(tasks') /\ Elements(tasks') = {Visit(type)} /\ BuildTask(type, Visit(type))
  BY <1>1, <1>2, TaskedFirst DEF JInv
<1>4. Tasked'
  BY <1>1, <1>3 DEF Tasked, Listed, Elements, BuildTask, Walked
<1>5. Counted'
  BY <1>1, <1>3 DEF Counted, Elements
<1>6. Remembered' /\ LoadsTrue'
  BY <1>1 DEF JInv, Remembered, Names, LoadsTrue
<1> QED
  BY <1>1, <1>4, <1>5, <1>6 DEF JInv

LEMMA JVisitToBuild ==
    ASSUME JInv, VisitToBuild
    PROVE  JInv'
<1> PICK n : n = Head(tasks).node
  OBVIOUS
<1>1. tasks # <<>> /\ Listed(tasks) /\ phase = "build" /\ Head(tasks).do = "visit"
  BY DEF JInv, Tasked, VisitToBuild, Doing
<1>2. /\ BuildTask(type, Head(tasks)) /\ Listed(Tail(tasks))
      /\ Elements(tasks) = {Head(tasks)} \cup Elements(Tail(tasks))
  BY <1>1, Popped DEF JInv, Tasked
<1>3. Walked(type, n) /\ Head(tasks) = Visit(n)
  BY <1>1, <1>2, TaskKinds DEF BuildTask
<1>4. Listed(BuildTasks(n)) /\ \A x \in Elements(BuildTasks(n)) : BuildTask(type, x)
  BY <1>3, BuildTyped DEF JInv
<1>5. tasks' = BuildTasks(n) \o Tail(tasks) /\ UNCHANGED <<phase, type, pool, cpi, loads>>
  BY DEF VisitToBuild
<1>6. Listed(tasks') /\ Elements(tasks') = Elements(BuildTasks(n)) \cup Elements(Tail(tasks))
  BY <1>2, <1>4, <1>5, Joined
<1>7. Tasked'
  <2>1. \A x \in Elements(tasks') : BuildTask(type, x)
    BY <1>1, <1>2, <1>4, <1>6 DEF JInv, Tasked
  <2> QED
    BY <1>1, <1>5, <1>6, <2>1 DEF Tasked, Listed, Elements, BuildTask, Walked
<1>8. ~TooBig(pool) \/ Count \in Elements(tasks') \/ Visit(type) \in Elements(tasks')
  <2>1. CASE n = type
    <3>1. InTree(type, n) /\ n.kind = "type"
      BY <2>1, TreeAssumption DEF JInv, InTree
    <3>2. Count \in Elements(BuildType(n)) /\ BuildTasks(n) = BuildType(n)
      BY <3>1, AskType DEF BuildTasks, IsBig
    <3> QED
      BY <3>2, <1>6
  <2>2. CASE n # type
    <3>1. Head(tasks) # Visit(type) /\ Head(tasks) # Count
      BY <1>3, <2>2, TaskKinds
    <3> QED
      BY <3>1, <1>1, <1>2, <1>6 DEF JInv, Counted
  <2> QED
    BY <2>1, <2>2
<1>9. Counted'
  BY <1>1, <1>5, <1>8 DEF Counted, Elements, TooBig
<1>10. Remembered' /\ LoadsTrue'
  BY <1>5 DEF JInv, Remembered, Names, LoadsTrue
<1> QED
  BY <1>5, <1>7, <1>9, <1>10 DEF JInv

(* A task that is done leaves the others. *)
LEMMA JPopped ==
    ASSUME JInv, tasks # <<>>, tasks' = Tail(tasks), UNCHANGED <<phase, type, pool>>,
           Head(tasks).do \in {"get", "load"} \/ ~TooBig(pool)
    PROVE  Tasked' /\ Counted'
<1>1. /\ Listed(Tail(tasks)) /\ Elements(tasks) = {Head(tasks)} \cup Elements(Tail(tasks))
  BY Popped DEF JInv, Tasked
<1>2. Tasked'
  BY <1>1 DEF JInv, Tasked, Listed, Elements, EmitTask, BuildTask, Walked
<1>3. ~TooBig(pool) \/ (Head(tasks) # Count /\ Head(tasks) # Visit(type))
  BY TaskKinds
<1>4. phase = "build" =>
          ~TooBig(pool) \/ Count \in Elements(Tail(tasks)) \/ Visit(type) \in Elements(Tail(tasks))
  BY <1>1, <1>3 DEF JInv, Counted
<1>5. Counted'
  BY <1>4 DEF JInv, Counted, Elements, TooBig
<1> QED
  BY <1>2, <1>5

LEMMA JThrow ==
    ASSUME JInv, Throw
    PROVE  JInv'
<1>1. phase' = "threw" /\ tasks' = <<>> /\ UNCHANGED <<type, pool, cpi, loads>>
  BY DEF Throw
<1>2. Tasked'
  BY <1>1, Few DEF Tasked, Listed, Elements
<1> QED
  BY <1>1, <1>2 DEF JInv, Remembered, Names, LoadsTrue, Counted

LEMMA JGetIndex ==
    ASSUME JInv, GetIndex
    PROVE  JInv'
<1>1. /\ tasks # <<>> /\ Head(tasks).do = "get" /\ tasks' = Tail(tasks)
      /\ UNCHANGED <<phase, type, pool, cpi, loads>>
  BY DEF GetIndex, Doing
<1>2. Tasked' /\ Counted'
  BY <1>1, JPopped
<1> QED
  BY <1>1, <1>2 DEF JInv, Remembered, Names, LoadsTrue

LEMMA JCountEntries ==
    ASSUME JInv, CountEntries
    PROVE  JInv'
<1>1. tasks # <<>> /\ UNCHANGED <<type, pool, cpi, loads>>
  BY DEF CountEntries, Doing
<1>2. phase # "emit"
  BY <1>1, Popped, TaskKinds DEF JInv, Tasked, CountEntries, Doing, EmitTask
<1>3. CASE TooBig(pool)
  <2>1. phase' = "fatal" /\ tasks' = <<>>
    BY <1>3 DEF CountEntries
  <2>2. Tasked'
    BY <2>1, Few DEF Tasked, Listed, Elements
  <2> QED
    BY <1>1, <2>1, <2>2 DEF JInv, Remembered, Names, LoadsTrue, Counted
<1>4. CASE ~TooBig(pool)
  <2>1. phase' = phase /\ tasks' = Tail(tasks)
    BY <1>4 DEF CountEntries
  <2>2. Tasked' /\ Counted'
    BY <1>1, <1>4, <2>1, JPopped
  <2> QED
    BY <1>1, <2>1, <2>2 DEF JInv, Remembered, Names, LoadsTrue
<1> QED
  BY <1>3, <1>4

LEMMA JLoaded ==
    ASSUME JInv, Doing("load"), NEW operand, NEW n, n = Head(tasks).node, Loaded(n, operand),
           n.id \in DOMAIN cpi => operand = Operand(n, cpi[n.id])
    PROVE  JInv'
<1>1. /\ tasks # <<>> /\ Head(tasks).do = "load" /\ tasks' = Tail(tasks)
      /\ UNCHANGED <<phase, type, pool, cpi>>
      /\ loads' = loads \cup {[node |-> n, operand |-> operand]}
  BY DEF Loaded, Doing
<1>2. phase # "emit"
  BY <1>1, Popped, TaskKinds DEF JInv, Tasked, EmitTask
<1>3. Tasked' /\ Counted'
  BY <1>1, JPopped
<1>4. BuildTask(type, Head(tasks))
  BY <1>1, <1>2, Popped DEF JInv, Tasked
<1>5. \E own \in NodesOf(type) : Same(n, own)
  BY <1>1, <1>4, TaskKinds DEF BuildTask
<1>6. LoadsTrue'
  <2>1. ASSUME NEW l \in loads'
        PROVE  /\ \E own \in NodesOf(type) : Same(l.node, own)
               /\ l.node.id \in DOMAIN cpi => l.operand = Operand(l.node, cpi[l.node.id])
    <3>1. CASE l \in loads
      BY <3>1 DEF JInv, LoadsTrue
    <3>2. CASE l = [node |-> n, operand |-> operand]
      BY <3>2, <1>5
    <3> QED
      BY <1>1, <3>1, <3>2
  <2> QED
    BY <1>1, <1>2, <2>1 DEF LoadsTrue
<1> QED
  BY <1>1, <1>3, <1>6 DEF JInv, Remembered, Names

LEMMA JUseMissing ==
    ASSUME JInv, UseMissing
    PROVE  JInv'
<1> PICK n : n = Head(tasks).node
  OBVIOUS
<1>1. n.id \notin DOMAIN cpi /\ Doing("load")
  BY DEF UseMissing
<1>2. CASE Throw
  BY <1>2, JThrow
<1>3. CASE \E garbage \in Garbage : Loaded(n, Operand(n, garbage))
  BY <1>1, <1>3, JLoaded
<1> QED
  BY <1>2, <1>3 DEF UseMissing

LEMMA JFinish ==
    ASSUME JInv, Finish
    PROVE  JInv'
<1>1. phase = "build" /\ phase' = "done" /\ tasks = <<>> /\ UNCHANGED <<tasks, type, pool, cpi, loads>>
  BY DEF Finish
<1>2. ~TooBig(pool)
  BY <1>1, Few DEF JInv, Counted
<1>3. Tasked'
  BY <1>1, Few DEF Tasked, Listed, Elements
<1> QED
  BY <1>1, <1>2, <1>3 DEF JInv, Remembered, Names, LoadsTrue, Counted, TooBig

LEMMA JStep ==
    ASSUME IInv, JInv, [Next]_vars
    PROVE  JInv'
<1>1. CASE VisitToEmit
  BY <1>1, JVisitToEmit
<1>2. CASE PutConstant
  BY <1>2, JPutConstant
<1>3. CASE StartBuild
  BY <1>3, JStartBuild
<1>4. CASE VisitToBuild
  BY <1>4, JVisitToBuild
<1>5. CASE GetIndex
  BY <1>5, JGetIndex
<1>6. CASE GetMissing
  BY <1>6, JThrow DEF GetMissing
<1>7. CASE CountEntries
  BY <1>7, JCountEntries
<1>8. CASE UseIndex
  <2>1. Doing("load") /\ Loaded(Head(tasks).node, Operand(Head(tasks).node, cpi[Head(tasks).node.id]))
    BY <1>8 DEF UseIndex
  <2> QED
    BY <2>1, JLoaded
<1>9. CASE UseMissing
  BY <1>9, JUseMissing
<1>10. CASE Finish
  BY <1>10, JFinish
<1>11. CASE UNCHANGED vars
  BY <1>11 DEF vars, JInv, Tasked, Listed, Elements, EmitTask, BuildTask, Walked, Remembered, Names,
               LoadsTrue, Counted, TooBig
<1> QED
  BY <1>1, <1>2, <1>3, <1>4, <1>5, <1>6, <1>7, <1>8, <1>9, <1>10, <1>11 DEF Next

(* What the two walks leave behind them, for every tree. *)
THEOREM WalksKeep == Spec => []JInv
<1>1. Init => JInv
  BY JInitially
<1>2. IInv /\ JInv /\ [Next]_vars => JInv'
  BY JStep
<1> QED
  BY <1>1, <1>2, Invariance, PTL DEF Spec

(* ReferencesResolve, for every tree: a class file is written only if its  *)
(* pool was counted on the way (CountEntries, before the first method is   *)
(* built), and nothing is put into a pool after that.                      *)
THEOREM WrittenReferencesResolve == Spec => []ReferencesResolve
<1> DEFINE Led == ~TooBig(pool) =>
        \A e \in DOMAIN pool.slot :
            /\ DOMAIN e.refs = DOMAIN Expected(e.tag)
            /\ \A k \in DOMAIN e.refs :
                   \E f \in DOMAIN pool.slot :
                       pool.slot[f] = e.refs[k] /\ f.tag = Expected(e.tag)[k]
<1>1. JInv /\ Led => ReferencesResolve
  BY DEF JInv, Counted, ReferencesResolve
<1>2. Spec => []Led
  BY ReferencesLead
<1> QED
  BY <1>1, <1>2, WalksKeep, PTL

(* An index that two bytes hold whole, in a pool within its limit. *)
LEMMA IndexWhole ==
    ASSUME Good(pool), ~TooBig(pool), NEW e \in DOMAIN pool.slot
    PROVE  pool.slot[e] \in Nat /\ pool.slot[e] % IndexSpan = pool.slot[e]
<1>1. /\ pool.slot[e] \in Nat /\ Slots(e) \in {1, 2} /\ pool.index \in Nat
      /\ pool.slot[e] + Slots(e) <= pool.index
  BY DEF Good, DisjointSlots, Slots
<1>2. pool.index <= MaxCount
  BY <1>1, SpanAssumption DEF TooBig
<1>3. pool.slot[e] < IndexSpan
  BY <1>1, <1>2, SpanAssumption, LimitAssumption
<1> QED
  BY <1>1, <1>3, SpanAssumption

LEMMA LoadNames ==
    ASSUME IInv, JInv, phase = "done", NEW l \in loads, l.node.id \in DOMAIN cpi,
           IsField(l.node) \/ cpi[l.node.id] < LdcSpan
    PROVE  Names(l.operand, OwnConstant(l.node))
<1>1. PICK own \in NodesOf(type) : Same(l.node, own)
  BY DEF JInv, LoadsTrue
<1>2. Names(cpi[l.node.id], OwnConstant(l.node))
  BY <1>1 DEF JInv, Remembered, Same
<1>3. EntryOf(pool, OwnConstant(l.node)) \in DOMAIN pool.slot
  BY <1>2 DEF Names, Has
<1>4. ~TooBig(pool) /\ Good(pool)
  BY DEF IInv, JInv, Counted
<1>5. cpi[l.node.id] \in Nat /\ cpi[l.node.id] % IndexSpan = cpi[l.node.id]
  BY <1>2, <1>3, <1>4, IndexWhole DEF Names
<1>6. l.operand = Operand(l.node, cpi[l.node.id])
  BY DEF JInv, LoadsTrue
<1>7. cpi[l.node.id] < LdcSpan => cpi[l.node.id] % LdcSpan = cpi[l.node.id]
  BY <1>5, SpanAssumption
<1>8. l.operand = cpi[l.node.id]
  BY <1>5, <1>6, <1>7 DEF Operand
<1> QED
  BY <1>2, <1>8

(* LoadsNameTheirConstant, for every tree, also one whose walks disagree:  *)
(* what a node remembers is the index of its own constant, nobody else     *)
(* writes it, and the pool does not move its entries.                      *)
THEOREM LoadsAreTrue == Spec => []LoadsNameTheirConstant
<1>1. IInv /\ JInv => LoadsNameTheirConstant
  BY LoadNames DEF LoadsNameTheirConstant
<1> QED
  BY <1>1, Invariance, WalksKeep, PTL

-----------------------------------------------------------------------------
(* The two walks agree.  What the second walk asks for at a node the first *)
(* put there, if it came to the node; and it came to every node but those  *)
(* it has no way to, because it goes on to the children of every node that *)
(* it comes to, and the nodes are numbered on the way down.                *)

LEMMA LeastNumber ==
    ASSUME NEW S \in SUBSET Nat, S # {}
    PROVE  \E i \in S : \A j \in S : i <= j
<1> DEFINE R == OpToRel(<, Nat)
<1>1. IsWellFoundedOn(R, Nat)
  BY NatLessThanWellFounded
<1>2. \A i, j \in Nat : i < j => <<i, j>> \in R
  BY DEF OpToRel
<1> HIDE DEF R
<1>3. PICK i \in S : \A j \in S : <<j, i>> \notin R
  BY <1>1, WFMin
<1>4. ASSUME NEW j \in S PROVE i <= j
  <2>1. i \in Nat /\ j \in Nat /\ ~(j < i)
    BY <1>2, <1>3
  <2> QED
    BY <2>1
<1> QED
  BY <1>3, <1>4

(* A task of the first walk that is done, where V was visited. *)
DoneTask(V, x) ==
    /\ x.do = "visit" => x.node \in V
    /\ x.do = "put" => Has(pool, x.constant) /\ (x.id # NoNode => x.id \in DOMAIN cpi)

Pending == IF phase = "emit" THEN Elements(tasks) ELSE {}

(* V was visited by the first walk, and all that follows from it is done   *)
(* or still to do.                                                         *)
Visited(V) ==
    /\ type \in V \/ Visit(type) \in Pending
    /\ \A n \in V : \A x \in Elements(EmitTasks(n)) : x \in Pending \/ DoneTask(V, x)

KInv == \E V \in SUBSET NodesOf(type) : Visited(V)

LEMMA KInitially == Init => KInv
<1> SUFFICES ASSUME Init PROVE KInv
  OBVIOUS
<1>1. Visit(type) \in Pending
  BY Few DEF Init, Pending
<1>2. Visited({})
  BY <1>1 DEF Visited
<1> QED
  BY <1>2 DEF KInv

LEMMA KVisitToEmit ==
    ASSUME JInv, KInv, VisitToEmit
    PROVE  KInv'
<1> PICK V \in SUBSET NodesOf(type) : Visited(V)
  BY DEF KInv
<1> PICK n : n = Head(tasks).node
  OBVIOUS
<1>1. tasks # <<>> /\ Listed(tasks) /\ phase = "emit" /\ Head(tasks).do = "visit"
  BY DEF JInv, Tasked, VisitToEmit, Doing
<1>2. /\ EmitTask(type, Head(tasks)) /\ Listed(Tail(tasks))
      /\ Elements(tasks) = {Head(tasks)} \cup Elements(Tail(tasks))
  BY <1>1, Popped DEF JInv, Tasked
<1>3. n \in NodesOf(type) /\ Head(tasks) = Visit(n)
  BY <1>1, <1>2, TaskKinds DEF EmitTask
<1>4. Listed(EmitTasks(n))
  BY <1>3, EmitTyped DEF JInv, InTree, EmitList
<1>5. /\ tasks' = EmitTasks(n) \o Tail(tasks) /\ phase' = phase
      /\ type' = type /\ pool' = pool /\ cpi' = cpi
  BY DEF VisitToEmit
<1>6. Elements(tasks') = Elements(EmitTasks(n)) \cup Elements(Tail(tasks))
  BY <1>2, <1>4, <1>5, Joined
<1>7. Pending = Elements(tasks) /\ Pending' = Elements(tasks')
  BY <1>1, <1>5 DEF Pending, Elements
<1> PICK W : W = V \cup {n}
  OBVIOUS
<1>8. type \in W \/ Visit(type) \in Pending'
  BY <1>2, <1>3, <1>6, <1>7, TaskKinds DEF Visited
<1>9. ASSUME NEW m \in W, NEW x \in Elements(EmitTasks(m)), x \notin Pending'
      PROVE  DoneTask(W, x)
  <2>1. m \in V /\ x \notin Elements(Tail(tasks))
    BY <1>6, <1>7, <1>9
  <2>2. CASE x = Head(tasks)
    BY <2>2, <1>3, TaskKinds DEF DoneTask
  <2>3. CASE x # Head(tasks)
    BY <2>1, <2>3, <1>2, <1>7 DEF Visited, DoneTask
  <2> QED
    BY <2>2, <2>3
<1>10. Visited(W)'
  BY <1>5, <1>8, <1>9 DEF Visited, DoneTask, Has
<1> QED
  BY <1>3, <1>5, <1>10 DEF KInv

LEMMA KPutConstant ==
    ASSUME IInv, JInv, KInv, PutConstant
    PROVE  KInv'
<1> PICK V \in SUBSET NodesOf(type) : Visited(V)
  BY DEF KInv
<1> PICK h : h = Head(tasks)
  OBVIOUS
<1>1. tasks # <<>> /\ h.do = "put" /\ h \in Elements(tasks)
      /\ Elements(tasks) = {h} \cup Elements(Tail(tasks))
  BY Popped DEF JInv, Tasked, PutConstant, Doing
<1>2. phase = "emit"
  BY <1>1, TaskKinds DEF JInv, Tasked, BuildTask
<1>3. EmitTask(type, h)
  BY <1>1, <1>2 DEF JInv, Tasked
<1>4. Shaped(h.constant)
  BY <1>1, <1>3, TaskKinds, OwnShaped DEF EmitTask
<1>5. PICK ltr \in BOOLEAN : pool' = GetOrCreate(pool, h.constant, ltr)
  BY DEF PutConstant
<1>6. Kept(pool, pool') /\ Has(pool', h.constant)
  BY <1>4, <1>5, GetOrCreateGood, HasGiven DEF IInv
<1>7. phase' = phase /\ type' = type /\ tasks' = Tail(tasks)
  BY DEF PutConstant
<1>8. /\ DOMAIN cpi \subseteq DOMAIN cpi'
      /\ h.id # NoNode => h.id \in DOMAIN cpi'
  BY DEF PutConstant
<1>9. Pending = Elements(tasks) /\ Pending' = Elements(Tail(tasks))
  BY <1>2, <1>7 DEF Pending, Elements
<1>10. type \in V \/ Visit(type) \in Pending'
  BY <1>1, <1>9, TaskKinds DEF Visited
<1>11. ASSUME NEW m \in V, NEW x \in Elements(EmitTasks(m)), x \notin Pending'
       PROVE  /\ x.do = "visit" => x.node \in V
              /\ x.do = "put" => Has(pool', x.constant) /\ (x.id # NoNode => x.id \in DOMAIN cpi')
  <2>1. CASE x = h
    BY <2>1, <1>1, <1>6, <1>8
  <2>2. CASE x # h
    <3>1. DoneTask(V, x)
      BY <2>2, <1>1, <1>9, <1>11 DEF Visited
    <3>2. EmitTask(type, x)
      BY <1>11, EmitTyped DEF JInv, InTree, EmitList
    <3>3. x.do = "put" => Shaped(x.constant)
      BY <3>2, TaskKinds, OwnShaped DEF EmitTask
    <3>4. x.do = "put" => Has(pool', x.constant)
      BY <3>1, <3>3, <1>6, HasKept DEF DoneTask
    <3> QED
      BY <3>1, <3>4, <1>8 DEF DoneTask
  <2> QED
    BY <2>1, <2>2
<1>12. Visited(V)'
  <2>1. \A m \in V : \A x \in Elements(EmitTasks(m)) :
            \/ x \in Pending'
            \/ /\ x.do = "visit" => x.node \in V
               /\ x.do = "put" => Has(pool', x.constant) /\ (x.id # NoNode => x.id \in DOMAIN cpi')
    BY <1>11
  <2> QED
    BY <1>7, <1>10, <2>1 DEF Visited, DoneTask
<1> QED
  BY <1>7, <1>12 DEF KInv

LEMMA KStartBuild ==
    ASSUME KInv, StartBuild
    PROVE  KInv'
<1> PICK V \in SUBSET NodesOf(type) : Visited(V)
  BY DEF KInv
<1>1. Pending = {} /\ Pending' = {}
  BY Few DEF StartBuild, Pending
<1>2. type' = type /\ pool' = pool /\ cpi' = cpi
  BY DEF StartBuild
<1>3. Visited(V)'
  BY <1>1, <1>2 DEF Visited, DoneTask, Has
<1> QED
  BY <1>2, <1>3 DEF KInv

LEMMA KOthers ==
    ASSUME JInv, KInv, [Next]_vars, ~VisitToEmit, ~PutConstant, ~StartBuild
    PROVE  KInv'
<1> PICK V \in SUBSET NodesOf(type) : Visited(V)
  BY DEF KInv
<1>1. type' = type /\ pool' = pool /\ cpi' = cpi
  BY DEF Next, vars, VisitToBuild, GetIndex, GetMissing, Throw, CountEntries, UseIndex, UseMissing,
         Loaded, Finish
<1>2. CASE UNCHANGED vars
  BY <1>2 DEF vars, KInv, Visited, Pending, DoneTask, Has, Elements
<1>3. CASE ~UNCHANGED vars
  <2>1. phase # "emit"
    <3>1. CASE VisitToBuild \/ Finish
      BY <3>1 DEF VisitToBuild, Finish
    <3>2. CASE Doing("get") \/ Doing("load") \/ Doing("count")
      BY <3>2, Popped, TaskKinds DEF JInv, Tasked, Doing, EmitTask
    <3> QED
      BY <1>3, <3>1, <3>2 DEF Next, GetIndex, GetMissing, CountEntries, UseIndex, UseMissing
  <2>2. phase' # "emit"
    BY <1>3, <2>1 DEF Next, VisitToBuild, GetIndex, GetMissing, Throw, CountEntries, UseIndex,
                      UseMissing, Loaded, Finish
  <2>3. Pending = {} /\ Pending' = {}
    BY <2>1, <2>2 DEF Pending
  <2>4. Visited(V)'
    BY <1>1, <2>3 DEF Visited, DoneTask, Has
  <2> QED
    BY <1>1, <2>4 DEF KInv
<1> QED
  BY <1>2, <1>3

THEOREM FirstWalkGoesOn == Spec => []KInv
<1>1. IInv /\ JInv /\ KInv /\ [Next]_vars => KInv'
  BY KVisitToEmit, KPutConstant, KStartBuild, KOthers
<1> QED
  BY <1>1, KInitially, Invariance, WalksKeep, PTL DEF Spec

(* V was visited by a first walk that is over. *)
Walk(V) == /\ V \subseteq NodesOf(type) /\ type \in V
           /\ \A n \in V : \A x \in Elements(EmitTasks(n)) : DoneTask(V, x)

(* The first walk came to every node that is not hidden from it. *)
LEMMA ComesToAll ==
    ASSUME type \in Types, NEW V, Walk(V), NEW n \in NodesOf(type), n \notin Hidden(type)
    PROVE  n \in V
<1> DEFINE Missed == {m \in NodesOf(type) : m \notin V /\ m \notin Hidden(type)}
           Numbers == {m.id : m \in Missed}
<1> SUFFICES ASSUME n \notin V PROVE FALSE
  OBVIOUS
<1>1. Numbers \in SUBSET Nat /\ Numbers # {}
  BY TreeFacts DEF InTree
<1>2. PICK i \in Numbers : \A j \in Numbers : i <= j
  <2> HIDE DEF Numbers
  <2> QED BY <1>1, LeastNumber
<1>3. PICK least \in Missed : least.id = i
  BY <1>2
<1>4. least # type
  BY <1>3 DEF Walk
<1>5. PICK m \in NodesOf(type) : m.id < least.id /\ least \in Children(m)
  BY <1>3, <1>4, TreeAssumption
<1>6. m \notin Missed
  <2>1. m.id \in Nat /\ least.id \in Nat
    BY <1>3, <1>5, TreeFacts DEF InTree
  <2>2. m.id \notin Numbers
    <3> HIDE DEF Numbers
    <3> QED
      BY <2>1, <1>2, <1>3, <1>5
  <2> QED
    BY <2>2
<1>7. CASE m \in Hidden(type)
  <2>1. PICK k \in NodesOf(type) : \E v \in Skipped(k) : m \in NodesOf(v)
    BY <1>7 DEF Hidden
  <2>2. PICK v \in Skipped(k) : m \in NodesOf(v)
    BY <2>1
  <2>3. v \in NodesOf(type)
    <3>1. Skipped(k) \subseteq Children(k)
      BY DEF Skipped, Children, NoEmitters
    <3> QED
      BY <2>2, <3>1, BothListed DEF InTree
  <2>4. WellFormed(m, NodesOf(v))
    BY <2>2, <2>3, TreeAssumption
  <2>5. Children(m) \subseteq NodesOf(v)
    BY <2>4, ListedSeq DEF WellFormed, Children
  <2>6. least \in Hidden(type)
    BY <1>3, <1>5, <2>2, <2>5 DEF Hidden
  <2> QED
    BY <1>3, <2>6
<1>8. CASE m \in V
  <2>1. least \in NodesOf(least)
    BY <1>3, TreeAssumption
  <2>2. least \notin Skipped(m)
    BY <1>3, <1>5, <2>1 DEF Hidden
  <2>3. m.kind \notin NoEmitters /\ (m.kind = "if" => least \notin Elements(m.values))
    BY <1>5, <2>2 DEF Skipped, NoEmitters
  <2>4. Visit(least) \in Elements(EmitTasks(m))
    BY <1>5, <2>3, EmitGoesOn DEF InTree
  <2>5. least \in V
    BY <1>8, <2>4, TaskKinds DEF Walk, DoneTask
  <2> QED
    BY <1>3, <2>5
<1> QED
  BY <1>5, <1>6, <1>7, <1>8

(* What a visited node put there is found, and so is its own index. *)
LEMMA WalkLeft ==
    ASSUME type \in Types, NEW V, Walk(V), NEW n \in V
    PROVE  /\ InTree(type, n)
           /\ \A m : Visit(m) \in Elements(EmitTasks(n)) => m \in V
           /\ \A c : Put(c) \in Elements(EmitTasks(n)) => Has(pool, c)
           /\ \A c : Remember(n, c) \in Elements(EmitTasks(n)) => n.id \in DOMAIN cpi
<1>1. InTree(type, n)
  BY DEF Walk, InTree
<1>2. n.id # NoNode
  BY <1>1, TreeFacts
<1> QED
  BY <1>1, <1>2, TaskKinds DEF Walk, DoneTask

LEMMA TypeFinds ==
    ASSUME type \in Types, NEW V, Walk(V), NEW n \in V, n.kind = "type"
    PROVE  \A c \in AskedBy(n) : Has(pool, c)
<1>1. InTree(type, n) /\ EmitTasks(n) = EmitType(n)
  BY WalkLeft DEF EmitTasks, IsBig, NoEmitters
<1>2. AskedBy(n) = AskedByType(n)
  BY DEF AskedBy
<1>3. \A c \in {Class(n.sym.name), Class(n.sym.super), Utf8("SourceFile"), Utf8(n.sym.source)} : Has(pool, c)
  BY <1>1, WalkLeft, EmitTypeIs
<1>4. \A i \in Elements(n.sym.interfaces) : Has(pool, Class(i))
  BY <1>1, WalkLeft, EmitTypeIs
<1>5. \A m \in Children(n) : m \in V
  BY <1>1, WalkLeft, EmitTypeIs
<1>6. Has(pool, Utf8("Code"))
  <2>1. PICK m \in Elements(n.parts) : m.kind = "method"
    BY <1>1, TreeFacts DEF WellFormed
  <2>2. m \in V
    BY <1>5, <2>1 DEF Children
  <2>3. Put(Utf8("Code")) \in Elements(EmitTasks(m))
    <3>1. InTree(type, m) /\ EmitTasks(m) = EmitMethod(m)
      BY <2>1, <2>2, WalkLeft DEF EmitTasks, IsBig, NoEmitters
    <3> QED
      BY <2>1, <3>1, EmitMethodIs
  <2> QED
    BY <2>2, <2>3, WalkLeft
<1>7. HasStatics(n) => Has(pool, Utf8("<clinit>")) /\ Has(pool, Utf8("()V"))
  <2> SUFFICES ASSUME HasStatics(n)
               PROVE  Has(pool, Utf8("<clinit>")) /\ Has(pool, Utf8("()V"))
    OBVIOUS
  <2>1. PICK k \in DOMAIN n.values : IsStatic(n.values[k])
    BY DEF HasStatics
  <2> PICK f : f = n.values[k]
    OBVIOUS
  <2>2. f \in Elements(n.values) /\ f.values # <<>>
    BY <2>1 DEF Elements, IsStatic
  <2>3. f.kind = "field" /\ f \in V
    BY <1>1, <1>5, <2>2, TreeFacts DEF WellFormed, Children
  <2>4. InTree(type, f) /\ EmitTasks(f) = EmitField(f)
    BY <2>3, WalkLeft DEF EmitTasks, IsBig, NoEmitters
  <2>5. /\ Put(Utf8("<clinit>")) \in Elements(EmitTasks(f))
        /\ Put(Utf8("()V")) \in Elements(EmitTasks(f))
    BY <2>2, <2>3, <2>4, EmitFieldIs
  <2> QED
    BY <2>3, <2>5, WalkLeft
<1> QED
  BY <1>2, <1>3, <1>4, <1>6, <1>7 DEF AskedByType

LEMMA MethodFinds ==
    ASSUME type \in Types, NEW V, Walk(V), NEW n \in V, n.kind = "method"
    PROVE  \A c \in AskedBy(n) : Has(pool, c)
<1>1. InTree(type, n) /\ EmitTasks(n) = EmitMethod(n)
  BY WalkLeft DEF EmitTasks, IsBig, NoEmitters
<1>2. AskedBy(n) = AskedByMethod(n)
  BY DEF AskedBy
<1>3. /\ Has(pool, Utf8("Code")) /\ Has(pool, Utf8("LocalVariableTable"))
      /\ Has(pool, Constant("NameAndType", <<n.sym.name, n.sym.descriptor>>))
  BY <1>1, WalkLeft, EmitMethodIs
<1>4. Has(pool, Utf8(n.sym.name)) /\ Has(pool, Utf8(n.sym.descriptor))
  BY <1>3, PartsFound
<1>5. HasInnerScopes(n) => Has(pool, Utf8("StackMapTable"))
  BY <1>1, WalkLeft, EmitMethodIs
<1>6. /\ n.sym.throws # <<>> => Has(pool, Utf8("Exceptions"))
      /\ \A i \in Elements(n.sym.throws) : Has(pool, Class(i))
  BY <1>1, WalkLeft, EmitMethodIs
<1> QED
  BY <1>2, <1>3, <1>4, <1>5, <1>6 DEF AskedByMethod

LEMMA DeclaredFinds ==
    ASSUME type \in Types, NEW V, Walk(V), NEW n \in V, n.kind \in {"field", "local"}
    PROVE  /\ Has(pool, Utf8(n.sym.name)) /\ Has(pool, Utf8(n.sym.descriptor))
           /\ n.kind = "local" /\ n.sym.class # "" => Has(pool, Class(n.sym.class))
<1>1. CASE n.kind = "field"
  <2>1. InTree(type, n) /\ EmitTasks(n) = EmitField(n)
    BY <1>1, WalkLeft DEF EmitTasks, IsBig, NoEmitters
  <2> QED
    BY <1>1, <2>1, WalkLeft, EmitFieldIs
<1>2. CASE n.kind = "local"
  <2>1. EmitTasks(n) = Puts(Declared(n))
    BY <1>2 DEF EmitTasks, IsBig, NoEmitters
  <2> QED
    BY <1>2, <2>1, WalkLeft, EmitLocalIs
<1> QED
  BY <1>1, <1>2

LEMMA CallFinds ==
    ASSUME type \in Types, NEW V, Walk(V), NEW n \in V,
           n.kind \in {"call", "new", "superCall", "cast"}
    PROVE  \A c \in AskedBy(n) : Has(pool, c)
<1>1. InTree(type, n)
  BY WalkLeft
<1>2. CASE n.kind \in {"call", "new"}
  <2>1. Has(pool, Method(n))
    BY <1>1, <1>2, WalkLeft, EmitCallIs
  <2>2. Has(pool, Class(n.sym.owner))
    BY <2>1, PartsFound DEF Method
  <2>3. AskedBy(n) \subseteq {Class(n.sym.owner), Method(n)}
    BY <1>2 DEF AskedBy
  <2> QED
    BY <2>1, <2>2, <2>3
<1>3. CASE n.kind = "superCall"
  <2>1. SuperConstructor(n) = SuperConstructor(type)
    BY <1>1, <1>3, TreeAssumption DEF InTree, SuperConstructor
  <2>2. type \in V /\ type.kind = "type" /\ InTree(type, type)
    BY WalkLeft, TreeAssumption DEF Walk
  <2>3. Has(pool, SuperConstructor(type))
    <3>1. EmitTasks(type) = EmitType(type)
      BY <2>2 DEF EmitTasks, IsBig, NoEmitters
    <3>2. Put(SuperConstructor(type)) \in Elements(EmitTasks(type))
      BY <2>2, <3>1, EmitTypeIs
    <3> QED
      BY <2>2, <3>2, WalkLeft
  <2>4. AskedBy(n) = {SuperConstructor(n)}
    BY <1>3 DEF AskedBy
  <2> QED
    BY <2>1, <2>3, <2>4
<1>4. CASE n.kind = "cast"
  <2>1. n.sym.class # "" => Has(pool, Class(n.sym.class))
    BY <1>1, <1>4, WalkLeft, EmitCastIs
  <2>2. AskedBy(n) = ClassIfAny(n)
    BY <1>4 DEF AskedBy
  <2> QED
    BY <2>1, <2>2 DEF ClassIfAny
<1> QED
  BY <1>2, <1>3, <1>4

LEMMA IndexFound ==
    ASSUME type \in Types, NEW V, Walk(V), NEW n \in V, ~Forgets(n), NEW m \in LoadedBy(n)
    PROVE  m.id \in DOMAIN cpi
<1>1. InTree(type, n) /\ n.kind # "static"
  BY WalkLeft, TreeFacts DEF WellFormed
<1>2. \A k \in V : Remembers(k) => k.id \in DOMAIN cpi
  BY WalkLeft, EmitOwnIs
<1>3. CASE n.kind = "assign"
  <2>1. m = n.values[1] /\ m.kind = "reference"
    BY <1>3 DEF LoadedBy, Remembers, IsBig
  <2>2. m \in Elements(n.values)
    <3>1. n.values \in Seq(NodesOf(type)) /\ Len(n.values) = 2
      BY <1>1, <1>3, TreeFacts DEF WellFormed
    <3> QED
      BY <2>1, <3>1, ListedSeq
  <2>3. EmitTasks(n) = EmitAssignment(n)
    BY <1>3 DEF EmitTasks, IsBig, NoEmitters
  <2>4. m \in V
    BY <1>1, <2>2, <2>3, WalkLeft, EmitAssignmentIs
  <2> QED
    BY <1>2, <2>1, <2>4 DEF Remembers
<1>4. CASE n.kind = "decrease"
  <2>1. m = n /\ n.sym.big
    BY <1>4 DEF LoadedBy, Remembers, IsBig
  <2>2. EmitTasks(n) = EmitAssignment(n)
    BY <1>4 DEF EmitTasks, IsBig, NoEmitters
  <2> QED
    BY <1>1, <2>1, <2>2, WalkLeft, EmitAssignmentIs
<1>5. CASE n.kind = "for"
  BY <1>5 DEF LoadedBy, Remembers, IsBig, Forgets
<1>6. CASE n.kind \notin {"assign", "decrease", "for"}
  <2>1. m = n /\ Remembers(n)
    BY <1>1, <1>6 DEF LoadedBy
  <2> QED
    BY <1>2, <2>1
<1> QED
  BY <1>3, <1>4, <1>5, <1>6

LEMMA VisitedFinds ==
    ASSUME type \in Types, NEW V, Walk(V), NEW n, Walked(type, n),
           \A b \in NodesOf(type) : b.id = n.id => b \in V
    PROVE  Finds(n) \/ Forgets(n)
<1> SUFFICES ASSUME ~Forgets(n)
             PROVE  /\ \A c \in AskedBy(n) : Has(pool, c)
                    /\ \A m \in LoadedBy(n) : m.id \in DOMAIN cpi
  <2>1. Asks(type, AskedBy(n), LoadedBy(n), BuildTasks(n))
    BY AskWalked
  <2> QED
    BY <2>1, TaskKinds DEF Asks, Finds
<1>1. CASE \E f \in NodesOf(type) : f.kind = "field" /\ n = AsStatic(f)
  <2>1. n.kind = "static"
    BY <1>1, Roles DEF InTree
  <2>2. AskedBy(n) = {} /\ LoadedBy(n) = {m \in {[n EXCEPT !.kind = "field"]} : IsStatic(n)}
    BY <2>1 DEF AskedBy, LoadedBy, Remembers, IsBig
  <2>3. [n EXCEPT !.kind = "field"].id = n.id
    BY <1>1, Roles DEF InTree
  <2> QED
    BY <2>2, <2>3 DEF IsStatic
<1>2. CASE \E l \in NodesOf(type) : l.kind = "local" /\ n = AsFrame(l)
  <2> PICK l \in NodesOf(type) : l.kind = "local" /\ n = AsFrame(l)
    BY <1>2
  <2>1. n.kind = "frame" /\ n.id = l.id /\ n.sym = l.sym
    BY Roles DEF InTree
  <2>2. AskedBy(n) = ClassIfAny(n) /\ LoadedBy(n) = {}
    BY <2>1 DEF AskedBy, LoadedBy, Remembers, IsBig
  <2>3. l \in V
    BY <2>1
  <2>4. l.sym.class # "" => Has(pool, Class(l.sym.class))
    BY <2>3, DeclaredFinds
  <2> QED
    BY <2>1, <2>2, <2>4 DEF ClassIfAny
<1>3. CASE n \in NodesOf(type)
  <2>1. n \in V /\ n.kind # "frame" /\ n.kind # "static" /\ n.kind # "array"
    BY <1>3, TreeFacts DEF InTree, WellFormed, Forgets
  <2>2. \A m \in LoadedBy(n) : m.id \in DOMAIN cpi
    BY <2>1, IndexFound
  <2>3. \A c \in AskedBy(n) : Has(pool, c)
    <3>1. CASE n.kind = "type"
      BY <2>1, <3>1, TypeFinds
    <3>2. CASE n.kind = "method"
      BY <2>1, <3>2, MethodFinds
    <3>3. CASE n.kind \in {"field", "local"}
      <4>1. AskedBy(n) = {Utf8(n.sym.name), Utf8(n.sym.descriptor)}
        BY <3>3 DEF AskedBy
      <4> QED
        BY <2>1, <3>3, <4>1, DeclaredFinds
    <3>4. CASE n.kind \in {"call", "new", "superCall", "cast"}
      BY <2>1, <3>4, CallFinds
    <3>5. CASE n.kind \notin {"type", "method", "field", "local", "call", "new", "superCall", "cast"}
      <4>1. AskedBy(n) = {}
        BY <2>1, <3>5 DEF AskedBy
      <4> QED
        BY <4>1
    <3> QED
      BY <3>1, <3>2, <3>3, <3>4, <3>5
  <2> QED
    BY <2>2, <2>3
<1> QED
  BY <1>1, <1>2, <1>3 DEF Walked

(* OnlyHiddenMiss, for every tree: emit_constants and emit_ir of each kind *)
(* of node agree on what the node needs of the pool, and only the nodes    *)
(* that emit_constants has no way to miss it.                              *)
THEOREM WalksAgree == Spec => []OnlyHiddenMiss
<1>1. JInv /\ KInv => OnlyHiddenMiss
  <2> SUFFICES ASSUME JInv, KInv, phase = "build", Doing("visit"),
                      NEW n, n = Head(tasks).node, ~\E m \in Hidden(type) : m.id = n.id
               PROVE  Finds(n) \/ Forgets(n)
    BY DEF OnlyHiddenMiss
  <2>1. PICK V \in SUBSET NodesOf(type) : Visited(V)
    BY DEF KInv
  <2>2. Walk(V)
    BY <2>1 DEF Visited, Walk, Pending
  <2>3. Walked(type, n)
    <3>1. BuildTask(type, Head(tasks)) /\ Head(tasks).do = "visit"
      BY Popped DEF JInv, Tasked, Doing
    <3> QED
      BY <3>1, TaskKinds DEF BuildTask
  <2>4. \A b \in NodesOf(type) : b.id = n.id => b \in V
    BY <2>2, ComesToAll DEF JInv
  <2> QED
    BY <2>2, <2>3, <2>4, VisitedFinds DEF JInv
<1> QED
  BY <1>1, WalksKeep, FirstWalkGoesOn, PTL

=============================================================================
