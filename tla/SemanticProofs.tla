--------------------------- MODULE SemanticProofs ---------------------------
(***************************************************************************)
(* Proofs about the types of semantic analysis.                            *)
(*                                                                         *)
(* Records: their layout is sound, for any tags and any fields, and the    *)
(* compiler and C agree, construct by construct, on every record.          *)
(*                                                                         *)
(* Expressions: for any declarations and trees of any height the analysis  *)
(* agrees with C wherever it does not depart from it by a known rule.  A   *)
(* node's analysis agrees with C's (Agree) if those of its children do,    *)
(* operator by operator (AddressAgrees ... UseAgrees); what is wrong in a  *)
(* child is wrong in the node (UnaryRefuses ... UseRefuses); the rest is   *)
(* induction on the height (TreesMatch).                                   *)
(***************************************************************************)
EXTENDS Records, CExpressions, FiniteSetTheorems, WellFoundedInduction, TLAPS

Alignments == {1, 4, 8}

TypeTerms ==
    {Char, Int32, Double, Function, Invalid}
    \union {Record(i) : i \in Nat} \union {PointerType(t) : t \in {Invalid} \union {Record(i) : i \in Nat}}

FieldRecords == [name : FieldNames, type : TypeTerms, offset : Nat, size : Nat, alignment : Alignments]

RecordsOf(tags) ==
    [union : BOOLEAN, tag : tags, complete : BOOLEAN, fields : Seq(FieldRecords), size : Nat, alignment : Alignments]

Definitions ==
    [record : Nat, fields : Seq(FieldRecords), size : Nat, alignment : Alignments, begun : BOOLEAN]

TagTables == UNION {[D -> Nat] : D \in SUBSET Tags}

(* What the variables hold, and that what refers to a type refers to one    *)
(* there is.                                                                *)
TypeInv ==
    /\ types \in Seq(RecordsOf(Tags \union {NoTag}))
    /\ scopes \in Seq(TagTables) /\ Len(scopes) >= 1
    /\ open \in Seq(Definitions)
    /\ base \in Nat
    /\ refused \in BOOLEAN

Refer ==
    /\ \A n \in DOMAIN scopes : \A tag \in DOMAIN scopes[n] : scopes[n][tag] \in DOMAIN types
    /\ \A n \in DOMAIN open : open[n].record \in DOMAIN types
    /\ base # None => base \in DOMAIN types

IInv == TypeInv /\ Refer /\ LayoutsAreSound

-----------------------------------------------------------------------------
(* cc_align_up gives a multiple of the alignment, and no less.              *)
LEMMA AlignedUpLemma ==
    ASSUME NEW value \in Nat, NEW alignment \in Alignments
    PROVE  /\ AlignedUp(value, alignment) \in Nat
           /\ AlignedUp(value, alignment) % alignment = 0
           /\ value <= AlignedUp(value, alignment)
<1>1. CASE alignment = 1
  BY <1>1 DEF AlignedUp
<1>2. CASE alignment = 4
  BY <1>2 DEF AlignedUp
<1>3. CASE alignment = 8
  BY <1>3 DEF AlignedUp
<1> QED
  BY <1>1, <1>2, <1>3 DEF Alignments

(* A complete object has a size, and an alignment among those there are.    *)
LEMMA ExtentLemma ==
    ASSUME TypeInv, NEW t \in TypeTerms, IsCompleteObject(t)
    PROVE  SizeOf(t) \in Nat /\ AlignmentOf(t) \in Alignments
<1>1. CASE IsRecord(t)
  <2>1. t[2] \in DOMAIN types
    BY <1>1 DEF IsCompleteObject
  <2>2. types[t[2]] \in RecordsOf(Tags \union {NoTag})
    BY <2>1 DEF TypeInv
  <2>3. t[1] = "record"
    BY <1>1 DEF IsRecord
  <2> QED
    BY <1>1, <2>2, <2>3 DEF SizeOf, AlignmentOf, IsRecord, RecordsOf
<1>2. CASE ~IsRecord(t)
  BY <1>2 DEF SizeOf, AlignmentOf, IsRecord, Alignments
<1> QED
  BY <1>1, <1>2

(* A tag that is found names a type there is.                               *)
LEMMA FoundLemma ==
    ASSUME TypeInv, Refer, NEW tag, NEW defines \in BOOLEAN, Found(tag, defines) # None
    PROVE  Found(tag, defines) \in DOMAIN types
<1>1. CASE tag \in DOMAIN Here
  <2>1. Len(scopes) \in DOMAIN scopes
    BY DEF TypeInv
  <2> QED
    BY <1>1, <2>1 DEF Found, Here, Refer
<1>2. CASE tag \notin DOMAIN Here
  <2>1. PICK n \in Nearest(tag) : n = CHOOSE m \in Nearest(tag) : TRUE
    BY <1>2 DEF Found
  <2>2. n \in DOMAIN scopes /\ tag \in DOMAIN scopes[n]
    BY DEF Nearest, ScopesOf
  <2>3. Found(tag, defines) = scopes[n][tag]
    BY <1>2, <2>1 DEF Found
  <2> QED
    BY <2>2, <2>3 DEF Refer
<1> QED
  BY <1>1, <1>2

(* A specifier leaves the types that were there as they were, refers to one *)
(* there is now, and keeps all tags referring to types.                     *)
LEMMA SpecifyLemma ==
    ASSUME TypeInv, Refer, NEW union \in BOOLEAN, NEW tag \in Tags \union {NoTag}, NEW defines \in BOOLEAN
    PROVE  LET new == TypesWith(union, tag, defines)
               tables == ScopesWith(tag, defines)
           IN  /\ new \in Seq(RecordsOf(Tags \union {NoTag}))
               /\ DOMAIN types \subseteq DOMAIN new
               /\ \A i \in DOMAIN types : new[i] = types[i]
               /\ \A i \in DOMAIN new \ DOMAIN types : ~new[i].complete
               /\ Specified(tag, defines) \in DOMAIN new
               /\ tables \in Seq(TagTables) /\ Len(tables) = Len(scopes)
               /\ \A n \in DOMAIN tables : \A t \in DOMAIN tables[n] : tables[n][t] \in DOMAIN new
<1> DEFINE new == TypesWith(union, tag, defines)
           tables == ScopesWith(tag, defines)
           i == Len(types) + 1
           t == NewType(union, tag)
<1>1. CASE Found(tag, defines) # None
  <2>1. new = types /\ tables = scopes /\ Specified(tag, defines) = Found(tag, defines)
    BY <1>1 DEF TypesWith, ScopesWith, Specified
  <2>2. Found(tag, defines) \in DOMAIN types
    BY <1>1, FoundLemma
  <2> QED
    BY <2>1, <2>2 DEF TypeInv, Refer
<1>2. CASE Found(tag, defines) = None
  <2>1. t \in RecordsOf(Tags \union {NoTag}) /\ ~t.complete
    BY DEF NewType, RecordsOf, Alignments
  <2>2. new = Append(types, t) /\ Specified(tag, defines) = i
    BY <1>2 DEF TypesWith, Specified
  <2>3. /\ new \in Seq(RecordsOf(Tags \union {NoTag}))
        /\ DOMAIN types = 1..Len(types) /\ DOMAIN new = 1..i
        /\ new[i] = t /\ \A k \in DOMAIN types : new[k] = types[k]
    BY <2>1, <2>2 DEF TypeInv
  <2>4. CASE tag = NoTag
    <3>1. tables = scopes
      BY <1>2, <2>4 DEF ScopesWith, Tagged
    <3> QED
      BY <2>1, <2>2, <2>3, <3>1 DEF TypeInv, Refer
  <2>5. CASE tag # NoTag
    <3> DEFINE extended == [x \in DOMAIN Here \union {tag} |-> IF x = tag THEN i ELSE Here[x]]
    <3>1. tables = [scopes EXCEPT ![Len(scopes)] = extended]
      BY <1>2, <2>5 DEF ScopesWith, Tagged
    <3>2. Len(scopes) \in DOMAIN scopes /\ Here \in TagTables
      BY DEF TypeInv, Here
    <3>3. PICK D \in SUBSET Tags : Here \in [D -> Nat]
      BY <3>2 DEF TagTables
    <3>4. extended \in [D \union {tag} -> Nat] /\ D \union {tag} \in SUBSET Tags
      BY <2>5, <3>3 DEF TypeInv
    <3>5. extended \in TagTables
      BY <3>4 DEF TagTables
    <3>6. tables \in Seq(TagTables) /\ Len(tables) = Len(scopes)
      BY <3>1, <3>2, <3>5 DEF TypeInv
    <3>7. ASSUME NEW n \in DOMAIN tables, NEW x \in DOMAIN tables[n]
          PROVE  tables[n][x] \in DOMAIN new
      <4>1. CASE n = Len(scopes)
        <5>1. tables[n] = extended
          BY <3>1, <3>2, <4>1
        <5>2. x = tag \/ (x \in DOMAIN Here /\ tables[n][x] = Here[x])
          BY <5>1
        <5>3. x # tag => Here[x] \in DOMAIN types
          BY <5>2, <3>2 DEF Refer, Here
        <5> QED
          BY <5>1, <5>2, <5>3, <2>3, <2>2 DEF TypeInv
      <4>2. CASE n # Len(scopes)
        <5>1. n \in DOMAIN scopes /\ tables[n] = scopes[n]
          BY <3>1, <4>2 DEF TypeInv
        <5> QED
          BY <5>1, <2>3 DEF Refer, TypeInv
      <4> QED
        BY <4>1, <4>2
    <3> QED
      BY <2>1, <2>2, <2>3, <3>6, <3>7 DEF TypeInv
  <2> QED
    BY <2>4, <2>5
<1> QED
  BY <1>1, <1>2

-----------------------------------------------------------------------------
(* The next field is aligned, behind those there are, and within.           *)
LEMMA LaidOutLemma ==
    ASSUME TypeInv, NEW d \in Definitions, WellPlaced(types[d.record].union, d),
           NEW name \in FieldNames, NEW t \in TypeTerms, IsCompleteObject(t)
    PROVE  LET e == LaidOut(d, name, t)
           IN  e \in Definitions /\ e.record = d.record /\ WellPlaced(types[d.record].union, e)
<1> DEFINE union == types[d.record].union
           size == SizeOf(t)
           alignment == AlignmentOf(t)
           offset == IF union THEN 0 ELSE AlignedUp(d.size, alignment)
           f == Field(name, t, offset)
           n == Len(d.fields) + 1
           e == LaidOut(d, name, t)
<1>1. size \in Nat /\ alignment \in Alignments
  BY ExtentLemma
<1>2. d.record \in Nat /\ d.fields \in Seq(FieldRecords) /\ d.size \in Nat /\ d.alignment \in Alignments /\ d.begun \in BOOLEAN
  BY DEF Definitions
<1>3. offset \in Nat /\ offset % alignment = 0 /\ (~union => d.size <= offset)
  <2>1. 0 % alignment = 0
    BY <1>1 DEF Alignments
  <2> QED
    BY <1>1, <1>2, <2>1, AlignedUpLemma
<1>4. /\ f \in FieldRecords /\ f.offset = offset /\ f.size = size /\ f.alignment = alignment
  BY <1>1, <1>3 DEF Field, FieldRecords
<1>5. /\ e.record = d.record /\ e.begun = d.begun
      /\ e.fields = Append(d.fields, f)
      /\ e.size = IF union THEN Larger(d.size, size) ELSE offset + size
      /\ e.alignment = Larger(d.alignment, alignment)
      /\ e = [record |-> e.record, fields |-> e.fields, size |-> e.size, alignment |-> e.alignment, begun |-> e.begun]
  <2> DEFINE larger == Larger(d.alignment, alignment)
             extent == IF union THEN Larger(d.size, size) ELSE offset + size
             fields == Append(d.fields, f)
  <2>1. e = [d EXCEPT !.fields = fields, !.size = extent, !.alignment = larger]
    BY DEF LaidOut
  <2>2. d = [record |-> d.record, fields |-> d.fields, size |-> d.size, alignment |-> d.alignment, begun |-> d.begun]
    BY DEF Definitions
  <2> HIDE DEF larger, extent, fields, e
  <2>3. e = [record |-> d.record, fields |-> fields, size |-> extent, alignment |-> larger, begun |-> d.begun]
    BY <2>1, <2>2
  <2>4. /\ e.record = d.record /\ e.begun = d.begun
        /\ e.fields = fields /\ e.size = extent /\ e.alignment = larger
    BY <2>3
  <2> QED
    BY <2>3, <2>4 DEF larger, extent, fields
<1>6. e.size \in Nat /\ d.size <= e.size /\ offset + size <= e.size
  BY <1>1, <1>2, <1>3, <1>5 DEF Larger
<1>7. e.alignment \in Alignments /\ d.alignment <= e.alignment /\ alignment <= e.alignment
  BY <1>1, <1>2, <1>5 DEF Larger, Alignments
<1>8. /\ e.fields \in Seq(FieldRecords) /\ DOMAIN e.fields = 1..n /\ DOMAIN d.fields = 1..(n - 1)
      /\ e.fields[n] = f /\ \A i \in DOMAIN d.fields : e.fields[i] = d.fields[i]
  BY <1>2, <1>4, <1>5
<1>9. e \in Definitions
  BY <1>2, <1>5, <1>6, <1>7, <1>8 DEF Definitions
<1>10. ASSUME NEW i \in DOMAIN e.fields
       PROVE  /\ e.fields[i].offset % e.fields[i].alignment = 0
              /\ e.fields[i].offset + e.fields[i].size <= e.size
              /\ e.fields[i].alignment <= e.alignment
  <2>1. CASE i = n
    BY <2>1, <1>3, <1>4, <1>6, <1>7, <1>8
  <2>2. CASE i # n
    <3>1. i \in DOMAIN d.fields /\ e.fields[i] = d.fields[i]
      BY <2>2, <1>8
    <3>2. d.fields[i] \in FieldRecords
      BY <3>1, <1>2
    <3>3. /\ d.fields[i].offset % d.fields[i].alignment = 0
          /\ d.fields[i].offset + d.fields[i].size <= d.size
          /\ d.fields[i].alignment <= d.alignment
      BY <3>1 DEF WellPlaced
    <3>4. d.fields[i].offset \in Nat /\ d.fields[i].size \in Nat /\ d.fields[i].alignment \in Nat
      BY <3>2 DEF FieldRecords, Alignments
    <3> QED
      BY <3>1, <3>3, <3>4, <1>2, <1>6, <1>7 DEF Alignments
  <2> QED
    BY <2>1, <2>2
<1>11. ASSUME ~union, NEW i \in DOMAIN e.fields, NEW j \in DOMAIN e.fields, i < j
       PROVE  e.fields[i].offset + e.fields[i].size <= e.fields[j].offset
  <2>1. i \in DOMAIN d.fields /\ e.fields[i] = d.fields[i]
    BY <1>8, <1>11
  <2>2. d.fields[i] \in FieldRecords
    BY <2>1, <1>2
  <2>3. d.fields[i].offset \in Nat /\ d.fields[i].size \in Nat
    BY <2>2 DEF FieldRecords
  <2>4. CASE j = n
    <3>1. d.fields[i].offset + d.fields[i].size <= d.size
      BY <2>1 DEF WellPlaced
    <3> QED
      BY <2>1, <2>3, <2>4, <3>1, <1>2, <1>3, <1>4, <1>8, <1>11
  <2>5. CASE j # n
    <3>1. j \in DOMAIN d.fields /\ e.fields[j] = d.fields[j]
      BY <2>5, <1>8
    <3> QED
      BY <2>1, <3>1, <1>11 DEF WellPlaced
  <2> QED
    BY <2>4, <2>5
<1> QED
  BY <1>5, <1>9, <1>10, <1>11 DEF WellPlaced

(* The definitions under way are the same when the innermost has begun.     *)
LEMMA BegunLemma ==
    ASSUME TypeInv
    PROVE  /\ Begun \in Seq(Definitions) /\ Len(Begun) = Len(open)
           /\ \A n \in DOMAIN open :
                 /\ Begun[n].record = open[n].record
                 /\ \A union \in BOOLEAN : WellPlaced(union, open[n]) => WellPlaced(union, Begun[n])
<1>1. CASE open = <<>>
  BY <1>1 DEF Begun, TypeInv
<1>2. CASE open # <<>>
  <2> DEFINE last == Len(open)
             d == [open[last] EXCEPT !.begun = TRUE]
  <2>1. last \in DOMAIN open /\ open[last] \in Definitions
    BY <1>2 DEF TypeInv
  <2>2. d \in Definitions /\ d.record = open[last].record /\ d.fields = open[last].fields
        /\ d.size = open[last].size /\ d.alignment = open[last].alignment
    BY <2>1 DEF Definitions
  <2>3. Begun = [open EXCEPT ![last] = d]
    BY <1>2 DEF Begun
  <2>4. \A union \in BOOLEAN : WellPlaced(union, open[last]) => WellPlaced(union, d)
    BY <2>2 DEF WellPlaced
  <2>5. Begun \in Seq(Definitions) /\ Len(Begun) = Len(open)
    BY <2>1, <2>2, <2>3 DEF TypeInv
  <2>6. \A n \in DOMAIN open : Begun[n] = IF n = last THEN d ELSE open[n]
    BY <2>3 DEF TypeInv
  <2> QED
    BY <2>2, <2>4, <2>5, <2>6
<1> QED
  BY <1>1, <1>2

(* Types that are the old ones and more, none of these complete, are laid   *)
(* out as soundly as those were.                                            *)
LEMMA SpecifiedLemma ==
    ASSUME IInv, NEW union \in BOOLEAN, NEW tag \in Tags \union {NoTag}, NEW defines \in BOOLEAN,
           types' = TypesWith(union, tag, defines)
    PROVE  /\ types' \in Seq(RecordsOf(Tags \union {NoTag}))
           /\ DOMAIN types \subseteq DOMAIN types'
           /\ \A i \in DOMAIN types : types'[i] = types[i]
           /\ \A i \in DOMAIN types' : types'[i].complete =>
                 WellPlaced(types'[i].union, types'[i]) /\ types'[i].size % types'[i].alignment = 0
           /\ Specified(tag, defines) \in DOMAIN types'
           /\ Specified(tag, defines) \in Nat
<1>1. /\ types' \in Seq(RecordsOf(Tags \union {NoTag}))
      /\ DOMAIN types \subseteq DOMAIN types'
      /\ \A i \in DOMAIN types : types'[i] = types[i]
      /\ \A i \in DOMAIN types' \ DOMAIN types : ~types'[i].complete
      /\ Specified(tag, defines) \in DOMAIN types'
  BY SpecifyLemma DEF IInv
<1>2. \A i \in DOMAIN types' : types'[i].complete => i \in DOMAIN types /\ types'[i] = types[i]
  BY <1>1
<1>3. \A i \in DOMAIN types : types[i].complete =>
         WellPlaced(types[i].union, types[i]) /\ types[i].size % types[i].alignment = 0
  BY DEF IInv, LayoutsAreSound
<1>4. Specified(tag, defines) \in Nat
  BY <1>1
<1> QED
  BY <1>1, <1>2, <1>3, <1>4

(* A declarator adds at most a field to the innermost definition, soundly.  *)
LEMMA DeclareLemma ==
    ASSUME IInv, NEW name \in FieldNames, NEW t \in TypeTerms, NEW reported \in BOOLEAN,
           Declare(name, t, reported)
    PROVE  /\ open' \in Seq(Definitions) /\ Len(open') = Len(open)
           /\ refused' \in BOOLEAN
           /\ \A n \in DOMAIN open :
                 /\ open'[n].record = open[n].record
                 /\ WellPlaced(types[open[n].record].union, open'[n])
<1>1. CASE DeclareVariable(t, reported)
  BY <1>1 DEF DeclareVariable, Reported, IInv, TypeInv, LayoutsAreSound
<1>2. CASE DeclareField(name, t, reported)
  <2> DEFINE last == Len(open)
             taken == \E i \in DOMAIN open[last].fields : open[last].fields[i].name = name
             kept == IsCompleteObject(t) /\ ~taken
             d == Begun[last]
             e == LaidOut(d, name, t)
  <2>1. /\ open # <<>>
        /\ open' = IF kept THEN [Begun EXCEPT ![last] = e] ELSE Begun
        /\ refused' \in BOOLEAN
    BY <1>2 DEF DeclareField, Reported, IInv, TypeInv
  <2>2. /\ Begun \in Seq(Definitions) /\ Len(Begun) = Len(open)
        /\ \A n \in DOMAIN open :
              /\ Begun[n].record = open[n].record
              /\ \A union \in BOOLEAN : WellPlaced(union, open[n]) => WellPlaced(union, Begun[n])
    BY BegunLemma DEF IInv
  <2>3. \A n \in DOMAIN open : types[open[n].record].union \in BOOLEAN
    <3> TAKE n \in DOMAIN open
    <3>1. open[n].record \in DOMAIN types
      BY DEF IInv, Refer
    <3>2. types[open[n].record] \in RecordsOf(Tags \union {NoTag})
      BY <3>1 DEF IInv, TypeInv
    <3> QED
      BY <3>2 DEF RecordsOf
  <2>4. \A n \in DOMAIN open : WellPlaced(types[open[n].record].union, Begun[n])
    BY <2>2, <2>3 DEF IInv, LayoutsAreSound
  <2>5. last \in DOMAIN open /\ DOMAIN open = 1..last /\ DOMAIN Begun = 1..last
    BY <2>1, <2>2 DEF IInv, TypeInv
  <2>6. CASE kept
    <3>1. d \in Definitions /\ d.record = open[last].record
      BY <2>2, <2>5
    <3>2. WellPlaced(types[d.record].union, d)
      BY <3>1, <2>4, <2>5
    <3>3. e \in Definitions /\ e.record = d.record /\ WellPlaced(types[d.record].union, e)
      BY <2>6, <3>1, <3>2, LaidOutLemma DEF IInv
    <3>4. open' = [Begun EXCEPT ![last] = e]
      BY <2>1, <2>6
    <3> HIDE DEF e, d, kept
    <3>5. open' \in Seq(Definitions) /\ Len(open') = last
      BY <3>3, <3>4, <2>2, <2>5
    <3>6. \A n \in DOMAIN open : open'[n] = IF n = last THEN e ELSE Begun[n]
      BY <3>4, <2>5
    <3> QED
      BY <2>1, <2>2, <2>4, <2>5, <3>1, <3>3, <3>5, <3>6
  <2>7. CASE ~kept
    BY <2>1, <2>2, <2>4, <2>7
  <2> QED
    BY <2>6, <2>7
<1> QED
  BY <1>1, <1>2 DEF Declare

-----------------------------------------------------------------------------
(* Every step keeps the invariant: first the steps that specify a record,   *)
(* which leave what the definitions under way refer to as it was.           *)
LEMMA SpecifyingLemma ==
    ASSUME IInv, NEW union \in BOOLEAN, NEW tag \in Tags \union {NoTag}, NEW defines \in BOOLEAN,
           types' = TypesWith(union, tag, defines)
    PROVE  /\ types' \in Seq(RecordsOf(Tags \union {NoTag}))
           /\ LET tables == ScopesWith(tag, defines)
              IN  /\ tables \in Seq(TagTables) /\ Len(tables) = Len(scopes)
                  /\ \A n \in DOMAIN tables : \A x \in DOMAIN tables[n] : tables[n][x] \in DOMAIN types'
           /\ \A n \in DOMAIN open : open[n].record \in DOMAIN types'
           /\ \A n \in DOMAIN open : types'[open[n].record].union = types[open[n].record].union
           /\ \A i \in DOMAIN types' : types'[i].complete =>
                 WellPlaced(types'[i].union, types'[i]) /\ types'[i].size % types'[i].alignment = 0
           /\ \A n \in DOMAIN open : WellPlaced(types'[open[n].record].union, open[n])
<1>1. /\ types' \in Seq(RecordsOf(Tags \union {NoTag}))
      /\ DOMAIN types \subseteq DOMAIN types'
      /\ \A i \in DOMAIN types : types'[i] = types[i]
      /\ \A i \in DOMAIN types' : types'[i].complete =>
            WellPlaced(types'[i].union, types'[i]) /\ types'[i].size % types'[i].alignment = 0
  BY SpecifiedLemma
<1>2. LET tables == ScopesWith(tag, defines)
      IN  /\ tables \in Seq(TagTables) /\ Len(tables) = Len(scopes)
          /\ \A n \in DOMAIN tables : \A x \in DOMAIN tables[n] : tables[n][x] \in DOMAIN types'
  BY SpecifyLemma DEF IInv
<1>3. \A n \in DOMAIN open : open[n].record \in DOMAIN types
  BY DEF IInv, Refer
<1>4. \A n \in DOMAIN open : WellPlaced(types[open[n].record].union, open[n])
  BY DEF IInv, LayoutsAreSound
<1> QED
  BY <1>1, <1>2, <1>3, <1>4

LEMMA ForwardStep ==
    ASSUME IInv, NEW union \in BOOLEAN, NEW tag \in Tags, Forward(union, tag)
    PROVE  IInv'
<1>1. /\ types' = TypesWith(union, tag, FALSE) /\ scopes' = ScopesWith(tag, FALSE)
      /\ open' = open /\ base' = None /\ refused' \in BOOLEAN
  BY DEF Forward, Specify, Reported, Mismatch, IInv, TypeInv
<1>2. TypeInv'
  BY <1>1, SpecifyingLemma DEF TypeInv, IInv, None
<1>3. Refer'
  BY <1>1, SpecifyingLemma DEF Refer, None
<1>4. LayoutsAreSound'
  BY <1>1, SpecifyingLemma DEF LayoutsAreSound
<1> QED
  BY <1>2, <1>3, <1>4 DEF IInv

LEMMA OpenFunctionStep ==
    ASSUME IInv, NEW union \in BOOLEAN, NEW tag \in Tags, OpenFunction(union, tag)
    PROVE  IInv'
<1> DEFINE tables == ScopesWith(tag, FALSE)
<1>1. /\ types' = TypesWith(union, tag, FALSE) /\ scopes' = Append(tables, <<>>)
      /\ open' = open /\ base' = None /\ refused' \in BOOLEAN
  BY DEF OpenFunction, Reported, Mismatch, IInv, TypeInv
<1>2. /\ tables \in Seq(TagTables)
      /\ \A n \in DOMAIN tables : \A x \in DOMAIN tables[n] : tables[n][x] \in DOMAIN types'
  BY <1>1, SpecifyingLemma
<1>3. <<>> \in TagTables /\ DOMAIN <<>> = {}
  <2>1. DOMAIN <<>> = {} /\ <<>> \in [{} -> Nat]
    OBVIOUS
  <2> QED
    BY <2>1 DEF TagTables
<1> HIDE DEF tables
<1>4. scopes' \in Seq(TagTables) /\ Len(scopes') >= 1
  BY <1>1, <1>2, <1>3
<1>5. \A n \in DOMAIN scopes' : \A x \in DOMAIN scopes'[n] : n \in DOMAIN tables /\ scopes'[n] = tables[n]
  BY <1>1, <1>2, <1>3
<1>6. TypeInv'
  BY <1>1, <1>4, SpecifyingLemma DEF TypeInv, IInv, None
<1>7. Refer'
  BY <1>1, <1>2, <1>5, SpecifyingLemma DEF Refer, None
<1>8. LayoutsAreSound'
  BY <1>1, SpecifyingLemma DEF LayoutsAreSound
<1> QED
  BY <1>6, <1>7, <1>8 DEF IInv

(* A definition opens without fields.                                       *)
LEMMA OpeningLemma ==
    ASSUME NEW i \in Nat
    PROVE  /\ Opening(i) \in Definitions /\ Opening(i).record = i
           /\ \A union \in BOOLEAN : WellPlaced(union, Opening(i))
<1> DEFINE d == Opening(i)
<1>1. d = [record |-> i, fields |-> <<>>, size |-> 0, alignment |-> 1, begun |-> FALSE]
  BY DEF Opening
<1> HIDE DEF d
<1>2. /\ d.record = i /\ d.fields = <<>> /\ d.size = 0 /\ d.alignment = 1 /\ d.begun = FALSE
  BY <1>1
<1>3. <<>> \in Seq(FieldRecords) /\ DOMAIN <<>> = {}
  OBVIOUS
<1>4. d \in Definitions
  BY <1>1, <1>3 DEF Definitions, Alignments
<1>5. \A union \in BOOLEAN : WellPlaced(union, d)
  BY <1>2, <1>3 DEF WellPlaced
<1> QED
  BY <1>2, <1>4, <1>5 DEF d

LEMMA OpenDefinitionStep ==
    ASSUME IInv, NEW union \in BOOLEAN, NEW tag \in Tags \union {NoTag}, OpenDefinition(union, tag)
    PROVE  IInv'
<1> DEFINE i == Specified(tag, TRUE)
           d == Opening(i)
<1>1. /\ types' = TypesWith(union, tag, TRUE) /\ scopes' = ScopesWith(tag, TRUE)
      /\ open' = Begun \/ open' = Append(Begun, d)
      /\ base' = None /\ refused' \in BOOLEAN
  BY DEF OpenDefinition, Specify, Reported, Mismatch, IInv, TypeInv
<1>2. i \in DOMAIN types' /\ i \in Nat
  BY <1>1, SpecifiedLemma
<1>3. d \in Definitions /\ d.record = i /\ \A u \in BOOLEAN : WellPlaced(u, d)
  BY <1>2, OpeningLemma
<1>4. /\ types' \in Seq(RecordsOf(Tags \union {NoTag}))
      /\ \A n \in DOMAIN open : /\ open[n].record \in DOMAIN types'
                               /\ WellPlaced(types'[open[n].record].union, open[n])
  BY <1>1, SpecifyingLemma
<1>5. \A k \in DOMAIN types' : types'[k].union \in BOOLEAN
  <2> TAKE k \in DOMAIN types'
  <2>1. types'[k] \in RecordsOf(Tags \union {NoTag})
    BY <1>4
  <2> QED
    BY <2>1 DEF RecordsOf
<1>6. /\ Begun \in Seq(Definitions) /\ Len(Begun) = Len(open)
      /\ \A n \in DOMAIN open :
            /\ Begun[n].record = open[n].record
            /\ \A u \in BOOLEAN : WellPlaced(u, open[n]) => WellPlaced(u, Begun[n])
  BY BegunLemma DEF IInv
<1>7. \A n \in DOMAIN Begun : n \in DOMAIN open
  BY <1>6 DEF IInv, TypeInv
<1>8. \A n \in DOMAIN Begun : /\ Begun[n].record \in DOMAIN types'
                             /\ WellPlaced(types'[Begun[n].record].union, Begun[n])
  BY <1>4, <1>5, <1>6, <1>7
<1> HIDE DEF d, i
<1>9. open' \in Seq(Definitions) /\ \A n \in DOMAIN open' :
         (n \in DOMAIN Begun /\ open'[n] = Begun[n]) \/ open'[n] = d
  BY <1>1, <1>3, <1>6
<1>10. \A n \in DOMAIN open' : /\ open'[n].record \in DOMAIN types'
                              /\ WellPlaced(types'[open'[n].record].union, open'[n])
  BY <1>2, <1>3, <1>5, <1>8, <1>9
<1>11. TypeInv'
  BY <1>1, <1>9, SpecifyingLemma DEF TypeInv, IInv, None
<1>12. Refer'
  BY <1>1, <1>10, SpecifyingLemma DEF Refer, None
<1>13. LayoutsAreSound'
  BY <1>1, <1>10, SpecifyingLemma DEF LayoutsAreSound
<1> QED
  BY <1>11, <1>12, <1>13 DEF IInv

(* Second, the declarators.                                                 *)
LEMMA DeclareRecordStep ==
    ASSUME IInv, NEW union \in BOOLEAN, NEW tag \in Tags, NEW name \in FieldNames, NEW pointer \in BOOLEAN,
           DeclareRecord(union, tag, name, pointer)
    PROVE  IInv'
<1> DEFINE mismatch == Mismatch(union, tag, FALSE)
           t == IF mismatch THEN Invalid ELSE Record(Specified(tag, FALSE))
           declared == AsDeclared(t, pointer)
<1>1. /\ types' = TypesWith(union, tag, FALSE) /\ scopes' = ScopesWith(tag, FALSE)
      /\ Declare(name, declared, mismatch) /\ base' = None
  BY DEF DeclareRecord, Specify
<1>2. Specified(tag, FALSE) \in Nat
  BY <1>1, SpecifiedLemma
<1>3. declared \in TypeTerms /\ mismatch \in BOOLEAN
  BY <1>2 DEF AsDeclared, TypeTerms, Mismatch
<1> HIDE DEF declared, mismatch
<1>4. /\ open' \in Seq(Definitions) /\ Len(open') = Len(open)
      /\ refused' \in BOOLEAN
      /\ \A n \in DOMAIN open :
            /\ open'[n].record = open[n].record
            /\ WellPlaced(types[open[n].record].union, open'[n])
  BY <1>1, <1>3, DeclareLemma
<1>5. \A n \in DOMAIN open' : n \in DOMAIN open
  BY <1>4 DEF IInv, TypeInv
<1>6. \A n \in DOMAIN open : /\ open[n].record \in DOMAIN types'
                            /\ types'[open[n].record].union = types[open[n].record].union
  BY <1>1, SpecifyingLemma
<1>7. \A n \in DOMAIN open' : /\ open'[n].record \in DOMAIN types'
                             /\ WellPlaced(types'[open'[n].record].union, open'[n])
  BY <1>4, <1>5, <1>6
<1>8. TypeInv'
  BY <1>1, <1>4, SpecifyingLemma DEF TypeInv, IInv, None
<1>9. Refer'
  BY <1>1, <1>7, SpecifyingLemma DEF Refer, None
<1>10. LayoutsAreSound'
  BY <1>1, <1>7, SpecifyingLemma DEF LayoutsAreSound
<1> QED
  BY <1>8, <1>9, <1>10 DEF IInv

LEMMA DeclaringStep ==
    ASSUME IInv, NEW name \in FieldNames, NEW t \in TypeTerms, Declare(name, t, FALSE),
           base' \in {base, None}, UNCHANGED <<types, scopes>>
    PROVE  IInv'
<1>1. /\ open' \in Seq(Definitions) /\ Len(open') = Len(open)
      /\ refused' \in BOOLEAN
      /\ \A n \in DOMAIN open :
            /\ open'[n].record = open[n].record
            /\ WellPlaced(types[open[n].record].union, open'[n])
  BY DeclareLemma
<1>2. \A n \in DOMAIN open' : n \in DOMAIN open
  BY <1>1 DEF IInv, TypeInv
<1>3. TypeInv'
  BY <1>1 DEF IInv, TypeInv, None
<1>4. Refer'
  BY <1>1, <1>2 DEF IInv, Refer
<1>5. LayoutsAreSound'
  BY <1>1, <1>2 DEF IInv, LayoutsAreSound
<1> QED
  BY <1>3, <1>4, <1>5 DEF IInv

LEMMA DeclareScalarStep ==
    ASSUME IInv, NEW name \in FieldNames, NEW t \in Scalars \union {Function}, DeclareScalar(name, t)
    PROVE  IInv'
<1>1. t \in TypeTerms
  BY ScalarsAssumption DEF TypeTerms
<1> QED
  BY <1>1, DeclaringStep DEF DeclareScalar

LEMMA DeclareDefinedStep ==
    ASSUME IInv, NEW name \in FieldNames, NEW pointer \in BOOLEAN, DeclareDefined(name, pointer)
    PROVE  IInv'
<1>1. AsDeclared(Record(base), pointer) \in TypeTerms
  BY DEF AsDeclared, TypeTerms, IInv, TypeInv
<1> QED
  BY <1>1, DeclaringStep DEF DeclareDefined

(* Third, the scopes.                                                       *)
LEMMA OpenBlockStep ==
    ASSUME IInv, OpenBlock
    PROVE  IInv'
<1>1. DOMAIN <<>> = {} /\ <<>> \in [{} -> Nat]
  OBVIOUS
<1>2. <<>> \in TagTables
  BY <1>1 DEF TagTables
<1>3. TypeInv'
  BY <1>2 DEF OpenBlock, IInv, TypeInv, None
<1>4. \A n \in DOMAIN scopes' : \A x \in DOMAIN scopes'[n] : n \in DOMAIN scopes /\ scopes'[n] = scopes[n]
  BY <1>1, <1>2 DEF OpenBlock, IInv, TypeInv
<1>5. Refer'
  BY <1>4 DEF OpenBlock, IInv, Refer, None
<1>6. LayoutsAreSound'
  BY DEF OpenBlock, IInv, LayoutsAreSound
<1> QED
  BY <1>3, <1>5, <1>6 DEF IInv

LEMMA CloseScopeStep ==
    ASSUME IInv, CloseScope
    PROVE  IInv'
<1>1. scopes' \in Seq(TagTables) /\ Len(scopes') >= 1
      /\ \A n \in DOMAIN scopes' : n \in DOMAIN scopes /\ scopes'[n] = scopes[n]
  BY DEF CloseScope, IInv, TypeInv
<1>2. TypeInv'
  BY <1>1 DEF CloseScope, IInv, TypeInv, None
<1>3. Refer'
  BY <1>1 DEF CloseScope, IInv, Refer, None
<1>4. LayoutsAreSound'
  BY DEF CloseScope, IInv, LayoutsAreSound
<1> QED
  BY <1>2, <1>3, <1>4 DEF IInv

(* Last, the end of a definition: what it has laid out becomes the type's,  *)
(* its size a multiple of its alignment.                                    *)
LEMMA CloseDefinitionStep ==
    ASSUME IInv, CloseDefinition
    PROVE  IInv'
<1> DEFINE last == Len(open)
           d == open[last]
           i == d.record
           size == AlignedUp(d.size, d.alignment)
           closed == [types[i] EXCEPT !.fields = d.fields, !.alignment = d.alignment,
                                      !.size = size, !.complete = TRUE]
<1>1. /\ open # <<>>
      /\ types' = [types EXCEPT ![i] = closed]
      /\ refused' \in BOOLEAN /\ base' = i
      /\ open' = SubSeq(open, 1, last - 1) /\ scopes' = scopes
  BY DEF CloseDefinition, Reported, IInv, TypeInv
<1>2. /\ last \in DOMAIN open /\ d \in Definitions
      /\ open' \in Seq(Definitions)
      /\ \A n \in DOMAIN open' : n \in DOMAIN open /\ open'[n] = open[n]
  BY <1>1 DEF IInv, TypeInv
<1>3. i \in DOMAIN types /\ i \in Nat /\ d.fields \in Seq(FieldRecords) /\ d.size \in Nat /\ d.alignment \in Alignments
  BY <1>2 DEF IInv, Refer, Definitions
<1>4. types[i] \in RecordsOf(Tags \union {NoTag})
  BY <1>3 DEF IInv, TypeInv
<1>5. size \in Nat /\ size % d.alignment = 0 /\ d.size <= size
  BY <1>3, AlignedUpLemma
<1> HIDE DEF size, d, i
<1>6. /\ closed \in RecordsOf(Tags \union {NoTag}) /\ closed.union = types[i].union
      /\ closed.fields = d.fields /\ closed.alignment = d.alignment /\ closed.size = size
  BY <1>3, <1>4, <1>5 DEF RecordsOf
<1> HIDE DEF closed
<1>7. /\ types' \in Seq(RecordsOf(Tags \union {NoTag}))
      /\ DOMAIN types' = DOMAIN types
      /\ \A k \in DOMAIN types : types'[k] = IF k = i THEN closed ELSE types[k]
  BY <1>1, <1>3, <1>6 DEF IInv, TypeInv
<1>8. \A k \in DOMAIN types : types'[k].union = types[k].union
  BY <1>6, <1>7
<1>9. WellPlaced(types[i].union, d)
  BY <1>2 DEF IInv, LayoutsAreSound, d, i
<1>10. WellPlaced(closed.union, closed)
  <2>1. \A n \in DOMAIN d.fields : d.fields[n].offset \in Nat /\ d.fields[n].size \in Nat
    <3> TAKE n \in DOMAIN d.fields
    <3>1. d.fields[n] \in FieldRecords
      BY <1>3
    <3> QED
      BY <3>1 DEF FieldRecords
  <2>2. \A n \in DOMAIN d.fields : d.fields[n].offset + d.fields[n].size <= size
    <3> TAKE n \in DOMAIN d.fields
    <3>1. d.fields[n].offset + d.fields[n].size <= d.size
      BY <1>9 DEF WellPlaced
    <3> QED
      BY <3>1, <2>1, <1>3, <1>5
  <2> QED
    BY <1>6, <1>9, <2>2 DEF WellPlaced
<1>11. TypeInv'
  BY <1>1, <1>2, <1>3, <1>7 DEF IInv, TypeInv
<1>12. Refer'
  BY <1>1, <1>2, <1>3, <1>7 DEF IInv, Refer
<1>13. LayoutsAreSound'
  <2>1. ASSUME NEW k \in DOMAIN types', types'[k].complete
        PROVE  WellPlaced(types'[k].union, types'[k]) /\ types'[k].size % types'[k].alignment = 0
    <3>1. CASE k = i
      BY <3>1, <1>3, <1>5, <1>6, <1>7, <1>10
    <3>2. CASE k # i
      BY <2>1, <3>2, <1>7 DEF IInv, LayoutsAreSound
    <3> QED
      BY <3>1, <3>2
  <2>2. ASSUME NEW n \in DOMAIN open'
        PROVE  WellPlaced(types'[open'[n].record].union, open'[n])
    <3>1. n \in DOMAIN open /\ open'[n] = open[n] /\ open[n].record \in DOMAIN types
      BY <1>2 DEF IInv, Refer
    <3> QED
      BY <3>1, <1>8 DEF IInv, LayoutsAreSound
  <2> QED
    BY <2>1, <2>2 DEF LayoutsAreSound
<1> QED
  BY <1>11, <1>12, <1>13 DEF IInv

-----------------------------------------------------------------------------
LEMMA Initially == Init => IInv
<1> SUFFICES ASSUME Init PROVE IInv
  OBVIOUS
<1>1. DOMAIN <<>> = {} /\ <<>> \in [{} -> Nat]
  OBVIOUS
<1>2. <<>> \in TagTables
  BY <1>1 DEF TagTables
<1>3. TypeInv
  <2>1. ASSUME NEW S, NEW x \in S
        PROVE  <<x>> \in Seq(S) /\ Len(<<x>>) = 1
    OBVIOUS
  <2>2. scopes \in Seq(TagTables) /\ Len(scopes) >= 1
    BY <1>2, <2>1 DEF Init
  <2>3. types \in Seq(RecordsOf(Tags \union {NoTag})) /\ open \in Seq(Definitions)
    BY DEF Init
  <2> QED
    BY <2>2, <2>3 DEF Init, TypeInv, None
<1>4. Refer
  BY <1>1 DEF Init, Refer
<1>5. LayoutsAreSound
  BY <1>1 DEF Init, LayoutsAreSound
<1> QED
  BY <1>3, <1>4, <1>5 DEF IInv

(* What the variables hold, what refers to what, and the layouts together   *)
(* are kept by every step of the analysis.                                  *)
THEOREM Inductive == IInv /\ [Next]_vars => IInv'
<1> SUFFICES ASSUME IInv, [Next]_vars PROVE IInv'
  OBVIOUS
<1>1. ASSUME NEW union \in BOOLEAN, NEW tag \in Tags, Forward(union, tag) \/ OpenFunction(union, tag)
      PROVE  IInv'
  BY <1>1, ForwardStep, OpenFunctionStep
<1>2. ASSUME NEW union \in BOOLEAN, NEW tag \in Tags \union {NoTag}, OpenDefinition(union, tag)
      PROVE  IInv'
  BY <1>2, OpenDefinitionStep
<1>3. CASE CloseDefinition
  BY <1>3, CloseDefinitionStep
<1>4. ASSUME NEW name \in FieldNames, NEW t \in Scalars \union {Function}, DeclareScalar(name, t)
      PROVE  IInv'
  BY <1>4, DeclareScalarStep
<1>5. ASSUME NEW name \in FieldNames, NEW pointer \in BOOLEAN, DeclareDefined(name, pointer)
      PROVE  IInv'
  BY <1>5, DeclareDefinedStep
<1>6. ASSUME NEW union \in BOOLEAN, NEW tag \in Tags, NEW name \in FieldNames, NEW pointer \in BOOLEAN,
             DeclareRecord(union, tag, name, pointer)
      PROVE  IInv'
  BY <1>6, DeclareRecordStep
<1>7. CASE OpenBlock
  BY <1>7, OpenBlockStep
<1>8. CASE CloseScope
  BY <1>8, CloseScopeStep
<1>9. CASE UNCHANGED vars
  BY <1>9 DEF vars, IInv, TypeInv, Refer, LayoutsAreSound
<1> QED
  BY <1>1, <1>2, <1>3, <1>4, <1>5, <1>6, <1>7, <1>8, <1>9 DEF Next

(* Whatever records a program declares, whatever its scopes: every field    *)
(* of a complete one is aligned and inside it, those of a structure do not  *)
(* overlap, and its size is a multiple of its alignment                     *)
(* (cc_resolve_record_specifier).                                           *)
THEOREM LayoutsSound == Spec => []LayoutsAreSound
<1>1. IInv => LayoutsAreSound
  BY DEF IInv
<1> QED
  BY <1>1, Initially, Inductive, PTL DEF Spec

-----------------------------------------------------------------------------
(* The steps of C, property by property.                                    *)

(* The record that stands for the text.                                     *)
TextFields == {"entities", "scopes", "under", "ended", "owed", "valid", "apart"}

IsText(k) == TextFields \subseteq DOMAIN k

(* An objection changes nothing but the verdict.                            *)
LEMMA ObjectionIs ==
    ASSUME NEW k, IsText(k), NEW x
    PROVE  LET r == Objection(k, x)
           IN  /\ IsText(r)
               /\ r.entities = k.entities /\ r.scopes = k.scopes /\ r.under = k.under /\ r.ended = k.ended
               /\ (r.owed <=> k.owed) /\ (r.valid <=> k.valid /\ ~x) /\ (r.apart <=> k.apart)
  BY DEF IsText, Objection, TextFields

(* Having come to where the compiler goes its own way changes only that.    *)
LEMMA ApartIs ==
    ASSUME NEW k, IsText(k), NEW x
    PROVE  LET r == Apart(k, x)
           IN  /\ IsText(r)
               /\ r.entities = k.entities /\ r.scopes = k.scopes /\ r.under = k.under /\ r.ended = k.ended
               /\ (r.owed <=> k.owed) /\ (r.valid <=> k.valid) /\ (r.apart <=> k.apart \/ x)
  BY DEF IsText, Apart, TextFields

(* The definition that ended is done with.                                  *)
LEMMA SettledIs ==
    ASSUME NEW k, IsText(k)
    PROVE  LET r == Settled(k)
           IN  /\ IsText(r)
               /\ r.entities = k.entities /\ r.scopes = k.scopes /\ r.under = k.under /\ r.ended = 0
               /\ ~r.owed /\ (r.valid <=> k.valid) /\ (r.apart <=> k.apart \/ k.owed)
<1> DEFINE x == k.owed
           k1 == Apart(k, x)
<1>1. Settled(k) = [k1 EXCEPT !.owed = FALSE, !.ended = 0]
  BY DEF Settled
<1>2. x <=> k.owed
  OBVIOUS
<1> HIDE DEF x
<1>3. /\ IsText(k1)
      /\ k1.entities = k.entities /\ k1.scopes = k.scopes /\ k1.under = k.under
      /\ (k1.valid <=> k.valid) /\ (k1.apart <=> k.apart \/ x)
  BY ApartIs
<1> HIDE DEF k1
<1> QED BY <1>1, <1>2, <1>3 DEF IsText, TextFields

(* A scope with one more tag.                                               *)
Extended(names, tag, i) == [t \in DOMAIN names \union {tag} |-> IF t = tag THEN i ELSE names[t]]

(* What C makes of a new tag.                                               *)
IsIntroduced(r, k, union, tag, anonymous) ==
    /\ IsText(r)
    /\ r.entities = Append(k.entities, Entity(union, tag))
    /\ r.scopes = IF anonymous THEN k.scopes
                  ELSE [k.scopes EXCEPT ![Len(k.scopes)] =
                            Extended(k.scopes[Len(k.scopes)], tag, Len(k.entities) + 1)]
    /\ r.under = k.under /\ r.ended = k.ended
    /\ (r.owed <=> k.owed) /\ (r.valid <=> k.valid) /\ (r.apart <=> k.apart)

(* An entity introduced is the last one, its tag in the innermost scope.    *)
LEMMA IntroducedIs ==
    ASSUME NEW k, IsText(k), NEW union, NEW tag, NEW anonymous \in BOOLEAN,
           k.scopes \in Seq(TagTables), k.scopes # <<>>
    PROVE  IsIntroduced(Introduced(k, union, tag, anonymous), k, union, tag, anonymous)
<1> DEFINE s == k.scopes
           l == Len(s)
           new == Entity(union, tag)
           extended == Extended(s[l], tag, Len(k.entities) + 1)
           tables == IF anonymous THEN s ELSE [s EXCEPT ![l] = extended]
           both == Append(k.entities, new)
<1>2. Introduced(k, union, tag, anonymous)
        = [k EXCEPT !.entities = Append(@, new), !.scopes[l] = IF anonymous THEN @ ELSE extended]
  BY DEF Introduced, Extended
<1>3. [k EXCEPT !.entities = Append(@, new), !.scopes[l] = IF anonymous THEN @ ELSE extended]
        = [k EXCEPT !.entities = both, !.scopes = tables]
  <2>1. [s EXCEPT ![l] = IF anonymous THEN @ ELSE extended] = tables
    <3>1. CASE anonymous
      <4>1. [s EXCEPT ![l] = s[l]] = s
        OBVIOUS
      <4> QED BY <3>1, <4>1
    <3>2. CASE ~anonymous
      BY <3>2
    <3> QED BY <3>1, <3>2
  <2> HIDE DEF l, new, extended, tables
  <2> QED BY <2>1
<1> DEFINE r == [k EXCEPT !.entities = both, !.scopes = tables]
<1> HIDE DEF tables, both, s, l
<1>4. /\ IsText(r) /\ r.entities = both /\ r.scopes = tables /\ r.under = k.under /\ r.ended = k.ended
      /\ (r.owed <=> k.owed) /\ (r.valid <=> k.valid) /\ (r.apart <=> k.apart)
  BY DEF IsText, TextFields
<1>5. IsIntroduced(r, k, union, tag, anonymous)
  BY <1>4 DEF IsIntroduced, tables, both, s, l, extended, new
<1> HIDE DEF r
<1> QED BY <1>2, <1>3, <1>5 DEF r

(* cc_align_up gives the first place there is.                              *)
LEMMA FirstPlaceIs ==
    ASSUME NEW value \in Nat, NEW alignment \in Alignments
    PROVE  FirstPlace(value, alignment) = AlignedUp(value, alignment)
<1> DEFINE S == {n \in value..(value + alignment - 1) : n % alignment = 0}
           r == AlignedUp(value, alignment)
<1>1. r \in S /\ \A n \in S : r <= n
  <2>1. CASE alignment = 1
    BY <2>1 DEF AlignedUp
  <2>2. CASE alignment = 4
    BY <2>2 DEF AlignedUp
  <2>3. CASE alignment = 8
    BY <2>3 DEF AlignedUp
  <2> QED BY <2>1, <2>2, <2>3 DEF Alignments
<1>2. \A n \in S : n \in Int
  BY DEF Alignments
<1> HIDE DEF S, r
<1>3. \A x \in S : (\A y \in S : x =< y) => x = r
  BY <1>1, <1>2
<1>4. Min(S) = r
  BY <1>1, <1>3 DEF Min
<1> QED BY <1>4 DEF FirstPlace, S, r

(* The tag is found where C finds it.                                       *)
LEMMA FoundIsNamed ==
    ASSUME TypeInv, Refer, NEW k, k.scopes = scopes, NEW tag
    PROVE  /\ Found(tag, FALSE) = None => Named(k, tag) = {}
           /\ Found(tag, FALSE) # None => Named(k, tag) = {Found(tag, FALSE)}
<1> DEFINE l == Len(scopes)
<1>1. DOMAIN scopes = 1..l /\ l \in Nat /\ l >= 1
  BY DEF TypeInv
<1>0. \A i \in DOMAIN types : i # None
  BY DEF TypeInv, None
<1>2. Named(k, tag) = {scopes[n][tag] : n \in Nearest(tag)}
  BY DEF Named, Nearest, ScopesOf
<1>3. CASE tag \in DOMAIN Here
  <2>1. Nearest(tag) = {l}
    BY <1>1, <1>3 DEF Nearest, ScopesOf, Here
  <2>2. Found(tag, FALSE) = scopes[l][tag]
    BY <1>3 DEF Found, Here
  <2>3. l \in DOMAIN scopes /\ tag \in DOMAIN scopes[l]
    BY <1>1, <1>3 DEF Here
  <2>4. Found(tag, FALSE) # None
    BY <1>0, <2>2, <2>3 DEF Refer
  <2> QED BY <1>2, <2>1, <2>2, <2>4
<1>4. CASE tag \notin DOMAIN Here /\ Nearest(tag) = {}
  <2>1. Found(tag, FALSE) = None
    BY <1>4 DEF Found
  <2> QED BY <1>2, <1>4, <2>1
<1>5. CASE tag \notin DOMAIN Here /\ Nearest(tag) # {}
  <2>1. PICK n \in Nearest(tag) : n = CHOOSE m \in Nearest(tag) : TRUE
    BY <1>5
  <2>2. Found(tag, FALSE) = scopes[n][tag]
    BY <1>5, <2>1 DEF Found
  <2>3. Nearest(tag) = {n}
    BY <1>1, <2>1 DEF Nearest, ScopesOf
  <2>4. Found(tag, FALSE) \in DOMAIN types
    BY <2>2 DEF Refer, Nearest, ScopesOf
  <2>5. Found(tag, FALSE) # None
    BY <1>0, <2>4
  <2> QED BY <1>2, <2>2, <2>3, <2>5
<1> QED BY <1>3, <1>4, <1>5

(* So is one in the innermost scope.                                        *)
LEMMA FoundIsWithin ==
    ASSUME TypeInv, Refer, NEW k, k.scopes = scopes, NEW tag
    PROVE  /\ Found(tag, TRUE) = None => Within(k, tag) = {}
           /\ Found(tag, TRUE) # None => Within(k, tag) = {Found(tag, TRUE)}
           /\ Within(k, tag) # {} => Found(tag, FALSE) = Found(tag, TRUE)
<1>1. CASE tag \in DOMAIN Here
  <2>1. Found(tag, TRUE) = Here[tag] /\ Found(tag, FALSE) = Here[tag] /\ Within(k, tag) = {Here[tag]}
    BY <1>1 DEF Found, Within, Here
  <2>2. Here[tag] \in DOMAIN types
    BY <1>1 DEF Refer, Here, TypeInv
  <2>3. Here[tag] # None
    BY <2>2 DEF TypeInv, None
  <2> QED BY <2>1, <2>3
<1>2. CASE tag \notin DOMAIN Here
  BY <1>2 DEF Found, Within, Here
<1> QED BY <1>1, <1>2

-----------------------------------------------------------------------------
(* What the compiler has and what C has of the same text.                   *)

(* The record types, anonymous ones included.                               *)
AllRecords == RecordsOf(Tags \union {NoTag})

(* The types as entities.                                                   *)
EntitiesOf(ts) == [i \in DOMAIN ts |-> AsEntity(ts[i])]

(* A definition under way, as C sees it.                                    *)
UnderOf(d) ==
    [entity  |-> d.record,
     members |-> [i \in DOMAIN d.fields |-> [name |-> d.fields[i].name, type |-> d.fields[i].type]]]

(* All of them.                                                             *)
UndersOf(os) == [n \in DOMAIN os |-> UnderOf(os[n])]

(* IsCompleteObject, SizeOf and AlignmentOf with the table as an argument.  *)
CompleteIn(ts, t) ==
    /\ t[1] \notin {"invalid", "function"}
    /\ t[1] = "record" => t[2] \in DOMAIN ts /\ ts[t[2]].complete

SizeIn(ts, t) ==
    IF t[1] = "char" THEN 1 ELSE IF t[1] = "int" THEN 4 ELSE IF t[1] = "record" THEN ts[t[2]].size ELSE 8

AlignmentIn(ts, t) == IF t[1] = "record" THEN ts[t[2]].alignment ELSE SizeIn(ts, t)

(* The place behind a field.                                                *)
EndOf(f) == f.offset + f.size

(* The fields of a definition are of complete types, each at the first      *)
(* place behind the one before; its size and alignment are theirs.          *)
Laid(ts, d) ==
    /\ \A i \in DOMAIN d.fields :
          /\ CompleteIn(ts, d.fields[i].type)
          /\ d.fields[i].size = SizeIn(ts, d.fields[i].type)
          /\ d.fields[i].alignment = AlignmentIn(ts, d.fields[i].type)
          /\ d.fields[i].offset = IF ts[d.record].union \/ i = 1 THEN 0
                                  ELSE AlignedUp(EndOf(d.fields[i - 1]), d.fields[i].alignment)
    /\ ~ts[d.record].union => d.size = IF d.fields = <<>> THEN 0 ELSE EndOf(d.fields[Len(d.fields)])
    /\ d.size = 0 \/ \E i \in DOMAIN d.fields : d.size = EndOf(d.fields[i])
    /\ d.alignment = 1 \/ \E i \in DOMAIN d.fields : d.alignment = d.fields[i].alignment

(* No type under definition is complete, no two definitions are of the      *)
(* same type, and each is laid out by the rules.                            *)
SoundlyOpen(ts, os) ==
    /\ \A n \in DOMAIN os : ~ts[os[n].record].complete
    /\ \A m, n \in DOMAIN os : os[m].record = os[n].record => m = n
    /\ \A n \in DOMAIN os : Laid(ts, os[n])

(* The text as the compiler has it.                                         *)
Seen(k, ts, ss, os, b) ==
    /\ IsText(k)
    /\ k.entities = EntitiesOf(ts) /\ k.scopes = ss /\ k.under = UndersOf(os) /\ k.ended = b

(* What has to hold at every construct: the verdicts are the same, and the  *)
(* states agree as long as neither has refused.                             *)
Verdict == c.apart \/ (refused <=> ~c.valid)

Agreement == ~refused /\ ~c.apart => Seen(c, types, scopes, open, base) /\ SoundlyOpen(types, open)

(* The inductive invariant.                                                 *)
RecordsInv == IInv /\ Verdict /\ Agreement

(* Before a construct.                                                      *)
Before == RecordsInv /\ ~refused /\ ~c.apart

(* What the compiler asks of a type, as a function of the table of types.   *)
LEMMA AsSeen ==
    ASSUME NEW t
    PROVE  /\ SizeOf(t) = SizeIn(types, t) /\ AlignmentOf(t) = AlignmentIn(types, t)
           /\ IsCompleteObject(t) <=> CompleteIn(types, t)
  BY DEF SizeOf, SizeIn, AlignmentOf, AlignmentIn, IsCompleteObject, CompleteIn, IsRecord

(* An entity has its type's properties.                                     *)
LEMMA EntityIs ==
    ASSUME NEW ts, NEW i \in DOMAIN ts
    PROVE  /\ EntitiesOf(ts)[i].union = ts[i].union
           /\ EntitiesOf(ts)[i].complete = ts[i].complete
           /\ EntitiesOf(ts)[i].size = ts[i].size
           /\ EntitiesOf(ts)[i].alignment = ts[i].alignment
  BY DEF EntitiesOf, AsEntity

(* A type is an object type in C if it is complete in the table.            *)
LEMMA ObjectIs ==
    ASSUME NEW ts, NEW k, k.entities = EntitiesOf(ts), NEW t, t[1] # "invalid",
           t[1] = "record" => t[2] \in DOMAIN ts
    PROVE  HasObjectType(k, t) <=> CompleteIn(ts, t)
  BY EntityIs DEF HasObjectType, CompleteIn

(* A complete type takes as much space in C.                                *)
LEMMA ExtentIs ==
    ASSUME NEW ts, NEW k, k.entities = EntitiesOf(ts), NEW t \in TypeTerms, CompleteIn(ts, t)
    PROVE  Extent(k, t).size = SizeIn(ts, t) /\ Extent(k, t).alignment = AlignmentIn(ts, t)
<1>1. t[1] \in {"char", "int", "double", "pointer", "record"}
  BY DEF TypeTerms, CompleteIn, Char, Int32, Double, Function, Invalid, Record, PointerType
<1>2. CASE t[1] = "record"
  <2>1. Extent(k, t) = [size |-> k.entities[t[2]].size, alignment |-> k.entities[t[2]].alignment]
    BY <1>2 DEF Extent
  <2>2. t[2] \in DOMAIN ts
    BY <1>2 DEF CompleteIn
  <2> QED BY <1>2, <2>1, <2>2, EntityIs DEF SizeIn, AlignmentIn
<1>3. CASE t[1] # "record"
  BY <1>1, <1>3 DEF Extent, SizeIn, AlignmentIn
<1> QED BY <1>2, <1>3

(* A type just made is an entity just introduced.                           *)
LEMMA NewEntity ==
    ASSUME NEW union, NEW tag
    PROVE  AsEntity(NewType(union, tag)) = Entity(union, tag)
<1> DEFINE none == <<>>
           ms == [i \in DOMAIN none |-> Placed(none[i])]
<1>1. ms = none
  OBVIOUS
<1>2. AsEntity(NewType(union, tag)) = [union |-> union, tag |-> tag, complete |-> FALSE, size |-> 0,
                                       alignment |-> 1, members |-> ms]
  BY DEF AsEntity, NewType
<1> HIDE DEF none, ms
<1>3. Entity(union, tag) = [union |-> union, tag |-> tag, complete |-> FALSE, members |-> none,
                            size |-> 0, alignment |-> 1]
  BY DEF Entity, none
<1> QED BY <1>1, <1>2, <1>3

(* A new type is a new entity.                                              *)
LEMMA EntitiesAppend ==
    ASSUME NEW ts \in Seq(AllRecords), NEW new \in AllRecords
    PROVE  EntitiesOf(Append(ts, new)) = Append(EntitiesOf(ts), AsEntity(new))
<1> DEFINE n == Len(ts)
           es == EntitiesOf(ts)
           T == {AsEntity(t) : t \in AllRecords}
           a == Append(ts, new)
           b == Append(es, AsEntity(new))
           l == EntitiesOf(a)
<1>1. n \in Nat /\ DOMAIN ts = 1..n /\ \A i \in 1..n : ts[i] \in AllRecords
  OBVIOUS
<1>2. a \in Seq(AllRecords) /\ DOMAIN a = 1..(n + 1) /\ a[n + 1] = new /\ \A i \in 1..n : a[i] = ts[i]
  OBVIOUS
<1>3. es \in Seq(T) /\ Len(es) = n
  <2>1. es \in [1..n -> T]
    BY <1>1 DEF EntitiesOf
  <2> HIDE DEF es, T
  <2> QED BY <1>1, <2>1
<1>4. AsEntity(new) \in T
  OBVIOUS
<1>5. b \in Seq(T) /\ DOMAIN b = 1..(n + 1) /\ b[n + 1] = AsEntity(new) /\ \A i \in 1..n : b[i] = es[i]
  <2> HIDE DEF es, T
  <2> QED BY <1>1, <1>3, <1>4
<1>6. l = [i \in 1..(n + 1) |-> AsEntity(a[i])]
  BY <1>2 DEF EntitiesOf
<1>7. \A i \in 1..n : es[i] = AsEntity(ts[i])
  BY <1>1 DEF EntitiesOf
<1> HIDE DEF es, T, a, b, l, n
<1>8. b = [i \in 1..(n + 1) |-> b[i]]
  BY <1>5
<1>9. \A i \in 1..(n + 1) : AsEntity(a[i]) = b[i]
  <2> TAKE i \in 1..(n + 1)
  <2>1. CASE i = n + 1
    BY <1>2, <1>5, <2>1
  <2>2. CASE i # n + 1
    <3>1. i \in 1..n
      BY <1>1, <2>2
    <3> QED BY <1>2, <1>5, <1>7, <3>1
  <2> QED BY <2>1, <2>2
<1> QED BY <1>6, <1>8, <1>9 DEF l, b, es, a

(* A definition stays soundly laid out when other types are completed.      *)
LEMMA LaidStays ==
    ASSUME NEW ts, NEW us, NEW d, Laid(ts, d), DOMAIN ts \subseteq DOMAIN us,
           \A i \in DOMAIN ts : ts[i].complete => us[i] = ts[i],
           us[d.record].union = ts[d.record].union
    PROVE  Laid(us, d)
<1>1. ASSUME NEW i \in DOMAIN d.fields
      PROVE  /\ CompleteIn(us, d.fields[i].type)
             /\ SizeIn(us, d.fields[i].type) = SizeIn(ts, d.fields[i].type)
             /\ AlignmentIn(us, d.fields[i].type) = AlignmentIn(ts, d.fields[i].type)
  <2>1. CompleteIn(ts, d.fields[i].type)
    BY DEF Laid
  <2> QED BY <2>1 DEF CompleteIn, SizeIn, AlignmentIn
<1> QED BY <1>1 DEF Laid

(* A type made for a specifier is what C introduces.                        *)
LEMMA SpecifiedIs ==
    ASSUME IInv, NEW union \in BOOLEAN, NEW tag \in Tags \union {NoTag}, NEW defines \in BOOLEAN,
           NEW k, IsText(k), k.entities = EntitiesOf(types), k.scopes = scopes,
           Found(tag, defines) = None, NEW anonymous \in BOOLEAN, anonymous <=> tag = NoTag
    PROVE  LET r == Introduced(k, union, tag, anonymous)
           IN  /\ IsText(r)
               /\ r.entities = EntitiesOf(TypesWith(union, tag, defines))
               /\ r.scopes = ScopesWith(tag, defines)
               /\ r.under = k.under /\ r.ended = k.ended
               /\ (r.owed <=> k.owed) /\ (r.valid <=> k.valid) /\ (r.apart <=> k.apart)
<1> DEFINE r == Introduced(k, union, tag, anonymous)
           l == Len(scopes)
           t == NewType(union, tag)
<1>1. scopes \in Seq(TagTables) /\ scopes # <<>> /\ types \in Seq(AllRecords)
  BY DEF IInv, TypeInv, AllRecords
<1>2. IsIntroduced(r, k, union, tag, anonymous)
  BY <1>1, IntroducedIs
<1>3. /\ IsText(r)
      /\ r.entities = Append(EntitiesOf(types), Entity(union, tag))
      /\ r.scopes = IF tag = NoTag THEN scopes
                    ELSE [scopes EXCEPT ![l] = Extended(scopes[l], tag, Len(EntitiesOf(types)) + 1)]
      /\ r.under = k.under /\ r.ended = k.ended
      /\ (r.owed <=> k.owed) /\ (r.valid <=> k.valid) /\ (r.apart <=> k.apart)
  BY <1>1, <1>2 DEF IsIntroduced
<1>4. t \in AllRecords
  BY DEF NewType, RecordsOf, Alignments, AllRecords
<1>5. TypesWith(union, tag, defines) = Append(types, t)
  BY DEF TypesWith
<1>6. EntitiesOf(Append(types, t)) = Append(EntitiesOf(types), Entity(union, tag))
  BY <1>1, <1>4, EntitiesAppend, NewEntity
<1>7. Len(EntitiesOf(types)) = Len(types)
  <2>1. EntitiesOf(types) \in [1..Len(types) -> {AsEntity(x) : x \in AllRecords}] /\ Len(types) \in Nat
    BY <1>1 DEF EntitiesOf
  <2> QED BY <2>1
<1>8. ScopesWith(tag, defines) = IF tag = NoTag THEN scopes
                                 ELSE [scopes EXCEPT ![l] = Extended(scopes[l], tag, Len(types) + 1)]
  BY DEF ScopesWith, Tagged, Extended, Here
<1> QED BY <1>3, <1>5, <1>6, <1>7, <1>8

(* The types are specified anew, or are what they were.                     *)
LEMMA Unspecified ==
    ASSUME NEW union, NEW tag, NEW defines, Found(tag, defines) # None
    PROVE  /\ TypesWith(union, tag, defines) = types /\ ScopesWith(tag, defines) = scopes
           /\ Specified(tag, defines) = Found(tag, defines)
  BY DEF TypesWith, ScopesWith, Specified

(* The definitions under way are as sound with more types.                  *)
LEMMA SoundlyStays ==
    ASSUME NEW ts, NEW us, NEW os, SoundlyOpen(ts, os), DOMAIN ts \subseteq DOMAIN us,
           \A i \in DOMAIN ts : us[i] = ts[i],
           \A n \in DOMAIN os : os[n].record \in DOMAIN ts
    PROVE  SoundlyOpen(us, os)
<1>1. ASSUME NEW n \in DOMAIN os PROVE Laid(us, os[n])
  <2> DEFINE d == os[n]
  <2>1. Laid(ts, d) /\ us[d.record].union = ts[d.record].union
    BY DEF SoundlyOpen
  <2> HIDE DEF d
  <2>2. Laid(us, d)
    BY <2>1, LaidStays
  <2> QED BY <2>2 DEF d
<1> QED BY <1>1 DEF SoundlyOpen

(* A field keeps the definition it is added to soundly laid out.            *)
LEMMA LaidOutIs ==
    ASSUME TypeInv, NEW d \in Definitions, WellPlaced(types[d.record].union, d), Laid(types, d),
           types[d.record].union \in BOOLEAN,
           NEW name \in FieldNames, NEW t \in TypeTerms, IsCompleteObject(t)
    PROVE  LET e == LaidOut(d, name, t)
           IN  /\ Laid(types, e)
               /\ e.fields \in Seq(FieldRecords)
               /\ Len(e.fields) = Len(d.fields) + 1
               /\ e.fields[Len(d.fields) + 1].name = name /\ e.fields[Len(d.fields) + 1].type = t
               /\ \A i \in DOMAIN d.fields : e.fields[i] = d.fields[i]
<1> DEFINE union == types[d.record].union
           size == SizeOf(t)
           alignment == AlignmentOf(t)
           offset == IF union THEN 0 ELSE AlignedUp(d.size, alignment)
           f == Field(name, t, offset)
           m == Len(d.fields)
           n == m + 1
           e == LaidOut(d, name, t)
<1>1. size \in Nat /\ alignment \in Alignments /\ alignment \in Nat
  BY ExtentLemma DEF Alignments
<1>2. d.record \in Nat /\ d.fields \in Seq(FieldRecords) /\ d.size \in Nat /\ d.alignment \in Alignments
  BY DEF Definitions
<1>3. offset \in Nat
  BY <1>1, <1>2, AlignedUpLemma
<1>4. /\ f.offset = offset /\ f.size = size /\ f.alignment = alignment /\ f.name = name /\ f.type = t
      /\ f \in FieldRecords
  BY <1>1, <1>3 DEF Field, FieldRecords
<1>5. /\ e.record = d.record
      /\ e.fields = Append(d.fields, f)
      /\ e.size = IF union THEN Larger(d.size, size) ELSE offset + size
      /\ e.alignment = Larger(d.alignment, alignment)
  <2> DEFINE larger == Larger(d.alignment, alignment)
             extent == IF union THEN Larger(d.size, size) ELSE offset + size
             fields == Append(d.fields, f)
  <2>1. e = [d EXCEPT !.fields = fields, !.size = extent, !.alignment = larger]
    BY DEF LaidOut
  <2>2. d = [record |-> d.record, fields |-> d.fields, size |-> d.size, alignment |-> d.alignment, begun |-> d.begun]
    BY DEF Definitions
  <2> HIDE DEF larger, extent, fields, e
  <2>3. e = [record |-> d.record, fields |-> fields, size |-> extent, alignment |-> larger, begun |-> d.begun]
    BY <2>1, <2>2
  <2> QED
    BY <2>3 DEF larger, extent, fields
<1>6. /\ m \in Nat /\ e.fields \in Seq(FieldRecords) /\ Len(e.fields) = n /\ DOMAIN e.fields = 1..n /\ DOMAIN d.fields = 1..m
      /\ e.fields[n] = f /\ \A i \in 1..m : e.fields[i] = d.fields[i]
  BY <1>2, <1>4, <1>5
<1>7. /\ \A i \in 1..m : /\ CompleteIn(types, d.fields[i].type)
                         /\ d.fields[i].size = SizeIn(types, d.fields[i].type)
                         /\ d.fields[i].alignment = AlignmentIn(types, d.fields[i].type)
                         /\ d.fields[i].offset = IF union \/ i = 1 THEN 0
                                                 ELSE AlignedUp(EndOf(d.fields[i - 1]), d.fields[i].alignment)
      /\ ~union => d.size = IF d.fields = <<>> THEN 0 ELSE EndOf(d.fields[m])
      /\ d.size = 0 \/ \E i \in 1..m : d.size = EndOf(d.fields[i])
      /\ d.alignment = 1 \/ \E i \in 1..m : d.alignment = d.fields[i].alignment
  BY <1>6 DEF Laid
<1>8. CompleteIn(types, t) /\ size = SizeIn(types, t) /\ alignment = AlignmentIn(types, t)
  BY AsSeen
<1>9. EndOf(f) = offset + size
  BY <1>4 DEF EndOf
<1>10. union \in BOOLEAN
  OBVIOUS
<1>11. d.fields = <<>> <=> m = 0
  BY <1>2
<1>12. AlignedUp(0, alignment) = 0
  BY <1>1 DEF AlignedUp, Alignments
<1> HIDE DEF union, size, alignment, offset, f, m, n, e
<1>13. offset = IF union \/ n = 1 THEN 0 ELSE AlignedUp(EndOf(d.fields[m]), alignment)
  <2>1. CASE union
    BY <2>1 DEF offset
  <2>2. CASE ~union /\ n = 1
    BY <1>6, <1>7, <1>11, <1>12, <2>2 DEF offset, n
  <2>3. CASE ~union /\ n # 1
    BY <1>6, <1>7, <1>11, <2>3 DEF offset, n
  <2> QED BY <2>1, <2>2, <2>3
<1>14. ASSUME NEW i \in 1..n
       PROVE  /\ CompleteIn(types, e.fields[i].type)
              /\ e.fields[i].size = SizeIn(types, e.fields[i].type)
              /\ e.fields[i].alignment = AlignmentIn(types, e.fields[i].type)
              /\ e.fields[i].offset = IF union \/ i = 1 THEN 0
                                      ELSE AlignedUp(EndOf(e.fields[i - 1]), e.fields[i].alignment)
  <2>1. CASE i = n
    <3>1. e.fields[i] = f /\ i - 1 = m
      BY <1>6, <2>1 DEF n
    <3>2. i # 1 => e.fields[i - 1] = d.fields[m]
      BY <1>6, <2>1, <3>1 DEF n
    <3> QED BY <1>4, <1>8, <1>13, <2>1, <3>1, <3>2
  <2>2. CASE i # n
    <3>1. i \in 1..m /\ e.fields[i] = d.fields[i]
      BY <1>6, <2>2 DEF n
    <3>2. i # 1 => e.fields[i - 1] = d.fields[i - 1]
      BY <1>6, <3>1
    <3> QED BY <1>7, <3>1, <3>2
  <2> QED BY <2>1, <2>2
<1>15. ~union => e.size = EndOf(e.fields[Len(e.fields)])
  BY <1>5, <1>6, <1>9
<1>16. e.fields # <<>>
  BY <1>6 DEF n
<1>17. \E i \in 1..n : e.size = EndOf(e.fields[i]) \/ e.size = 0
  <2>1. CASE e.size = EndOf(f)
    BY <1>6, <2>1 DEF n
  <2>2. CASE e.size = d.size
    <3>1. CASE d.size = 0
      <4>1. 1 \in 1..n /\ e.size = 0
        BY <1>6, <2>2, <3>1 DEF n
      <4> QED BY <4>1
    <3>2. CASE \E i \in 1..m : d.size = EndOf(d.fields[i])
      <4>1. PICK i \in 1..m : d.size = EndOf(d.fields[i])
        BY <3>2
      <4>2. i \in 1..n /\ e.fields[i] = d.fields[i]
        BY <1>6 DEF n
      <4> QED BY <2>2, <4>1, <4>2
    <3> QED BY <1>7, <3>1, <3>2
  <2>3. e.size = EndOf(f) \/ e.size = d.size
    <3>1. CASE union
      BY <1>1, <1>2, <1>5, <1>9, <3>1 DEF Larger, offset
    <3>2. CASE ~union
      BY <1>5, <1>9, <3>2
    <3> QED BY <3>1, <3>2
  <2> QED BY <2>1, <2>2, <2>3
<1>18. e.alignment = 1 \/ \E i \in 1..n : e.alignment = e.fields[i].alignment
  <2>1. CASE e.alignment = alignment
    BY <1>4, <1>6, <2>1 DEF n
  <2>2. CASE e.alignment = d.alignment
    <3>1. CASE d.alignment = 1
      BY <2>2, <3>1
    <3>2. CASE \E i \in 1..m : d.alignment = d.fields[i].alignment
      <4>1. PICK i \in 1..m : d.alignment = d.fields[i].alignment
        BY <3>2
      <4>2. i \in 1..n /\ e.fields[i] = d.fields[i]
        BY <1>6 DEF n
      <4> QED BY <2>2, <4>1, <4>2
    <3> QED BY <1>7, <3>1, <3>2
  <2> QED BY <1>5, <2>1, <2>2 DEF Larger
<1>19. DOMAIN e.fields = 1..n /\ types[e.record].union = union
  BY <1>5, <1>6 DEF union
<1>20. Laid(types, e)
  BY <1>14, <1>15, <1>16, <1>17, <1>18, <1>19 DEF Laid
<1> QED BY <1>4, <1>6, <1>20 DEF e, n, m

-----------------------------------------------------------------------------
(* Specifiers, and the constructs without declarators.                      *)

(* A specifier means in C what it is resolved to.                           *)
LEMMA KnownIs ==
    ASSUME IInv, NEW union \in BOOLEAN, NEW tag \in Tags \union {NoTag}, NEW defines \in BOOLEAN,
           NEW k, NEW os, NEW b, Seen(k, types, scopes, os, b),
           NEW anonymous \in BOOLEAN, anonymous <=> tag = NoTag
    PROVE  LET r == IF Found(tag, defines) = None THEN Introduced(k, union, tag, anonymous) ELSE k
           IN  /\ Seen(r, TypesWith(union, tag, defines), ScopesWith(tag, defines), os, b)
               /\ (r.owed <=> k.owed) /\ (r.valid <=> k.valid) /\ (r.apart <=> k.apart)
<1>1. CASE Found(tag, defines) = None
  <2> DEFINE r == Introduced(k, union, tag, anonymous)
  <2>1. /\ IsText(r)
        /\ r.entities = EntitiesOf(TypesWith(union, tag, defines))
        /\ r.scopes = ScopesWith(tag, defines)
        /\ r.under = k.under /\ r.ended = k.ended
        /\ (r.owed <=> k.owed) /\ (r.valid <=> k.valid) /\ (r.apart <=> k.apart)
    BY <1>1, SpecifiedIs DEF Seen
  <2> HIDE DEF r
  <2>2. Seen(r, TypesWith(union, tag, defines), ScopesWith(tag, defines), os, b)
    BY <2>1 DEF Seen
  <2> QED BY <1>1, <2>1, <2>2 DEF r
<1>2. CASE Found(tag, defines) # None
  BY <1>2, Unspecified
<1> QED BY <1>1, <1>2

(* A specifier leaves the definitions under way sound.                      *)
LEMMA KnownSoundly ==
    ASSUME IInv, SoundlyOpen(types, open),
           NEW union \in BOOLEAN, NEW tag \in Tags \union {NoTag}, NEW defines \in BOOLEAN
    PROVE  SoundlyOpen(TypesWith(union, tag, defines), open)
<1> DEFINE us == TypesWith(union, tag, defines)
<1>1. DOMAIN types \subseteq DOMAIN us /\ \A i \in DOMAIN types : us[i] = types[i]
  BY SpecifyLemma DEF IInv
<1>2. \A n \in DOMAIN open : open[n].record \in DOMAIN types
  BY DEF IInv, Refer
<1> HIDE DEF us
<1>3. SoundlyOpen(us, open)
  BY <1>1, <1>2, SoundlyStays
<1> QED BY <1>3 DEF us

(* Behind the definition that ended, before the next construct.             *)
LEMMA SettledAgrees ==
    ASSUME Before
    PROVE  LET s == Settled(c)
           IN  /\ Seen(s, types, scopes, open, None) /\ SoundlyOpen(types, open)
               /\ ~s.owed /\ s.valid /\ (s.apart <=> c.owed)
<1>1. Seen(c, types, scopes, open, base) /\ SoundlyOpen(types, open) /\ c.valid /\ ~c.apart
  BY DEF Before, RecordsInv, Agreement, Verdict
<1>2. IsText(c)
  BY <1>1 DEF Seen
<1> QED BY <1>1, <1>2, SettledIs DEF Seen, None

(* Another kind: as the compiler sees it.                                   *)
LEMMA KindIs ==
    ASSUME NEW k, k.entities = EntitiesOf(types), NEW union, NEW i \in DOMAIN types
    PROVE  OfAnotherKind(k, {i}, union) <=> types[i].union # union
  BY EntityIs DEF OfAnotherKind

(* A block begins.                                                          *)
LEMMA OpenBlockAgrees ==
    ASSUME Before, OpenBlock, InC(SaidBlock(c))
    PROVE  Verdict' /\ Agreement'
<1> DEFINE s == Settled(c)
           ss == Append(s.scopes, <<>>)
           r == [s EXCEPT !.scopes = ss]
<1>1. /\ Seen(s, types, scopes, open, None) /\ SoundlyOpen(types, open)
      /\ ~s.owed /\ s.valid /\ (s.apart <=> c.owed)
  BY SettledAgrees
<1>2. c' = r
  BY DEF InC, SaidBlock
<1>3. ss = Append(scopes, <<>>)
  BY <1>1 DEF Seen
<1> HIDE DEF s, ss
<1>4. /\ Seen(r, types, ss, open, None)
      /\ (r.valid <=> s.valid) /\ (r.apart <=> s.apart)
  BY <1>1 DEF Seen, IsText, TextFields
<1> HIDE DEF r
<1>5. types' = types /\ scopes' = ss /\ open' = open /\ base' = None /\ (refused' <=> refused)
  BY <1>3 DEF OpenBlock
<1>6. ~refused
  BY DEF Before
<1>7. Verdict'
  BY <1>1, <1>2, <1>4, <1>5, <1>6 DEF Verdict
<1>8. Agreement'
  BY <1>1, <1>2, <1>4, <1>5 DEF Agreement
<1> QED BY <1>7, <1>8

(* A block or function ends.                                                *)
LEMMA CloseScopeAgrees ==
    ASSUME Before, CloseScope, InC(SaidEnd(c))
    PROVE  Verdict' /\ Agreement'
<1> DEFINE s == Settled(c)
           ss == SubSeq(s.scopes, 1, Len(s.scopes) - 1)
           r == [s EXCEPT !.scopes = ss]
<1>1. /\ Seen(s, types, scopes, open, None) /\ SoundlyOpen(types, open)
      /\ ~s.owed /\ s.valid /\ (s.apart <=> c.owed)
  BY SettledAgrees
<1>2. c' = r
  BY DEF InC, SaidEnd
<1>3. ss = SubSeq(scopes, 1, Len(scopes) - 1)
  BY <1>1 DEF Seen
<1> HIDE DEF s, ss
<1>4. /\ Seen(r, types, ss, open, None)
      /\ (r.valid <=> s.valid) /\ (r.apart <=> s.apart)
  BY <1>1 DEF Seen, IsText, TextFields
<1> HIDE DEF r
<1>5. types' = types /\ scopes' = ss /\ open' = open /\ base' = None /\ (refused' <=> refused)
  BY <1>3 DEF CloseScope
<1>6. ~refused
  BY DEF Before
<1>7. Verdict'
  BY <1>1, <1>2, <1>4, <1>5, <1>6 DEF Verdict
<1>8. Agreement'
  BY <1>1, <1>2, <1>4, <1>5 DEF Agreement
<1> QED BY <1>7, <1>8

(* Whether a specifier is of another kind than its tag, to both.            *)
LEMMA MismatchIs ==
    ASSUME IInv, NEW k, k.entities = EntitiesOf(types), NEW union, NEW tag, NEW defines \in BOOLEAN,
           NEW found, Found(tag, defines) # None => found = {Found(tag, defines)},
           Found(tag, defines) = None => found = {}
    PROVE  OfAnotherKind(k, found, union) <=> Mismatch(union, tag, defines)
<1>1. CASE Found(tag, defines) = None
  BY <1>1 DEF OfAnotherKind, Mismatch
<1>2. CASE Found(tag, defines) # None
  <2> DEFINE i == Found(tag, defines)
  <2>1. i \in DOMAIN types
    BY <1>2, FoundLemma DEF IInv
  <2>2. found = {i}
    BY <1>2
  <2>3. Mismatch(union, tag, defines) <=> types[i].union # union
    BY <1>2 DEF Mismatch
  <2> HIDE DEF i
  <2>4. OfAnotherKind(k, {i}, union) <=> types[i].union # union
    BY <2>1, KindIs
  <2> QED BY <2>2, <2>3, <2>4
<1> QED BY <1>1, <1>2

(* A tag is declared.  Where C makes a type of its own for it and the       *)
(* compiler takes one from outside, they are known to go apart.             *)
LEMMA ForwardAgrees ==
    ASSUME Before, NEW union \in BOOLEAN, NEW tag \in Tags,
           Forward(union, tag), InC(SaidForward(c, union, tag))
    PROVE  Verdict' /\ Agreement'
<1> DEFINE s == Settled(c)
           here == Within(c, tag)
           different == OfAnotherKind(c, here, union)
           mismatch == Mismatch(union, tag, FALSE)
<1>1. /\ Seen(s, types, scopes, open, None) /\ SoundlyOpen(types, open)
      /\ ~s.owed /\ s.valid /\ (s.apart <=> c.owed)
  BY SettledAgrees
<1>2. /\ IInv /\ ~refused /\ c.entities = EntitiesOf(types) /\ c.scopes = scopes
  BY DEF Before, RecordsInv, Agreement, Seen
<1>3. /\ types' = TypesWith(union, tag, FALSE) /\ scopes' = ScopesWith(tag, FALSE)
      /\ open' = open /\ base' = None /\ (refused' <=> mismatch)
  BY <1>2 DEF Forward, Specify, Reported
<1>4. SoundlyOpen(types', open')
  BY <1>1, <1>2, <1>3, KnownSoundly
<1>5. IsText(s)
  BY <1>1 DEF Seen
<1>6. CASE here # {}
  <2>1. Found(tag, FALSE) # None /\ here = {Found(tag, FALSE)}
    <3>1. TypeInv /\ Refer
      BY <1>2 DEF IInv
    <3>2. /\ Found(tag, TRUE) = None => here = {}
          /\ Found(tag, TRUE) # None => here = {Found(tag, TRUE)}
          /\ here # {} => Found(tag, FALSE) = Found(tag, TRUE)
      BY <1>2, <3>1, FoundIsWithin
    <3> QED BY <1>6, <3>2
  <2>2. different <=> mismatch
    BY <1>2, <2>1, MismatchIs
  <2>3. types' = types /\ scopes' = scopes
    BY <1>3, <2>1, Unspecified
  <2>4. c' = Objection(s, different)
    BY <1>6 DEF InC, SaidForward
  <2> HIDE DEF s, different, mismatch
  <2> DEFINE r == Objection(s, different)
  <2>5. /\ IsText(r)
        /\ r.entities = s.entities /\ r.scopes = s.scopes /\ r.under = s.under /\ r.ended = s.ended
        /\ (r.owed <=> s.owed) /\ (r.valid <=> s.valid /\ ~different) /\ (r.apart <=> s.apart)
    BY <1>5, ObjectionIs
  <2> HIDE DEF r
  <2>6. Seen(r, types', scopes', open', base')
    BY <1>1, <1>3, <2>3, <2>5 DEF Seen
  <2>7. Verdict'
    BY <1>1, <1>3, <2>2, <2>4, <2>5 DEF Verdict, r
  <2>8. Agreement'
    BY <1>4, <2>4, <2>6 DEF Agreement, r
  <2> QED BY <2>7, <2>8
<1>7. CASE here = {}
  <2> DEFINE k == Introduced(s, union, tag, FALSE)
             named == Named(c, tag) # {}
             r == Apart(k, named)
  <2>1. c' = r
    BY <1>7 DEF InC, SaidForward
  <2>2. named \/ Found(tag, FALSE) = None
    <3>1. TypeInv /\ Refer
      BY <1>2 DEF IInv
    <3>2. Found(tag, FALSE) # None => Named(c, tag) = {Found(tag, FALSE)}
      BY <1>2, <3>1, FoundIsNamed
    <3> QED BY <3>2
  <2>3. IsIntroduced(k, s, union, tag, FALSE)
    <3> HIDE DEF s
    <3>1. s.scopes \in Seq(TagTables) /\ s.scopes # <<>>
      BY <1>1, <1>2 DEF Seen, IInv, TypeInv
    <3> QED BY <1>5, <3>1, IntroducedIs
  <2> HIDE DEF k, s, named
  <2>4. /\ IsText(r)
        /\ r.entities = k.entities /\ r.scopes = k.scopes /\ r.under = k.under /\ r.ended = k.ended
        /\ (r.owed <=> k.owed) /\ (r.valid <=> k.valid) /\ (r.apart <=> k.apart \/ named)
    <3>1. IsText(k)
      BY <2>3 DEF IsIntroduced
    <3> QED BY <3>1, ApartIs
  <2> HIDE DEF r
  <2>5. CASE named
    BY <2>1, <2>4, <2>5 DEF Verdict, Agreement
  <2>6. CASE ~named
    <3>1. Found(tag, FALSE) = None
      BY <2>2, <2>6
    <3>2. ~mismatch
      BY <3>1 DEF Mismatch
    <3>3. FALSE <=> tag = NoTag
      BY TagsAssumption
    <3>4. /\ Seen(k, TypesWith(union, tag, FALSE), ScopesWith(tag, FALSE), open, None)
          /\ (k.valid <=> s.valid) /\ (k.apart <=> s.apart)
      <4> DEFINE anonymous == FALSE
                 q == IF Found(tag, FALSE) = None THEN Introduced(s, union, tag, anonymous) ELSE s
      <4>1. anonymous \in BOOLEAN /\ (anonymous <=> tag = NoTag)
        BY <3>3
      <4>2. k = q
        BY <3>1 DEF k
      <4> HIDE DEF anonymous
      <4>3. /\ Seen(q, TypesWith(union, tag, FALSE), ScopesWith(tag, FALSE), open, None)
            /\ (q.owed <=> s.owed) /\ (q.valid <=> s.valid) /\ (q.apart <=> s.apart)
        BY <1>1, <1>2, <4>1, KnownIs
      <4> HIDE DEF q
      <4> QED BY <4>2, <4>3
    <3>5. Seen(r, types', scopes', open', base')
      BY <1>3, <2>4, <3>4 DEF Seen
    <3>6. Verdict'
      BY <1>1, <1>3, <2>1, <2>4, <3>2, <3>4 DEF Verdict
    <3>7. Agreement'
      BY <1>4, <2>1, <3>5 DEF Agreement
    <3> QED BY <3>6, <3>7
  <2> QED BY <2>5, <2>6
<1> QED BY <1>6, <1>7

(* A function begins, a tag in its parameters.                              *)
LEMMA OpenFunctionAgrees ==
    ASSUME Before, NEW union \in BOOLEAN, NEW tag \in Tags,
           OpenFunction(union, tag), InC(SaidFunction(c, union, tag))
    PROVE  Verdict' /\ Agreement'
<1> DEFINE s == Settled(c)
           ss == Append(s.scopes, <<>>)
           k == [s EXCEPT !.scopes = ss]
           found == Named(c, tag)
           new == found = {}
           different == OfAnotherKind(c, found, union)
           objected == Objection(k, different)
           r == Apart(objected, new)
           mismatch == Mismatch(union, tag, FALSE)
<1>1. /\ Seen(s, types, scopes, open, None) /\ SoundlyOpen(types, open)
      /\ ~s.owed /\ s.valid /\ (s.apart <=> c.owed)
  BY SettledAgrees
<1>2. /\ IInv /\ ~refused /\ c.entities = EntitiesOf(types) /\ c.scopes = scopes
  BY DEF Before, RecordsInv, Agreement, Seen
<1>3. /\ types' = TypesWith(union, tag, FALSE) /\ scopes' = Append(ScopesWith(tag, FALSE), <<>>)
      /\ open' = open /\ base' = None /\ (refused' <=> mismatch)
  BY <1>2 DEF OpenFunction, Reported
<1>4. SoundlyOpen(types', open')
  BY <1>1, <1>2, <1>3, KnownSoundly
<1>5. /\ Found(tag, FALSE) = None => found = {}
      /\ Found(tag, FALSE) # None => found = {Found(tag, FALSE)}
  BY <1>2, FoundIsNamed DEF IInv
<1>6. different <=> mismatch
  <2> HIDE DEF found
  <2> QED BY <1>2, <1>5, MismatchIs
<1>7. c' = r
  BY DEF InC, SaidFunction, SaidBlock
<1>8. ss = Append(scopes, <<>>)
  BY <1>1 DEF Seen
<1>9. new <=> found = {}
  OBVIOUS
<1> HIDE DEF s, ss, found, different, new, mismatch
<1>10. /\ Seen(k, types, ss, open, None)
       /\ (k.valid <=> s.valid) /\ (k.apart <=> s.apart)
  BY <1>1 DEF Seen, IsText, TextFields
<1> HIDE DEF k
<1>11. /\ Seen(objected, types, ss, open, None)
       /\ (objected.valid <=> k.valid /\ ~different) /\ (objected.apart <=> k.apart)
  <2>1. IsText(k)
    BY <1>10 DEF Seen
  <2> QED BY <1>10, <2>1, ObjectionIs DEF Seen
<1> HIDE DEF objected
<1>12. /\ Seen(r, types, ss, open, None)
       /\ (r.valid <=> objected.valid) /\ (r.apart <=> objected.apart \/ new)
  <2>1. IsText(objected)
    BY <1>11 DEF Seen
  <2> QED BY <1>11, <2>1, ApartIs DEF Seen
<1> HIDE DEF r
<1>13. CASE new
  BY <1>7, <1>12, <1>13 DEF Verdict, Agreement
<1>14. CASE ~new
  <2>1. Found(tag, FALSE) # None
    BY <1>5, <1>9, <1>14
  <2>2. types' = types /\ scopes' = ss
    BY <1>3, <1>8, <2>1, Unspecified
  <2>3. Verdict'
    BY <1>1, <1>3, <1>6, <1>7, <1>10, <1>11, <1>12 DEF Verdict
  <2>4. Agreement'
    BY <1>3, <1>4, <1>7, <1>12, <2>2 DEF Agreement
  <2> QED BY <2>3, <2>4
<1> QED BY <1>13, <1>14

-----------------------------------------------------------------------------
(* Definitions open.                                                        *)

(* What may be under way.                                                   *)
UnderTerms == {UnderOf(d) : d \in Definitions}

(* The definitions under way, as C sees them, one by one.                   *)
LEMMA UndersAre ==
    ASSUME NEW os \in Seq(Definitions)
    PROVE  /\ UndersOf(os) \in Seq(UnderTerms)
           /\ Len(UndersOf(os)) = Len(os) /\ DOMAIN UndersOf(os) = 1..Len(os)
           /\ \A n \in 1..Len(os) : UndersOf(os)[n] = UnderOf(os[n])
<1> DEFINE n == Len(os)
           us == UndersOf(os)
<1>1. n \in Nat /\ DOMAIN os = 1..n /\ \A i \in 1..n : os[i] \in Definitions
  OBVIOUS
<1>2. us \in [1..n -> UnderTerms] /\ \A i \in 1..n : us[i] = UnderOf(os[i])
  BY <1>1 DEF UndersOf, UnderTerms
<1> HIDE DEF us
<1>3. us \in Seq(UnderTerms) /\ Len(us) = n /\ DOMAIN us = 1..n
  BY <1>1, <1>2
<1> QED BY <1>2, <1>3 DEF us

(* One more definition under way.                                           *)
LEMMA UndersAppend ==
    ASSUME NEW os \in Seq(Definitions), NEW d \in Definitions
    PROVE  UndersOf(Append(os, d)) = Append(UndersOf(os), UnderOf(d))
<1> DEFINE n == Len(os)
           us == UndersOf(os)
           a == Append(os, d)
           x == UnderOf(d)
           b == Append(us, x)
           l == UndersOf(a)
<1>1. a \in Seq(Definitions) /\ Len(a) = n + 1 /\ a[n + 1] = d /\ \A i \in 1..n : a[i] = os[i]
  OBVIOUS
<1>2. n \in Nat /\ us \in Seq(UnderTerms) /\ Len(us) = n /\ \A i \in 1..n : us[i] = UnderOf(os[i])
  BY UndersAre
<1>3. x \in UnderTerms
  BY DEF UnderTerms
<1> HIDE DEF a, n, us, x
<1>4. Len(l) = n + 1 /\ DOMAIN l = 1..(n + 1) /\ \A i \in 1..(n + 1) : l[i] = UnderOf(a[i])
  BY <1>1, UndersAre
<1>5. l = [i \in 1..(n + 1) |-> UnderOf(a[i])]
  BY <1>1, <1>2 DEF UndersOf
<1> HIDE DEF l
<1>6. b \in Seq(UnderTerms) /\ DOMAIN b = 1..(n + 1) /\ b[n + 1] = x /\ \A i \in 1..n : b[i] = us[i]
  BY <1>2, <1>3
<1> HIDE DEF b
<1>7. b = [i \in 1..(n + 1) |-> b[i]] /\ b[n + 1] = x /\ \A i \in 1..n : b[i] = us[i]
  BY <1>6
<1>8. \A i \in 1..(n + 1) : b[i] = UnderOf(a[i])
  <2> TAKE i \in 1..(n + 1)
  <2>1. CASE i = n + 1
    BY <1>1, <1>7, <2>1 DEF x
  <2>2. CASE i # n + 1
    <3>1. i \in 1..n
      BY <1>2, <2>2
    <3> QED BY <1>1, <1>2, <1>7, <3>1
  <2> QED BY <2>1, <2>2
<1> QED BY <1>5, <1>7, <1>8 DEF l, b, a, us, x

(* The innermost is through.                                                *)
LEMMA UndersFront ==
    ASSUME NEW os \in Seq(Definitions), os # <<>>
    PROVE  UndersOf(SubSeq(os, 1, Len(os) - 1)) = SubSeq(UndersOf(os), 1, Len(os) - 1)
<1> DEFINE m == Len(os) - 1
           us == UndersOf(os)
           a == SubSeq(os, 1, m)
           b == SubSeq(us, 1, m)
           l == UndersOf(a)
<1>0. m \in Nat /\ Len(os) = m + 1 /\ \A i \in 1..m : i \in 1..Len(os)
  OBVIOUS
<1>1. a \in Seq(Definitions) /\ Len(a) = m /\ DOMAIN a = 1..m /\ \A i \in 1..m : a[i] = os[i]
  <2> HIDE DEF m
  <2> QED BY <1>0
<1>2. us \in Seq(UnderTerms) /\ Len(us) = m + 1 /\ \A i \in 1..m : us[i] = UnderOf(os[i])
  BY <1>0, UndersAre
<1>3. l = [i \in 1..m |-> UnderOf(a[i])]
  BY <1>1 DEF UndersOf
<1> HIDE DEF a, m, us, l
<1>4. b = [i \in 1..m |-> b[i]] /\ \A i \in 1..m : b[i] = us[i]
  BY <1>0, <1>1, <1>2
<1> HIDE DEF b
<1>5. \A i \in 1..m : b[i] = UnderOf(a[i])
  BY <1>1, <1>2, <1>4
<1> QED BY <1>3, <1>4, <1>5 DEF l, b, a, us, m

(* Only that something is inside has been noted.                            *)
LEMMA BegunIs ==
    ASSUME TypeInv
    PROVE  /\ Begun \in Seq(Definitions) /\ Len(Begun) = Len(open)
           /\ \A n \in DOMAIN open :
                 /\ Begun[n].record = open[n].record /\ Begun[n].fields = open[n].fields
                 /\ Begun[n].size = open[n].size /\ Begun[n].alignment = open[n].alignment
           /\ UndersOf(Begun) = UndersOf(open)
           /\ \A ts : SoundlyOpen(ts, open) => SoundlyOpen(ts, Begun)
<1>1. Begun \in Seq(Definitions) /\ Len(Begun) = Len(open)
  BY BegunLemma
<1>2. \A n \in DOMAIN open :
         /\ Begun[n].record = open[n].record /\ Begun[n].fields = open[n].fields
         /\ Begun[n].size = open[n].size /\ Begun[n].alignment = open[n].alignment
  <2>1. CASE open = <<>>
    BY <2>1 DEF TypeInv
  <2>2. CASE open # <<>>
    <3> DEFINE last == Len(open)
               d == [open[last] EXCEPT !.begun = TRUE]
    <3>1. last \in DOMAIN open /\ open[last] \in Definitions
      BY <2>2 DEF TypeInv
    <3>2. d.record = open[last].record /\ d.fields = open[last].fields
          /\ d.size = open[last].size /\ d.alignment = open[last].alignment
      BY <3>1 DEF Definitions
    <3>3. Begun = [open EXCEPT ![last] = d]
      BY <2>2 DEF Begun
    <3>4. \A n \in DOMAIN open : Begun[n] = IF n = last THEN d ELSE open[n]
      BY <3>3 DEF TypeInv
    <3> QED BY <3>2, <3>4
  <2> QED BY <2>1, <2>2
<1>3. DOMAIN Begun = DOMAIN open
  BY <1>1 DEF TypeInv
<1>4. UndersOf(Begun) = UndersOf(open)
  <2>1. \A n \in DOMAIN open : UnderOf(Begun[n]) = UnderOf(open[n])
    BY <1>2 DEF UnderOf
  <2> QED BY <1>3, <2>1 DEF UndersOf
<1>5. ASSUME NEW ts, SoundlyOpen(ts, open) PROVE SoundlyOpen(ts, Begun)
  <2>1. \A n \in DOMAIN open : Laid(ts, open[n]) /\ ~ts[open[n].record].complete
    BY <1>5 DEF SoundlyOpen
  <2>2. ASSUME NEW n \in DOMAIN open PROVE Laid(ts, Begun[n])
    <3> DEFINE d == open[n]
               e == Begun[n]
    <3>1. Laid(ts, d) /\ e.record = d.record /\ e.fields = d.fields /\ e.size = d.size /\ e.alignment = d.alignment
      BY <1>2, <2>1
    <3> HIDE DEF d, e
    <3>2. Laid(ts, e)
      BY <3>1 DEF Laid
    <3> QED BY <3>2 DEF e
  <2>3. \A m, n \in DOMAIN Begun : Begun[m].record = Begun[n].record => m = n
    BY <1>2, <1>3, <1>5 DEF SoundlyOpen
  <2> QED BY <1>2, <1>3, <2>1, <2>2, <2>3 DEF SoundlyOpen
<1> QED BY <1>1, <1>2, <1>4, <1>5

(* A definition without fields.                                             *)
LEMMA OpeningIs ==
    ASSUME NEW i \in Nat
    PROVE  /\ UnderOf(Opening(i)) = [entity |-> i, members |-> <<>>]
           /\ \A ts : Laid(ts, Opening(i))
<1> DEFINE d == Opening(i)
           none == <<>>
           ms == [j \in DOMAIN none |-> [name |-> none[j].name, type |-> none[j].type]]
<1>1. d = [record |-> i, fields |-> none, size |-> 0, alignment |-> 1, begun |-> FALSE]
  BY DEF Opening
<1>2. ms = none /\ DOMAIN none = {}
  OBVIOUS
<1> HIDE DEF d, none
<1>3. d.record = i /\ d.fields = none /\ d.size = 0 /\ d.alignment = 1
  BY <1>1
<1>4. UnderOf(d) = [entity |-> i, members |-> ms]
  BY <1>3 DEF UnderOf
<1>5. \A ts : Laid(ts, d)
  BY <1>2, <1>3 DEF Laid, none
<1> HIDE DEF ms
<1>6. UnderOf(d) = [entity |-> i, members |-> none]
  BY <1>2, <1>4
<1> QED BY <1>5, <1>6 DEF d, none

(* A definition opens.                                                      *)
LEMMA OpenDefinitionAgrees ==
    ASSUME Before, NEW union \in BOOLEAN, NEW tag \in Tags \union {NoTag},
           OpenDefinition(union, tag), InC(SaidOpen(c, union, tag, tag = NoTag))
    PROVE  Verdict' /\ Agreement'
<1> DEFINE anonymous == tag = NoTag
           s == Settled(c)
           here == IF anonymous THEN {} ELSE Within(c, tag)
           known == IF here = {} THEN Introduced(s, union, tag, anonymous) ELSE s
           e == IF here = {} THEN Len(c.entities) + 1 ELSE CHOOSE i \in here : TRUE
           inside == \E n \in DOMAIN c.under : c.under[n].entity = e
           new == [entity |-> e, members |-> <<>>]
           under == Append(known.under, new)
           k == [known EXCEPT !.under = under]
           wrong == OfAnotherKind(c, here, union) \/ inside \/ \E x \in here : c.entities[x].complete
           objected == Objection(k, wrong)
           r == Apart(objected, inside)
           ts == TypesWith(union, tag, TRUE)
           ss == ScopesWith(tag, TRUE)
           i == Specified(tag, TRUE)
           mismatch == Mismatch(union, tag, TRUE)
           whole == Found(tag, TRUE) # None /\ types[Found(tag, TRUE)].complete
           again == mismatch \/ whole
           os == Append(Begun, Opening(i))
<1>1. /\ Seen(s, types, scopes, open, None) /\ SoundlyOpen(types, open)
      /\ ~s.owed /\ s.valid /\ (s.apart <=> c.owed)
  BY SettledAgrees
<1>2. /\ IInv /\ ~refused /\ c.entities = EntitiesOf(types) /\ c.scopes = scopes /\ c.under = UndersOf(open)
  BY DEF Before, RecordsInv, Agreement, Seen
<1>3. TypeInv /\ Refer
  BY <1>2 DEF IInv
<1>4. /\ types' = ts /\ scopes' = ss /\ base' = None
      /\ (refused' <=> again)
      /\ ~again => open' = os
  <2>1. types' = ts /\ scopes' = ss /\ base' = None
    BY DEF OpenDefinition, Specify
  <2>2. Reported(again) /\ open' = IF again THEN Begun ELSE os
    BY DEF OpenDefinition
  <2> HIDE DEF again, os
  <2>3. refused' <=> again
    BY <1>2, <2>2 DEF Reported
  <2> QED BY <2>1, <2>2, <2>3
<1>5. /\ Found(tag, TRUE) = None => here = {}
      /\ Found(tag, TRUE) # None => here = {Found(tag, TRUE)}
  <2>1. /\ Found(tag, TRUE) = None => Within(c, tag) = {}
        /\ Found(tag, TRUE) # None => Within(c, tag) = {Found(tag, TRUE)}
    BY <1>2, <1>3, FoundIsWithin
  <2>2. tag = NoTag => Found(tag, TRUE) = None
    <3>1. Here \in TagTables
      BY <1>3 DEF TypeInv, Here
    <3>2. NoTag \notin DOMAIN Here
      BY <3>1, TagsAssumption DEF TagTables
    <3> QED BY <3>2 DEF Found
  <2> QED BY <2>1, <2>2
<1>6. here = {} <=> Found(tag, TRUE) = None
  BY <1>5
<1>7. /\ Seen(known, ts, ss, open, None)
      /\ (known.valid <=> s.valid) /\ (known.apart <=> s.apart)
  <2> DEFINE q == IF Found(tag, TRUE) = None THEN Introduced(s, union, tag, anonymous) ELSE s
  <2>1. anonymous \in BOOLEAN /\ (anonymous <=> tag = NoTag)
    OBVIOUS
  <2>2. known = q
    BY <1>6
  <2> HIDE DEF anonymous, s, known
  <2>3. /\ Seen(q, ts, ss, open, None)
        /\ (q.owed <=> s.owed) /\ (q.valid <=> s.valid) /\ (q.apart <=> s.apart)
    BY <1>1, <1>2, <2>1, KnownIs
  <2> QED BY <2>2, <2>3
<1>8. e = i
  <2>1. CASE Found(tag, TRUE) = None
    <3>1. Len(EntitiesOf(types)) = Len(types)
      <4>1. EntitiesOf(types) \in [1..Len(types) -> {AsEntity(x) : x \in AllRecords}] /\ Len(types) \in Nat
        BY <1>3 DEF EntitiesOf, TypeInv, AllRecords
      <4> QED BY <4>1
    <3> QED BY <1>2, <1>6, <2>1, <3>1 DEF Specified
  <2>2. CASE Found(tag, TRUE) # None
    <3>1. here = {Found(tag, TRUE)}
      BY <1>5, <2>2
    <3> HIDE DEF here
    <3> QED BY <2>2, <3>1 DEF Specified
  <2> QED BY <2>1, <2>2
<1>9. OfAnotherKind(c, here, union) <=> mismatch
  <2> HIDE DEF here
  <2> QED BY <1>2, <1>5, MismatchIs
<1>10. (\E x \in here : c.entities[x].complete) <=> whole
  <2>1. CASE Found(tag, TRUE) = None
    BY <1>5, <2>1
  <2>2. CASE Found(tag, TRUE) # None
    <3> DEFINE f == Found(tag, TRUE)
    <3>1. here = {f} /\ f \in DOMAIN types
      BY <1>3, <1>5, <2>2, FoundLemma
    <3> HIDE DEF here, f
    <3>2. EntitiesOf(types)[f].complete = types[f].complete
      BY <3>1, EntityIs
    <3> QED BY <1>2, <2>2, <3>1, <3>2 DEF f
  <2> QED BY <2>1, <2>2
<1>11. wrong <=> again \/ inside
  <2>1. wrong <=> OfAnotherKind(c, here, union) \/ inside \/ \E x \in here : c.entities[x].complete
    OBVIOUS
  <2> HIDE DEF wrong, inside, here, mismatch, whole
  <2> QED BY <1>9, <1>10, <2>1
<1>12. inside <=> \E n \in DOMAIN open : open[n].record = i
  <2>1. /\ DOMAIN c.under = DOMAIN open
        /\ \A n \in DOMAIN open : c.under[n].entity = open[n].record
    BY <1>2 DEF UndersOf, UnderOf
  <2> HIDE DEF i, e
  <2> QED BY <1>8, <2>1
<1>13. c' = r
  BY DEF InC, SaidOpen
<1>14. under = Append(UndersOf(open), [entity |-> i, members |-> <<>>])
  <2> HIDE DEF e, i, known
  <2> QED BY <1>7, <1>8 DEF Seen
<1>15. i \in Nat /\ i \in DOMAIN ts
  BY <1>2, <1>4, SpecifiedLemma
<1>16. /\ DOMAIN types \subseteq DOMAIN ts
       /\ \A j \in DOMAIN types : ts[j] = types[j]
       /\ \A j \in DOMAIN ts \ DOMAIN types : ~ts[j].complete
  BY <1>3, SpecifyLemma
<1>17. ~whole => ~ts[i].complete
  <2>1. CASE Found(tag, TRUE) = None
    <3>1. ts = Append(types, NewType(union, tag)) /\ i = Len(types) + 1
      BY <2>1 DEF TypesWith, Specified
    <3>2. i \notin DOMAIN types
      <4>1. DOMAIN types = 1..Len(types) /\ Len(types) \in Nat
        BY <1>3 DEF TypeInv
      <4> HIDE DEF i, ts
      <4> QED BY <3>1, <4>1
    <3> QED BY <1>15, <1>16, <3>2
  <2>2. CASE Found(tag, TRUE) # None
    <3>1. ts = types /\ i = Found(tag, TRUE)
      BY <2>2 DEF TypesWith, Specified
    <3> QED BY <2>2, <3>1
  <2> QED BY <2>1, <2>2
<1>18. SoundlyOpen(ts, open)
  BY <1>1, <1>2, KnownSoundly
<1>19. again <=> mismatch \/ whole
  OBVIOUS
<1> HIDE DEF anonymous, s, here, known, e, inside, new, under, wrong, ts, ss, i, mismatch, whole, again
<1>20. /\ IsText(k) /\ k.entities = known.entities /\ k.scopes = known.scopes /\ k.under = under /\ k.ended = known.ended
       /\ (k.valid <=> known.valid) /\ (k.apart <=> known.apart)
  BY <1>7 DEF Seen, IsText, TextFields
<1> HIDE DEF k
<1>21. /\ IsText(objected) /\ objected.entities = k.entities /\ objected.scopes = k.scopes
       /\ objected.under = k.under /\ objected.ended = k.ended
       /\ (objected.valid <=> k.valid /\ ~wrong) /\ (objected.apart <=> k.apart)
  BY <1>20, ObjectionIs
<1> HIDE DEF objected
<1>22. /\ IsText(r) /\ r.entities = objected.entities /\ r.scopes = objected.scopes
       /\ r.under = objected.under /\ r.ended = objected.ended
       /\ (r.valid <=> objected.valid) /\ (r.apart <=> objected.apart \/ inside)
  BY <1>21, ApartIs
<1> HIDE DEF r
<1>23. Verdict'
  BY <1>1, <1>4, <1>7, <1>11, <1>13, <1>20, <1>21, <1>22 DEF Verdict
<1>24. ASSUME ~again, ~inside
       PROVE  Seen(r, ts, ss, os, None) /\ SoundlyOpen(ts, os)
  <2> DEFINE d == Opening(i)
             n == Len(open)
  <2>1. /\ Begun \in Seq(Definitions) /\ Len(Begun) = n
        /\ \A m \in DOMAIN open : Begun[m].record = open[m].record
        /\ UndersOf(Begun) = UndersOf(open)
        /\ SoundlyOpen(ts, Begun)
    BY <1>3, <1>18, BegunIs
  <2>2. d \in Definitions /\ d.record = i
    BY <1>15, OpeningLemma
  <2>3. UnderOf(d) = [entity |-> i, members |-> <<>>] /\ Laid(ts, d)
    BY <1>15, OpeningIs
  <2>4. UndersOf(os) = under
    <3> HIDE DEF d
    <3>1. UndersOf(Append(Begun, d)) = Append(UndersOf(Begun), UnderOf(d))
      BY <2>1, <2>2, UndersAppend
    <3> QED BY <1>14, <2>1, <2>3, <3>1 DEF d
  <2> HIDE DEF d, os
  <2>5. Seen(r, ts, ss, os, None)
    BY <1>7, <1>20, <1>21, <1>22, <2>4 DEF Seen
  <2>6. /\ DOMAIN os = 1..(n + 1) /\ os[n + 1] = d /\ DOMAIN open = 1..n /\ DOMAIN Begun = 1..n /\ n \in Nat
        /\ \A m \in 1..n : os[m] = Begun[m]
    BY <1>3, <2>1, <2>2 DEF os, d, TypeInv
  <2> HIDE DEF n
  <2>7. \A m \in 1..(n + 1) : m = n + 1 \/ m \in 1..n
    BY <2>6
  <2>8. \A m \in 1..n : ~ts[os[m].record].complete /\ Laid(ts, os[m])
    BY <2>1, <2>6 DEF SoundlyOpen
  <2>9. ~ts[os[n + 1].record].complete /\ Laid(ts, os[n + 1])
    BY <1>17, <1>19, <1>24, <2>2, <2>3, <2>6
  <2>10. \A m \in 1..n : os[m].record # os[n + 1].record
    BY <1>12, <1>24, <2>1, <2>2, <2>6
  <2>11. \A m, l \in 1..n : os[m].record = os[l].record => m = l
    BY <2>1, <2>6 DEF SoundlyOpen
  <2>12. \A m, l \in DOMAIN os : os[m].record = os[l].record => m = l
    BY <2>6, <2>7, <2>10, <2>11
  <2>13. \A m \in DOMAIN os : ~ts[os[m].record].complete /\ Laid(ts, os[m])
    BY <2>6, <2>7, <2>8, <2>9
  <2>14. SoundlyOpen(ts, os)
    BY <2>12, <2>13 DEF SoundlyOpen
  <2> QED BY <2>5, <2>14
<1>25. Agreement'
  <2>1. ASSUME ~refused', ~c'.apart
        PROVE  Seen(c, types, scopes, open, base)' /\ SoundlyOpen(types, open)'
    <3>1. ~again /\ ~inside
      BY <1>4, <1>13, <1>22, <2>1
    <3>2. Seen(r, ts, ss, os, None) /\ SoundlyOpen(ts, os) /\ open' = os
      BY <1>4, <1>24, <3>1
    <3> HIDE DEF os
    <3> QED BY <1>4, <1>13, <3>2
  <2> QED BY <2>1 DEF Agreement
<1> QED BY <1>23, <1>25

-----------------------------------------------------------------------------
(* Declarators.                                                             *)

(* Once invalid, always invalid.                                            *)
LEMMA StaysInvalid ==
    ASSUME NEW k, IsText(k), ~k.valid, NEW name, NEW t
    PROVE  ~SaidDeclarator(k, name, t).valid
<1>1. CASE k.under = <<>>
  <2> DEFINE x == InBlock(k) /\ t[1] # "function" /\ ~HasObjectType(k, t)
             y == IF t[1] = "function" THEN InBlock(k) ELSE ~InBlock(k) /\ ~HasObjectType(k, t)
             q == Objection(k, x)
  <2>1. SaidDeclarator(k, name, t) = Apart(q, y)
    BY <1>1 DEF SaidDeclarator
  <2> HIDE DEF x, y
  <2>2. IsText(q) /\ ~q.valid
    BY ObjectionIs
  <2> HIDE DEF q
  <2>3. ~Apart(q, y).valid
    BY <2>2, ApartIs
  <2> QED BY <2>1, <2>3
<1>2. CASE k.under # <<>>
  <2> DEFINE members == k.under[Len(k.under)].members
             new == [name |-> name, type |-> t]
             x == ~HasObjectType(k, t) \/ \E i \in DOMAIN members : members[i].name = name
             q == [k EXCEPT !.under[Len(k.under)].members = Append(@, new)]
  <2>1. SaidDeclarator(k, name, t) = Objection(q, x)
    BY <1>2 DEF SaidDeclarator
  <2>2. IsText(q) /\ ~q.valid
    BY DEF IsText, TextFields
  <2> HIDE DEF x, q
  <2>3. ~Objection(q, x).valid
    BY <2>2, ObjectionIs
  <2> QED BY <2>1, <2>3
<1> QED BY <1>1, <1>2

(* What the declarators of a step are said after.                           *)
Ready(us, k, ss, b) ==
    /\ IInv /\ ~refused /\ SoundlyOpen(types, open)
    /\ DOMAIN types \subseteq DOMAIN us
    /\ \A i \in DOMAIN types : us[i] = types[i]
    /\ \A i \in DOMAIN us \ DOMAIN types : ~us[i].complete
    /\ Seen(k, us, ss, open, b) /\ k.valid
    /\ Len(ss) > 1 <=> Len(scopes) > 1

(* A type the specifier has given.                                          *)
Meant(us, t) == t[1] # "invalid" /\ (t[1] = "record" => t[2] \in DOMAIN us)

(* A type is complete to both or to neither.                                *)
LEMMA CompleteToo ==
    ASSUME NEW us, NEW k, NEW ss, NEW b, Ready(us, k, ss, b), NEW t, Meant(us, t)
    PROVE  HasObjectType(k, t) <=> IsCompleteObject(t)
<1>1. HasObjectType(k, t) <=> CompleteIn(us, t)
  BY ObjectIs DEF Ready, Meant, Seen
<1>2. CompleteIn(us, t) <=> CompleteIn(types, t)
  BY DEF Ready, Meant, CompleteIn
<1> QED BY <1>1, <1>2, AsSeen

(* A declarator of a variable or function.                                  *)
LEMMA VariableAgrees ==
    ASSUME NEW us, NEW k, NEW ss, NEW b, Ready(us, k, ss, b),
           NEW name \in FieldNames, NEW t \in TypeTerms, Meant(us, t),
           NEW reported \in BOOLEAN, ~reported, DeclareVariable(t, reported)
    PROVE  LET r == SaidDeclarator(k, name, t)
           IN  /\ r.apart \/ (refused' <=> ~r.valid)
               /\ Seen(r, us, ss, open', b) /\ SoundlyOpen(us, open')
<1> DEFINE inside == InBlock(k)
           function == t[1] = "function"
           object == HasObjectType(k, t)
           x == inside /\ ~function /\ ~object
           y == IF function THEN inside ELSE ~inside /\ ~object
           q == Objection(k, x)
           r == Apart(q, y)
<1>1. open = <<>> /\ open' = open
  BY DEF DeclareVariable
<1>2. IsText(k) /\ k.under = UndersOf(open) /\ k.scopes = ss /\ k.valid
  BY DEF Ready, Seen
<1>3. k.under = <<>>
  BY <1>1, <1>2 DEF UndersOf
<1>4. SaidDeclarator(k, name, t) = r
  BY <1>3 DEF SaidDeclarator
<1>5. inside <=> Len(scopes) > 1
  BY <1>2 DEF InBlock, Ready
<1>6. object <=> IsCompleteObject(t)
  BY CompleteToo
<1>7. t = Function <=> function
  BY DEF TypeTerms, Char, Int32, Double, Function, Invalid, Record, PointerType
<1>8. function => ~IsCompleteObject(t)
  BY DEF IsCompleteObject
<1>9. refused' <=> ~(IsCompleteObject(t) \/ (t = Function /\ Len(scopes) = 1))
  BY DEF DeclareVariable, Reported, Ready
<1>10. Len(scopes) > 1 <=> Len(scopes) # 1
  <2>1. scopes \in Seq(TagTables) /\ Len(scopes) >= 1
    BY DEF Ready, IInv, TypeInv
  <2> DEFINE n == Len(scopes)
  <2>2. n \in Nat /\ n >= 1
    BY <2>1
  <2> HIDE DEF n
  <2>3. n > 1 <=> n # 1
    BY <2>2
  <2> QED BY <2>3 DEF n
<1> HIDE DEF inside, function, object
<1>11. /\ x <=> inside /\ ~function /\ ~object
       /\ y <=> (function /\ inside) \/ (~function /\ ~inside /\ ~object)
  OBVIOUS
<1> HIDE DEF x, y
<1>12. /\ IsText(q) /\ q.entities = k.entities /\ q.scopes = k.scopes /\ q.under = k.under /\ q.ended = k.ended
       /\ (q.valid <=> k.valid /\ ~x)
  BY <1>2, ObjectionIs
<1> HIDE DEF q
<1>13. /\ IsText(r) /\ r.entities = q.entities /\ r.scopes = q.scopes /\ r.under = q.under /\ r.ended = q.ended
       /\ (r.valid <=> q.valid) /\ (r.apart <=> q.apart \/ y)
  BY <1>12, ApartIs
<1> HIDE DEF r
<1>14. r.apart \/ (refused' <=> ~r.valid)
  BY <1>2, <1>5, <1>6, <1>7, <1>8, <1>9, <1>10, <1>11, <1>12, <1>13
<1>15. Seen(r, us, ss, open', b)
  BY <1>1, <1>12, <1>13 DEF Ready, Seen
<1>16. SoundlyOpen(us, open')
  BY <1>1 DEF SoundlyOpen, Ready, UndersOf
<1> QED BY <1>4, <1>14, <1>15, <1>16

(* What C makes of a member.                                                *)
LEMMA FieldSaid ==
    ASSUME NEW us, NEW k, NEW ss, NEW b, Ready(us, k, ss, b),
           NEW name \in FieldNames, NEW t \in TypeTerms, Meant(us, t), open # <<>>
    PROVE  LET r == SaidDeclarator(k, name, t)
               d == open[Len(open)]
               kept == IsCompleteObject(t) /\ ~\E i \in DOMAIN d.fields : d.fields[i].name = name
               members == Append(UnderOf(d).members, [name |-> name, type |-> t])
           IN  /\ IsText(r) /\ r.entities = k.entities /\ r.scopes = k.scopes /\ r.ended = k.ended
               /\ (r.valid <=> kept)
               /\ r.under = [k.under EXCEPT ![Len(open)] = [entity |-> d.record, members |-> members]]
<1> DEFINE d == open[Len(open)]
           l == Len(k.under)
           taken == \E i \in DOMAIN d.fields : d.fields[i].name = name
           kept == IsCompleteObject(t) /\ ~\E i \in DOMAIN d.fields : d.fields[i].name = name
           new == [name |-> name, type |-> t]
           members == Append(UnderOf(d).members, [name |-> name, type |-> t])
           old == k.under[l].members
           x == ~HasObjectType(k, t) \/ \E i \in DOMAIN old : old[i].name = name
           under == [k.under EXCEPT ![l].members = Append(@, new)]
           q == [k EXCEPT !.under[l].members = Append(@, new)]
           r == Objection(q, x)
<1>1. IsText(k) /\ k.under = UndersOf(open) /\ k.valid /\ IInv
  BY DEF Ready, Seen
<1>2. /\ l = Len(open) /\ DOMAIN k.under = 1..l /\ l \in 1..l
      /\ k.under[l] = UnderOf(d)
  <2>1. open \in Seq(Definitions)
    BY <1>1 DEF IInv, TypeInv
  <2>2. /\ Len(k.under) = Len(open) /\ DOMAIN k.under = 1..Len(open)
        /\ \A n \in 1..Len(open) : k.under[n] = UnderOf(open[n])
    BY <1>1, <2>1, UndersAre
  <2>3. Len(open) \in 1..Len(open)
    BY <2>1
  <2> QED BY <2>2, <2>3
<1>3. old = [i \in DOMAIN d.fields |-> [name |-> d.fields[i].name, type |-> d.fields[i].type]]
  BY <1>2 DEF UnderOf
<1>4. (\E i \in DOMAIN old : old[i].name = name) <=> taken
  BY <1>3
<1>5. HasObjectType(k, t) <=> IsCompleteObject(t)
  BY CompleteToo
<1>6. x <=> ~kept
  BY <1>4, <1>5
<1>7. SaidDeclarator(k, name, t) = r
  <2>1. k.under # <<>>
    BY <1>2
  <2> QED BY <2>1 DEF SaidDeclarator
<1> HIDE DEF x, kept
<1>8. /\ IsText(q) /\ q.entities = k.entities /\ q.scopes = k.scopes /\ q.under = under /\ q.ended = k.ended
      /\ (q.valid <=> k.valid)
  BY <1>1 DEF IsText, TextFields
<1> HIDE DEF q
<1>9. /\ IsText(r) /\ r.entities = q.entities /\ r.scopes = q.scopes /\ r.under = q.under /\ r.ended = q.ended
      /\ (r.valid <=> q.valid /\ ~x)
  BY <1>8, ObjectionIs
<1> HIDE DEF r
<1>10. under = [k.under EXCEPT ![l] = [entity |-> d.record, members |-> members]]
  <2> DEFINE u == UnderOf(d)
  <2>1. u = [entity |-> d.record, members |-> u.members]
    BY DEF UnderOf
  <2>2. under = [k.under EXCEPT ![l] = [u EXCEPT !.members = Append(@, new)]]
    BY <1>2
  <2> HIDE DEF u, d, new
  <2>3. [u EXCEPT !.members = Append(@, new)] = [entity |-> d.record, members |-> Append(u.members, new)]
    BY <2>1
  <2> QED BY <2>2, <2>3 DEF u, new
<1> QED BY <1>1, <1>2, <1>6, <1>7, <1>8, <1>9, <1>10 DEF kept

(* A definition with one more field has one more member.                    *)
LEMMA MembersAppend ==
    ASSUME NEW d, NEW e, NEW n \in Nat, d.fields \in Seq(FieldRecords), e.fields \in Seq(FieldRecords),
           Len(d.fields) = n, Len(e.fields) = n + 1, \A i \in 1..n : e.fields[i] = d.fields[i]
    PROVE  UnderOf(e).members =
               Append(UnderOf(d).members, [name |-> e.fields[n + 1].name, type |-> e.fields[n + 1].type])
<1> DEFINE M(f) == [name |-> f.name, type |-> f.type]
           T == {M(f) : f \in FieldRecords}
           ms == [i \in DOMAIN d.fields |-> M(d.fields[i])]
           l == [i \in DOMAIN e.fields |-> M(e.fields[i])]
           x == M(e.fields[n + 1])
           b == Append(ms, x)
<1>1. UnderOf(d).members = ms /\ UnderOf(e).members = l
  BY DEF UnderOf
<1>2. /\ DOMAIN d.fields = 1..n /\ DOMAIN e.fields = 1..(n + 1) /\ n + 1 \in 1..(n + 1)
      /\ \A i \in 1..n : d.fields[i] \in FieldRecords /\ i \in 1..(n + 1)
      /\ e.fields[n + 1] \in FieldRecords
  OBVIOUS
<1>3. ms \in [1..n -> T] /\ x \in T
  BY <1>2
<1>4. \A i \in 1..n : ms[i] = M(e.fields[i])
  BY <1>2
<1>5. l = [i \in 1..(n + 1) |-> M(e.fields[i])]
  BY <1>2
<1>6. x = M(e.fields[n + 1])
  OBVIOUS
<1> HIDE DEF M, T, ms, l, x
<1>7. ms \in Seq(T) /\ Len(ms) = n
  <2>1. n \in Nat /\ ms \in [1..n -> T]
    BY <1>3
  <2> QED BY <2>1
<1>8. b \in Seq(T) /\ DOMAIN b = 1..(n + 1) /\ b[n + 1] = x /\ \A i \in 1..n : b[i] = ms[i]
  BY <1>3, <1>7
<1> HIDE DEF b
<1>9. b = [i \in 1..(n + 1) |-> b[i]]
  BY <1>8
<1>10. \A i \in 1..(n + 1) : b[i] = M(e.fields[i])
  <2> TAKE i \in 1..(n + 1)
  <2>1. i = n + 1 \/ i \in 1..n
    OBVIOUS
  <2> QED BY <2>1, <1>4, <1>6, <1>8
<1>11. l = b
  BY <1>5, <1>9, <1>10
<1> QED BY <1>1, <1>11 DEF b, x, M

(* A declarator of a field.                                                 *)
LEMMA FieldAgrees ==
    ASSUME NEW us, NEW k, NEW ss, NEW b, Ready(us, k, ss, b),
           NEW name \in FieldNames, NEW t \in TypeTerms, Meant(us, t),
           NEW reported \in BOOLEAN, ~reported, DeclareField(name, t, reported)
    PROVE  LET r == SaidDeclarator(k, name, t)
           IN  /\ (refused' <=> ~r.valid)
               /\ ~refused' => Seen(r, us, ss, open', b) /\ SoundlyOpen(us, open')
<1> DEFINE last == Len(open)
           d == open[last]
           taken == \E i \in DOMAIN d.fields : d.fields[i].name = name
           kept == IsCompleteObject(t) /\ ~taken
           begun == Begun[last]
           e == LaidOut(begun, name, t)
           os == [Begun EXCEPT ![last] = e]
           members == Append(UnderOf(d).members, [name |-> name, type |-> t])
           u == [entity |-> d.record, members |-> members]
           r == SaidDeclarator(k, name, t)
<1>1. open # <<>> /\ (refused' <=> ~kept) /\ (kept => open' = os)
  BY DEF DeclareField, Reported, Ready
<1>2. IInv /\ TypeInv /\ Refer /\ SoundlyOpen(types, open)
  BY DEF Ready, IInv
<1>3. /\ IsText(r) /\ r.entities = k.entities /\ r.scopes = k.scopes /\ r.ended = k.ended
      /\ (r.valid <=> kept)
      /\ r.under = [k.under EXCEPT ![last] = u]
  BY <1>1, FieldSaid
<1>4. IsText(k) /\ k.entities = EntitiesOf(us) /\ k.scopes = ss /\ k.under = UndersOf(open) /\ k.ended = b
  BY DEF Ready, Seen
<1>5. /\ Begun \in Seq(Definitions) /\ Len(Begun) = last
      /\ \A n \in DOMAIN open :
            /\ Begun[n].record = open[n].record /\ Begun[n].fields = open[n].fields
            /\ Begun[n].size = open[n].size /\ Begun[n].alignment = open[n].alignment
      /\ UndersOf(Begun) = UndersOf(open)
      /\ SoundlyOpen(types, Begun)
  BY <1>2, BegunIs
<1>6. last \in 1..last /\ DOMAIN open = 1..last /\ DOMAIN Begun = 1..last /\ begun \in Definitions
      /\ begun.record = d.record /\ begun.fields = d.fields
  BY <1>1, <1>2, <1>5 DEF TypeInv
<1>7. WellPlaced(types[begun.record].union, begun) /\ types[begun.record].union \in BOOLEAN
  <2>1. d.record \in DOMAIN types
    BY <1>2, <1>6 DEF Refer
  <2>2. types[d.record] \in AllRecords
    BY <1>2, <2>1 DEF TypeInv, AllRecords
  <2>3. types[d.record].union \in BOOLEAN
    BY <2>2 DEF AllRecords, RecordsOf
  <2>4. WellPlaced(types[d.record].union, d)
    BY <1>2, <1>6 DEF IInv, LayoutsAreSound
  <2>5. \A n \in DOMAIN open : \A union \in BOOLEAN : WellPlaced(union, open[n]) => WellPlaced(union, Begun[n])
    BY <1>2, BegunLemma
  <2> QED BY <1>6, <2>3, <2>4, <2>5
<1>8. Laid(types, begun)
  BY <1>5, <1>6 DEF SoundlyOpen
<1> HIDE DEF begun
<1>9. ASSUME kept
      PROVE  /\ Laid(types, e) /\ e \in Definitions /\ e.record = d.record
             /\ e.fields \in Seq(FieldRecords) /\ Len(e.fields) = Len(begun.fields) + 1
             /\ e.fields[Len(begun.fields) + 1].name = name /\ e.fields[Len(begun.fields) + 1].type = t
             /\ \A i \in DOMAIN begun.fields : e.fields[i] = begun.fields[i]
  <2>1. IsCompleteObject(t)
    BY <1>9
  <2>2. e \in Definitions /\ e.record = begun.record
    BY <1>2, <1>6, <1>7, <2>1, LaidOutLemma
  <2>3. /\ Laid(types, e)
        /\ e.fields \in Seq(FieldRecords)
        /\ Len(e.fields) = Len(begun.fields) + 1
        /\ e.fields[Len(begun.fields) + 1].name = name /\ e.fields[Len(begun.fields) + 1].type = t
        /\ \A i \in DOMAIN begun.fields : e.fields[i] = begun.fields[i]
    BY <1>2, <1>6, <1>7, <1>8, <2>1, LaidOutIs
  <2> QED BY <1>6, <2>2, <2>3
<1> HIDE DEF kept, e, d, last
<1>10. ASSUME kept
       PROVE  UndersOf(os) = r.under
  <2>1. UnderOf(e) = u
    <3> DEFINE n == Len(begun.fields)
    <3>1. begun.fields \in Seq(FieldRecords)
      BY <1>6 DEF Definitions
    <3>2. n \in Nat /\ DOMAIN begun.fields = 1..n
      BY <3>1
    <3>3. UnderOf(e).members =
               Append(UnderOf(begun).members, [name |-> e.fields[n + 1].name, type |-> e.fields[n + 1].type])
      <4>1. e.fields \in Seq(FieldRecords) /\ Len(e.fields) = n + 1 /\ \A i \in 1..n : e.fields[i] = begun.fields[i]
        BY <1>9, <1>10, <3>2
      <4> HIDE DEF n
      <4>2. Len(begun.fields) = n
        BY DEF n
      <4> QED BY <3>1, <3>2, <4>1, <4>2, MembersAppend
    <3>4. UnderOf(begun).members = UnderOf(d).members
      BY <1>6 DEF UnderOf
    <3>5. UnderOf(e).members = members
      BY <1>9, <1>10, <3>3, <3>4
    <3>6. UnderOf(e) = [entity |-> e.record, members |-> UnderOf(e).members]
      BY DEF UnderOf
    <3> QED BY <1>9, <1>10, <3>5, <3>6
  <2> HIDE DEF u
  <2>2. DOMAIN os = 1..last /\ \A n \in 1..last : os[n] = IF n = last THEN e ELSE Begun[n]
    BY <1>6
  <2>3. /\ DOMAIN UndersOf(open) = 1..last
        /\ \A n \in 1..last : UndersOf(open)[n] = UnderOf(Begun[n])
    BY <1>5, <1>6, UndersAre DEF UndersOf
  <2> HIDE DEF os
  <2>4. UndersOf(os) = [n \in 1..last |-> UnderOf(os[n])]
    BY <2>2 DEF UndersOf
  <2>5. \A n \in 1..last : UnderOf(os[n]) = IF n = last THEN u ELSE UndersOf(open)[n]
    BY <2>1, <2>2, <2>3
  <2>6. [UndersOf(open) EXCEPT ![last] = u] = [n \in 1..last |-> IF n = last THEN u ELSE UndersOf(open)[n]]
    BY <2>3
  <2> QED BY <1>3, <1>4, <2>4, <2>5, <2>6
<1>11. ASSUME kept
       PROVE  SoundlyOpen(types, os)
  <2>1. DOMAIN os = 1..last /\ \A n \in 1..last : os[n] = IF n = last THEN e ELSE Begun[n]
    BY <1>6
  <2>2. \A n \in 1..last : os[n].record = open[n].record
    BY <1>5, <1>6, <1>9, <1>11, <2>1 DEF d
  <2> HIDE DEF os
  <2>3. \A n \in 1..last : Laid(types, os[n])
    BY <1>5, <1>6, <1>9, <1>11, <2>1 DEF SoundlyOpen
  <2> QED BY <1>2, <1>6, <2>1, <2>2, <2>3 DEF SoundlyOpen
<1> HIDE DEF r, os
<1>12. ASSUME kept
       PROVE  SoundlyOpen(us, os)
  <2>1. \A n \in DOMAIN os : os[n].record \in DOMAIN types
    <3>1. DOMAIN os = 1..last /\ \A n \in 1..last : os[n] = IF n = last THEN e ELSE Begun[n]
      BY <1>6 DEF os
    <3> QED BY <1>2, <1>5, <1>6, <1>9, <1>12, <3>1 DEF d, Refer
  <2>2. DOMAIN types \subseteq DOMAIN us /\ \A i \in DOMAIN types : us[i] = types[i]
    BY DEF Ready
  <2> QED BY <1>11, <1>12, <2>1, <2>2, SoundlyStays
<1>13. kept => Seen(r, us, ss, open', b)
  BY <1>1, <1>3, <1>4, <1>10 DEF Seen
<1>14. kept => SoundlyOpen(us, open')
  BY <1>1, <1>12
<1> QED BY <1>1, <1>3, <1>13, <1>14 DEF r

(* A declarator of either.                                                  *)
LEMMA DeclareAgrees ==
    ASSUME NEW us, NEW k, NEW ss, NEW b, Ready(us, k, ss, b),
           NEW name \in FieldNames, NEW t \in TypeTerms, Meant(us, t),
           NEW reported \in BOOLEAN, ~reported, Declare(name, t, reported)
    PROVE  LET r == SaidDeclarator(k, name, t)
           IN  /\ r.apart \/ (refused' <=> ~r.valid)
               /\ ~refused' => Seen(r, us, ss, open', b) /\ SoundlyOpen(us, open')
<1>1. CASE DeclareVariable(t, reported)
  BY <1>1, VariableAgrees
<1>2. CASE DeclareField(name, t, reported)
  BY <1>2, FieldAgrees
<1> QED BY <1>1, <1>2 DEF Declare

(* A declaration of a scalar or of a function.                              *)
LEMMA DeclareScalarAgrees ==
    ASSUME Before, NEW name \in FieldNames, NEW t \in Scalars \union {Function},
           DeclareScalar(name, t), InC(SaidScalar(c, name, t))
    PROVE  Verdict' /\ Agreement'
<1> DEFINE k == Settled(c)
           r == SaidDeclarator(k, name, t)
<1>1. /\ Seen(k, types, scopes, open, None) /\ SoundlyOpen(types, open) /\ k.valid
  BY SettledAgrees
<1>2. IInv /\ ~refused
  BY DEF Before, RecordsInv
<1>3. t \in TypeTerms /\ Meant(types, t)
  BY ScalarsAssumption DEF TypeTerms, Meant, Char, Int32, Double, Function
<1>4. c' = r
  BY DEF InC, SaidScalar
<1> HIDE DEF k
<1>5. Ready(types, k, scopes, None)
  BY <1>1, <1>2 DEF Ready
<1>6. types' = types /\ scopes' = scopes /\ base' = None
  BY DEF DeclareScalar
<1>7. /\ r.apart \/ (refused' <=> ~r.valid)
      /\ ~refused' => Seen(r, types, scopes, open', None) /\ SoundlyOpen(types, open')
  <2> DEFINE reported == FALSE
  <2>1. reported \in BOOLEAN /\ ~reported /\ Declare(name, t, reported)
    BY DEF DeclareScalar
  <2> HIDE DEF reported
  <2> QED BY <1>3, <1>5, <2>1, DeclareAgrees
<1> HIDE DEF r
<1> QED BY <1>4, <1>6, <1>7 DEF Verdict, Agreement

(* The declarator makes the same type of the specifier's.                   *)
LEMMA OfIs ==
    ASSUME NEW e, NEW pointer \in BOOLEAN
    PROVE  Of(e, pointer) = AsDeclared(Record(e), pointer)
  BY DEF Of, AsDeclared, Record, PointerType

(* A type of the table, or a pointer to it.                                 *)
LEMMA RecordTerm ==
    ASSUME NEW us, NEW i \in DOMAIN us, i \in Nat, NEW pointer \in BOOLEAN
    PROVE  AsDeclared(Record(i), pointer) \in TypeTerms /\ Meant(us, AsDeclared(Record(i), pointer))
  BY DEF AsDeclared, Record, PointerType, TypeTerms, Meant

(* A declarator behind the definition.                                      *)
LEMMA DeclareDefinedAgrees ==
    ASSUME Before, NEW name \in FieldNames, NEW pointer \in BOOLEAN,
           DeclareDefined(name, pointer), InC(SaidDefined(c, name, pointer))
    PROVE  Verdict' /\ Agreement'
<1> DEFINE k == [c EXCEPT !.owed = FALSE]
           t == AsDeclared(Record(base), pointer)
           r == SaidDeclarator(k, name, t)
<1>1. /\ Seen(c, types, scopes, open, base) /\ SoundlyOpen(types, open) /\ c.valid
      /\ IInv /\ ~refused
  BY DEF Before, RecordsInv, Agreement, Verdict
<1>2. Seen(k, types, scopes, open, base) /\ k.valid
  BY <1>1 DEF Seen, IsText, TextFields
<1>3. t \in TypeTerms /\ Meant(types, t)
  <2>1. base \in DOMAIN types /\ base \in Nat
    BY <1>1 DEF DeclareDefined, IInv, Refer, TypeInv
  <2> QED BY <2>1, RecordTerm
<1>4. c' = r
  <2>1. c.ended = base
    BY <1>1 DEF Seen
  <2>2. Of(base, pointer) = t
    BY OfIs
  <2> HIDE DEF t
  <2> QED BY <2>1, <2>2 DEF InC, SaidDefined
<1> HIDE DEF k
<1>5. Ready(types, k, scopes, base)
  BY <1>1, <1>2 DEF Ready
<1>6. types' = types /\ scopes' = scopes /\ base' = base
  BY DEF DeclareDefined
<1>7. /\ r.apart \/ (refused' <=> ~r.valid)
      /\ ~refused' => Seen(r, types, scopes, open', base) /\ SoundlyOpen(types, open')
  <2> DEFINE reported == FALSE
  <2>1. reported \in BOOLEAN /\ ~reported /\ Declare(name, t, reported)
    BY DEF DeclareDefined
  <2> HIDE DEF reported, t
  <2> QED BY <1>3, <1>5, <2>1, DeclareAgrees
<1> HIDE DEF r
<1> QED BY <1>4, <1>6, <1>7 DEF Verdict, Agreement

(* A declaration with a tag.                                                *)
LEMMA DeclareRecordAgrees ==
    ASSUME Before, NEW union \in BOOLEAN, NEW tag \in Tags, NEW name \in FieldNames, NEW pointer \in BOOLEAN,
           DeclareRecord(union, tag, name, pointer), InC(SaidRecord(c, union, tag, name, pointer))
    PROVE  Verdict' /\ Agreement'
<1> DEFINE s == Settled(c)
           found == Named(c, tag)
           known == IF found = {} THEN Introduced(s, union, tag, FALSE) ELSE s
           e == IF found = {} THEN Len(c.entities) + 1 ELSE CHOOSE j \in found : TRUE
           different == OfAnotherKind(c, found, union)
           k == Objection(known, different)
           i == Specified(tag, FALSE)
           t == AsDeclared(Record(i), pointer)
           r == SaidDeclarator(k, name, t)
           ts == TypesWith(union, tag, FALSE)
           ss == ScopesWith(tag, FALSE)
           mismatch == Mismatch(union, tag, FALSE)
           declared == AsDeclared(IF mismatch THEN Invalid ELSE Record(i), pointer)
<1>1. /\ Seen(s, types, scopes, open, None) /\ SoundlyOpen(types, open) /\ s.valid
  BY SettledAgrees
<1>2. /\ IInv /\ ~refused /\ c.entities = EntitiesOf(types) /\ c.scopes = scopes
  BY DEF Before, RecordsInv, Agreement, Seen
<1>3. TypeInv /\ Refer
  BY <1>2 DEF IInv
<1>4. /\ types' = ts /\ scopes' = ss /\ base' = None /\ Declare(name, declared, mismatch)
  BY DEF DeclareRecord, Specify
<1>5. /\ Found(tag, FALSE) = None => found = {}
      /\ Found(tag, FALSE) # None => found = {Found(tag, FALSE)}
  BY <1>2, <1>3, FoundIsNamed
<1>6. found = {} <=> Found(tag, FALSE) = None
  BY <1>5
<1>7. different <=> mismatch
  <2> HIDE DEF found
  <2> QED BY <1>2, <1>5, MismatchIs
<1>8. e = i
  <2>1. CASE Found(tag, FALSE) = None
    <3>1. Len(EntitiesOf(types)) = Len(types)
      <4>1. EntitiesOf(types) \in [1..Len(types) -> {AsEntity(x) : x \in AllRecords}] /\ Len(types) \in Nat
        BY <1>3 DEF EntitiesOf, TypeInv, AllRecords
      <4> QED BY <4>1
    <3> QED BY <1>2, <1>6, <2>1, <3>1 DEF Specified
  <2>2. CASE Found(tag, FALSE) # None
    <3>1. found = {Found(tag, FALSE)}
      BY <1>5, <2>2
    <3> HIDE DEF found
    <3> QED BY <2>2, <3>1 DEF Specified
  <2> QED BY <2>1, <2>2
<1>9. Seen(known, ts, ss, open, None) /\ (known.valid <=> s.valid)
  <2> DEFINE anonymous == FALSE
             q == IF Found(tag, FALSE) = None THEN Introduced(s, union, tag, anonymous) ELSE s
  <2>1. anonymous \in BOOLEAN /\ (anonymous <=> tag = NoTag)
    BY TagsAssumption
  <2>2. known = q
    BY <1>6
  <2> HIDE DEF anonymous, s, known
  <2>3. /\ Seen(q, ts, ss, open, None)
        /\ (q.owed <=> s.owed) /\ (q.valid <=> s.valid) /\ (q.apart <=> s.apart)
    BY <1>1, <1>2, <2>1, KnownIs
  <2> QED BY <2>2, <2>3
<1>10. c' = r
  <2>1. Of(e, pointer) = t
    <3> HIDE DEF e, i
    <3> QED BY <1>8, OfIs
  <2>2. c' = SaidDeclarator(k, name, Of(e, pointer))
    BY DEF InC, SaidRecord
  <2> HIDE DEF e, t, k
  <2> QED BY <2>1, <2>2
<1>11. t \in TypeTerms /\ Meant(ts, t)
  <2>1. i \in DOMAIN ts /\ i \in Nat
    BY <1>2, <1>4, SpecifiedLemma
  <2> HIDE DEF i, ts
  <2> QED BY <2>1, RecordTerm
<1>12. SoundlyOpen(ts, open)
  BY <1>1, <1>2, KnownSoundly
<1>13. /\ DOMAIN types \subseteq DOMAIN ts
       /\ \A j \in DOMAIN types : ts[j] = types[j]
       /\ \A j \in DOMAIN ts \ DOMAIN types : ~ts[j].complete
       /\ Len(ss) = Len(scopes)
  BY <1>3, SpecifyLemma
<1>14. mismatch \in BOOLEAN
  BY DEF Mismatch
<1>15. declared = IF mismatch THEN AsDeclared(Invalid, pointer) ELSE t
  OBVIOUS
<1> HIDE DEF s, found, known, e, different, ts, ss, i, mismatch, t, declared
<1>16. Seen(k, ts, ss, open, None) /\ (k.valid <=> known.valid /\ ~different)
  <2>1. IsText(known)
    BY <1>9 DEF Seen
  <2> QED BY <1>9, <2>1, ObjectionIs DEF Seen
<1>17. IsText(k)
  BY <1>16 DEF Seen
<1> HIDE DEF k
<1>18. CASE mismatch
  <2>1. ~r.valid
    BY <1>7, <1>16, <1>17, <1>18, StaysInvalid
  <2>2. refused'
    <3>1. Reported(mismatch \/ ~(IsCompleteObject(declared) \/ (declared = Function /\ Len(scopes) = 1)))
          \/ \E kept \in BOOLEAN : Reported(mismatch \/ ~kept)
      BY <1>4 DEF Declare, DeclareVariable, DeclareField
    <3> QED BY <1>18, <3>1 DEF Reported
  <2> HIDE DEF r
  <2> QED BY <1>10, <2>1, <2>2 DEF Verdict, Agreement
<1>19. CASE ~mismatch
  <2>1. declared = t
    BY <1>15, <1>19
  <2>2. Ready(ts, k, ss, None)
    <3>1. k.valid
      BY <1>1, <1>7, <1>9, <1>16, <1>19
    <3> QED BY <1>2, <1>12, <1>13, <1>16, <3>1, <1>1 DEF Ready
  <2>3. /\ r.apart \/ (refused' <=> ~r.valid)
        /\ ~refused' => Seen(r, ts, ss, open', None) /\ SoundlyOpen(ts, open')
    BY <1>4, <1>11, <1>14, <1>19, <2>1, <2>2, DeclareAgrees
  <2> HIDE DEF r
  <2> QED BY <1>4, <1>10, <2>3 DEF Verdict, Agreement
<1> QED BY <1>18, <1>19

-----------------------------------------------------------------------------
(* The layout of a definition is C's.                                       *)

(* A set of natural numbers has a least one.                                *)
LEMMA LeastNumber ==
    ASSUME NEW T \in SUBSET Nat, T # {}
    PROVE  \E x \in T : \A y \in T : x <= y
<1> DEFINE R == OpToRel(<, Nat)
<1>1. IsWellFoundedOn(R, Nat)
  BY NatLessThanWellFounded
<1>2. \A x, y \in Nat : <<x, y>> \in R <=> x < y
  BY DEF OpToRel
<1> HIDE DEF R
<1>3. PICK x \in T : \A y \in T : ~ (<<y, x>> \in R)
  BY <1>1, WFMin, Zenon
<1>4. ASSUME NEW y \in T PROVE x <= y
  <2>1. x \in Nat /\ y \in Nat
    OBVIOUS
  <2>2. ~ (y < x)
    BY <1>2, <1>3, <2>1
  <2> QED BY <2>1, <2>2
<1> QED BY <1>4

(* The front of a function on numbers, one longer.                          *)
LEMMA FrontAppend ==
    ASSUME NEW n \in Nat, NEW o \in [1..n -> Nat], NEW i \in 1..n
    PROVE  [j \in 1..i |-> o[j]] = Append([j \in 1..(i - 1) |-> o[j]], o[i])
<1> DEFINE m == i - 1
           a == [j \in 1..m |-> o[j]]
           b == Append(a, o[i])
<1>1. m \in Nat /\ m + 1 = i /\ o[i] \in Nat /\ \A j \in 1..i : j \in 1..n /\ (j = m + 1 \/ j \in 1..m)
  OBVIOUS
<1>2. a \in [1..m -> Nat] /\ \A j \in 1..m : a[j] = o[j]
  OBVIOUS
<1> HIDE DEF m, a
<1>3. a \in Seq(Nat) /\ Len(a) = m
  BY <1>1, <1>2
<1>4. b \in Seq(Nat) /\ DOMAIN b = 1..i /\ b[i] = o[i] /\ \A j \in 1..m : b[j] = a[j]
  BY <1>1, <1>3
<1> HIDE DEF b
<1>5. b = [j \in 1..i |-> b[j]]
  BY <1>4
<1>6. \A j \in 1..i : b[j] = o[j]
  BY <1>1, <1>2, <1>4
<1>7. [j \in 1..i |-> o[j]] = b
  BY <1>5, <1>6
<1> QED BY <1>7 DEF b, a, m

(* Each member at the first place behind the one before.                    *)
PlacedInOrder(k, union, members, n, o) ==
    \A i \in 1..n :
       o[i] = FirstPlace(IF i = 1 \/ union THEN 0 ELSE o[i - 1] + Extent(k, members[i - 1].type).size,
                         Extent(k, members[i].type).alignment)

(* The places of the members, found one after the other.                    *)
LEMMA OffsetsAre ==
    ASSUME NEW k, NEW union, NEW members, NEW n \in Nat, Len(members) = n, NEW o \in [1..n -> Nat],
           PlacedInOrder(k, union, members, n, o)
    PROVE  Offsets(k, union, members) = o
<1> DEFINE size(i) == Extent(k, members[i].type).size
           alignment(i) == Extent(k, members[i].type).alignment
           Filled(at, i) == Append(at[i - 1],
                                 FirstPlace(IF i = 1 \/ union THEN 0 ELSE at[i - 1][i - 1] + size(i - 1), alignment(i)))
           Fills(at) == at = [i \in 0..n |-> IF i = 0 THEN <<>> ELSE Filled(at, i)]
           known == [i \in 0..n |-> [j \in 1..i |-> o[j]]]
           at == CHOOSE at : Fills(at)
<1>1. Offsets(k, union, members) = at[n]
  BY DEF Offsets
<1>2. /\ known[0] = <<>>
      /\ \A i \in 1..n : known[i] = [j \in 1..i |-> o[j]] /\ known[i - 1] = [j \in 1..(i - 1) |-> o[j]]
  OBVIOUS
<1>3. \A i \in 1..n : i # 1 => known[i - 1][i - 1] = o[i - 1]
  BY <1>2
<1>4. \A i \in 1..n :
         o[i] = FirstPlace(IF i = 1 \/ union THEN 0 ELSE o[i - 1] + size(i - 1), alignment(i))
  BY DEF PlacedInOrder
<1>0. known = [i \in 0..n |-> known[i]]
  OBVIOUS
<1> HIDE DEF known, size, alignment
<1>5. ASSUME NEW i \in 1..n
      PROVE  known[i] = Filled(known, i)
  <2>1. known[i] = Append(known[i - 1], o[i])
    <3>1. [j \in 1..i |-> o[j]] = Append([j \in 1..(i - 1) |-> o[j]], o[i])
      BY FrontAppend
    <3>2. known[i] = [j \in 1..i |-> o[j]] /\ known[i - 1] = [j \in 1..(i - 1) |-> o[j]]
      BY <1>2
    <3> QED BY <3>1, <3>2, Zenon
  <2>2. (IF i = 1 \/ union THEN 0 ELSE known[i - 1][i - 1] + size(i - 1))
          = IF i = 1 \/ union THEN 0 ELSE o[i - 1] + size(i - 1)
    BY <1>3
  <2> QED BY <1>4, <2>1, <2>2
<1>6. Fills(known)
  <2> HIDE DEF Filled
  <2>1. \A i \in 0..n : i # 0 => i \in 1..n
    OBVIOUS
  <2>2. \A i \in 0..n : known[i] = IF i = 0 THEN <<>> ELSE Filled(known, i)
    BY <1>2, <1>5, <2>1
  <2> QED BY <1>0, <2>2
<1>7. Fills(at)
  <2> HIDE DEF Fills
  <2> QED BY <1>6
<1> HIDE DEF at
<1>8. /\ at[0] = <<>>
      /\ \A i \in 1..n : at[i] = Filled(at, i)
  <2> HIDE DEF Filled
  <2>1. at = [i \in 0..n |-> IF i = 0 THEN <<>> ELSE Filled(at, i)]
    BY <1>7
  <2>2. \A i \in 0..n : at[i] = IF i = 0 THEN <<>> ELSE Filled(at, i)
    BY <2>1
  <2> QED BY <2>2
<1>9. \A i \in 0..n : at[i] = known[i]
  <2> DEFINE T == {i \in 0..n : at[i] # known[i]}
  <2>1. SUFFICES ASSUME T # {} PROVE FALSE
    OBVIOUS
  <2>2. T \in SUBSET Nat
    OBVIOUS
  <2>3. PICK i \in T : \A j \in T : i <= j
    <3> HIDE DEF T
    <3> QED BY <2>1, <2>2, LeastNumber
  <2>4. i # 0
    BY <1>2, <1>8
  <2>5. i \in 1..n /\ i - 1 \in 0..n /\ ~(i <= i - 1)
    BY <2>4
  <2>6. at[i - 1] = known[i - 1]
    BY <2>3, <2>5
  <2>7. Filled(at, i) = Filled(known, i)
    BY <2>6
  <2> HIDE DEF Filled
  <2> QED BY <1>5, <1>8, <2>5, <2>7
<1>10. known[n] = o
  BY DEF known
<1>11. at[n] = known[n]
  BY <1>9
<1> QED BY <1>1, <1>10, <1>11 DEF at

(* The greatest of a set.                                                   *)
LEMMA GreatestIs ==
    ASSUME NEW S \in SUBSET Nat, NEW m \in S, \A x \in S : m >= x
    PROVE  Max(S) = m
<1>1. \A x \in S : (\A y \in S : x >= y) => x = m
  OBVIOUS
<1> QED BY <1>1 DEF Max

(* What members take up is what the fields laid out for them take up.       *)
LEMMA MembersAre ==
    ASSUME NEW d \in Definitions, Laid(types, d), NEW k, k.entities = EntitiesOf(types)
    PROVE  LET ms == UnderOf(d).members
               n == Len(d.fields)
           IN  /\ n \in Nat /\ DOMAIN d.fields = 1..n /\ DOMAIN ms = 1..n /\ Len(ms) = n
               /\ \A i \in 1..n :
                     /\ d.fields[i] \in FieldRecords
                     /\ ms[i].name = d.fields[i].name /\ ms[i].type = d.fields[i].type
                     /\ Extent(k, ms[i].type).size = d.fields[i].size
                     /\ Extent(k, ms[i].type).alignment = d.fields[i].alignment
<1> DEFINE n == Len(d.fields)
           M(f) == [name |-> f.name, type |-> f.type]
           ms == [i \in DOMAIN d.fields |-> M(d.fields[i])]
<1>1. d.fields \in Seq(FieldRecords)
  BY DEF Definitions
<1>2. n \in Nat /\ DOMAIN d.fields = 1..n /\ \A i \in 1..n : d.fields[i] \in FieldRecords
  BY <1>1
<1>3. UnderOf(d).members = ms
  BY DEF UnderOf
<1>4. /\ ms \in [1..n -> {M(f) : f \in FieldRecords}]
      /\ \A i \in 1..n : ms[i].name = d.fields[i].name /\ ms[i].type = d.fields[i].type
  BY <1>2
<1> HIDE DEF ms, M
<1>5. DOMAIN ms = 1..n /\ Len(ms) = n
  BY <1>2, <1>4
<1>6. ASSUME NEW i \in 1..n
      PROVE  /\ Extent(k, ms[i].type).size = d.fields[i].size
             /\ Extent(k, ms[i].type).alignment = d.fields[i].alignment
  <2> DEFINE t == d.fields[i].type
  <2>1. t \in TypeTerms
    BY <1>2 DEF FieldRecords
  <2>2. CompleteIn(types, t) /\ d.fields[i].size = SizeIn(types, t) /\ d.fields[i].alignment = AlignmentIn(types, t)
    BY <1>2 DEF Laid
  <2>3. ms[i].type = t
    BY <1>4
  <2> HIDE DEF t
  <2>4. Extent(k, t).size = SizeIn(types, t) /\ Extent(k, t).alignment = AlignmentIn(types, t)
    BY <2>1, <2>2, ExtentIs
  <2> QED BY <2>2, <2>3, <2>4
<1> QED BY <1>2, <1>3, <1>4, <1>5, <1>6 DEF n

(* Offsets, alignment and size of a definition are C's.                     *)
IsLaidLikeC(k, union, d) ==
    LET ms == UnderOf(d).members
        offsets == Offsets(k, union, ms)
        alignment == Max({1} \union {Extent(k, ms[i].type).alignment : i \in DOMAIN ms})
        end == Max({0} \union {offsets[i] + Extent(k, ms[i].type).size : i \in DOMAIN ms})
    IN  /\ offsets = [i \in DOMAIN d.fields |-> d.fields[i].offset]
        /\ alignment = d.alignment /\ end = d.size
        /\ FirstPlace(end, alignment) = AlignedUp(d.size, d.alignment)

(* A definition that is laid out soundly has C's layout.                    *)
LEMMA LaidIsC ==
    ASSUME TypeInv, NEW d \in Definitions, Laid(types, d), WellPlaced(types[d.record].union, d),
           NEW k, k.entities = EntitiesOf(types), NEW union, union = types[d.record].union
    PROVE  IsLaidLikeC(k, union, d)
<1> DEFINE n == Len(d.fields)
           ms == UnderOf(d).members
           o == [i \in DOMAIN d.fields |-> d.fields[i].offset]
           offsets == Offsets(k, union, ms)
           A == {1} \union {Extent(k, ms[i].type).alignment : i \in DOMAIN ms}
           E == {0} \union {offsets[i] + Extent(k, ms[i].type).size : i \in DOMAIN ms}
<1>1. /\ n \in Nat /\ DOMAIN d.fields = 1..n /\ DOMAIN ms = 1..n /\ Len(ms) = n
      /\ \A i \in 1..n :
            /\ d.fields[i] \in FieldRecords
            /\ Extent(k, ms[i].type).size = d.fields[i].size
            /\ Extent(k, ms[i].type).alignment = d.fields[i].alignment
  BY MembersAre
<1>2. \A i \in 1..n : /\ d.fields[i].offset \in Nat /\ d.fields[i].size \in Nat
                      /\ d.fields[i].alignment \in Alignments /\ d.fields[i].alignment \in Nat
  BY <1>1 DEF FieldRecords, Alignments
<1>3. d.size \in Nat /\ d.alignment \in Alignments /\ d.alignment \in Nat /\ d.alignment >= 1
  BY DEF Definitions, Alignments
<1>4. \A i \in 1..n :
         d.fields[i].offset = IF union \/ i = 1 THEN 0
                              ELSE AlignedUp(EndOf(d.fields[i - 1]), d.fields[i].alignment)
  BY <1>1 DEF Laid
<1>5. o \in [1..n -> Nat] /\ \A i \in 1..n : o[i] = d.fields[i].offset
  BY <1>1, <1>2
<1>6. \A i \in 1..n : /\ d.fields[i].offset + d.fields[i].size <= d.size
                      /\ d.fields[i].alignment <= d.alignment
  BY <1>1 DEF WellPlaced
<1>7. /\ d.size = 0 \/ \E i \in 1..n : d.size = d.fields[i].offset + d.fields[i].size
      /\ d.alignment = 1 \/ \E i \in 1..n : d.alignment = d.fields[i].alignment
  BY <1>1 DEF Laid, EndOf
<1> HIDE DEF n, ms, o
<1>8. PlacedInOrder(k, union, ms, n, o)
  <2> SUFFICES ASSUME NEW i \in 1..n
               PROVE  o[i] = FirstPlace(IF i = 1 \/ union THEN 0 ELSE o[i - 1] + Extent(k, ms[i - 1].type).size,
                                        Extent(k, ms[i].type).alignment)
    BY DEF PlacedInOrder
  <2> DEFINE from == IF i = 1 \/ union THEN 0 ELSE o[i - 1] + Extent(k, ms[i - 1].type).size
             a == d.fields[i].alignment
  <2>1. i = 1 \/ i - 1 \in 1..n
    BY <1>1
  <2>2. ~(i = 1 \/ union) => from = EndOf(d.fields[i - 1])
    BY <1>1, <1>5, <2>1 DEF EndOf
  <2>3. from \in Nat
    <3>1. CASE i = 1 \/ union
      BY <3>1
    <3>2. CASE ~(i = 1 \/ union)
      <4>1. i - 1 \in 1..n
        BY <2>1, <3>2
      <4>2. EndOf(d.fields[i - 1]) \in Nat
        BY <1>2, <4>1 DEF EndOf
      <4> HIDE DEF from
      <4> QED BY <2>2, <3>2, <4>2
    <3> QED BY <3>1, <3>2
  <2>4. a \in Alignments /\ AlignedUp(0, a) = 0
    BY <1>2 DEF AlignedUp, Alignments
  <2>5. o[i] = AlignedUp(from, a)
    <3>1. CASE i = 1 \/ union
      <4>1. from = 0
        BY <3>1
      <4> HIDE DEF from, a
      <4> QED BY <1>4, <1>5, <2>4, <3>1, <4>1
    <3>2. CASE ~(i = 1 \/ union)
      <4> HIDE DEF from
      <4> QED BY <1>4, <1>5, <2>2, <3>2
    <3> QED BY <3>1, <3>2
  <2>6. Extent(k, ms[i].type).alignment = a
    BY <1>1
  <2> HIDE DEF from, a
  <2>7. o[i] = FirstPlace(from, Extent(k, ms[i].type).alignment)
    BY <2>3, <2>4, <2>5, <2>6, FirstPlaceIs
  <2> QED BY <2>7 DEF from
<1>9. offsets = o
  BY <1>1, <1>5, <1>8, OffsetsAre
<1> HIDE DEF offsets
<1>10. Max(A) = d.alignment
  <2>1. A \in SUBSET Nat
    BY <1>1, <1>2
  <2>2. d.alignment \in A
    <3>1. CASE d.alignment = 1
      BY <3>1
    <3>2. CASE \E i \in 1..n : d.alignment = d.fields[i].alignment
      BY <1>1, <3>2
    <3> QED BY <1>7, <3>1, <3>2
  <2>3. \A x \in A : d.alignment >= x
    BY <1>1, <1>2, <1>3, <1>6
  <2> HIDE DEF A
  <2> QED BY <2>1, <2>2, <2>3, GreatestIs
<1>11. Max(E) = d.size
  <2>1. \A i \in 1..n : offsets[i] + Extent(k, ms[i].type).size = d.fields[i].offset + d.fields[i].size
    BY <1>1, <1>5, <1>9
  <2>2. E = {0} \union {d.fields[i].offset + d.fields[i].size : i \in 1..n}
    BY <1>1, <2>1
  <2> HIDE DEF E
  <2>3. E \in SUBSET Nat
    BY <1>2, <2>2
  <2>4. d.size \in E
    <3>1. CASE d.size = 0
      BY <2>2, <3>1
    <3>2. CASE \E i \in 1..n : d.size = d.fields[i].offset + d.fields[i].size
      BY <2>2, <3>2
    <3> QED BY <1>7, <3>1, <3>2
  <2>5. \A x \in E : d.size >= x
    BY <1>2, <1>3, <1>6, <2>2
  <2> QED BY <2>3, <2>4, <2>5, GreatestIs
<1>12. FirstPlace(d.size, d.alignment) = AlignedUp(d.size, d.alignment)
  BY <1>3, FirstPlaceIs
<1> HIDE DEF A, E
<1> QED BY <1>9, <1>10, <1>11, <1>12 DEF offsets, A, E, o, ms, IsLaidLikeC

-----------------------------------------------------------------------------
(* Definitions close.                                                       *)

(* An entity by its properties.                                             *)
EntityLike(u, t, y, s, a, m) ==
    [union |-> u, tag |-> t, complete |-> y, size |-> s, alignment |-> a, members |-> m]

EntityWith(x, y, s, a, m) == [x EXCEPT !.complete = y, !.members = m, !.size = s, !.alignment = a]

(* A completed entity is the old one with some properties replaced.         *)
LEMMA EntityReplaced ==
    ASSUME NEW u, NEW t, NEW y, NEW s, NEW a, NEW m, NEW y2, NEW s2, NEW a2, NEW m2,
           NEW x, x = EntityLike(u, t, y, s, a, m)
    PROVE  EntityWith(x, y2, s2, a2, m2) = EntityLike(u, t, y2, s2, a2, m2)
<1> DEFINE E(y9, s9, a9, m9) == [union |-> u, tag |-> t, complete |-> y9, size |-> s9, alignment |-> a9, members |-> m9]
<1>1. [E(y, s, a, m) EXCEPT !.complete = y2] = E(y2, s, a, m)
  OBVIOUS
<1>2. [E(y2, s, a, m) EXCEPT !.members = m2] = E(y2, s, a, m2)
  OBVIOUS
<1>3. [E(y2, s, a, m2) EXCEPT !.size = s2] = E(y2, s2, a, m2)
  OBVIOUS
<1>4. [E(y2, s2, a, m2) EXCEPT !.alignment = a2] = E(y2, s2, a2, m2)
  OBVIOUS
<1> HIDE DEF E
<1> DEFINE e == E(y, s, a, m)
<1> HIDE DEF e
<1>5. [e EXCEPT !.complete = y2, !.members = m2, !.size = s2, !.alignment = a2]
        = [[[[e EXCEPT !.complete = y2] EXCEPT !.members = m2] EXCEPT !.size = s2] EXCEPT !.alignment = a2]
  OBVIOUS
<1>6. [e EXCEPT !.complete = y2, !.members = m2, !.size = s2, !.alignment = a2] = E(y2, s2, a2, m2)
  BY <1>1, <1>2, <1>3, <1>4, <1>5, Zenon DEF e
<1>7. x = e
  BY DEF e, E, EntityLike
<1> QED BY <1>6, <1>7 DEF E, EntityLike, EntityWith

(* A type as it is when its definition is through, to the compiler and to C. *)
LEMMA CompletedIs ==
    ASSUME IInv, NEW d \in Definitions, d.record \in DOMAIN types, Laid(types, d),
           WellPlaced(types[d.record].union, d), NEW k, k.entities = EntitiesOf(types)
    PROVE  Completed(k, d.record, UnderOf(d).members)
             = AsEntity([types[d.record] EXCEPT !.fields = d.fields, !.alignment = d.alignment,
                                                !.size = AlignedUp(d.size, d.alignment), !.complete = TRUE])
<1> DEFINE t == types[d.record]
           ms == UnderOf(d).members
           offsets == Offsets(k, k.entities[d.record].union, ms)
           alignment == Max({1} \union {Extent(k, ms[i].type).alignment : i \in DOMAIN ms})
           end == Max({0} \union {offsets[i] + Extent(k, ms[i].type).size : i \in DOMAIN ms})
           placed == [i \in DOMAIN ms |-> [name |-> ms[i].name, type |-> ms[i].type, offset |-> offsets[i]]]
           seen == [i \in DOMAIN d.fields |-> Placed(d.fields[i])]
           size == AlignedUp(d.size, d.alignment)
           e == k.entities[d.record]
           old == [i \in DOMAIN t.fields |-> Placed(t.fields[i])]
           closed == [t EXCEPT !.fields = d.fields, !.alignment = d.alignment, !.size = size, !.complete = TRUE]
<1>1. t \in AllRecords
  BY DEF IInv, TypeInv, AllRecords
<1>2. e.union = t.union
  BY EntityIs
<1>3. /\ offsets = [i \in DOMAIN d.fields |-> d.fields[i].offset]
      /\ alignment = d.alignment /\ FirstPlace(end, alignment) = size
  <2> DEFINE union == k.entities[d.record].union
             offs == Offsets(k, union, ms)
             last == Max({0} \union {offs[i] + Extent(k, ms[i].type).size : i \in DOMAIN ms})
  <2>1. union = types[d.record].union /\ TypeInv
    BY <1>2 DEF IInv
  <2>2. offs = offsets /\ last = end
    OBVIOUS
  <2> HIDE DEF union
  <2>4. IsLaidLikeC(k, union, d)
    BY <2>1, LaidIsC
  <2>3. /\ offs = [i \in DOMAIN d.fields |-> d.fields[i].offset]
        /\ alignment = d.alignment /\ FirstPlace(last, alignment) = size
    BY <2>4 DEF IsLaidLikeC
  <2> HIDE DEF offs, last, offsets, end, alignment, size
  <2> QED BY <2>2, <2>3
<1>4. placed = seen
  <2>1. /\ DOMAIN d.fields = DOMAIN ms
        /\ \A i \in DOMAIN d.fields : ms[i].name = d.fields[i].name /\ ms[i].type = d.fields[i].type
    BY DEF UnderOf
  <2> HIDE DEF ms, offsets
  <2> QED BY <1>3, <2>1 DEF Placed
<1>5. Completed(k, d.record, ms)
        = [e EXCEPT !.complete = TRUE, !.members = placed, !.size = FirstPlace(end, alignment), !.alignment = alignment]
  BY DEF Completed
<1>6. e = [union |-> t.union, tag |-> t.tag, complete |-> t.complete, size |-> t.size, alignment |-> t.alignment,
           members |-> old]
  BY DEF EntitiesOf, AsEntity
<1>7. AsEntity(closed) = [union |-> closed.union, tag |-> closed.tag, complete |-> closed.complete, size |-> closed.size,
                          alignment |-> closed.alignment,
                          members |-> [i \in DOMAIN closed.fields |-> Placed(closed.fields[i])]]
  BY DEF AsEntity
<1>8. /\ closed.union = t.union /\ closed.tag = t.tag /\ (closed.complete = TRUE) /\ closed.size = size
      /\ closed.alignment = d.alignment /\ closed.fields = d.fields
  <2> HIDE DEF t, size
  <2> QED BY <1>1 DEF AllRecords, RecordsOf
<1> HIDE DEF t, offsets, alignment, end, placed, size, e, old, closed, seen
<1>9. AsEntity(closed) = [union |-> t.union, tag |-> t.tag, complete |-> TRUE, size |-> size,
                          alignment |-> d.alignment, members |-> seen]
  BY <1>7, <1>8 DEF seen
<1>10. [e EXCEPT !.complete = TRUE, !.members = placed, !.size = FirstPlace(end, alignment), !.alignment = alignment]
         = [union |-> t.union, tag |-> t.tag, complete |-> TRUE, size |-> size, alignment |-> d.alignment, members |-> seen]
  <2> DEFINE yes == TRUE
             place == FirstPlace(end, alignment)
  <2>1. place = size
    BY <1>3
  <2> HIDE DEF yes, place
  <2>2. [e EXCEPT !.complete = yes, !.members = placed, !.size = place, !.alignment = alignment]
          = [union |-> t.union, tag |-> t.tag, complete |-> yes, size |-> size, alignment |-> d.alignment, members |-> seen]
    <3> DEFINE aUnion == t.union
               aTag == t.tag
               aComplete == t.complete
               aSize == t.size
               anAlignment == t.alignment
               newAlignment == d.alignment
    <3>1. e = [union |-> aUnion, tag |-> aTag, complete |-> aComplete, size |-> aSize, alignment |-> anAlignment,
               members |-> old]
      BY <1>6
    <3> HIDE DEF aUnion, aTag, aComplete, aSize, anAlignment, newAlignment
    <3>2. [e EXCEPT !.complete = yes, !.members = seen, !.size = size, !.alignment = newAlignment]
            = [union |-> aUnion, tag |-> aTag, complete |-> yes, size |-> size, alignment |-> newAlignment, members |-> seen]
      <4>1. e = EntityLike(aUnion, aTag, aComplete, aSize, anAlignment, old)
        BY <3>1 DEF EntityLike
      <4>2. EntityWith(e, yes, size, newAlignment, seen) = EntityLike(aUnion, aTag, yes, size, newAlignment, seen)
        BY <4>1, EntityReplaced
      <4> QED BY <4>2 DEF EntityLike, EntityWith
    <3> QED BY <1>3, <1>4, <2>1, <3>2 DEF aUnion, aTag, newAlignment
  <2> QED BY <2>2 DEF yes, place
<1> HIDE DEF ms
<1> QED BY <1>5, <1>9, <1>10 DEF closed, t, size, ms

(* A definition closes.                                                     *)
LEMMA CloseDefinitionAgrees ==
    ASSUME Before, CloseDefinition, InC(SaidClose(c))
    PROVE  Verdict' /\ Agreement'
<1> DEFINE last == Len(open)
           d == open[last]
           i == d.record
           closed == [types[i] EXCEPT !.fields = d.fields, !.alignment = d.alignment,
                                      !.size = AlignedUp(d.size, d.alignment), !.complete = TRUE]
           ts == [types EXCEPT ![i] = closed]
           os == SubSeq(open, 1, last - 1)
           s == Settled(c)
           u == c.under[Len(c.under)]
           rest == SubSeq(c.under, 1, Len(c.under) - 1)
           owed == rest # <<>>
           entity == Completed(c, u.entity, u.members)
           empty == u.members = <<>>
           es == [s.entities EXCEPT ![u.entity] = entity]
           k == [s EXCEPT !.entities[u.entity] = entity, !.under = rest, !.ended = u.entity, !.owed = owed]
           r == Objection(k, empty)
<1>1. /\ Seen(s, types, scopes, open, None) /\ SoundlyOpen(types, open)
      /\ ~s.owed /\ s.valid /\ (s.apart <=> c.owed)
  BY SettledAgrees
<1>2. /\ IInv /\ ~refused /\ c.entities = EntitiesOf(types) /\ c.under = UndersOf(open)
  BY DEF Before, RecordsInv, Agreement, Seen
<1>3. TypeInv /\ Refer
  BY <1>2 DEF IInv
<1>4. /\ open # <<>> /\ types' = ts /\ scopes' = scopes /\ open' = os /\ base' = i
      /\ (refused' <=> d.fields = <<>>)
  BY <1>2 DEF CloseDefinition, Reported
<1>5. last \in 1..last /\ DOMAIN open = 1..last /\ d \in Definitions /\ last \in Nat
  BY <1>3, <1>4 DEF TypeInv
<1>6. i \in DOMAIN types
  BY <1>3, <1>5 DEF Refer
<1>7. Len(c.under) = last /\ u = UnderOf(d)
  <2>1. open \in Seq(Definitions)
    BY <1>3 DEF TypeInv
  <2>2. Len(UndersOf(open)) = Len(open) /\ \A n \in 1..Len(open) : UndersOf(open)[n] = UnderOf(open[n])
    BY <2>1, UndersAre
  <2> QED BY <1>2, <1>5, <2>2
<1>8. rest = UndersOf(os)
  <2>1. open \in Seq(Definitions)
    BY <1>3 DEF TypeInv
  <2>2. UndersOf(os) = SubSeq(UndersOf(open), 1, last - 1)
    BY <1>4, <2>1, UndersFront
  <2> QED BY <1>2, <1>7, <2>2
<1>9. u.entity = i
  BY <1>7 DEF UnderOf
<1>10. Laid(types, d) /\ WellPlaced(types[i].union, d)
  BY <1>1, <1>2, <1>5 DEF SoundlyOpen, IInv, LayoutsAreSound
<1>11. entity = AsEntity(closed)
  <2>1. Completed(c, i, UnderOf(d).members) = AsEntity(closed)
    <3> HIDE DEF d
    <3> QED BY <1>2, <1>5, <1>6, <1>10, CompletedIs
  <2> HIDE DEF closed, u, d, i
  <2> QED BY <1>7, <1>9, <2>1
<1>12. closed \in AllRecords /\ closed.complete /\ closed.union = types[i].union
  <2>1. types[i] \in AllRecords
    BY <1>3, <1>6 DEF TypeInv, AllRecords
  <2>2. d.fields \in Seq(FieldRecords) /\ d.size \in Nat /\ d.alignment \in Alignments
    BY <1>5 DEF Definitions
  <2> DEFINE size == AlignedUp(d.size, d.alignment)
  <2>3. size \in Nat
    BY <2>2, AlignedUpLemma
  <2> HIDE DEF size, d, i
  <2> QED BY <2>1, <2>2, <2>3 DEF AllRecords, RecordsOf, size
<1>13. es = EntitiesOf(ts)
  <2> HIDE DEF closed, entity, u, i, s
  <2>1. s.entities = [j \in DOMAIN types |-> AsEntity(types[j])]
    BY <1>1 DEF Seen, EntitiesOf
  <2>2. DOMAIN ts = DOMAIN types /\ \A j \in DOMAIN types : ts[j] = IF j = i THEN closed ELSE types[j]
    BY <1>6
  <2>3. EntitiesOf(ts) = [j \in DOMAIN types |-> IF j = i THEN AsEntity(closed) ELSE AsEntity(types[j])]
    BY <2>2 DEF EntitiesOf
  <2> QED BY <1>9, <1>11, <2>1, <2>3
<1>14. empty <=> d.fields = <<>>
  <2>1. u.members = [j \in DOMAIN d.fields |-> [name |-> d.fields[j].name, type |-> d.fields[j].type]]
    BY <1>7 DEF UnderOf
  <2>2. d.fields \in Seq(FieldRecords)
    BY <1>5 DEF Definitions
  <2> HIDE DEF u, d
  <2>3. d.fields = <<>> => u.members = <<>>
    <3>1. ASSUME d.fields = <<>> PROVE u.members = <<>>
      <4>1. DOMAIN d.fields = {}
        BY <3>1
      <4> QED BY <2>1, <4>1
    <3> QED BY <3>1
  <2>4. u.members = <<>> => d.fields = <<>>
    <3>1. ASSUME u.members = <<>> PROVE d.fields = <<>>
      <4>1. DOMAIN u.members = {}
        BY <3>1
      <4>2. DOMAIN d.fields = {}
        BY <2>1, <4>1
      <4> DEFINE fs == d.fields
      <4>3. fs \in Seq(FieldRecords) /\ DOMAIN fs = {}
        BY <2>2, <4>2
      <4> HIDE DEF fs
      <4>4. Len(fs) \in Nat /\ 1..Len(fs) = {}
        BY <4>3
      <4>5. Len(fs) = 0
        BY <4>4
      <4>6. fs = <<>>
        BY <4>3, <4>5
      <4> QED BY <4>6 DEF fs
    <3> QED BY <3>1
  <2> QED BY <2>3, <2>4
<1>15. c' = r
  BY DEF InC, SaidClose
<1>16. /\ IsText(k) /\ k.entities = es /\ k.scopes = s.scopes /\ k.under = rest /\ k.ended = u.entity
       /\ (k.valid <=> s.valid) /\ (k.apart <=> s.apart)
  <2> HIDE DEF s, entity, u, rest, owed
  <2> QED BY <1>1 DEF Seen, IsText, TextFields
<1>17. SoundlyOpen(ts, os)
  <2>1. /\ os \in Seq(Definitions) /\ DOMAIN os = 1..(last - 1)
        /\ \A n \in DOMAIN os : n \in 1..last /\ n # last /\ os[n] = open[n]
    BY <1>3, <1>4, <1>5 DEF TypeInv
  <2>2. /\ DOMAIN ts = DOMAIN types
        /\ \A j \in DOMAIN types : ts[j] = IF j = i THEN closed ELSE types[j]
    BY <1>6
  <2>3. ~types[i].complete /\ \A n \in DOMAIN os : os[n].record # i
    BY <1>1, <1>5, <2>1 DEF SoundlyOpen
  <2>4. \A n \in DOMAIN os : os[n].record \in DOMAIN types /\ ~types[os[n].record].complete /\ Laid(types, os[n])
    BY <1>1, <1>3, <1>5, <2>1 DEF SoundlyOpen, Refer
  <2>5. \A m, n \in DOMAIN os : os[m].record = os[n].record => m = n
    BY <1>1, <1>5, <2>1 DEF SoundlyOpen
  <2> HIDE DEF ts, os, closed, i, d
  <2>6. ASSUME NEW n \in DOMAIN os PROVE Laid(ts, os[n])
    <3> DEFINE x == os[n]
    <3>1. Laid(types, x) /\ ts[x.record].union = types[x.record].union
      BY <2>2, <2>3, <2>4
    <3>2. \A j \in DOMAIN types : types[j].complete => ts[j] = types[j]
      BY <2>2, <2>3
    <3> HIDE DEF x
    <3>3. Laid(ts, x)
      BY <2>2, <3>1, <3>2, LaidStays
    <3> QED BY <3>3 DEF x
  <2>7. \A n \in DOMAIN os : ~ts[os[n].record].complete
    BY <2>2, <2>3, <2>4
  <2> QED BY <2>5, <2>6, <2>7 DEF SoundlyOpen
<1> HIDE DEF d, i, closed, ts, os, s, u, rest, owed, entity, empty, es, k
<1>18. /\ IsText(r) /\ r.entities = k.entities /\ r.scopes = k.scopes /\ r.under = k.under /\ r.ended = k.ended
       /\ (r.valid <=> k.valid /\ ~empty) /\ (r.apart <=> k.apart)
  BY <1>16, ObjectionIs
<1> HIDE DEF r
<1>19. Verdict'
  BY <1>1, <1>4, <1>14, <1>15, <1>16, <1>18 DEF Verdict
<1>20. Seen(r, ts, scopes, os, i)
  BY <1>1, <1>8, <1>9, <1>13, <1>16, <1>18 DEF Seen
<1>21. Agreement'
  BY <1>4, <1>15, <1>17, <1>20 DEF Agreement
<1> QED BY <1>19, <1>21

-----------------------------------------------------------------------------
(* The theorems.                                                           *)

(* Nothing said, nothing declared.                                          *)
LEMMA InitiallyAgrees == InitInC => RecordsInv
<1> SUFFICES ASSUME InitInC PROVE RecordsInv
  OBVIOUS
<1> DEFINE none == <<>>
<1>1. IInv
  BY Initially DEF InitInC
<1>2. types = none /\ scopes = <<none>> /\ open = none /\ base = None /\ (refused <=> FALSE) /\ DOMAIN none = {}
  BY DEF InitInC, Init
<1>3. /\ c.entities = none /\ c.scopes = <<none>> /\ c.under = none /\ c.ended = 0
      /\ (c.valid <=> TRUE) /\ IsText(c)
  BY DEF InitInC, NothingSaid, IsText, TextFields
<1>4. EntitiesOf(none) = none /\ UndersOf(none) = none
  BY DEF EntitiesOf, UndersOf
<1> HIDE DEF none
<1>5. SoundlyOpen(types, open)
  BY <1>2 DEF SoundlyOpen
<1>6. Seen(c, types, scopes, open, base)
  BY <1>2, <1>3, <1>4 DEF Seen, None
<1>7. Verdict /\ Agreement
  BY <1>2, <1>3, <1>5, <1>6 DEF Verdict, Agreement
<1> QED BY <1>1, <1>7 DEF RecordsInv

(* Every construct.                                                         *)
LEMMA RecordStepAgrees ==
    ASSUME Before, StepInC
    PROVE  Verdict' /\ Agreement'
<1>1. ASSUME NEW union \in BOOLEAN, NEW tag \in Tags, Forward(union, tag), InC(SaidForward(c, union, tag))
      PROVE  Verdict' /\ Agreement'
  BY <1>1, ForwardAgrees
<1>2. ASSUME NEW union \in BOOLEAN, NEW tag \in Tags, OpenFunction(union, tag), InC(SaidFunction(c, union, tag))
      PROVE  Verdict' /\ Agreement'
  BY <1>2, OpenFunctionAgrees
<1>3. ASSUME NEW union \in BOOLEAN, NEW tag \in Tags \union {NoTag},
             OpenDefinition(union, tag), InC(SaidOpen(c, union, tag, tag = NoTag))
      PROVE  Verdict' /\ Agreement'
  BY <1>3, OpenDefinitionAgrees
<1>4. ASSUME CloseDefinition, InC(SaidClose(c)) PROVE Verdict' /\ Agreement'
  BY <1>4, CloseDefinitionAgrees
<1>5. ASSUME NEW name \in FieldNames, NEW t \in Scalars \union {Function},
             DeclareScalar(name, t), InC(SaidScalar(c, name, t))
      PROVE  Verdict' /\ Agreement'
  BY <1>5, DeclareScalarAgrees
<1>6. ASSUME NEW name \in FieldNames, NEW pointer \in BOOLEAN,
             DeclareDefined(name, pointer), InC(SaidDefined(c, name, pointer))
      PROVE  Verdict' /\ Agreement'
  BY <1>6, DeclareDefinedAgrees
<1>7. ASSUME NEW union \in BOOLEAN, NEW tag \in Tags, NEW name \in FieldNames, NEW pointer \in BOOLEAN,
             DeclareRecord(union, tag, name, pointer), InC(SaidRecord(c, union, tag, name, pointer))
      PROVE  Verdict' /\ Agreement'
  BY <1>7, DeclareRecordAgrees
<1>8. ASSUME OpenBlock, InC(SaidBlock(c)) PROVE Verdict' /\ Agreement'
  BY <1>8, OpenBlockAgrees
<1>9. ASSUME CloseScope, InC(SaidEnd(c)) PROVE Verdict' /\ Agreement'
  BY <1>9, CloseScopeAgrees
<1> QED BY <1>1, <1>2, <1>3, <1>4, <1>5, <1>6, <1>7, <1>8, <1>9 DEF StepInC

(* A construct is a step of the analysis.                                   *)
LEMMA StepIsNext == StepInC => Next
  BY DEF StepInC, Next

(* Verdict and agreement, with the compiler's own invariant, are kept by    *)
(* every construct; nothing is asked once the two have gone apart.          *)
THEOREM AgreementInductive == RecordsInv /\ [NextInC]_varsInC => RecordsInv'
<1> SUFFICES ASSUME RecordsInv, [NextInC]_varsInC PROVE RecordsInv'
  OBVIOUS
<1>1. CASE ~refused /\ ~c.apart /\ StepInC
  <2>1. IInv /\ Before
    BY <1>1 DEF RecordsInv, Before
  <2>2. IInv'
    BY <1>1, <2>1, StepIsNext, Inductive
  <2> QED BY <1>1, <2>1, <2>2, RecordStepAgrees DEF RecordsInv
<1>2. CASE Next /\ InC(NoMore)
  <2>1. IInv'
    BY <1>2, Inductive DEF RecordsInv
  <2>2. c'.apart
    BY <1>2 DEF InC, NoMore, NothingSaid
  <2> QED BY <2>1, <2>2 DEF RecordsInv, Verdict, Agreement
<1>3. CASE UNCHANGED varsInC
  <2>1. UNCHANGED <<types, scopes, open, base, refused, c>>
    BY <1>3 DEF varsInC, vars
  <2>2. IInv'
    BY <2>1, Inductive DEF RecordsInv, vars
  <2>3. Verdict'
    BY <2>1 DEF RecordsInv, Verdict
  <2>4. Agreement'
    BY <2>1 DEF RecordsInv, Agreement
  <2> QED BY <2>2, <2>3, <2>4 DEF RecordsInv
<1> QED BY <1>1, <1>2, <1>3 DEF NextInC

(* And so hold throughout.                                                  *)
LEMMA AgreesThroughout == SpecInC => []RecordsInv
  BY InitiallyAgrees, AgreementInductive, PTL DEF SpecInC

(* For any tags, names and scalar types: a text is refused exactly when C   *)
(* forbids it, up to where the two are known to go apart                    *)
(* (cc_resolve_record_specifier).                                           *)
THEOREM RefusedWhenInvalid == SpecInC => []RefusedIfInvalid
<1>1. RecordsInv => RefusedIfInvalid
  BY DEF RecordsInv, Verdict, RefusedIfInvalid
<1> QED BY <1>1, AgreesThroughout, PTL

(* Every tag has been resolved to the type C means, and every completed     *)
(* type has the members, offsets, size and alignment C gives it.            *)
THEOREM RecordsFollowC == SpecInC => []RecordsAreC
<1>1. RecordsInv => RecordsAreC
  BY DEF RecordsInv, Agreement, RecordsAreC, Agreed, Seen, EntitiesOf
<1> QED BY <1>1, AgreesThroughout, PTL

(* The layouts are sound on the way as well.                                *)
THEOREM SoundInC == SpecInC => []LayoutsAreSound
<1>1. RecordsInv => LayoutsAreSound
  BY DEF RecordsInv, IInv
<1> QED BY <1>1, AgreesThroughout, PTL

-----------------------------------------------------------------------------
(* Tags in scope are those of the types they name.                          *)
TagsOf(ts, ss) == \A n \in DOMAIN ss : \A t \in DOMAIN ss[n] : ts[ss[n][t]].tag = t

(* Definitions under way are each of a type of its own, not yet complete.   *)
OnceOpen(ts, os) ==
    /\ \A n \in DOMAIN os : ~ts[os[n].record].complete
    /\ \A m, n \in DOMAIN os : os[m].record = os[n].record => m = n

(* What keeps a type from being completed twice, in a text that defines no  *)
(* record inside its own definition.                                        *)
OnceInv == IInv /\ TagsOf(types, scopes) /\ (nested \/ OnceOpen(types, open))

(* A specifier keeps the tags those of their types.                         *)
LEMMA TagsSpecified ==
    ASSUME IInv, TagsOf(types, scopes),
           NEW union \in BOOLEAN, NEW tag \in Tags \union {NoTag}, NEW defines \in BOOLEAN
    PROVE  TagsOf(TypesWith(union, tag, defines), ScopesWith(tag, defines))
<1> DEFINE new == TypesWith(union, tag, defines)
           tables == ScopesWith(tag, defines)
           i == Len(types) + 1
           t == NewType(union, tag)
<1>0. TypeInv /\ Refer
  BY DEF IInv
<1>1. CASE Found(tag, defines) # None
  <2>1. new = types /\ tables = scopes
    BY <1>1 DEF TypesWith, ScopesWith
  <2> QED BY <2>1
<1>2. CASE Found(tag, defines) = None
  <2>1. t.tag = tag
    BY DEF NewType
  <2>2. new = Append(types, t)
    BY <1>2 DEF TypesWith
  <2>3. new[i] = t /\ \A k \in DOMAIN types : new[k] = types[k]
    BY <1>0, <2>2 DEF TypeInv
  <2>4. CASE tag = NoTag
    <3>1. tables = scopes
      BY <1>2, <2>4 DEF ScopesWith, Tagged
    <3> HIDE DEF new
    <3>2. TagsOf(new, scopes)
      BY <1>0, <2>3 DEF TagsOf, Refer
    <3> QED BY <3>1, <3>2 DEF new
  <2>5. CASE tag # NoTag
    <3> DEFINE extended == [x \in DOMAIN Here \union {tag} |-> IF x = tag THEN i ELSE Here[x]]
    <3>1. tables = [scopes EXCEPT ![Len(scopes)] = extended]
      BY <1>2, <2>5 DEF ScopesWith, Tagged
    <3>2. Len(scopes) \in DOMAIN scopes /\ Here = scopes[Len(scopes)]
      BY <1>0 DEF TypeInv, Here
    <3>3. ASSUME NEW n \in DOMAIN tables, NEW x \in DOMAIN tables[n]
          PROVE  new[tables[n][x]].tag = x
      <4>0. n \in DOMAIN scopes
        BY <3>1
      <4>1. CASE n = Len(scopes)
        <5>1. tables[n] = extended
          BY <3>1, <3>2, <4>1
        <5>2. (x = tag /\ tables[n][x] = i) \/ (x \in DOMAIN Here /\ tables[n][x] = Here[x])
          BY <5>1
        <5>3. x \in DOMAIN Here => Here[x] \in DOMAIN types /\ types[Here[x]].tag = x
          BY <1>0, <3>2 DEF Refer, TagsOf
        <5> HIDE DEF new, tables, extended
        <5> QED BY <5>2, <5>3, <2>1, <2>3
      <4>2. CASE n # Len(scopes)
        <5>1. tables[n] = scopes[n]
          BY <3>1, <4>0, <4>2
        <5>2. scopes[n][x] \in DOMAIN types /\ types[scopes[n][x]].tag = x
          BY <1>0, <4>0, <5>1 DEF Refer, TagsOf
        <5> HIDE DEF new, tables
        <5> QED BY <5>1, <5>2, <2>3
      <4> QED BY <4>1, <4>2
    <3> QED BY <3>3 DEF TagsOf
  <2> QED BY <2>4, <2>5
<1> QED BY <1>1, <1>2

(* So does every construct.                                                 *)
LEMMA TagsStay ==
    ASSUME IInv, TagsOf(types, scopes), Next
    PROVE  TagsOf(types', scopes')
<1>0. TypeInv /\ Refer
  BY DEF IInv
<1>1. ASSUME NEW union \in BOOLEAN, NEW tag \in Tags \union {NoTag}, NEW defines \in BOOLEAN,
             types' = TypesWith(union, tag, defines), scopes' = ScopesWith(tag, defines)
      PROVE  TagsOf(types', scopes')
  BY <1>1, TagsSpecified
<1>2. ASSUME NEW union \in BOOLEAN, NEW tag \in Tags, OpenFunction(union, tag)
      PROVE  TagsOf(types', scopes')
  <2> DEFINE tables == ScopesWith(tag, FALSE)
             none == <<>>
  <2>1. types' = TypesWith(union, tag, FALSE) /\ scopes' = Append(tables, none)
    BY <1>2 DEF OpenFunction
  <2>2. TagsOf(types', tables)
    BY <2>1, TagsSpecified
  <2>3. tables \in Seq(TagTables)
    BY <1>0, SpecifyLemma
  <2>4. DOMAIN none = {}
    OBVIOUS
  <2> HIDE DEF tables, none
  <2>5. \A n \in DOMAIN scopes' : scopes'[n] = none \/ (n \in DOMAIN tables /\ scopes'[n] = tables[n])
    BY <2>1, <2>3
  <2> QED BY <2>2, <2>4, <2>5 DEF TagsOf
<1>3. CASE CloseDefinition
  <2> DEFINE d == open[Len(open)]
             closed == [types[d.record] EXCEPT !.fields = d.fields, !.alignment = d.alignment,
                                               !.size = AlignedUp(d.size, d.alignment), !.complete = TRUE]
  <2>1. open # <<>> /\ types' = [types EXCEPT ![d.record] = closed] /\ scopes' = scopes
    BY <1>3 DEF CloseDefinition
  <2>2. \A i \in DOMAIN types : types[i] \in AllRecords
    BY <1>0 DEF TypeInv, AllRecords
  <2>3. d.record \in DOMAIN types => closed.tag = types[d.record].tag
    BY <2>2 DEF AllRecords, RecordsOf
  <2> HIDE DEF d, closed
  <2>4. \A i \in DOMAIN types : types'[i].tag = types[i].tag
    BY <2>1, <2>3
  <2> QED BY <2>1, <2>4, <1>0 DEF TagsOf, Refer
<1>4. CASE OpenBlock
  <2> DEFINE none == <<>>
  <2>1. types' = types /\ scopes' = Append(scopes, none) /\ DOMAIN none = {}
    BY <1>4 DEF OpenBlock
  <2> HIDE DEF none
  <2>2. \A n \in DOMAIN scopes' : scopes'[n] = none \/ (n \in DOMAIN scopes /\ scopes'[n] = scopes[n])
    BY <1>0, <2>1 DEF TypeInv
  <2> QED BY <2>1, <2>2 DEF TagsOf
<1>5. CASE CloseScope
  <2>1. types' = types /\ \A n \in DOMAIN scopes' : n \in DOMAIN scopes /\ scopes'[n] = scopes[n]
    BY <1>0, <1>5 DEF CloseScope, TypeInv
  <2> QED BY <2>1 DEF TagsOf
<1>6. CASE UNCHANGED <<types, scopes>>
  BY <1>6
<1>7. \/ \E union \in BOOLEAN, tag \in Tags \union {NoTag}, defines \in BOOLEAN :
            types' = TypesWith(union, tag, defines) /\ scopes' = ScopesWith(tag, defines)
      \/ \E union \in BOOLEAN, tag \in Tags : OpenFunction(union, tag)
      \/ CloseDefinition \/ OpenBlock \/ CloseScope \/ UNCHANGED <<types, scopes>>
  BY DEF Next, Forward, OpenDefinition, Specify, DeclareScalar, DeclareDefined, DeclareRecord
<1> QED BY <1>1, <1>2, <1>3, <1>4, <1>5, <1>6, <1>7

(* As long as no record has been defined inside its own definition, every   *)
(* definition is the only one of its type, which is not yet complete.       *)
LEMMA OnceStays ==
    ASSUME IInv, TagsOf(types, scopes), OnceOpen(types, open), Next, ~Nested'
    PROVE  OnceOpen(types', open')
<1>0. TypeInv /\ Refer
  BY DEF IInv
<1>1. \A n \in DOMAIN open : open[n].record \in DOMAIN types
  BY <1>0 DEF Refer
<1>2. ASSUME NEW union \in BOOLEAN, NEW tag \in Tags \union {NoTag}, NEW defines \in BOOLEAN,
             types' = TypesWith(union, tag, defines)
      PROVE  \A i \in DOMAIN types : types'[i] = types[i]
  BY <1>2, SpecifiedLemma
<1>3. ASSUME \A i \in DOMAIN types : types'[i] = types[i],
             DOMAIN open' = DOMAIN open, \A n \in DOMAIN open : open'[n].record = open[n].record
      PROVE  OnceOpen(types', open')
  BY <1>1, <1>3 DEF OnceOpen
<1>4. ASSUME NEW name \in FieldNames, NEW t \in TypeTerms, NEW reported \in BOOLEAN, Declare(name, t, reported)
      PROVE  DOMAIN open' = DOMAIN open /\ \A n \in DOMAIN open : open'[n].record = open[n].record
  BY <1>0, <1>4, DeclareLemma DEF TypeInv
<1>5. ASSUME NEW union \in BOOLEAN, NEW tag \in Tags, Forward(union, tag) \/ OpenFunction(union, tag)
      PROVE  OnceOpen(types', open')
  BY <1>2, <1>3, <1>5 DEF Forward, OpenFunction, Specify
<1>6. ASSUME NEW union \in BOOLEAN, NEW tag \in Tags \union {NoTag}, OpenDefinition(union, tag)
      PROVE  OnceOpen(types', open')
  <2> DEFINE i == Specified(tag, TRUE)
             d == Opening(i)
             again == Mismatch(union, tag, TRUE) \/ (Found(tag, TRUE) # None /\ types[Found(tag, TRUE)].complete)
  <2>1. /\ types' = TypesWith(union, tag, TRUE)
        /\ open' = IF again THEN Begun ELSE Append(Begun, d)
    BY <1>6 DEF OpenDefinition, Specify
  <2>2. \A k \in DOMAIN types : types'[k] = types[k]
    BY <1>2, <2>1
  <2>3. /\ Begun \in Seq(Definitions) /\ DOMAIN Begun = DOMAIN open
        /\ \A n \in DOMAIN open : Begun[n].record = open[n].record
    BY <1>0, BegunLemma DEF TypeInv
  <2>4. CASE again
    BY <1>3, <2>1, <2>2, <2>3, <2>4
  <2>5. CASE ~again
    <3>1. open' = Append(Begun, d)
      BY <2>1, <2>5
    <3>2. i \in Nat /\ i \in DOMAIN types' /\ ~types'[i].complete
      <4>1. i \in Nat /\ i \in DOMAIN types' /\ (Found(tag, TRUE) # None => i \in DOMAIN types)
        BY <2>1, <1>0, SpecifiedLemma, FoundLemma DEF Specified
      <4>2. CASE Found(tag, TRUE) # None
        BY <4>1, <4>2, <2>2, <2>5 DEF Specified
      <4>3. CASE Found(tag, TRUE) = None
        <5> DEFINE new == NewType(union, tag)
        <5>1. types' = Append(types, new) /\ i = Len(types) + 1
          BY <2>1, <4>3 DEF TypesWith, Specified
        <5>2. ~new.complete
          BY DEF NewType
        <5> HIDE DEF new, i
        <5>3. types'[i] = new
          BY <1>0, <5>1 DEF TypeInv
        <5> QED BY <4>1, <5>2, <5>3
      <4> QED BY <4>2, <4>3
    <3>3. d.record = i
      BY <3>2, OpeningLemma
    <3> HIDE DEF again, d, i
    <3>4. /\ DOMAIN open' = DOMAIN open \union {Len(open) + 1} /\ Len(open) + 1 \notin DOMAIN open
          /\ open'[Len(open) + 1] = d
          /\ \A n \in DOMAIN open : open'[n] = Begun[n]
      BY <1>0, <2>3, <3>1 DEF TypeInv
    <3>5. ASSUME NEW n \in DOMAIN open
          PROVE  open[n].record # i
      <4>1. SUFFICES ASSUME open[n].record = i PROVE FALSE
        OBVIOUS
      <4>2. i \in DOMAIN types /\ Found(tag, TRUE) # None
        <5>1. i \in DOMAIN types
          BY <1>1, <4>1
        <5>2. Found(tag, TRUE) = None => i = Len(types) + 1
          BY DEF Specified, i
        <5>3. DOMAIN types = 1..Len(types) /\ Len(types) \in Nat
          BY <1>0 DEF TypeInv
        <5>4. Len(types) + 1 \notin DOMAIN types
          BY ONLY <5>3
        <5> QED BY ONLY <5>1, <5>2, <5>4
      <4>3. tag \in DOMAIN Here /\ i = Here[tag]
        BY <4>2 DEF Found, Specified, i
      <4>4. Len(scopes) \in DOMAIN scopes /\ Here = scopes[Len(scopes)] /\ Here \in TagTables
        BY <1>0 DEF TypeInv, Here
      <4>5. tag # NoTag
        BY <4>3, <4>4, TagsAssumption DEF TagTables
      <4>6. types[i].tag = tag
        BY <4>3, <4>4 DEF TagsOf
      <4>7. types'[i].tag = tag
        BY <2>2, <4>2, <4>6
      <4>8. n \in DOMAIN open' /\ Len(open) + 1 \in DOMAIN open' /\ n # Len(open) + 1
        BY <3>4
      <4>9. open'[n].record = i /\ open'[Len(open) + 1].record = i
        BY <2>3, <3>3, <3>4, <4>1
      <4>10. Nested'
        BY <4>5, <4>7, <4>8, <4>9 DEF Nested, TagOf
      <4> QED BY <4>10
    <3>6. \A n \in DOMAIN open : open'[n].record = open[n].record /\ ~types'[open[n].record].complete
      BY <1>1, <2>2, <2>3, <3>4 DEF OnceOpen
    <3> QED BY <3>2, <3>3, <3>4, <3>5, <3>6 DEF OnceOpen
  <2> QED BY <2>4, <2>5
<1>7. CASE CloseDefinition
  <2> DEFINE last == Len(open)
             d == open[last]
             closed == [types[d.record] EXCEPT !.fields = d.fields, !.alignment = d.alignment,
                                               !.size = AlignedUp(d.size, d.alignment), !.complete = TRUE]
  <2>1. open # <<>> /\ types' = [types EXCEPT ![d.record] = closed] /\ open' = SubSeq(open, 1, last - 1)
    BY <1>7 DEF CloseDefinition
  <2>2. last \in DOMAIN open /\ \A n \in DOMAIN open' : n \in DOMAIN open /\ n # last /\ open'[n] = open[n]
    BY <1>0, <2>1 DEF TypeInv
  <2>3. \A n \in DOMAIN open : n # last => open[n].record # d.record
    BY <2>2 DEF OnceOpen
  <2> HIDE DEF closed, last, d
  <2>4. ASSUME NEW n \in DOMAIN open'
        PROVE  types'[open'[n].record] = types[open[n].record]
    <3>1. open'[n] = open[n] /\ open[n].record \in DOMAIN types /\ open[n].record # d.record
      BY <1>1, <2>2, <2>3
    <3>2. types' = [types EXCEPT ![d.record] = closed]
      BY <2>1
    <3> QED BY ONLY <3>1, <3>2
  <2> QED BY <2>2, <2>4 DEF OnceOpen
<1>8. ASSUME NEW name \in FieldNames, NEW t \in Scalars \union {Function}, DeclareScalar(name, t)
      PROVE  OnceOpen(types', open')
  <2>1. t \in TypeTerms
    BY ScalarsAssumption DEF TypeTerms
  <2> QED BY <1>3, <1>4, <1>8, <2>1 DEF DeclareScalar
<1>9. ASSUME NEW name \in FieldNames, NEW pointer \in BOOLEAN, DeclareDefined(name, pointer)
      PROVE  OnceOpen(types', open')
  <2>1. AsDeclared(Record(base), pointer) \in TypeTerms
    BY <1>0 DEF AsDeclared, TypeTerms, TypeInv
  <2> QED BY <1>3, <1>4, <1>9, <2>1 DEF DeclareDefined
<1>10. ASSUME NEW union \in BOOLEAN, NEW tag \in Tags, NEW name \in FieldNames, NEW pointer \in BOOLEAN,
              DeclareRecord(union, tag, name, pointer)
       PROVE  OnceOpen(types', open')
  <2> DEFINE mismatch == Mismatch(union, tag, FALSE)
             t == IF mismatch THEN Invalid ELSE Record(Specified(tag, FALSE))
             declared == AsDeclared(t, pointer)
  <2>1. types' = TypesWith(union, tag, FALSE) /\ Declare(name, declared, mismatch)
    BY <1>10 DEF DeclareRecord, Specify
  <2>2. Specified(tag, FALSE) \in Nat
    BY <2>1, SpecifiedLemma
  <2>3. declared \in TypeTerms /\ mismatch \in BOOLEAN
    BY <2>2 DEF AsDeclared, TypeTerms, Mismatch
  <2> HIDE DEF declared, mismatch
  <2> QED BY <1>2, <1>3, <1>4, <2>1, <2>3
<1>11. CASE OpenBlock \/ CloseScope
  BY <1>3, <1>11 DEF OpenBlock, CloseScope
<1> QED BY <1>5, <1>6, <1>7, <1>8, <1>9, <1>10, <1>11 DEF Next

(* Together they are kept by every construct.                               *)
LEMMA OnceInductive == OnceInv /\ [NextInC]_varsInC => OnceInv'
<1> SUFFICES ASSUME OnceInv, [NextInC]_varsInC PROVE OnceInv'
  OBVIOUS
<1>1. CASE NextInC
  <2>1. Next
    BY <1>1, StepIsNext DEF NextInC
  <2>2. IInv'
    BY <2>1, Inductive DEF OnceInv
  <2>3. TagsOf(types', scopes')
    BY <2>1, TagsStay DEF OnceInv
  <2>4. nested' = (nested \/ Nested')
    BY <1>1 DEF NextInC
  <2>5. nested' \/ OnceOpen(types', open')
    BY <2>1, <2>4, OnceStays DEF OnceInv
  <2> QED BY <2>2, <2>3, <2>5 DEF OnceInv
<1>2. CASE UNCHANGED varsInC
  <2>1. UNCHANGED vars /\ UNCHANGED <<types, scopes, open, nested>>
    BY <1>2 DEF varsInC, vars
  <2>2. IInv'
    BY <2>1, Inductive DEF OnceInv
  <2> QED BY <2>1, <2>2 DEF OnceInv
<1> QED BY <1>1, <1>2

(* Only the end of a definition changes a type, and before it that type is  *)
(* not complete.                                                            *)
LEMMA CompletedOnce ==
    ASSUME OnceInv, NextInC, ~nested
    PROVE  \A i \in DOMAIN types : types[i].complete => types'[i] = types[i]
<1>1. IInv /\ OnceOpen(types, open) /\ Next
  BY StepIsNext DEF OnceInv, NextInC
<1>2. TypeInv /\ Refer
  BY <1>1 DEF IInv
<1>3. ASSUME NEW union \in BOOLEAN, NEW tag \in Tags \union {NoTag}, NEW defines \in BOOLEAN,
             types' = TypesWith(union, tag, defines)
      PROVE  \A i \in DOMAIN types : types'[i] = types[i]
  BY <1>1, <1>3, SpecifiedLemma
<1>4. ASSUME CloseDefinition
      PROVE  \A i \in DOMAIN types : types[i].complete => types'[i] = types[i]
  <2> DEFINE d == open[Len(open)]
             closed == [types[d.record] EXCEPT !.fields = d.fields, !.alignment = d.alignment,
                                               !.size = AlignedUp(d.size, d.alignment), !.complete = TRUE]
  <2>1. open # <<>> /\ types' = [types EXCEPT ![d.record] = closed]
    BY <1>4 DEF CloseDefinition
  <2>2. Len(open) \in DOMAIN open
    BY <1>2, <2>1 DEF TypeInv
  <2>3. ~types[d.record].complete
    BY <1>1, <2>2 DEF OnceOpen
  <2> HIDE DEF d, closed
  <2> QED BY <2>1, <2>3
<1>5. CASE UNCHANGED types
  BY <1>5
<1>6. \/ UNCHANGED types
      \/ CloseDefinition
      \/ \E union \in BOOLEAN, tag \in Tags \union {NoTag}, defines \in BOOLEAN : types' = TypesWith(union, tag, defines)
  BY <1>1 DEF Next, Forward, OpenFunction, OpenDefinition, Specify, DeclareScalar, DeclareDefined, DeclareRecord,
              OpenBlock, CloseScope
<1> QED BY <1>3, <1>4, <1>5, <1>6

(* In a text that defines no record inside its own definition a completed   *)
(* type never changes, wherever else the compiler and C have gone apart: no *)
(* later definition or declaration of its tag touches its fields, size or   *)
(* alignment (cc_resolve_record_specifier).                                 *)
THEOREM CompletedTypesNeverChange == SpecInC => CompletedTypesStay
<1>1. InitInC => OnceInv
  <2> SUFFICES ASSUME InitInC PROVE OnceInv
    OBVIOUS
  <2>1. IInv
    BY Initially DEF InitInC
  <2>2. scopes = << <<>> >> /\ open = <<>> /\ DOMAIN <<>> = {}
    BY DEF InitInC, Init
  <2>3. TagsOf(types, scopes)
    BY <2>2 DEF TagsOf
  <2>4. OnceOpen(types, open)
    BY <2>2 DEF OnceOpen
  <2> QED BY <2>1, <2>3, <2>4 DEF OnceInv
<1>2. OnceInv /\ [NextInC]_varsInC =>
         [~nested => \A i \in DOMAIN types : types[i].complete => types'[i] = types[i]]_varsInC
  BY CompletedOnce
<1> QED BY <1>1, <1>2, OnceInductive, PTL DEF SpecInC, CompletedTypesStay

-----------------------------------------------------------------------------
(* Induction up to n, over a set.                                           *)
LEMMA UpTo ==
  ASSUME NEW n \in Nat, NEW T, 0 \in T, \A k \in 1 .. n : k - 1 \in T => k \in T
  PROVE  \A k \in 0 .. n : k \in T
<1> DEFINE Bad == {k \in 0 .. n : k \notin T}
<1>1. ASSUME Bad # {} PROVE FALSE
  <2>1. PICK k \in Bad : \A j \in Bad : k <= j
    <3>1. Bad \in SUBSET Nat
      OBVIOUS
    <3> HIDE DEF Bad
    <3> QED BY <1>1, <3>1, LeastNumber
  <2>2. k \in 0 .. n /\ k \notin T /\ k # 0
    OBVIOUS
  <2>3. k \in 1 .. n /\ k - 1 \in 0 .. n /\ ~(k <= k - 1)
    BY <2>2
  <2>4. k - 1 \notin Bad
    <3> HIDE DEF Bad
    <3> QED BY <2>1, <2>3
  <2> QED BY <2>2, <2>3, <2>4
<1> QED BY <1>1

-----------------------------------------------------------------------------
(* The functions defined by height: Expression, Analyzing, CTyping and      *)
(* Departing.                                                               *)

(* The recursion of Expression has a solution up to every n.                 *)
LEMMA ExpressionBegins ==
  ASSUME NEW n \in Nat, n <= Height
  PROVE  \E f : f = [m \in 0 .. n |-> IF m = 0 THEN {} ELSE ExpressionsOver(f[m - 1])]
<1> DEFINE Step(m, below) == IF m = 0 THEN {} ELSE ExpressionsOver(below)
           Is(f, k) == f = [m \in 0 .. k |-> Step(m, f[m - 1])]
           T == {k \in Nat : \E f : Is(f, k)}
<1>1. \A a, b : Step(0, a) = Step(0, b)
  OBVIOUS
<1> HIDE DEF Step
<1>2. 0 \in T
  <2> DEFINE f == [m \in 0 .. 0 |-> Step(m, {})]
  <2>1. \A m \in 0 .. 0 : m = 0
    OBVIOUS
  <2>2. \A m \in 0 .. 0 : f[m] = Step(m, f[m - 1])
    BY <1>1, <2>1
  <2>3. f = [m \in 0 .. 0 |-> Step(m, f[m - 1])]
    BY <2>2
  <2> QED BY <2>3
<1>3. ASSUME NEW k \in 1 .. n, k - 1 \in T PROVE k \in T
  <2>1. PICK v : Is(v, k - 1)
    BY <1>3
  <2>2. \A m \in 0 .. k - 1 : v[m] = Step(m, v[m - 1])
    BY <2>1
  <2> DEFINE w == [m \in 0 .. k |-> IF m = k THEN Step(k, v[k - 1]) ELSE v[m]]
  <2>3. ASSUME NEW m \in 0 .. k PROVE w[m] = Step(m, w[m - 1])
    <3>1. CASE m = 0
      <4>1. m \in 0 .. k - 1 /\ m # k
        BY <3>1
      <4>2. w[m] = Step(m, v[m - 1])
        BY <2>2, <4>1
      <4> HIDE DEF w
      <4> QED BY <1>1, <3>1, <4>2
    <3>2. CASE m # 0
      <4>1. m - 1 \in 0 .. k /\ m - 1 # k
        BY <3>2
      <4>2. w[m - 1] = v[m - 1]
        BY <4>1
      <4>3. CASE m = k
        BY <4>2, <4>3
      <4>4. CASE m # k
        <5>1. m \in 0 .. k - 1
          BY <4>4
        <5>2. w[m] = v[m]
          BY <4>4
        <5> HIDE DEF w
        <5> QED BY <2>2, <4>2, <5>1, <5>2
      <4> QED BY <4>3, <4>4
    <3> QED BY <3>1, <3>2
  <2>4. w = [m \in 0 .. k |-> w[m]]
    OBVIOUS
  <2> HIDE DEF w
  <2>5. Is(w, k)
    BY <2>3, <2>4
  <2> QED BY <2>5
<1>4. n \in T
  <2>1. \A k \in 0 .. n : k \in T
    <3> HIDE DEF T
    <3> QED BY <1>2, <1>3, UpTo
  <2> QED BY <2>1
<1> QED BY <1>4 DEF Step

(* So Expression itself satisfies its recursion.                             *)
LEMMA ExpressionIs ==
  \A n \in 0 .. Height : Expression[n] = IF n = 0 THEN {} ELSE ExpressionsOver(Expression[n - 1])
<1> DEFINE Step(m, below) == IF m = 0 THEN {} ELSE ExpressionsOver(below)
           Is(f) == f = [m \in 0 .. Height |-> Step(m, f[m - 1])]
<1>1. \E f : Is(f)
  <2>1. Height \in Nat /\ Height <= Height
    BY HeightAssumption
  <2>2. \E f : f = [m \in 0 .. Height |-> IF m = 0 THEN {} ELSE ExpressionsOver(f[m - 1])]
    BY <2>1, ExpressionBegins
  <2> QED BY <2>2
<1>2. Expression = CHOOSE f : Is(f)
  BY DEF Expression
<1>3. Is(Expression)
  <2> HIDE DEF Is
  <2> QED BY <1>1, <1>2
<1> HIDE DEF Step
<1>4. \A n \in 0 .. Height : Expression[n] = Step(n, Expression[n - 1])
  BY <1>3
<1> QED BY <1>4 DEF Step

(* No expression is without height.                                          *)
LEMMA NoExpressionOfHeightZero == Expression[0] = {}
<1>1. 0 \in 0 .. Height
  BY HeightAssumption
<1> QED BY <1>1, ExpressionIs

(* The same for Analyzing: a beginning up to every n.                        *)
LEMMA AnalyzingBegins ==
  ASSUME NEW n \in Nat, n <= Height
  PROVE  \E f : f = [m \in 0 .. n |-> AnalysesOver(Expression[m], f[m - 1])]
<1> DEFINE Step(m, below) == AnalysesOver(Expression[m], below)
           Is(f, k) == f = [m \in 0 .. k |-> Step(m, f[m - 1])]
           T == {k \in Nat : \E f : Is(f, k)}
<1>1. \A a, b : Step(0, a) = Step(0, b)
  BY NoExpressionOfHeightZero DEF AnalysesOver
<1> HIDE DEF Step
<1>2. 0 \in T
  <2> DEFINE f == [m \in 0 .. 0 |-> Step(m, {})]
  <2>1. \A m \in 0 .. 0 : m = 0
    OBVIOUS
  <2>2. \A m \in 0 .. 0 : f[m] = Step(m, f[m - 1])
    BY <1>1, <2>1
  <2>3. f = [m \in 0 .. 0 |-> Step(m, f[m - 1])]
    BY <2>2
  <2> QED BY <2>3
<1>3. ASSUME NEW k \in 1 .. n, k - 1 \in T PROVE k \in T
  <2>1. PICK v : Is(v, k - 1)
    BY <1>3
  <2>2. \A m \in 0 .. k - 1 : v[m] = Step(m, v[m - 1])
    BY <2>1
  <2> DEFINE w == [m \in 0 .. k |-> IF m = k THEN Step(k, v[k - 1]) ELSE v[m]]
  <2>3. ASSUME NEW m \in 0 .. k PROVE w[m] = Step(m, w[m - 1])
    <3>1. CASE m = 0
      <4>1. m \in 0 .. k - 1 /\ m # k
        BY <3>1
      <4>2. w[m] = Step(m, v[m - 1])
        BY <2>2, <4>1
      <4> HIDE DEF w
      <4> QED BY <1>1, <3>1, <4>2
    <3>2. CASE m # 0
      <4>1. m - 1 \in 0 .. k /\ m - 1 # k
        BY <3>2
      <4>2. w[m - 1] = v[m - 1]
        BY <4>1
      <4>3. CASE m = k
        BY <4>2, <4>3
      <4>4. CASE m # k
        <5>1. m \in 0 .. k - 1
          BY <4>4
        <5>2. w[m] = v[m]
          BY <4>4
        <5> HIDE DEF w
        <5> QED BY <2>2, <4>2, <5>1, <5>2
      <4> QED BY <4>3, <4>4
    <3> QED BY <3>1, <3>2
  <2>4. w = [m \in 0 .. k |-> w[m]]
    OBVIOUS
  <2> HIDE DEF w
  <2>5. Is(w, k)
    BY <2>3, <2>4
  <2> QED BY <2>5
<1>4. n \in T
  <2>1. \A k \in 0 .. n : k \in T
    <3> HIDE DEF T
    <3> QED BY <1>2, <1>3, UpTo
  <2> QED BY <2>1
<1> QED BY <1>4 DEF Step

(* Analyzing satisfies its recursion.                                        *)
LEMMA AnalyzingIs ==
  \A n \in 0 .. Height : Analyzing[n] = AnalysesOver(Expression[n], Analyzing[n - 1])
<1> DEFINE Step(m, below) == AnalysesOver(Expression[m], below)
           Is(f) == f = [m \in 0 .. Height |-> Step(m, f[m - 1])]
<1>1. \E f : Is(f)
  <2>1. Height \in Nat /\ Height <= Height
    BY HeightAssumption
  <2>2. \E f : f = [m \in 0 .. Height |-> AnalysesOver(Expression[m], f[m - 1])]
    BY <2>1, AnalyzingBegins
  <2> QED BY <2>2
<1>2. Analyzing = CHOOSE f : Is(f)
  BY DEF Analyzing
<1>3. Is(Analyzing)
  <2> HIDE DEF Is
  <2> QED BY <1>1, <1>2
<1> HIDE DEF Step
<1>4. \A n \in 0 .. Height : Analyzing[n] = Step(n, Analyzing[n - 1])
  BY <1>3
<1> QED BY <1>4 DEF Step

(* The same for CTyping: a beginning up to every n.                        *)
LEMMA CTypingBegins ==
  ASSUME NEW n \in Nat, n <= Height
  PROVE  \E f : f = [m \in 0 .. n |-> TypesInC(Expression[m], f[m - 1])]
<1> DEFINE Step(m, below) == TypesInC(Expression[m], below)
           Is(f, k) == f = [m \in 0 .. k |-> Step(m, f[m - 1])]
           T == {k \in Nat : \E f : Is(f, k)}
<1>1. \A a, b : Step(0, a) = Step(0, b)
  BY NoExpressionOfHeightZero DEF TypesInC
<1> HIDE DEF Step
<1>2. 0 \in T
  <2> DEFINE f == [m \in 0 .. 0 |-> Step(m, {})]
  <2>1. \A m \in 0 .. 0 : m = 0
    OBVIOUS
  <2>2. \A m \in 0 .. 0 : f[m] = Step(m, f[m - 1])
    BY <1>1, <2>1
  <2>3. f = [m \in 0 .. 0 |-> Step(m, f[m - 1])]
    BY <2>2
  <2> QED BY <2>3
<1>3. ASSUME NEW k \in 1 .. n, k - 1 \in T PROVE k \in T
  <2>1. PICK v : Is(v, k - 1)
    BY <1>3
  <2>2. \A m \in 0 .. k - 1 : v[m] = Step(m, v[m - 1])
    BY <2>1
  <2> DEFINE w == [m \in 0 .. k |-> IF m = k THEN Step(k, v[k - 1]) ELSE v[m]]
  <2>3. ASSUME NEW m \in 0 .. k PROVE w[m] = Step(m, w[m - 1])
    <3>1. CASE m = 0
      <4>1. m \in 0 .. k - 1 /\ m # k
        BY <3>1
      <4>2. w[m] = Step(m, v[m - 1])
        BY <2>2, <4>1
      <4> HIDE DEF w
      <4> QED BY <1>1, <3>1, <4>2
    <3>2. CASE m # 0
      <4>1. m - 1 \in 0 .. k /\ m - 1 # k
        BY <3>2
      <4>2. w[m - 1] = v[m - 1]
        BY <4>1
      <4>3. CASE m = k
        BY <4>2, <4>3
      <4>4. CASE m # k
        <5>1. m \in 0 .. k - 1
          BY <4>4
        <5>2. w[m] = v[m]
          BY <4>4
        <5> HIDE DEF w
        <5> QED BY <2>2, <4>2, <5>1, <5>2
      <4> QED BY <4>3, <4>4
    <3> QED BY <3>1, <3>2
  <2>4. w = [m \in 0 .. k |-> w[m]]
    OBVIOUS
  <2> HIDE DEF w
  <2>5. Is(w, k)
    BY <2>3, <2>4
  <2> QED BY <2>5
<1>4. n \in T
  <2>1. \A k \in 0 .. n : k \in T
    <3> HIDE DEF T
    <3> QED BY <1>2, <1>3, UpTo
  <2> QED BY <2>1
<1> QED BY <1>4 DEF Step

(* CTyping satisfies its recursion.                                        *)
LEMMA CTypingIs ==
  \A n \in 0 .. Height : CTyping[n] = TypesInC(Expression[n], CTyping[n - 1])
<1> DEFINE Step(m, below) == TypesInC(Expression[m], below)
           Is(f) == f = [m \in 0 .. Height |-> Step(m, f[m - 1])]
<1>1. \E f : Is(f)
  <2>1. Height \in Nat /\ Height <= Height
    BY HeightAssumption
  <2>2. \E f : f = [m \in 0 .. Height |-> TypesInC(Expression[m], f[m - 1])]
    BY <2>1, CTypingBegins
  <2> QED BY <2>2
<1>2. CTyping = CHOOSE f : Is(f)
  BY DEF CTyping
<1>3. Is(CTyping)
  <2> HIDE DEF Is
  <2> QED BY <1>1, <1>2
<1> HIDE DEF Step
<1>4. \A n \in 0 .. Height : CTyping[n] = Step(n, CTyping[n - 1])
  BY <1>3
<1> QED BY <1>4 DEF Step

(* The same for Departing: a beginning up to every n.                        *)
LEMMA DepartingBegins ==
  ASSUME NEW n \in Nat, n <= Height
  PROVE  \E f : f = [m \in 0 .. n |-> DeparturesIn(Expression[m], CTyping[m - 1], f[m - 1])]
<1> DEFINE Step(m, below) == DeparturesIn(Expression[m], CTyping[m - 1], below)
           Is(f, k) == f = [m \in 0 .. k |-> Step(m, f[m - 1])]
           T == {k \in Nat : \E f : Is(f, k)}
<1>1. \A a, b : Step(0, a) = Step(0, b)
  BY NoExpressionOfHeightZero DEF DeparturesIn
<1> HIDE DEF Step
<1>2. 0 \in T
  <2> DEFINE f == [m \in 0 .. 0 |-> Step(m, {})]
  <2>1. \A m \in 0 .. 0 : m = 0
    OBVIOUS
  <2>2. \A m \in 0 .. 0 : f[m] = Step(m, f[m - 1])
    BY <1>1, <2>1
  <2>3. f = [m \in 0 .. 0 |-> Step(m, f[m - 1])]
    BY <2>2
  <2> QED BY <2>3
<1>3. ASSUME NEW k \in 1 .. n, k - 1 \in T PROVE k \in T
  <2>1. PICK v : Is(v, k - 1)
    BY <1>3
  <2>2. \A m \in 0 .. k - 1 : v[m] = Step(m, v[m - 1])
    BY <2>1
  <2> DEFINE w == [m \in 0 .. k |-> IF m = k THEN Step(k, v[k - 1]) ELSE v[m]]
  <2>3. ASSUME NEW m \in 0 .. k PROVE w[m] = Step(m, w[m - 1])
    <3>1. CASE m = 0
      <4>1. m \in 0 .. k - 1 /\ m # k
        BY <3>1
      <4>2. w[m] = Step(m, v[m - 1])
        BY <2>2, <4>1
      <4> HIDE DEF w
      <4> QED BY <1>1, <3>1, <4>2
    <3>2. CASE m # 0
      <4>1. m - 1 \in 0 .. k /\ m - 1 # k
        BY <3>2
      <4>2. w[m - 1] = v[m - 1]
        BY <4>1
      <4>3. CASE m = k
        BY <4>2, <4>3
      <4>4. CASE m # k
        <5>1. m \in 0 .. k - 1
          BY <4>4
        <5>2. w[m] = v[m]
          BY <4>4
        <5> HIDE DEF w
        <5> QED BY <2>2, <4>2, <5>1, <5>2
      <4> QED BY <4>3, <4>4
    <3> QED BY <3>1, <3>2
  <2>4. w = [m \in 0 .. k |-> w[m]]
    OBVIOUS
  <2> HIDE DEF w
  <2>5. Is(w, k)
    BY <2>3, <2>4
  <2> QED BY <2>5
<1>4. n \in T
  <2>1. \A k \in 0 .. n : k \in T
    <3> HIDE DEF T
    <3> QED BY <1>2, <1>3, UpTo
  <2> QED BY <2>1
<1> QED BY <1>4 DEF Step

(* Departing satisfies its recursion.                                        *)
LEMMA DepartingIs ==
  \A n \in 0 .. Height : Departing[n] = DeparturesIn(Expression[n], CTyping[n - 1], Departing[n - 1])
<1> DEFINE Step(m, below) == DeparturesIn(Expression[m], CTyping[m - 1], below)
           Is(f) == f = [m \in 0 .. Height |-> Step(m, f[m - 1])]
<1>1. \E f : Is(f)
  <2>1. Height \in Nat /\ Height <= Height
    BY HeightAssumption
  <2>2. \E f : f = [m \in 0 .. Height |-> DeparturesIn(Expression[m], CTyping[m - 1], f[m - 1])]
    BY <2>1, DepartingBegins
  <2> QED BY <2>2
<1>2. Departing = CHOOSE f : Is(f)
  BY DEF Departing
<1>3. Is(Departing)
  <2> HIDE DEF Is
  <2> QED BY <1>1, <1>2
<1> HIDE DEF Step
<1>4. \A n \in 0 .. Height : Departing[n] = Step(n, Departing[n - 1])
  BY <1>3
<1> QED BY <1>4 DEF Step

-----------------------------------------------------------------------------
(* Types.                                                                   *)

(* The kinds of a type exclude each other.                                  *)
LEMMA Kinds ==
  ASSUME NEW t
  PROVE  /\ IsNumeric(t) <=> IsInteger(t) \/ IsFloating(t)
         /\ ~(IsInteger(t) /\ IsFloating(t))
         /\ IsPointer(t) => ~IsNumeric(t) /\ ~IsVoid(t) /\ t.kind \notin {"function", "record", "bool"}
         /\ IsNumeric(t) => ~IsVoid(t) /\ t.kind \notin {"function", "record"}
         /\ IsNumeric(t) => IsComplete(t)
         /\ IsPointer(t) => IsComplete(t)
         /\ t.kind = "bool" => IsInteger(t)
         /\ IsScalar(t) <=> IsNumeric(t) \/ IsPointer(t)
         /\ IsComplete(t) => t.kind \notin {"void", "function"}
BY DEF IsNumeric, IsInteger, IsFloating, IsPointer, IsVoid, IsScalar, IsComplete

LEMMA RankIs ==
  ASSUME NEW t, IsNumeric(t)
  PROVE  /\ t.kind \in {"bool", "char", "int"} => Rank(t) = 1
         /\ t.kind = "long" => Rank(t) = 2
         /\ t.kind = "float" => Rank(t) = 3
         /\ t.kind = "double" => Rank(t) = 4
         /\ Rank(t) \in 1 .. 4
         /\ IsInteger(t) <=> Rank(t) <= 2
<1>1. DOMAIN Ranks = 1 .. 4 /\ Ranks[1] = "int" /\ Ranks[2] = "long" /\ Ranks[3] = "float" /\ Ranks[4] = "double"
  BY DEF Ranks
<1> DEFINE R == Ranks
           has(i) == R[i] = t.kind
<1>2. Rank(t) = IF \E i \in 1 .. 4 : has(i) THEN CHOOSE i \in 1 .. 4 : has(i) ELSE 1
  BY <1>1 DEF Rank
<1>3. R[1] = "int" /\ R[2] = "long" /\ R[3] = "float" /\ R[4] = "double"
  BY <1>1
<1>4. \A i \in 1 .. 4 : i = 1 \/ i = 2 \/ i = 3 \/ i = 4
  OBVIOUS
<1> HIDE DEF R
<1>5. t.kind \in {"bool", "char"} => Rank(t) = 1
  <2>1. ASSUME t.kind \in {"bool", "char"}, NEW i \in 1 .. 4 PROVE ~has(i)
    BY <1>3, <1>4, <2>1
  <2> QED BY <1>2, <2>1
<1>6. ASSUME NEW i \in 1 .. 4, has(i) PROVE Rank(t) = i
  <2>1. \A j \in 1 .. 4 : has(j) => j = i
    BY <1>3, <1>4, <1>6
  <2> HIDE DEF has
  <2> QED BY <1>2, <1>6, <2>1
<1>7. t.kind \in {"bool", "char", "int", "long", "float", "double"}
  BY DEF IsNumeric, IsInteger, IsFloating
<1>8. /\ t.kind = "int" => Rank(t) = 1
      /\ t.kind = "long" => Rank(t) = 2
      /\ t.kind = "float" => Rank(t) = 3
      /\ t.kind = "double" => Rank(t) = 4
  BY <1>3, <1>6
<1> QED BY <1>5, <1>7, <1>8 DEF IsInteger

(* Promotion keeps the rank and nothing else of a number.                   *)
LEMMA PromotedNumber ==
  ASSUME NEW t, IsNumeric(t)
  PROVE  /\ Promoted(t) = Basic(Ranks[Rank(t)])
         /\ Promoted(t).kind = Ranks[Rank(t)]
         /\ IsNumeric(Promoted(t))
         /\ Rank(Promoted(t)) = Rank(t)
<1>1. Rank(t) \in 1 .. 4
  BY RankIs
<1>2. Promoted(t) = Basic(Ranks[Rank(t)])
  BY <1>1 DEF Promoted, Common
<1>3. Promoted(t).kind = Ranks[Rank(t)]
  <2>1. \A k : Basic(k).kind = k
    BY DEF Basic, Type
  <2> QED BY <1>2, <2>1
<1>4. CASE Rank(t) = 1
  <2>1. Promoted(t).kind = "int"
    BY <1>3, <1>4 DEF Ranks
  <2>2. IsNumeric(Promoted(t))
    BY <2>1 DEF IsNumeric, IsInteger
  <2> QED BY <1>2, <1>3, <1>4, <2>1, <2>2, RankIs
<1>5. CASE Rank(t) = 2
  <2>1. Promoted(t).kind = "long"
    BY <1>3, <1>5 DEF Ranks
  <2>2. IsNumeric(Promoted(t))
    BY <2>1 DEF IsNumeric, IsInteger
  <2> QED BY <1>2, <1>3, <1>5, <2>1, <2>2, RankIs
<1>6. CASE Rank(t) = 3
  <2>1. Promoted(t).kind = "float"
    BY <1>3, <1>6 DEF Ranks
  <2>2. IsNumeric(Promoted(t))
    BY <2>1 DEF IsNumeric, IsFloating
  <2> QED BY <1>2, <1>3, <1>6, <2>1, <2>2, RankIs
<1>7. CASE Rank(t) = 4
  <2>1. Promoted(t).kind = "double"
    BY <1>3, <1>7 DEF Ranks
  <2>2. IsNumeric(Promoted(t))
    BY <2>1 DEF IsNumeric, IsFloating
  <2> QED BY <1>2, <1>3, <1>7, <2>1, <2>2, RankIs
<1> QED BY <1>1, <1>4, <1>5, <1>6, <1>7

(* Types are alike if they are the same up to promotion.                    *)
Alike(t, u) == Promoted(t) = Promoted(u)

LEMMA AlikeTypes ==
  ASSUME NEW t, NEW u, Alike(t, u)
  PROVE  /\ IsNumeric(t) <=> IsNumeric(u)
         /\ IsInteger(t) <=> IsInteger(u)
         /\ IsFloating(t) <=> IsFloating(u)
         /\ IsPointer(t) <=> IsPointer(u)
         /\ IsScalar(t) <=> IsScalar(u)
         /\ IsComplete(t) <=> IsComplete(u)
         /\ IsNumeric(t) => Rank(t) = Rank(u)
         /\ ~IsNumeric(t) => t = u
<1>1. \A v : ~IsNumeric(v) => Promoted(v) = v
  BY DEF Promoted
<1>2. \A v : IsNumeric(v) => IsNumeric(Promoted(v)) /\ Rank(Promoted(v)) = Rank(v)
  BY PromotedNumber
<1>3. IsNumeric(t) <=> IsNumeric(u)
  BY <1>1, <1>2 DEF Alike
<1>4. CASE ~IsNumeric(t)
  BY <1>1, <1>3, <1>4 DEF Alike
<1>5. CASE IsNumeric(t)
  <2>1. Rank(t) = Rank(u)
    BY <1>2, <1>3, <1>5 DEF Alike
  <2>2. IsInteger(t) <=> IsInteger(u)
    BY <1>3, <1>5, <2>1, RankIs
  <2> QED BY <1>3, <1>5, <2>1, <2>2, Kinds
<1> QED BY <1>4, <1>5

(* The usual arithmetic conversions: the higher rank.                       *)
LEMMA ArithmeticIsCommon ==
  ASSUME NEW t, NEW u, IsNumeric(t), IsNumeric(u)
  PROVE  ArithmeticType(t, u) = Common(t, u)
<1>1. /\ t.kind \in {"bool", "char", "int", "long", "float", "double"}
      /\ u.kind \in {"bool", "char", "int", "long", "float", "double"}
  BY DEF IsNumeric, IsInteger, IsFloating
<1>2. Ranks[1] = "int" /\ Ranks[2] = "long" /\ Ranks[3] = "float" /\ Ranks[4] = "double"
  BY DEF Ranks
<1>3. CASE "double" \in {t.kind, u.kind}
  <2>1. ArithmeticType(t, u) = Basic("double")
    BY <1>3 DEF ArithmeticType
  <2>2. Rank(t) = 4 \/ Rank(u) = 4
    BY <1>3, RankIs
  <2>3. Common(t, u) = Basic(Ranks[4])
    BY <2>2, RankIs DEF Common
  <2> QED BY <1>2, <2>1, <2>3
<1>4. CASE "double" \notin {t.kind, u.kind} /\ "float" \in {t.kind, u.kind}
  <2>1. ArithmeticType(t, u) = Basic("float")
    BY <1>4 DEF ArithmeticType
  <2>2. Rank(t) <= 3 /\ Rank(u) <= 3 /\ (Rank(t) = 3 \/ Rank(u) = 3)
    BY <1>1, <1>4, RankIs
  <2>3. Common(t, u) = Basic(Ranks[3])
    BY <2>2, RankIs DEF Common
  <2> QED BY <1>2, <2>1, <2>3
<1>5. CASE "double" \notin {t.kind, u.kind} /\ "float" \notin {t.kind, u.kind} /\ "long" \in {t.kind, u.kind}
  <2>1. ArithmeticType(t, u) = Basic("long")
    BY <1>5 DEF ArithmeticType, LongType
  <2>2. Rank(t) <= 2 /\ Rank(u) <= 2 /\ (Rank(t) = 2 \/ Rank(u) = 2)
    BY <1>1, <1>5, RankIs
  <2>3. Common(t, u) = Basic(Ranks[2])
    BY <2>2, RankIs DEF Common
  <2> QED BY <1>2, <2>1, <2>3
<1>6. CASE {"double", "float", "long"} \intersect {t.kind, u.kind} = {}
  <2>1. ArithmeticType(t, u) = Basic("int")
    BY <1>6 DEF ArithmeticType, IntType
  <2>2. Rank(t) = 1 /\ Rank(u) = 1
    BY <1>1, <1>6, RankIs
  <2>3. Common(t, u) = Basic(Ranks[1])
    BY <2>2, RankIs DEF Common
  <2> QED BY <1>2, <2>1, <2>3
<1> QED BY <1>3, <1>4, <1>5, <1>6

LEMMA CommonIs ==
  ASSUME NEW t, NEW u, IsNumeric(t), IsNumeric(u)
  PROVE  /\ IsNumeric(Common(t, u))
         /\ Promoted(Common(t, u)) = Common(t, u)
         /\ Rank(t) >= Rank(u) => Common(t, u) = Promoted(t)
         /\ \A v, w : IsNumeric(v) /\ IsNumeric(w) /\ Rank(v) = Rank(t) /\ Rank(w) = Rank(u)
                => Common(v, w) = Common(t, u)
<1>1. Rank(t) \in 1 .. 4 /\ Rank(u) \in 1 .. 4
  BY RankIs
<1>2. Common(t, u) = Promoted(t) \/ Common(t, u) = Promoted(u)
  BY <1>1, PromotedNumber DEF Common
<1>3. \A v : IsNumeric(v) => IsNumeric(Promoted(v)) /\ Promoted(Promoted(v)) = Promoted(v)
  BY PromotedNumber
<1>4. Rank(t) >= Rank(u) => Common(t, u) = Promoted(t)
  BY <1>1, PromotedNumber DEF Common
<1>5. \A v, w : IsNumeric(v) /\ IsNumeric(w) /\ Rank(v) = Rank(t) /\ Rank(w) = Rank(u)
                => Common(v, w) = Common(t, u)
  BY DEF Common
<1> QED BY <1>2, <1>3, <1>4, <1>5


-----------------------------------------------------------------------------
(* What the analysis and C agree on.                                        *)

(* The types the analysis gives.                                            *)
Numbers == {Basic(kind) : kind \in {"bool", "int", "long", "float", "double"}}
Known == Declared \union Numbers \union {PointerTo(t) : t \in Declared}

LEMMA KnownTypes ==
  ASSUME NEW t \in Known
  PROVE  /\ t # InvalidType
         /\ IsPointer(t) => Base(t) \in Declared
         /\ t.kind = "function" => /\ Base(t) \in Declared
                                   /\ Len(t.parameters) \in Nat
                                   /\ \A i \in 1 .. Len(t.parameters) : t.parameters[i] \in Declared
<1>1. InvalidType.kind = "invalid"
  BY DEF InvalidType, Basic, Type
<1>2. CASE t \in Declared
  BY <1>1, <1>2, DeclaredAssumption DEF IsPointer
<1>3. CASE t \in Numbers
  <2>1. t.kind \in {"bool", "int", "long", "float", "double"}
    <3>1. \A k : Basic(k).kind = k
      BY DEF Basic, Type
    <3>2. PICK k \in {"bool", "int", "long", "float", "double"} : t = Basic(k)
      BY <1>3 DEF Numbers
    <3> QED BY <3>1, <3>2
  <2> QED BY <1>1, <2>1 DEF IsPointer
<1>4. CASE t \in {PointerTo(u) : u \in Declared}
  <2>1. PICK u \in Declared : t = PointerTo(u)
    BY <1>4
  <2>2. t.kind = "pointer" /\ Base(t) = u
    BY <2>1 DEF PointerTo, Type, Base
  <2> QED BY <1>1, <2>2
<1> QED BY <1>2, <1>3, <1>4 DEF Known

LEMMA NumbersAreKnown ==
  /\ BoolType \in Known /\ BoolType.kind = "bool"
  /\ IntType \in Known /\ IntType.kind = "int"
  /\ LongType \in Known /\ LongType.kind = "long"
  /\ Basic("float") \in Known
  /\ Basic("double") \in Known
  /\ Alike(BoolType, Basic("int"))
  /\ IntType = Basic("int") /\ LongType = Basic("long")
<1>1. \A k : Basic(k).kind = k
  BY DEF Basic, Type
<1>2. IsNumeric(BoolType) /\ IsNumeric(Basic("int"))
  BY <1>1 DEF IsNumeric, IsInteger, BoolType
<1>3. Rank(BoolType) = 1 /\ Rank(Basic("int")) = 1
  BY <1>1, <1>2, RankIs DEF BoolType
<1>4. Alike(BoolType, Basic("int"))
  BY <1>2, <1>3, PromotedNumber DEF Alike
<1> QED BY <1>1, <1>4 DEF BoolType, IntType, LongType, Known, Numbers

LEMMA ArithmeticIsKnown ==
  ASSUME NEW t, NEW u
  PROVE  ArithmeticType(t, u) \in Known
BY NumbersAreKnown DEF ArithmeticType

LEMMA AssignableIs ==
  ASSUME NEW t \in Known, NEW u \in Known
  PROVE  Assignable(t, u) <=> t = u \/ (IsNumeric(t) /\ IsNumeric(u)) \/ OneToVoid(t, u)
<1>1. InvalidType \notin {t, u}
  BY KnownTypes
<1> QED BY <1>1 DEF Assignable, OneToVoid, IsObjectPointer

LEMMA CastableIs ==
  ASSUME NEW t \in Known, NEW u \in Known
  PROVE  Castable(t, u) <=>
           \/ t = u
           \/ IsVoid(t)
           \/ IsScalar(t) /\ IsScalar(u)
              /\ ~(IsPointer(t) /\ IsPointer(u) /\ Base(t).kind = "record" /\ Base(u).kind = "record")
<1>1. InvalidType \notin {t, u}
  BY KnownTypes
<1> QED BY <1>1 DEF Castable

(* Both refuse an expression, or both have a type for it.                   *)
Refused(x, answers) == answers = {} /\ x.ok \in BOOLEAN /\ x.said \in Nat /\ x.said > 0

Fits(x, answer) ==
    /\ x.ok = TRUE /\ x.said = 0
    /\ x.type \in Known /\ Alike(x.type, answer.type)
    /\ x.lvalue \in BOOLEAN /\ answer.lvalue \in BOOLEAN
    /\ answer.lvalue => x.lvalue /\ x.type = answer.type
    /\ x.lvalue => x.type \in Declared
    /\ answer.type.kind \notin {"void", "function"} => x.lvalue = answer.lvalue

Agree(x, answers) == Refused(x, answers) \/ \E answer : answers = {answer} /\ Fits(x, answer)

LEMMA ErrorsRefuse ==
  ASSUME NEW said \in Nat, NEW t, NEW p
  PROVE  /\ said > 0 => /\ Refused(GivenUp(said), {})
                        /\ Refused(Typed(t, said), {})
                        /\ Refused(Designating(t, said), {})
                        /\ Refused(TypedIf(p, t, said), {})
                        /\ Refused(Typed(t, said + Unless(p)), {})
         /\ Refused(GivenUp(said + 1), {})
         /\ Unless(p) \in {0, 1}
<1>1. said + 1 \in Nat /\ said + 1 > 0 /\ said + 0 = said
  OBVIOUS
<1>2. Unless(p) \in {0, 1}
  BY DEF Unless
<1>3. \A n \in Nat : n > 0 => Refused(GivenUp(n), {}) /\ Refused(Typed(t, n), {}) /\ Refused(Designating(t, n), {})
  <2> SUFFICES ASSUME NEW n \in Nat, n > 0
               PROVE  Refused(GivenUp(n), {}) /\ Refused(Typed(t, n), {}) /\ Refused(Designating(t, n), {})
    OBVIOUS
  <2>1. GivenUp(n).ok = FALSE /\ GivenUp(n).said = n
    BY DEF GivenUp
  <2>2. Typed(t, n).ok = TRUE /\ Typed(t, n).said = n
    BY DEF Typed
  <2>3. Designating(t, n).ok = TRUE /\ Designating(t, n).said = n
    BY DEF Designating, Typed
  <2> QED BY <2>1, <2>2, <2>3 DEF Refused
<1>4. ASSUME said > 0 PROVE Refused(TypedIf(p, t, said), {})
  BY <1>1, <1>3, <1>4 DEF TypedIf
<1>5. ASSUME said > 0 PROVE Refused(Typed(t, said + Unless(p)), {})
  BY <1>1, <1>2, <1>3, <1>5
<1>6. Refused(GivenUp(said + 1), {})
  BY <1>1, <1>3
<1>7. ASSUME said > 0
      PROVE  Refused(GivenUp(said), {}) /\ Refused(Typed(t, said), {}) /\ Refused(Designating(t, said), {})
  BY <1>3, <1>7
<1> QED BY <1>2, <1>4, <1>5, <1>6, <1>7

(* An answer that is no lvalue.                                             *)
LEMMA ValueFits ==
  ASSUME NEW t \in Known, NEW u, Alike(t, u)
  PROVE  Fits(Typed(t, 0), [type |-> u, lvalue |-> FALSE])
<1> DEFINE x == Typed(t, 0)
           a == [type |-> u, lvalue |-> FALSE]
<1>1. x.ok = TRUE /\ x.said = 0 /\ x.lvalue = FALSE /\ x.type = t
  BY DEF Typed
<1>2. a.type = u /\ a.lvalue = FALSE
  OBVIOUS
<1> HIDE DEF x, a
<1>3. Fits(x, a)
  BY <1>1, <1>2 DEF Fits
<1> QED BY <1>3 DEF x, a

LEMMA ResultAgrees ==
  ASSUME NEW p \in BOOLEAN, NEW t, NEW u, p => t \in Known /\ Alike(t, u)
  PROVE  Agree(TypedIf(p, t, 0), If(p, u))
<1>1. CASE p
  <2>1. TypedIf(p, t, 0) = Typed(t, 0) /\ If(p, u) = {[type |-> u, lvalue |-> FALSE]}
    BY <1>1 DEF TypedIf, If
  <2>2. Fits(Typed(t, 0), [type |-> u, lvalue |-> FALSE])
    BY <1>1, ValueFits
  <2> QED BY <2>1, <2>2 DEF Agree
<1>2. CASE ~p
  <2>1. TypedIf(p, t, 0) = GivenUp(1) /\ If(p, u) = {}
    BY <1>2 DEF TypedIf, If
  <2>2. Refused(GivenUp(0 + 1), {})
    BY ErrorsRefuse
  <2> QED BY <2>1, <2>2 DEF Agree
<1> QED BY <1>1, <1>2

LEMMA ComplaintAgrees ==
  ASSUME NEW p \in BOOLEAN, NEW t \in Known, NEW u, Alike(t, u)
  PROVE  Agree(Typed(t, 0 + Unless(p)), If(p, u))
<1>1. CASE p
  <2>1. Unless(p) = 0 /\ If(p, u) = {[type |-> u, lvalue |-> FALSE]}
    BY <1>1 DEF Unless, If
  <2>2. Fits(Typed(t, 0), [type |-> u, lvalue |-> FALSE])
    BY ValueFits
  <2>3. 0 + Unless(p) = 0
    BY <2>1
  <2> QED BY <2>1, <2>2, <2>3 DEF Agree
<1>2. CASE ~p
  <2>1. Unless(p) = 1 /\ If(p, u) = {}
    BY <1>2 DEF Unless, If
  <2>2. Refused(Typed(t, 1), {})
    BY ErrorsRefuse
  <2>3. 0 + Unless(p) = 1
    BY <2>1
  <2> QED BY <2>1, <2>2, <2>3 DEF Agree
<1> QED BY <1>1, <1>2

(* An object behind a pointer, or a name's.                                 *)
LEMMA PlaceAgrees ==
  ASSUME NEW t \in Declared
  PROVE  Agree(Designating(t, 0), Lval(t))
<1> DEFINE a == [type |-> t, lvalue |-> t.kind \notin {"void", "function"}]
<1>1. Lval(t) = {a}
  BY DEF Lval
<1>2. a.type = t /\ a.lvalue = (t.kind \notin {"void", "function"})
  OBVIOUS
<1> HIDE DEF a
<1>3. t \in Known /\ Alike(t, t)
  BY DEF Known, Alike
<1> DEFINE x == Designating(t, 0)
<1>4. x.ok = TRUE /\ x.said = 0 /\ x.lvalue = TRUE /\ x.type = t
  BY DEF Designating, Typed
<1> HIDE DEF x
<1>5. ASSUME t.kind \in {"void", "function"} PROVE Fits(x, a)
  <2>1. a.lvalue = FALSE
    BY <1>2, <1>5
  <2> QED BY <1>2, <1>3, <1>4, <1>5, <2>1 DEF Fits
<1>6. ASSUME t.kind \notin {"void", "function"} PROVE Fits(x, a)
  <2>1. a.lvalue = TRUE
    BY <1>2, <1>6
  <2> QED BY <1>2, <1>3, <1>4, <1>6, <2>1 DEF Fits
<1>7. Fits(x, a)
  BY <1>5, <1>6
<1> QED BY <1>1, <1>7 DEF Agree, x


-----------------------------------------------------------------------------
(* Operators, on operands for which the analysis fits C's answer.  Each     *)
(* lemma assumes that the operator does not depart from C on them.          *)

LEMMA FitsIs ==
  ASSUME NEW x, NEW a, Fits(x, a)
  PROVE  /\ x.ok = TRUE /\ x.said = 0
         /\ x.type \in Known /\ Alike(x.type, a.type)
         /\ IsNumeric(x.type) <=> IsNumeric(a.type)
         /\ IsInteger(x.type) <=> IsInteger(a.type)
         /\ IsFloating(x.type) <=> IsFloating(a.type)
         /\ IsPointer(x.type) <=> IsPointer(a.type)
         /\ IsScalar(x.type) <=> IsScalar(a.type)
         /\ IsComplete(x.type) <=> IsComplete(a.type)
         /\ IsNumeric(x.type) => Rank(x.type) = Rank(a.type)
         /\ ~IsNumeric(x.type) => x.type = a.type
         /\ a.type.kind # "function" => Decayed(a.type) = a.type
<1>1. Alike(x.type, a.type)
  BY DEF Fits
<1> QED BY <1>1, AlikeTypes DEF Fits, Decayed

LEMMA AddressAgrees ==
  ASSUME NEW e, e.text = "ampersand",
         NEW x, NEW a, Fits(x, a),
         a.type.kind # "function",
         IsStar(e.kids[1]) => x.lvalue,
         IsVoid(a.type) => IsStar(e.kids[1])
  PROVE  Agree(AnalyzeUnary(e.text, x), OfUnary(e, a))
<1> DEFINE q == a.lvalue \/ IsStar(e.kids[1])
<1>1. AnalyzeUnary(e.text, x) = AnalyzeAddress(x)
  BY FitsIs DEF AnalyzeUnary, Steps, Sizes
<1>2. OfUnary(e, a) = If(q, PointerTo(a.type))
  <2>1. q <=> \/ a.lvalue \/ a.type.kind = "function"
              \/ e.kids[1].kind = "unary" /\ e.kids[1].text = "star"
    BY DEF IsStar
  <2> QED BY <2>1 DEF OfUnary, If, Steps, Sizes
<1>3. x.lvalue \in BOOLEAN /\ a.lvalue \in BOOLEAN
  BY DEF Fits
<1>4. x.lvalue <=> q
  BY <1>3 DEF Fits, IsVoid
<1>5. x.lvalue => PointerTo(x.type) \in Known /\ Alike(PointerTo(x.type), PointerTo(a.type))
  <2>1. ASSUME x.lvalue PROVE x.type \in Declared /\ x.type = a.type
    <3>1. x.type \in Declared
      BY <2>1 DEF Fits
    <3>2. CASE a.lvalue
      BY <3>1, <3>2 DEF Fits
    <3>3. CASE ~a.lvalue
      <4>1. IsVoid(a.type)
        BY <1>3, <2>1, <3>3 DEF Fits, IsVoid
      <4> QED BY <3>1, <4>1, FitsIs, Kinds
    <3> QED BY <1>3, <3>2, <3>3
  <2> QED BY <2>1 DEF Known, Alike
<1>6. AnalyzeAddress(x) = TypedIf(x.lvalue, PointerTo(x.type), 0)
  BY FitsIs DEF AnalyzeAddress
<1>7. OfUnary(e, a) = If(x.lvalue, PointerTo(a.type))
  BY <1>2, <1>4 DEF If
<1> QED BY <1>1, <1>3, <1>5, <1>6, <1>7, ResultAgrees

LEMMA StarAgrees ==
  ASSUME NEW e, e.text = "star",
         NEW x, NEW a, Fits(x, a),
         a.type.kind # "function"
  PROVE  /\ Agree(AnalyzeUnary(e.text, x), OfUnary(e, a))
         /\ OfUnary(e, a) # {} => AnalyzeUnary(e.text, x).lvalue
<1>1. x.ok = TRUE /\ x.said = 0 /\ Decayed(a.type) = a.type /\ x.type \in Known
  BY FitsIs
<1>2. CASE IsPointer(x.type)
  <2>1. x.type = a.type /\ Base(x.type) \in Declared
    BY <1>1, <1>2, FitsIs, KnownTypes, Kinds
  <2>2. AnalyzeUnary(e.text, x) = Designating(Base(x.type), 0)
    BY <1>1, <1>2 DEF AnalyzeUnary, Steps, Sizes
  <2>3. OfUnary(e, a) = Lval(Base(x.type))
    BY <1>1, <1>2, <2>1 DEF OfUnary, Steps, Sizes
  <2>4. Designating(Base(x.type), 0).lvalue
    BY DEF Designating, Typed
  <2> QED BY <2>1, <2>2, <2>3, <2>4, PlaceAgrees
<1>3. CASE ~IsPointer(x.type)
  <2>1. AnalyzeUnary(e.text, x) = GivenUp(0 + 1)
    BY <1>1, <1>3 DEF AnalyzeUnary, Steps, Sizes
  <2>2. OfUnary(e, a) = {}
    BY <1>1, <1>3, FitsIs DEF OfUnary, Steps, Sizes
  <2>3. Refused(GivenUp(0 + 1), {})
    BY ErrorsRefuse
  <2> QED BY <2>1, <2>2, <2>3 DEF Agree
<1> QED BY <1>2, <1>3

LEMMA StepAgrees ==
  ASSUME NEW e, e.text \in Steps,
         NEW x, NEW a, Fits(x, a),
         a.type.kind # "function",
         IsPointer(a.type) => ToComplete(a.type)
  PROVE  Agree(AnalyzeUnary(e.text, x), OfUnary(e, a))
<1> DEFINE p == x.lvalue /\ IsScalar(x.type)
<1>1. x.ok = TRUE /\ x.said = 0 /\ Decayed(a.type) = a.type /\ x.type \in Known /\ Alike(x.type, a.type)
  BY FitsIs
<1>2. AnalyzeUnary(e.text, x) = TypedIf(p, x.type, 0)
  BY <1>1 DEF AnalyzeUnary, Steps, Sizes
<1>3. OfUnary(e, a) = If(a.lvalue /\ (IsNumeric(a.type) \/ ToComplete(a.type)), a.type)
  BY <1>1 DEF OfUnary, Steps, Sizes
<1>4. p <=> a.lvalue /\ (IsNumeric(a.type) \/ ToComplete(a.type))
  <2>1. IsScalar(x.type) <=> IsNumeric(a.type) \/ ToComplete(a.type)
    BY FitsIs, Kinds DEF ToComplete
  <2>2. IsScalar(x.type) => a.type.kind \notin {"void", "function"}
    BY FitsIs, Kinds DEF IsVoid
  <2> QED BY <2>1, <2>2 DEF Fits
<1>5. OfUnary(e, a) = If(p, a.type)
  BY <1>3, <1>4 DEF If
<1> QED BY <1>1, <1>2, <1>5, ResultAgrees

(* The operators on values.                                                 *)
LEMMA ValueOperatorAgrees ==
  ASSUME NEW e, e.text \in {"bang", "tilde", "plus", "minus"},
         NEW x, NEW a, Fits(x, a),
         a.type.kind # "function"
  PROVE  Agree(AnalyzeUnary(e.text, x), OfUnary(e, a))
<1>1. x.ok = TRUE /\ x.said = 0 /\ Decayed(a.type) = a.type /\ x.type \in Known
  BY FitsIs
<1>2. CASE e.text = "bang"
  <2>1. AnalyzeUnary(e.text, x) = Typed(BoolType, 0 + Unless(IsScalar(x.type)))
    BY <1>1, <1>2 DEF AnalyzeUnary, Steps, Sizes
  <2>2. OfUnary(e, a) = If(IsScalar(x.type), Basic("int"))
    BY <1>1, <1>2, FitsIs DEF OfUnary, If, Steps, Sizes
  <2>3. IsScalar(x.type) \in BOOLEAN
    BY DEF IsScalar
  <2> QED BY <2>1, <2>2, <2>3, ComplaintAgrees, NumbersAreKnown
<1>3. ASSUME NEW p \in BOOLEAN, p => IsNumeric(x.type),
             AnalyzeUnary(e.text, x) = TypedIf(p, x.type, 0), OfUnary(e, a) = If(p, Promoted(a.type))
      PROVE  Agree(AnalyzeUnary(e.text, x), OfUnary(e, a))
  <2>1. ASSUME p PROVE Alike(x.type, Promoted(a.type))
    <3>1. IsNumeric(a.type) /\ Alike(x.type, a.type)
      BY <1>3, <2>1, FitsIs
    <3>2. IsNumeric(Promoted(a.type)) /\ Rank(Promoted(a.type)) = Rank(a.type)
      BY <3>1, PromotedNumber
    <3>3. Promoted(Promoted(a.type)) = Promoted(a.type)
      BY <3>1, <3>2, PromotedNumber
    <3> QED BY <3>1, <3>3 DEF Alike
  <2> QED BY <1>1, <1>3, <2>1, ResultAgrees
<1>4. CASE e.text = "tilde"
  <2>1. AnalyzeUnary(e.text, x) = TypedIf(IsInteger(x.type), x.type, 0)
    BY <1>1, <1>4 DEF AnalyzeUnary, Steps, Sizes
  <2>2. OfUnary(e, a) = If(IsInteger(x.type), Promoted(a.type))
    BY <1>1, <1>4, FitsIs DEF OfUnary, If, Steps, Sizes
  <2>3. IsInteger(x.type) \in BOOLEAN
    BY DEF IsInteger
  <2> QED BY <1>3, <2>1, <2>2, <2>3, Kinds
<1>5. CASE e.text \in {"plus", "minus"}
  <2>1. AnalyzeUnary(e.text, x) = TypedIf(IsNumeric(x.type), x.type, 0)
    BY <1>1, <1>5 DEF AnalyzeUnary, Steps, Sizes
  <2>2. OfUnary(e, a) = If(IsNumeric(x.type), Promoted(a.type))
    BY <1>1, <1>5, FitsIs DEF OfUnary, If, Steps, Sizes
  <2>3. IsNumeric(x.type) \in BOOLEAN
    BY DEF IsNumeric
  <2> QED BY <1>3, <2>1, <2>2, <2>3
<1> QED BY <1>2, <1>4, <1>5

LEMMA SizeAgrees ==
  ASSUME NEW e, e.text \in Sizes,
         NEW x, NEW a, Fits(x, a),
         a.type.kind # "function"
  PROVE  Agree(AnalyzeUnary(e.text, x), OfUnary(e, a))
<1>1. x.ok = TRUE /\ x.said = 0
  BY FitsIs
<1>2. AnalyzeUnary(e.text, x) = TypedIf(IsComplete(x.type), LongType, 0)
  <2>1. 2 * x.said = 0
    BY <1>1
  <2> QED BY <1>1, <2>1 DEF AnalyzeUnary, Sizes, Steps
<1>3. OfUnary(e, a) = If(IsComplete(x.type), Basic("long"))
  BY FitsIs DEF OfUnary, Sizes, Steps, If
<1>4. IsComplete(x.type) \in BOOLEAN
  BY DEF IsComplete
<1> QED BY <1>2, <1>3, <1>4, ResultAgrees, NumbersAreKnown DEF Alike


(* Assignments.                                                             *)
LEMMA UnderlyingIs ==
  ASSUME NEW op \in Assignments \ {"="}, NEW t, NEW u,
         IsNumeric(t), IsNumeric(u),
         op \in {"%=", "<<=", ">>=", "&=", "^=", "|="} => ~IsFloating(t) /\ ~IsFloating(u)
  PROVE  \E result \in OfBinary(Underlying[op], t, u) : CAssignable(t, result.type)
<1> DEFINE under == Underlying[op]
<1>1. under = CASE op = "+=" -> "+" [] op = "-=" -> "-" [] op = "*=" -> "*" [] op = "/=" -> "/" [] op = "%=" -> "%"
      [] op = "<<=" -> "<<" [] op = ">>=" -> ">>" [] op = "&=" -> "&" [] op = "^=" -> "^" [] op = "|=" -> "|"
  BY DEF Underlying
<1>2. op \in {"+=", "-=", "*=", "/=", "%=", "<<=", ">>=", "&=", "^=", "|="}
  BY DEF Assignments
<1>3. under \in {"+", "-", "*", "/", "%", "<<", ">>", "&", "^", "|"}
  BY <1>1, <1>2
<1>4. under \in {"%", "<<", ">>", "&", "^", "|"} => op \in {"%=", "<<=", ">>=", "&=", "^=", "|="}
  BY <1>1, <1>2
<1> HIDE DEF under
<1>5. ~IsPointer(t) /\ ~IsPointer(u)
  BY Kinds
<1>6. \A v : IsNumeric(v) => CAssignable(t, v)
  BY Kinds DEF CAssignable
<1>7. ASSUME NEW v, IsNumeric(v), If(TRUE, v) \subseteq OfBinary(under, t, u)
      PROVE  \E result \in OfBinary(under, t, u) : CAssignable(t, result.type)
  <2> DEFINE answer == [type |-> v, lvalue |-> FALSE]
  <2>1. answer \in OfBinary(under, t, u) /\ answer.type = v
    BY <1>7 DEF If
  <2> HIDE DEF answer
  <2> QED BY <1>6, <1>7, <2>1
<1>8. IsNumeric(Common(t, u)) /\ IsNumeric(Promoted(t))
  BY CommonIs, PromotedNumber
<1>9. CASE under \in {"+", "-"}
  <2>1. OfBinary(under, t, u) = Additive(under, t, u)
    BY <1>9 DEF OfBinary, Comparisons
  <2>2. If(TRUE, Common(t, u)) \subseteq Additive(under, t, u)
    BY DEF Additive, If
  <2> QED BY <1>7, <1>8, <2>1, <2>2 DEF under
<1>10. CASE under \in {"*", "/"}
  <2>1. OfBinary(under, t, u) = If(TRUE, Common(t, u))
    BY <1>10 DEF OfBinary, Comparisons, If
  <2> QED BY <1>7, <1>8, <2>1 DEF under
<1>11. CASE under \in {"%", "<<", ">>", "&", "^", "|"}
  <2>1. IsInteger(t) /\ IsInteger(u)
    BY <1>4, <1>11, Kinds
  <2>2. CASE under \in {"<<", ">>"}
    <3>1. OfBinary(under, t, u) = If(TRUE, Promoted(t))
      BY <2>1, <2>2 DEF OfBinary, Comparisons, If
    <3> QED BY <1>7, <1>8, <3>1 DEF under
  <2>3. CASE under \in {"%", "&", "^", "|"}
    <3>1. OfBinary(under, t, u) = If(TRUE, Common(t, u))
      BY <2>1, <2>3 DEF OfBinary, Comparisons, If
    <3> QED BY <1>7, <1>8, <3>1 DEF under
  <2> QED BY <1>11, <2>2, <2>3
<1> QED BY <1>3, <1>9, <1>10, <1>11

(* What may be assigned to an object of a complete type.                    *)
LEMMA ConversionAgrees ==
  ASSUME NEW t \in Known, NEW u \in Known, NEW v, NEW w, Alike(t, v), Alike(u, w),
         IsComplete(v), ~(v.kind = "bool" /\ IsPointer(w))
  PROVE  Assignable(t, u) <=> CAssignable(v, w)
<1>1. Assignable(t, u) <=> t = u \/ (IsNumeric(t) /\ IsNumeric(u)) \/ OneToVoid(t, u)
  BY AssignableIs
<1>2. CAssignable(v, w) <=> v = w \/ (IsNumeric(v) /\ IsNumeric(w)) \/ OneToVoid(v, w)
  BY DEF CAssignable
<1>3. CASE IsNumeric(v) /\ IsNumeric(w)
  BY <1>1, <1>2, <1>3, AlikeTypes
<1>4. CASE ~IsNumeric(v) /\ ~IsNumeric(w)
  BY <1>1, <1>2, <1>4, AlikeTypes
<1>5. CASE ~(IsNumeric(v) <=> IsNumeric(w))
  <2>1. v # w /\ t # u
    BY <1>5, AlikeTypes
  <2>2. ~OneToVoid(v, w) /\ ~OneToVoid(t, u)
    BY <1>5, AlikeTypes, Kinds DEF OneToVoid, IsObjectPointer
  <2> QED BY <1>1, <1>2, <1>5, <2>1, <2>2, AlikeTypes
<1> QED BY <1>3, <1>4, <1>5

LEMMA AssignmentAgrees ==
  ASSUME NEW op \in Assignments,
         NEW x, NEW a, Fits(x, a), NEW y, NEW b, Fits(y, b),
         ~DepartsInAssignment(op, a.type, b.type)
  PROVE  Agree(AnalyzeBinary(op, x, y), OfAssignment(op, a, b.type))
<1> DEFINE p == x.lvalue /\ Assignable(x.type, y.type)
           q == /\ a.lvalue /\ CAssignable(a.type, IF op = "=" THEN b.type ELSE a.type)
                /\ op # "=" => \E result \in OfBinary(Underlying[op], a.type, b.type) :
                                   CAssignable(a.type, result.type)
<1>1. x.ok = TRUE /\ y.ok = TRUE /\ x.said = 0 /\ y.said = 0
      /\ x.type \in Known /\ y.type \in Known /\ Alike(x.type, a.type)
  BY FitsIs
<1>2. AnalyzeBinary(op, x, y) = TypedIf(p, x.type, 0)
  <2>1. x.said + y.said = 0
    BY <1>1
  <2> QED BY <1>1, <2>1 DEF AnalyzeBinary, Assignments, Comparisons, BitOperators
<1>3. OfAssignment(op, a, b.type) = If(q, a.type)
  BY DEF OfAssignment
<1>4. IsComplete(a.type) /\ x.lvalue = a.lvalue
  <2>1. IsComplete(a.type)
    BY DEF DepartsInAssignment
  <2> QED BY <2>1, Kinds DEF Fits
<1>5. Assignable(x.type, y.type) <=> CAssignable(a.type, b.type)
  <2>1. ~(a.type.kind = "bool" /\ IsPointer(b.type))
    BY DEF DepartsInAssignment
  <2> QED BY <1>1, <1>4, <2>1, ConversionAgrees, FitsIs
<1>6. ASSUME op = "=" PROVE p <=> q
  <2>1. q <=> a.lvalue /\ CAssignable(a.type, b.type)
    BY <1>6
  <2>2. p <=> q
    BY <1>4, <1>5, <2>1
  <2> HIDE DEF p, q
  <2> QED BY <2>2
<1>7. ASSUME op # "=" PROVE p <=> q
  <2>1. IsNumeric(a.type) /\ IsNumeric(b.type)
    BY <1>7 DEF DepartsInAssignment
  <2>2. CAssignable(a.type, a.type)
    BY <1>4 DEF CAssignable
  <2>3. \E result \in OfBinary(Underlying[op], a.type, b.type) : CAssignable(a.type, result.type)
    BY <1>7, <2>1, UnderlyingIs DEF DepartsInAssignment
  <2>4. CAssignable(a.type, b.type)
    BY <1>4, <2>1 DEF CAssignable
  <2> QED BY <1>4, <1>5, <1>7, <2>2, <2>3, <2>4
<1>8. p <=> q
  BY <1>6, <1>7
<1>9. p \in BOOLEAN
  BY DEF Fits, Assignable, IsNumeric, IsPointer
<1> HIDE DEF p, q
<1>10. OfAssignment(op, a, b.type) = If(p, a.type)
  BY <1>3, <1>8 DEF If
<1> QED BY <1>1, <1>2, <1>9, <1>10, ResultAgrees


(* The other operators on two operands.                                     *)
LEMMA CommonAgrees ==
  ASSUME NEW x, NEW a, Fits(x, a), NEW y, NEW b, Fits(y, b),
         IsNumeric(a.type), IsNumeric(b.type)
  PROVE  /\ ArithmeticType(x.type, y.type) \in Known
         /\ Alike(ArithmeticType(x.type, y.type), Common(a.type, b.type))
<1>1. IsNumeric(x.type) /\ IsNumeric(y.type) /\ Rank(x.type) = Rank(a.type) /\ Rank(y.type) = Rank(b.type)
  BY FitsIs
<1>2. ArithmeticType(x.type, y.type) = Common(a.type, b.type)
  BY <1>1, ArithmeticIsCommon, CommonIs
<1> QED BY <1>2, ArithmeticIsKnown DEF Alike

LEMMA LogicAgrees ==
  ASSUME NEW op \in {"&&", "||"} \union Comparisons,
         NEW x, NEW a, Fits(x, a), NEW y, NEW b, Fits(y, b),
         ~DepartsInOperator(op, a.type, b.type)
  PROVE  Agree(AnalyzeBinary(op, x, y), OfBinary(op, a.type, b.type))
<1> DEFINE p == IsScalar(x.type) /\ IsScalar(y.type)
<1>1. x.ok = TRUE /\ y.ok = TRUE /\ x.said + y.said = 0
  <2>1. x.said = 0 /\ y.said = 0
    BY FitsIs
  <2>2. x.said + y.said = 0
    BY <2>1
  <2> QED BY <2>2, FitsIs
<1>2. AnalyzeBinary(op, x, y) = Typed(BoolType, 0 + Unless(p))
  BY <1>1 DEF AnalyzeBinary, Assignments, Comparisons, BitOperators
<1>3. p <=> IsScalar(a.type) /\ IsScalar(b.type)
  BY FitsIs
<1>4. CASE op \in {"&&", "||"}
  <2>1. OfBinary(op, a.type, b.type) = If(p, Basic("int"))
    BY <1>3, <1>4 DEF OfBinary, Comparisons, If
  <2>2. p \in BOOLEAN
    BY DEF IsScalar
  <2> HIDE DEF p
  <2> QED BY <1>2, <2>1, <2>2, ComplaintAgrees, NumbersAreKnown
<1>5. CASE op \in Comparisons
  <2>1. OfBinary(op, a.type, b.type) = If(Comparable(op, a.type, b.type), Basic("int"))
    BY <1>5 DEF OfBinary, Comparisons
  <2>2. Comparable(op, a.type, b.type) => p
    BY <1>3, Kinds DEF Comparable, OneToVoid, IsObjectPointer
  <2>3. p => Comparable(op, a.type, b.type)
    <3>1. ASSUME p, ~IsPointer(a.type), ~IsPointer(b.type) PROVE Comparable(op, a.type, b.type)
      BY <1>3, <3>1, Kinds DEF Comparable
    <3>2. ASSUME IsPointer(a.type) \/ IsPointer(b.type) PROVE Comparable(op, a.type, b.type)
      BY <1>5, <3>2 DEF DepartsInOperator
    <3> QED BY <3>1, <3>2
  <2>4. p \in BOOLEAN
    BY DEF IsScalar
  <2>5. OfBinary(op, a.type, b.type) = If(p, Basic("int"))
    BY <2>1, <2>2, <2>3 DEF If
  <2> HIDE DEF p
  <2> QED BY <1>2, <2>4, <2>5, ComplaintAgrees, NumbersAreKnown
<1> QED BY <1>4, <1>5

LEMMA SumAgrees ==
  ASSUME NEW op \in {"+", "-"},
         NEW x, NEW a, Fits(x, a), NEW y, NEW b, Fits(y, b),
         ~DepartsInOperator(op, a.type, b.type)
  PROVE  Agree(AnalyzeBinary(op, x, y), OfBinary(op, a.type, b.type))
<1> DEFINE sums == PointerSum(op, x.type, y.type)
           numbers == IsNumeric(x.type) /\ IsNumeric(y.type)
           answers == OfBinary(op, a.type, b.type)
<1>1. x.ok = TRUE /\ y.ok = TRUE /\ x.said + y.said = 0 /\ x.type \in Known /\ y.type \in Known
  <2>1. x.said = 0 /\ y.said = 0
    BY FitsIs
  <2>2. x.said + y.said = 0
    BY <2>1
  <2> QED BY <2>2, FitsIs
<1>2. AnalyzeBinary(op, x, y) =
        IF sums # {} THEN Typed(CHOOSE t \in sums : TRUE, 0)
        ELSE TypedIf(numbers, ArithmeticType(x.type, y.type), 0)
  <2>1. AnalyzeBinary(op, x, y) =
          IF sums # {} THEN Typed(CHOOSE t \in sums : TRUE, x.said + y.said)
          ELSE TypedIf(numbers, ArithmeticType(x.type, y.type), x.said + y.said)
    BY <1>1 DEF AnalyzeBinary, Assignments, Comparisons, BitOperators
  <2> QED BY <1>1, <2>1
<1>3. answers = Additive(op, a.type, b.type)
  BY DEF OfBinary, Comparisons
<1>4. /\ IsPointer(a.type) => ToComplete(a.type) /\ x.type = a.type
      /\ IsPointer(b.type) => ToComplete(b.type) /\ y.type = b.type
  BY FitsIs, Kinds DEF DepartsInOperator
<1>5. ~(op = "-" /\ ToComplete(a.type) /\ a.type = b.type)
  BY DEF DepartsInOperator, ToComplete
<1>6. CASE IsNumeric(a.type) /\ IsNumeric(b.type)
  <2>1. ~IsPointer(a.type) /\ ~IsPointer(b.type) /\ ~IsPointer(x.type) /\ ~IsPointer(y.type) /\ numbers
    BY <1>6, FitsIs, Kinds
  <2>2. sums = {}
    BY <2>1 DEF PointerSum
  <2>3. answers = If(TRUE, Common(a.type, b.type))
    BY <1>3, <1>6, <2>1 DEF Additive, ToComplete, If
  <2>4. AnalyzeBinary(op, x, y) = TypedIf(TRUE, ArithmeticType(x.type, y.type), 0)
    BY <1>2, <2>1, <2>2
  <2> QED BY <1>6, <2>3, <2>4, CommonAgrees, ResultAgrees
<1>7. CASE IsPointer(a.type) /\ IsInteger(b.type)
  <2>1. IsPointer(x.type) /\ IsInteger(y.type) /\ ~IsNumeric(a.type) /\ ~IsPointer(b.type) /\ ~IsInteger(a.type)
    BY <1>7, FitsIs, Kinds
  <2>2. sums = {x.type}
    BY <2>1 DEF PointerSum
  <2>3. answers = If(TRUE, a.type)
    BY <1>3, <1>4, <1>5, <1>7, <2>1 DEF Additive, ToComplete, If
  <2>4. AnalyzeBinary(op, x, y) = TypedIf(TRUE, x.type, 0)
    BY <1>2, <2>2 DEF TypedIf
  <2> QED BY <1>1, <2>3, <2>4, ResultAgrees, FitsIs
<1>8. CASE op = "+" /\ IsInteger(a.type) /\ IsPointer(b.type)
  <2>1. IsInteger(x.type) /\ IsPointer(y.type) /\ ~IsNumeric(b.type) /\ ~IsPointer(a.type) /\ ~IsInteger(b.type)
    BY <1>8, FitsIs, Kinds
  <2>2. sums = {y.type}
    BY <1>8, <2>1, FitsIs DEF PointerSum
  <2>3. answers = If(TRUE, b.type)
    BY <1>3, <1>4, <1>8, <2>1 DEF Additive, ToComplete, If
  <2>4. AnalyzeBinary(op, x, y) = TypedIf(TRUE, y.type, 0)
    BY <1>2, <2>2 DEF TypedIf
  <2> QED BY <1>1, <2>3, <2>4, ResultAgrees, FitsIs
<1>9. CASE /\ ~(IsNumeric(a.type) /\ IsNumeric(b.type))
           /\ ~(IsPointer(a.type) /\ IsInteger(b.type))
           /\ ~(op = "+" /\ IsInteger(a.type) /\ IsPointer(b.type))
  <2>1. sums = {} /\ ~numbers
    BY <1>9, FitsIs DEF PointerSum
  <2>2. answers = {}
    BY <1>3, <1>5, <1>9 DEF Additive, ToComplete, If
  <2>3. AnalyzeBinary(op, x, y) = GivenUp(0 + 1)
    BY <1>2, <2>1 DEF TypedIf
  <2>4. Refused(GivenUp(0 + 1), {})
    BY ErrorsRefuse
  <2> QED BY <2>2, <2>3, <2>4 DEF Agree
<1> QED BY <1>6, <1>7, <1>8, <1>9

LEMMA CommaAgrees ==
  ASSUME NEW x, NEW a, Fits(x, a), NEW y, NEW b, Fits(y, b)
  PROVE  Agree(AnalyzeBinary(",", x, y), OfBinary(",", a.type, b.type))
<1>1. x.ok = TRUE /\ y.ok = TRUE /\ y.type \in Known /\ Alike(y.type, b.type)
  BY FitsIs
<1>2. AnalyzeBinary(",", x, y) = Typed(y.type, x.said + y.said)
  BY <1>1 DEF AnalyzeBinary, Assignments, Comparisons, BitOperators
<1>3. OfBinary(",", a.type, b.type) = If(TRUE, b.type)
  BY DEF OfBinary, Comparisons
<1> DEFINE result == AnalyzeBinary(",", x, y)
           answers == OfBinary(",", a.type, b.type)
<1>4. result = Typed(y.type, x.said + y.said) /\ answers = If(TRUE, b.type)
  BY <1>2, <1>3
<1> HIDE DEF result, answers
<1>5. Agree(result, answers)
  <2>1. x.said = 0 /\ y.said = 0
    BY FitsIs
  <2>2. x.said + y.said = 0
    BY <2>1
  <2>3. result = TypedIf(TRUE, y.type, 0)
    BY <1>4, <2>2 DEF TypedIf
  <2> QED BY <1>1, <1>4, <2>3, ResultAgrees
<1> QED BY <1>5 DEF result, answers

LEMMA ArithmeticAgrees ==
  ASSUME NEW op \in BitOperators \union {"*", "/"},
         NEW x, NEW a, Fits(x, a), NEW y, NEW b, Fits(y, b),
         ~DepartsInOperator(op, a.type, b.type)
  PROVE  Agree(AnalyzeBinary(op, x, y), OfBinary(op, a.type, b.type))
<1>1. x.ok = TRUE /\ y.ok = TRUE /\ x.said + y.said = 0 /\ x.type \in Known /\ y.type \in Known
  <2>1. x.said = 0 /\ y.said = 0
    BY FitsIs
  <2>2. x.said + y.said = 0
    BY <2>1
  <2> QED BY <2>2, FitsIs
<1>2. \A t : IsNumeric(t) \in BOOLEAN /\ IsInteger(t) \in BOOLEAN
  BY DEF IsNumeric, IsInteger, IsFloating
<1>3. CASE op \in {"*", "/"}
  <2> DEFINE p == IsNumeric(x.type) /\ IsNumeric(y.type)
  <2>1. AnalyzeBinary(op, x, y) = TypedIf(p, ArithmeticType(x.type, y.type), 0)
    BY <1>1, <1>3 DEF AnalyzeBinary, Assignments, Comparisons, BitOperators
  <2>2. p <=> IsNumeric(a.type) /\ IsNumeric(b.type)
    BY FitsIs
  <2>3. OfBinary(op, a.type, b.type) = If(p, Common(a.type, b.type))
    BY <1>3, <2>2 DEF OfBinary, Comparisons, If
  <2>4. p \in BOOLEAN
    BY <1>2
  <2> HIDE DEF p
  <2> QED BY <2>1, <2>2, <2>3, <2>4, CommonAgrees, ResultAgrees
<1>4. CASE op \in BitOperators
  <2> DEFINE p == IsInteger(x.type) /\ IsInteger(y.type)
  <2>1. AnalyzeBinary(op, x, y) = TypedIf(p, ArithmeticType(x.type, y.type), 0)
    BY <1>1, <1>4 DEF AnalyzeBinary, Assignments, Comparisons, BitOperators
  <2>2. p <=> IsInteger(a.type) /\ IsInteger(b.type)
    BY FitsIs
  <2>3. OfBinary(op, a.type, b.type) = If(p, Common(a.type, b.type))
    <3>1. CASE op \in {"<<", ">>"}
      <4>1. OfBinary(op, a.type, b.type) = If(p, Promoted(a.type))
        BY <2>2, <3>1 DEF OfBinary, Comparisons, If
      <4>2. ASSUME p PROVE Common(a.type, b.type) = Promoted(a.type)
        <5>1. IsNumeric(a.type) /\ IsNumeric(b.type)
          BY <2>2, <4>2, Kinds
        <5>2. ~(Rank(b.type) > Rank(a.type))
          BY <2>2, <3>1, <4>2 DEF DepartsInOperator
        <5>3. Rank(a.type) \in 1 .. 4 /\ Rank(b.type) \in 1 .. 4
          BY <5>1, RankIs
        <5>4. Rank(a.type) >= Rank(b.type)
          BY <5>2, <5>3
        <5> QED BY <5>1, <5>4, CommonIs
      <4> QED BY <4>1, <4>2 DEF If
    <3>2. CASE op \in {"%", "&", "|", "^"}
      BY <2>2, <3>2 DEF OfBinary, Comparisons, If
    <3> QED BY <1>4, <3>1, <3>2 DEF BitOperators
  <2>4. p \in BOOLEAN
    BY <1>2
  <2>5. p => IsNumeric(a.type) /\ IsNumeric(b.type)
    BY <2>2, Kinds
  <2> HIDE DEF p
  <2> QED BY <2>1, <2>3, <2>4, <2>5, CommonAgrees, ResultAgrees
<1> QED BY <1>3, <1>4

LEMMA OperatorAgrees ==
  ASSUME NEW op \in BinaryOperators \ Assignments,
         NEW x, NEW a, Fits(x, a), NEW y, NEW b, Fits(y, b),
         ~DepartsInOperator(op, a.type, b.type)
  PROVE  Agree(AnalyzeBinary(op, x, y), OfBinary(op, a.type, b.type))
<1>1. \/ op \in {"&&", "||"} \union Comparisons \/ op \in {"+", "-"}
      \/ op \in BitOperators \union {"*", "/"} \/ op = ","
  BY DEF BinaryOperators
<1> QED BY <1>1, LogicAgrees, SumAgrees, ArithmeticAgrees, CommaAgrees


(* The other expressions.                                                   *)
LEMMA ConditionalAgrees ==
  ASSUME NEW z, NEW test, Fits(z, test), NEW x, NEW a, Fits(x, a), NEW y, NEW b, Fits(y, b),
         ~DepartsInConditional(a.type, b.type)
  PROVE  Agree(AnalyzeConditional(z, x, y), OfConditional(test.type, a.type, b.type))
<1> DEFINE result == AnalyzeConditional(z, x, y)
           answers == OfConditional(test.type, a.type, b.type)
<1>0. SUFFICES Agree(result, answers)
  OBVIOUS
<1>1. z.said = 0 /\ x.said = 0 /\ y.said = 0 /\ x.type \in Known /\ y.type \in Known
      /\ Alike(x.type, a.type) /\ Alike(y.type, b.type)
  BY FitsIs
<1>2. z.said + x.said + y.said + Unless(IsScalar(z.type)) = Unless(IsScalar(test.type))
  <2>1. IsScalar(z.type) <=> IsScalar(test.type)
    BY FitsIs
  <2>2. Unless(IsScalar(z.type)) = Unless(IsScalar(test.type)) /\ Unless(IsScalar(z.type)) \in {0, 1}
    BY <2>1 DEF Unless
  <2> QED BY <1>1, <2>2
<1>3. result = IF Assignable(x.type, y.type) THEN Typed(x.type, Unless(IsScalar(test.type)))
               ELSE TypedIf(Assignable(y.type, x.type), y.type, Unless(IsScalar(test.type)))
  BY <1>2 DEF AnalyzeConditional
<1>4. CASE ~IsScalar(test.type)
  <2>1. answers = {}
    BY <1>4 DEF OfConditional
  <2>2. result = IF Assignable(x.type, y.type) THEN Typed(x.type, 1)
                 ELSE TypedIf(Assignable(y.type, x.type), y.type, 1)
    BY <1>3, <1>4 DEF Unless
  <2>3. Refused(Typed(x.type, 1), {}) /\ Refused(TypedIf(Assignable(y.type, x.type), y.type, 1), {})
    BY ErrorsRefuse
  <2> HIDE DEF result, answers
  <2> QED BY <2>1, <2>2, <2>3 DEF Agree
<1>5. CASE IsScalar(test.type)
  <2>1. result = IF Assignable(x.type, y.type) THEN Typed(x.type, 0)
                 ELSE TypedIf(Assignable(y.type, x.type), y.type, 0)
    BY <1>3, <1>5 DEF Unless
  <2>2. answers = If(IsNumeric(a.type) /\ IsNumeric(b.type), Common(a.type, b.type))
                    \union If(~IsNumeric(a.type) /\ a.type = b.type, a.type)
                    \union If(a.type # b.type /\ OneToVoid(a.type, b.type), PointerTo(Basic("void")))
    BY <1>5 DEF OfConditional
  <2>3. CASE IsNumeric(a.type) /\ IsNumeric(b.type)
    <3>1. Alike(a.type, b.type)
      BY <2>3 DEF DepartsInConditional, Alike
    <3>2. Common(a.type, b.type) = Promoted(a.type)
      <4>1. Rank(a.type) = Rank(b.type) /\ Rank(a.type) \in 1 .. 4
        BY <2>3, <3>1, AlikeTypes, RankIs
      <4>2. Rank(a.type) >= Rank(b.type)
        BY <4>1
      <4> QED BY <2>3, <4>2, CommonIs
    <3>3. Promoted(Promoted(a.type)) = Promoted(a.type)
      BY <2>3, <3>2, CommonIs
    <3>4. Alike(x.type, Common(a.type, b.type))
      BY <1>1, <3>2, <3>3 DEF Alike
    <3>5. ~OneToVoid(a.type, b.type)
      BY <2>3, Kinds DEF OneToVoid, IsObjectPointer
    <3>6. answers = If(TRUE, Common(a.type, b.type))
      BY <2>2, <2>3, <3>5 DEF If
    <3>7. Assignable(x.type, y.type)
      BY <1>1, <2>3, AssignableIs, FitsIs
    <3>8. result = TypedIf(TRUE, x.type, 0)
      BY <2>1, <3>7 DEF TypedIf
    <3> HIDE DEF result, answers
    <3> QED BY <1>1, <3>4, <3>6, <3>8, ResultAgrees
  <2>4. CASE ~(IsNumeric(a.type) /\ IsNumeric(b.type))
    <3>1. a.type # b.type => ~OneToVoid(a.type, b.type)
      <4>1. ASSUME a.type # b.type, OneToVoid(a.type, b.type) PROVE FALSE
        <5>1. ~IsNumeric(a.type) /\ ~IsNumeric(b.type)
          BY <4>1, Kinds DEF OneToVoid, IsObjectPointer
        <5>2. Promoted(a.type) # Promoted(b.type)
          BY <4>1, <5>1 DEF Promoted
        <5> QED BY <4>1, <5>2 DEF DepartsInConditional
      <4> QED BY <4>1
    <3> DEFINE p == ~IsNumeric(a.type) /\ a.type = b.type
    <3>2. answers = If(p, a.type)
      BY <2>2, <2>4, <3>1 DEF If
    <3>3. x.type = y.type <=> p
      <4>1. CASE ~IsNumeric(a.type) /\ ~IsNumeric(b.type)
        BY <4>1, FitsIs
      <4>2. CASE ~(IsNumeric(a.type) <=> IsNumeric(b.type))
        BY <4>2, FitsIs
      <4> QED BY <2>4, <4>1, <4>2
    <3>4. ~p => ~OneToVoid(x.type, y.type) /\ ~OneToVoid(y.type, x.type)
      <4>1. ASSUME OneToVoid(x.type, y.type) \/ OneToVoid(y.type, x.type) PROVE p
        <5>1. IsPointer(x.type) /\ IsPointer(y.type)
          BY <4>1 DEF OneToVoid, IsObjectPointer
        <5>2. x.type = a.type /\ y.type = b.type
          BY <5>1, Kinds, FitsIs
        <5>3. OneToVoid(a.type, b.type)
          BY <4>1, <5>2 DEF OneToVoid
        <5> QED BY <3>1, <5>1, <5>2, <5>3, Kinds
      <4> QED BY <4>1
    <3>5. Assignable(x.type, y.type) <=> p
      BY <1>1, <2>4, <3>3, <3>4, AssignableIs, FitsIs
    <3>6. Assignable(y.type, x.type) <=> p
      BY <1>1, <2>4, <3>3, <3>4, AssignableIs, FitsIs
    <3>7. result = TypedIf(p, x.type, 0)
      BY <2>1, <3>5, <3>6 DEF TypedIf
    <3>8. p \in BOOLEAN
      BY DEF IsNumeric
    <3> HIDE DEF result, answers, p
    <3> QED BY <1>1, <3>2, <3>7, <3>8, ResultAgrees
  <2> QED BY <2>3, <2>4
<1> QED BY <1>4, <1>5

LEMMA SubscriptAgrees ==
  ASSUME NEW x, NEW a, Fits(x, a), NEW y, NEW b, Fits(y, b),
         ~IsInteger(a.type), IsPointer(a.type) => ToComplete(a.type)
  PROVE  Agree(AnalyzeSubscript(x, y), OfSubscript(a.type, b.type))
<1>1. x.said = 0 /\ y.said = 0 /\ x.type \in Known
  BY FitsIs
<1>2. x.said + y.said = 0
  BY <1>1
<1>3. CASE IsPointer(x.type) /\ IsInteger(y.type)
  <2>1. x.type = a.type /\ IsInteger(b.type) /\ ToComplete(a.type) /\ Base(a.type) \in Declared
    BY <1>1, <1>3, FitsIs, KnownTypes, Kinds
  <2>2. AnalyzeSubscript(x, y) = Designating(Base(a.type), 0)
    BY <1>2, <1>3, <2>1 DEF AnalyzeSubscript
  <2>3. OfSubscript(a.type, b.type) = Lval(Base(a.type))
    BY <2>1 DEF OfSubscript
  <2> QED BY <2>1, <2>2, <2>3, PlaceAgrees
<1>4. CASE ~(IsPointer(x.type) /\ IsInteger(y.type))
  <2>1. AnalyzeSubscript(x, y) = GivenUp(0 + 1)
    BY <1>2, <1>4 DEF AnalyzeSubscript
  <2>2. OfSubscript(a.type, b.type) = {}
    BY <1>4, FitsIs DEF OfSubscript, ToComplete
  <2>3. Refused(GivenUp(0 + 1), {})
    BY ErrorsRefuse
  <2> QED BY <2>1, <2>2, <2>3 DEF Agree
<1> QED BY <1>3, <1>4

LEMMA MemberAgrees ==
  ASSUME NEW how \in {".", "->"}, NEW name,
         NEW x, NEW a, Fits(x, a)
  PROVE  Agree(AnalyzeMember(how, x, name), OfMember(how, a, name))
<1> DEFINE t == IF how = "->" /\ IsPointer(x.type) THEN Base(x.type) ELSE x.type
           u == IF how = "->" /\ IsPointer(a.type) THEN Base(a.type) ELSE a.type
           fitting(v) == v.kind = "record" /\ IsComplete(v) /\ name \in DOMAIN Fields[v.tag]
           p == (how = "->" => IsPointer(x.type)) /\ fitting(t)
           q == (how = "->") = IsPointer(a.type) /\ fitting(u)
<1>1. x.ok = TRUE /\ x.said = 0 /\ x.said + 1 = 1
  <2>1. x.said = 0
    BY FitsIs
  <2>2. x.said + 1 = 1
    BY <2>1
  <2> QED BY <2>1, <2>2, FitsIs
<1>2. AnalyzeMember(how, x, name) =
        IF ~p THEN GivenUp(1) ELSE [Typed(Fields[t.tag][name], 0) EXCEPT !.lvalue = how = "->" \/ x.lvalue]
  BY <1>1 DEF AnalyzeMember
<1>3. OfMember(how, a, name) =
        IF q THEN {[type |-> Fields[u.tag][name], lvalue |-> how = "->" \/ a.lvalue]} ELSE {}
  BY DEF OfMember
<1>4. q => p /\ t = u /\ (how = "->" \/ x.lvalue) = (how = "->" \/ a.lvalue)
  <2>1. ASSUME q PROVE x.type = a.type
    <3>1. ~IsNumeric(a.type)
      BY <2>1, Kinds
    <3> QED BY <3>1, FitsIs
  <2>2. ASSUME q, how # "->" PROVE x.lvalue = a.lvalue
    <3>1. a.type.kind = "record"
      BY <2>2
    <3> QED BY <3>1 DEF Fits
  <2> QED BY <2>1, <2>2
<1>5. p => q
  <2>1. ASSUME p PROVE ~IsNumeric(x.type)
    BY <2>1, Kinds
  <2>2. ASSUME p PROVE x.type = a.type
    BY <2>1, <2>2, FitsIs
  <2>3. ASSUME p, how # "->" PROVE ~IsPointer(a.type)
    BY <2>2, <2>3, Kinds
  <2>4. IsPointer(a.type) \in BOOLEAN
    BY DEF IsPointer
  <2> QED BY <2>2, <2>3, <2>4
<1>6. p => Fields[t.tag][name] \in Declared
  BY DeclaredAssumption DEF IsComplete
<1> DEFINE f == Fields[t.tag][name]
           b == how = "->" \/ x.lvalue
           result == [Typed(f, 0) EXCEPT !.lvalue = b]
           answer == [type |-> f, lvalue |-> b]
<1>7. /\ result.ok = TRUE /\ result.said = 0 /\ result.type = f /\ result.lvalue = b
      /\ answer.type = f /\ answer.lvalue = b
  BY DEF Typed
<1>8. b \in BOOLEAN
  BY DEF Fits
<1>9. ASSUME f \in Declared PROVE Fits(result, answer)
  <2>1. f \in Known /\ Alike(f, f)
    BY <1>9 DEF Known, Alike
  <2> HIDE DEF f, b, result, answer
  <2> QED BY <1>7, <1>8, <1>9, <2>1 DEF Fits
<1>10. CASE p
  <2>1. AnalyzeMember(how, x, name) = result /\ OfMember(how, a, name) = {answer}
    BY <1>2, <1>3, <1>4, <1>5, <1>10
  <2>2. Fits(result, answer)
    BY <1>6, <1>9, <1>10
  <2> HIDE DEF result, answer
  <2> QED BY <2>1, <2>2 DEF Agree
<1>11. CASE ~p
  <2>1. AnalyzeMember(how, x, name) = GivenUp(0 + 1) /\ OfMember(how, a, name) = {}
    BY <1>2, <1>3, <1>4, <1>11
  <2>2. Refused(GivenUp(0 + 1), {})
    BY ErrorsRefuse
  <2> QED BY <2>1, <2>2 DEF Agree
<1> QED BY <1>10, <1>11

LEMMA CastAgrees ==
  ASSUME NEW target \in Declared,
         NEW x, NEW a, Fits(x, a),
         a.type.kind # "function",
         ~DepartsInCast(target, a.type)
  PROVE  Agree(AnalyzeCast(target, x), OfCast(target, a.type))
<1> DEFINE p == Castable(target, x.type)
           q == \/ IsVoid(target)
                \/ /\ IsScalar(target) /\ IsScalar(a.type)
                   /\ ~(IsPointer(target) /\ IsFloating(a.type)) /\ ~(IsFloating(target) /\ IsPointer(a.type))
<1>1. x.ok = TRUE /\ x.said = 0 /\ x.type \in Known /\ target \in Known /\ Alike(target, target)
  BY FitsIs DEF Known, Alike
<1>2. AnalyzeCast(target, x) = TypedIf(p, target, 0)
  BY <1>1 DEF AnalyzeCast
<1>3. OfCast(target, a.type) = If(q, target)
  BY DEF OfCast
<1>4. p <=> \/ target = x.type
            \/ IsVoid(target)
            \/ IsScalar(target) /\ IsScalar(x.type)
               /\ ~(IsPointer(target) /\ IsPointer(x.type) /\ Base(target).kind = "record" /\ Base(x.type).kind = "record")
  BY <1>1, CastableIs
<1>5. ASSUME target = x.type PROVE q
  <2>1. target.kind \notin {"record", "function"}
    BY <1>5, FitsIs, Kinds DEF DepartsInCast
  <2>2. target.kind \in {"void", "bool", "char", "int", "long", "float", "double", "pointer"}
    BY <2>1, DeclaredAssumption
  <2>3. IsVoid(target) \/ IsScalar(target)
    BY <2>2 DEF IsVoid, IsScalar, IsNumeric, IsInteger, IsFloating, IsPointer
  <2> QED BY <1>5, <2>3, FitsIs, Kinds
<1>6. p => q
  BY <1>4, <1>5, FitsIs DEF DepartsInCast
<1>7. q => p
  <2>1. ASSUME IsPointer(target), IsPointer(x.type), Base(target).kind = "record", Base(x.type).kind = "record"
        PROVE  target = x.type
    BY <2>1, FitsIs, Kinds DEF DepartsInCast
  <2> QED BY <1>4, <2>1, FitsIs
<1>8. p \in BOOLEAN
  BY DEF Castable, IsVoid, IsScalar, IsNumeric, IsPointer
<1> HIDE DEF p, q
<1>9. OfCast(target, a.type) = If(p, target)
  BY <1>3, <1>6, <1>7 DEF If
<1> QED BY <1>1, <1>2, <1>8, <1>9, ResultAgrees


(* The errors in arguments add up: there are sums up to every n.            *)
LEMMA SaidBegins ==
  ASSUME NEW xs, NEW n \in Nat
  PROVE  \E f : f = [m \in 0 .. n |-> IF m = 0 THEN 0 ELSE f[m - 1] + xs[m].said]
<1> DEFINE Step(m, below) == IF m = 0 THEN 0 ELSE below + xs[m].said
           Is(f, k) == f = [m \in 0 .. k |-> Step(m, f[m - 1])]
           T == {k \in Nat : \E f : Is(f, k)}
<1>1. \A a, b : Step(0, a) = Step(0, b)
  OBVIOUS
<1> HIDE DEF Step
<1>2. 0 \in T
  <2> DEFINE f == [m \in 0 .. 0 |-> Step(m, 0)]
  <2>1. \A m \in 0 .. 0 : m = 0
    OBVIOUS
  <2>2. \A m \in 0 .. 0 : f[m] = Step(m, f[m - 1])
    BY <1>1, <2>1
  <2>3. f = [m \in 0 .. 0 |-> Step(m, f[m - 1])]
    BY <2>2
  <2> QED BY <2>3
<1>3. ASSUME NEW k \in 1 .. n, k - 1 \in T PROVE k \in T
  <2>1. PICK v : Is(v, k - 1)
    BY <1>3
  <2>2. \A m \in 0 .. k - 1 : v[m] = Step(m, v[m - 1])
    BY <2>1
  <2> DEFINE w == [m \in 0 .. k |-> IF m = k THEN Step(k, v[k - 1]) ELSE v[m]]
  <2>3. ASSUME NEW m \in 0 .. k PROVE w[m] = Step(m, w[m - 1])
    <3>1. CASE m = 0
      <4>1. m \in 0 .. k - 1 /\ m # k
        BY <3>1
      <4>2. w[m] = Step(m, v[m - 1])
        BY <2>2, <4>1
      <4> HIDE DEF w
      <4> QED BY <1>1, <3>1, <4>2
    <3>2. CASE m # 0
      <4>1. m - 1 \in 0 .. k /\ m - 1 # k
        BY <3>2
      <4>2. w[m - 1] = v[m - 1]
        BY <4>1
      <4>3. CASE m = k
        BY <4>2, <4>3
      <4>4. CASE m # k
        <5>1. m \in 0 .. k - 1
          BY <4>4
        <5>2. w[m] = v[m]
          BY <4>4
        <5> HIDE DEF w
        <5> QED BY <2>2, <4>2, <5>1, <5>2
      <4> QED BY <4>3, <4>4
    <3> QED BY <3>1, <3>2
  <2>4. w = [m \in 0 .. k |-> w[m]]
    OBVIOUS
  <2> HIDE DEF w
  <2>5. Is(w, k)
    BY <2>3, <2>4
  <2> QED BY <2>5
<1>4. n \in T
  <2>1. \A k \in 0 .. n : k \in T
    <3> HIDE DEF T
    <3> QED BY <1>2, <1>3, UpTo
  <2> QED BY <2>1
<1> QED BY <1>4 DEF Step

LEMMA SaidInIs ==
  ASSUME NEW xs, NEW m \in Nat, Len(xs) = m,
         \A i \in 1 .. m : xs[i].said \in Nat
  PROVE  /\ SaidIn(xs) \in Nat
         /\ SaidIn(xs) = 0 <=> \A i \in 1 .. m : xs[i].said = 0
<1> DEFINE Is(f) == f = [i \in 0 .. m |-> IF i = 0 THEN 0 ELSE f[i - 1] + xs[i].said]
           upTo == CHOOSE f : Is(f)
           T == {k \in 0 .. m : /\ upTo[k] \in Nat
                                /\ upTo[k] = 0 <=> \A i \in 1 .. k : xs[i].said = 0}
<1>1. \E f : Is(f)
  BY SaidBegins
<1>2. SaidIn(xs) = upTo[m]
  BY DEF SaidIn
<1>3. Is(upTo)
  <2> HIDE DEF Is
  <2> QED BY <1>1
<1> HIDE DEF upTo
<1>4. \A i \in 0 .. m : upTo[i] = IF i = 0 THEN 0 ELSE upTo[i - 1] + xs[i].said
  BY <1>3
<1>5. 0 \in T
  <2>1. upTo[0] = 0
    BY <1>4
  <2>2. \A i \in 1 .. 0 : FALSE
    OBVIOUS
  <2> QED BY <2>1, <2>2
<1>6. ASSUME NEW k \in 1 .. m, k - 1 \in T PROVE k \in T
  <2>1. upTo[k] = upTo[k - 1] + xs[k].said /\ k \in 0 .. m
    BY <1>4
  <2>2. upTo[k - 1] \in Nat /\ xs[k].said \in Nat
    BY <1>6
  <2>3. upTo[k] \in Nat /\ (upTo[k] = 0 <=> upTo[k - 1] = 0 /\ xs[k].said = 0)
    BY <2>1, <2>2
  <2>4. \A i : i \in 1 .. k <=> i \in 1 .. k - 1 \/ i = k
    OBVIOUS
  <2>5. upTo[k - 1] = 0 <=> \A i \in 1 .. k - 1 : xs[i].said = 0
    BY <1>6
  <2> QED BY <2>1, <2>3, <2>4, <2>5
<1>7. m \in T
  <2>1. \A k \in 0 .. m : k \in T
    <3> HIDE DEF T
    <3> QED BY <1>5, <1>6, UpTo
  <2> QED BY <2>1
<1> QED BY <1>2, <1>7

(* A call that something is wrong with already.                             *)
LEMMA CallRefuses ==
  ASSUME NEW x, x.ok \in BOOLEAN, x.said \in Nat, ~x.ok => x.said > 0,
         NEW xs, NEW m \in Nat, xs = [i \in 1 .. m |-> xs[i]],
         \A i \in 1 .. m : xs[i].said \in Nat,
         x.said > 0 \/ \E i \in 1 .. m : xs[i].said # 0
  PROVE  Refused(AnalyzeCall(x, xs), {})
<1> DEFINE t == IF IsPointer(x.type) /\ Base(x.type).kind = "function" THEN Base(x.type) ELSE x.type
           expected == Len(t.parameters)
           mismatched == {i \in DOMAIN xs : i <= expected /\ xs[i].ok /\ ~Assignable(t.parameters[i], xs[i].type)}
           counted == IF t.variadic THEN Len(xs) >= expected ELSE Len(xs) = expected
           said == x.said + SaidIn(xs)
<1>1. Len(xs) = m /\ DOMAIN xs = 1 .. m
  OBVIOUS
<1>2. SaidIn(xs) \in Nat /\ said \in Nat /\ said > 0
  <2>1. SaidIn(xs) \in Nat /\ (SaidIn(xs) = 0 <=> \A i \in 1 .. m : xs[i].said = 0)
    BY <1>1, SaidInIs
  <2> QED BY <2>1
<1>3. Cardinality(mismatched) \in Nat
  <2>1. IsFiniteSet(1 .. m)
    <3>1. 1 \in Int /\ m \in Int
      OBVIOUS
    <3> QED BY <3>1, FS_Interval
  <2>2. mismatched \subseteq 1 .. m
    BY <1>1
  <2>3. IsFiniteSet(mismatched)
    BY <2>1, <2>2, FS_Subset
  <2> QED BY <2>3, FS_CardinalityType
<1>4. AnalyzeCall(x, xs) =
        IF ~x.ok THEN x ELSE IF t.kind # "function" THEN GivenUp(x.said + 1)
        ELSE Typed(Base(t), said + Cardinality(mismatched) + Unless(counted))
  BY DEF AnalyzeCall
<1> HIDE DEF t, said, mismatched, counted
<1>5. CASE ~x.ok
  BY <1>4, <1>5 DEF Refused
<1>6. CASE x.ok /\ t.kind # "function"
  BY <1>4, <1>6, ErrorsRefuse
<1>7. CASE x.ok /\ t.kind = "function"
  <2>1. said + Cardinality(mismatched) \in Nat /\ said + Cardinality(mismatched) > 0
    BY <1>2, <1>3
  <2> QED BY <1>4, <1>7, <2>1, ErrorsRefuse
<1> QED BY <1>5, <1>6, <1>7

LEMMA CallAgrees ==
  ASSUME NEW x, NEW a, Fits(x, a),
         NEW xs, NEW ts, NEW m \in Nat, xs = [i \in 1 .. m |-> xs[i]], ts = [i \in 1 .. m |-> ts[i]],
         \A i \in 1 .. m : \E b : Fits(xs[i], b) /\ b.type = ts[i] /\ b.type.kind # "function",
         IsPointer(Decayed(a.type)) /\ Base(Decayed(a.type)).kind = "function" =>
             \A i \in 1 .. m : ~DepartsInArgument(Base(Decayed(a.type)), i, ts[i])
  PROVE  Agree(AnalyzeCall(x, xs), OfCall(Decayed(a.type), ts))
<1> DEFINE t == IF IsPointer(x.type) /\ Base(x.type).kind = "function" THEN Base(x.type) ELSE x.type
           callee == Decayed(a.type)
           f == Base(callee)
           calls == IsPointer(callee) /\ f.kind = "function"
           expected == Len(t.parameters)
           mismatched == {i \in DOMAIN xs : i <= expected /\ xs[i].ok /\ ~Assignable(t.parameters[i], xs[i].type)}
           counted == IF t.variadic THEN Len(xs) >= expected ELSE Len(xs) = expected
           n == Len(f.parameters)
           q == /\ Len(ts) = n \/ (f.variadic /\ Len(ts) > n)
                /\ \A i \in DOMAIN ts : IF i <= n THEN CAssignable(f.parameters[i], ts[i]) ELSE IsComplete(ts[i])
           result == AnalyzeCall(x, xs)
           answers == OfCall(callee, ts)
<1>1. Len(xs) = m /\ DOMAIN xs = 1 .. m /\ Len(ts) = m /\ DOMAIN ts = 1 .. m
  OBVIOUS
<1>2. x.ok = TRUE /\ x.said = 0 /\ x.type \in Known
  BY FitsIs
<1>3. SaidIn(xs) = 0 /\ x.said + SaidIn(xs) = 0
  <2>1. \A i \in 1 .. m : xs[i].said = 0
    BY FitsIs
  <2>2. SaidIn(xs) = 0
    BY <1>1, <2>1, SaidInIs
  <2> QED BY <1>2, <2>2
<1>4. result = IF t.kind # "function" THEN GivenUp(0 + 1)
               ELSE Typed(Base(t), 0 + Cardinality(mismatched) + Unless(counted))
  BY <1>2, <1>3 DEF AnalyzeCall
<1>5. answers = IF ~calls THEN {} ELSE If(q, Base(f))
  BY DEF OfCall
<1>6. calls <=> t.kind = "function"
  <2>1. CASE IsNumeric(a.type)
    <3>1. IsNumeric(x.type) /\ callee = a.type
      BY <2>1, FitsIs, Kinds
    <3> QED BY <2>1, <3>1, Kinds
  <2>2. CASE a.type.kind = "function"
    <3>1. x.type = a.type /\ ~IsPointer(x.type)
      BY <2>2, FitsIs, Kinds
    <3>2. callee.kind = "pointer" /\ f = a.type
      BY <2>2 DEF Decayed, PointerTo, Type, Base
    <3> QED BY <2>2, <3>1, <3>2 DEF IsPointer
  <2>3. CASE ~IsNumeric(a.type) /\ a.type.kind # "function"
    <3>1. x.type = a.type /\ callee = a.type
      BY <2>3, FitsIs
    <3> QED BY <2>3, <3>1
  <2> QED BY <2>1, <2>2, <2>3
<1>7. calls => t = f
  <2>1. CASE a.type.kind = "function"
    <3>1. x.type = a.type /\ ~IsPointer(x.type)
      BY <2>1, FitsIs, Kinds
    <3>2. f = a.type
      BY <2>1 DEF Decayed, PointerTo, Type, Base
    <3> QED BY <3>1, <3>2
  <2>2. ASSUME a.type.kind # "function", calls PROVE t = f
    <3>1. callee = a.type /\ x.type = a.type
      BY <2>2, FitsIs, Kinds
    <3> QED BY <2>2, <3>1
  <2> QED BY <2>1, <2>2
<1>8. CASE ~calls
  <2>1. Refused(GivenUp(0 + 1), {})
    BY ErrorsRefuse
  <2>2. result = GivenUp(0 + 1) /\ answers = {}
    BY <1>4, <1>5, <1>6, <1>8
  <2> HIDE DEF result, answers
  <2>3. Agree(result, answers)
    BY <2>1, <2>2 DEF Agree
  <2> QED BY <2>3 DEF result, answers
<1>9. CASE calls
  <2>1. f = t /\ f.kind = "function"
    BY <1>7, <1>9
  <2>2. f \in Declared
    <3>1. CASE IsPointer(x.type) /\ Base(x.type).kind = "function"
      BY <1>2, <2>1, <3>1, KnownTypes
    <3>2. CASE ~(IsPointer(x.type) /\ Base(x.type).kind = "function")
      <4>1. x.type.kind = "function" /\ x.type = f
        BY <2>1, <3>2
      <4>2. x.type \notin Numbers
        <5>1. \A kind : Basic(kind).kind = kind
          BY DEF Basic, Type
        <5> QED BY <4>1, <5>1 DEF Numbers
      <4>3. x.type \notin {PointerTo(u) : u \in Declared}
        <5>1. \A u : PointerTo(u).kind = "pointer"
          BY DEF PointerTo, Type
        <5> QED BY <4>1, <5>1
      <4> QED BY <1>2, <4>1, <4>2, <4>3 DEF Known
    <3> QED BY <3>1, <3>2
  <2>3. /\ Base(f) \in Declared /\ n \in Nat
        /\ \A i \in 1 .. n : f.parameters[i] \in Known /\ Alike(f.parameters[i], f.parameters[i])
    BY <2>1, <2>2, DeclaredAssumption DEF Known, Alike
  <2>4. ASSUME NEW i \in 1 .. m, i <= n
        PROVE  Assignable(f.parameters[i], xs[i].type) <=> CAssignable(f.parameters[i], ts[i])
    <3>1. PICK b : Fits(xs[i], b) /\ b.type = ts[i]
      OBVIOUS
    <3>2. ~DepartsInArgument(f, i, ts[i])
      BY <1>9
    <3>3. IsComplete(f.parameters[i]) /\ ~(f.parameters[i].kind = "bool" /\ IsPointer(ts[i]))
      BY <2>4, <3>2 DEF DepartsInArgument
    <3>4. i \in 1 .. n
      BY <2>3, <2>4
    <3>5. xs[i].type \in Known /\ Alike(xs[i].type, ts[i])
      BY <3>1, FitsIs
    <3> QED BY <2>3, <3>3, <3>4, <3>5, ConversionAgrees
  <2>5. ASSUME NEW i \in 1 .. m, ~(i <= n) PROVE IsComplete(ts[i])
    <3>1. ~DepartsInArgument(f, i, ts[i])
      BY <1>9
    <3> QED BY <2>5, <3>1 DEF DepartsInArgument
  <2>6. \A i \in 1 .. m : xs[i].ok = TRUE
    BY FitsIs
  <2>7. counted <=> Len(ts) = n \/ (f.variadic /\ Len(ts) > n)
    BY <1>1, <2>1, <2>3
  <2>8. mismatched = {i \in 1 .. m : i <= n /\ ~CAssignable(f.parameters[i], ts[i])}
    BY <1>1, <2>1, <2>4, <2>6
  <2>9. q <=> counted /\ mismatched = {}
    BY <1>1, <2>5, <2>7, <2>8
  <2>10. Cardinality(mismatched) \in Nat /\ (Cardinality(mismatched) = 0 <=> mismatched = {})
    <3>1. IsFiniteSet(1 .. m)
      <4>1. 1 \in Int /\ m \in Int
        OBVIOUS
      <4> QED BY <4>1, FS_Interval
    <3>2. mismatched \subseteq 1 .. m
      BY <1>1
    <3>3. IsFiniteSet(mismatched)
      BY <3>1, <3>2, FS_Subset
    <3> HIDE DEF mismatched
    <3> QED BY <3>3, FS_CardinalityType, FS_EmptySet
  <2>11. result = Typed(Base(f), 0 + Cardinality(mismatched) + Unless(counted)) /\ answers = If(q, Base(f))
    BY <1>4, <1>5, <1>9, <2>1
  <2> HIDE DEF result, answers, q, mismatched, counted, f
  <2>12. ASSUME q PROVE Agree(result, answers)
    <3>1. Unless(counted) = 0 /\ Cardinality(mismatched) = 0
      BY <2>9, <2>10, <2>12 DEF Unless
    <3>2. result = TypedIf(q, Base(f), 0)
      BY <2>11, <2>12, <3>1 DEF TypedIf
    <3>3. Base(f) \in Known /\ Alike(Base(f), Base(f)) /\ q \in BOOLEAN
      BY <2>3, <2>12 DEF Known, Alike
    <3> QED BY <2>11, <2>12, <3>2, <3>3, ResultAgrees
  <2>13. ASSUME ~q PROVE Agree(result, answers)
    <3>1. answers = {}
      BY <2>11, <2>13 DEF If
    <3>2. Unless(counted) \in Nat /\ (Unless(counted) # 0 \/ Cardinality(mismatched) # 0)
      BY <2>9, <2>10, <2>13 DEF Unless
    <3>3. 0 + Cardinality(mismatched) + Unless(counted) \in Nat /\ 0 + Cardinality(mismatched) + Unless(counted) > 0
      BY <2>10, <3>2
    <3>4. Refused(Typed(Base(f), 0 + Cardinality(mismatched) + Unless(counted)), {})
      BY <3>3, ErrorsRefuse
    <3> QED BY <2>11, <3>1, <3>4 DEF Agree
  <2>14. Agree(result, answers)
    BY <2>12, <2>13
  <2> QED BY <2>14 DEF result, answers
<1> QED BY <1>8, <1>9

(* What statements and declarations make of an expression.                  *)
LEMMA UseAgrees ==
  ASSUME NEW how \in UsedAs, NEW target \in Declared,
         NEW x, NEW a, Fits(x, a),
         a.type.kind # "function",
         ~DepartsInUse(how, target, a.type)
  PROVE  Agree(AnalyzeUse(how, target, x), {v \in {a} : FitsUse(how, target, Decayed(v.type))})
<1> DEFINE fits == CASE how = "condition" -> IsScalar(x.type)
                     [] how = "selector" -> IsInteger(x.type)
                     [] how = "returned" -> ~IsVoid(target) /\ Assignable(target, x.type)
                     [] how = "initializer" -> Assignable(target, x.type)
           q == FitsUse(how, target, a.type)
           result == AnalyzeUse(how, target, x)
           answers == {v \in {a} : FitsUse(how, target, Decayed(v.type))}
<1>1. x.ok = TRUE /\ x.said = 0 /\ x.type \in Known /\ Decayed(a.type) = a.type
      /\ target \in Known /\ Alike(target, target) /\ Alike(x.type, a.type)
  BY FitsIs DEF Known, Alike
<1>2. result = [type |-> x.type, lvalue |-> x.lvalue, ok |-> TRUE, said |-> x.said + Unless(fits)]
  BY <1>1 DEF AnalyzeUse
<1>3. answers = IF q THEN {a} ELSE {}
  BY <1>1
<1>4. how \in {"condition", "selector", "returned", "initializer"}
  BY DEF UsedAs
<1>5. fits <=> q
  <2>1. ASSUME how \in {"condition", "selector"} PROVE fits <=> q
    BY <2>1, FitsIs DEF FitsUse
  <2>2. ASSUME IsComplete(target) PROVE Assignable(target, x.type) <=> CAssignable(target, a.type)
    <3>1. ~(target.kind = "bool" /\ IsPointer(a.type))
      BY DEF DepartsInUse
    <3> QED BY <1>1, <2>2, <3>1, ConversionAgrees
  <2>3. ASSUME how = "initializer" PROVE fits <=> q
    BY <2>2, <2>3 DEF FitsUse, DepartsInUse
  <2>4. ASSUME how = "returned" PROVE fits <=> q
    <3>1. CASE IsVoid(target)
      BY <2>4, <3>1, Kinds DEF FitsUse, CAssignable, IsVoid
    <3>2. CASE ~IsVoid(target)
      BY <2>2, <2>4, <3>2 DEF FitsUse, DepartsInUse
    <3> QED BY <3>1, <3>2
  <2> QED BY <1>4, <2>1, <2>3, <2>4
<1>6. result.type = x.type /\ result.lvalue = x.lvalue /\ result.ok = TRUE /\ result.said = 0 + Unless(fits)
  <2>1. x.said + Unless(fits) = 0 + Unless(fits)
    BY <1>1
  <2>2. result.said = x.said + Unless(fits)
    <3> HIDE DEF fits
    <3> QED BY <1>2
  <2>3. result.type = x.type /\ result.lvalue = x.lvalue /\ result.ok = TRUE
    BY <1>2
  <2> QED BY <2>1, <2>2, <2>3
<1> HIDE DEF result, answers, fits, q
<1>7. ASSUME q PROVE Agree(result, answers)
  <2>1. result.said = 0
    BY <1>5, <1>6, <1>7 DEF Unless
  <2>2. Fits(result, a)
    BY <1>6, <2>1 DEF Fits
  <2> QED BY <1>3, <1>7, <2>2 DEF Agree
<1>8. ASSUME ~q PROVE Agree(result, answers)
  <2>1. result.said = 1 /\ answers = {}
    BY <1>3, <1>5, <1>6, <1>8 DEF Unless
  <2>2. result.ok \in BOOLEAN
    BY <1>6
  <2>3. result.said \in Nat /\ result.said > 0
    BY <2>1
  <2>4. Refused(result, answers)
    BY <2>1, <2>2, <2>3 DEF Refused
  <2> QED BY <2>4 DEF Agree
<1>9. Agree(result, answers)
  BY <1>7, <1>8
<1> QED BY <1>9 DEF result, answers

-----------------------------------------------------------------------------
(* What is wrong in a part is wrong in the whole.                           *)
LEMMA AgreeingIs ==
  ASSUME NEW x, NEW answers, Agree(x, answers)
  PROVE  /\ x.ok \in BOOLEAN /\ x.said \in Nat
         /\ ~x.ok => x.said > 0
         /\ x.said = 0 <=> answers # {}
         /\ answers = {} \/ \E a : answers = {a} /\ Fits(x, a)
<1>1. CASE Refused(x, answers)
  BY <1>1 DEF Refused
<1>2. CASE \E a : answers = {a} /\ Fits(x, a)
  <2>1. PICK a : answers = {a} /\ Fits(x, a)
    BY <1>2
  <2>2. x.ok = TRUE
    BY <2>1, FitsIs
  <2>3. x.said = 0
    BY <2>1, FitsIs
  <2>4. x.said \in Nat
    BY <2>3
  <2>5. answers # {}
    BY <2>1
  <2> QED BY <2>1, <2>2, <2>3, <2>4, <2>5
<1> QED BY <1>1, <1>2 DEF Agree

LEMMA UnaryRefuses ==
  ASSUME NEW op \in UnaryOperators, NEW x, x.ok \in BOOLEAN, x.said \in Nat, x.said > 0
  PROVE  Refused(AnalyzeUnary(op, x), {})
<1>1. CASE ~x.ok
  <2>1. AnalyzeUnary(op, x) = x
    BY <1>1 DEF AnalyzeUnary
  <2> QED BY <2>1 DEF Refused
<1>2. CASE x.ok /\ op = "ampersand"
  <2>1. AnalyzeUnary(op, x) = TypedIf(x.lvalue, PointerTo(x.type), x.said)
    BY <1>2 DEF AnalyzeUnary, AnalyzeAddress, Steps, Sizes
  <2> QED BY <2>1, ErrorsRefuse
<1>3. CASE x.ok /\ op = "star"
  <2>1. AnalyzeUnary(op, x) = IF IsPointer(x.type) THEN Designating(Base(x.type), x.said) ELSE GivenUp(x.said + 1)
    BY <1>3 DEF AnalyzeUnary, Steps, Sizes
  <2>2. Refused(Designating(Base(x.type), x.said), {}) /\ Refused(GivenUp(x.said + 1), {})
    BY ErrorsRefuse
  <2> QED BY <2>1, <2>2
<1>4. CASE x.ok /\ op = "bang"
  <2>1. AnalyzeUnary(op, x) = Typed(BoolType, x.said + Unless(IsScalar(x.type)))
    BY <1>4 DEF AnalyzeUnary, Steps, Sizes
  <2> QED BY <2>1, ErrorsRefuse
<1>5. CASE x.ok /\ op = "tilde"
  <2>1. AnalyzeUnary(op, x) = TypedIf(IsInteger(x.type), x.type, x.said)
    BY <1>5 DEF AnalyzeUnary, Steps, Sizes
  <2> QED BY <2>1, ErrorsRefuse
<1>6. CASE x.ok /\ op \in {"plus", "minus"}
  <2>1. AnalyzeUnary(op, x) = TypedIf(IsNumeric(x.type), x.type, x.said)
    BY <1>6 DEF AnalyzeUnary, Steps, Sizes
  <2> QED BY <2>1, ErrorsRefuse
<1>7. CASE x.ok /\ op \in Steps
  <2>1. AnalyzeUnary(op, x) = TypedIf(x.lvalue /\ IsScalar(x.type), x.type, x.said)
    BY <1>7 DEF AnalyzeUnary, Steps, Sizes
  <2> QED BY <2>1, ErrorsRefuse
<1>8. CASE x.ok /\ op \in Sizes
  <2>1. AnalyzeUnary(op, x) = TypedIf(IsComplete(x.type), LongType, 2 * x.said)
    BY <1>8 DEF AnalyzeUnary, Steps, Sizes
  <2>2. 2 * x.said \in Nat /\ 2 * x.said > 0
    OBVIOUS
  <2> HIDE DEF LongType
  <2> QED BY <2>1, <2>2, ErrorsRefuse
<1> QED BY <1>1, <1>2, <1>3, <1>4, <1>5, <1>6, <1>7, <1>8 DEF UnaryOperators

LEMMA BinaryRefuses ==
  ASSUME NEW op \in BinaryOperators,
         NEW x, x.ok \in BOOLEAN, x.said \in Nat, NEW y, y.ok \in BOOLEAN, y.said \in Nat,
         x.said > 0 \/ y.said > 0
  PROVE  Refused(AnalyzeBinary(op, x, y), {})
<1> DEFINE l == x.type
           r == y.type
           said == x.said + y.said
           sums == PointerSum(op, l, r)
           picked == CHOOSE t \in sums : TRUE
           both == ArithmeticType(l, r)
<1>1. said \in Nat /\ said > 0
  OBVIOUS
<1>2. CASE ~x.ok \/ ~y.ok
  <2>1. AnalyzeBinary(op, x, y) = GivenUp(said)
    BY <1>2 DEF AnalyzeBinary
  <2> QED BY <1>1, <2>1, ErrorsRefuse
<1>3. CASE x.ok /\ y.ok /\ op \in Assignments
  <2>1. AnalyzeBinary(op, x, y) = TypedIf(x.lvalue /\ Assignable(l, r), l, said)
    BY <1>3 DEF AnalyzeBinary, Assignments, Comparisons, BitOperators
  <2> HIDE DEF said
  <2> QED BY <1>1, <2>1, ErrorsRefuse
<1>4. CASE x.ok /\ y.ok /\ op \in {"&&", "||"} \union Comparisons
  <2>1. AnalyzeBinary(op, x, y) = Typed(BoolType, said + Unless(IsScalar(l) /\ IsScalar(r)))
    BY <1>4 DEF AnalyzeBinary, Assignments, Comparisons, BitOperators
  <2> HIDE DEF said
  <2> QED BY <1>1, <2>1, ErrorsRefuse
<1>5. CASE x.ok /\ y.ok /\ op = ","
  <2>1. AnalyzeBinary(op, x, y) = Typed(r, said)
    BY <1>5 DEF AnalyzeBinary, Assignments, Comparisons, BitOperators
  <2> DEFINE result == AnalyzeBinary(op, x, y)
  <2>2. result = Typed(r, said)
    BY <2>1
  <2> HIDE DEF said, result
  <2>3. Refused(result, {})
    BY <1>1, <2>2, ErrorsRefuse
  <2> QED BY <2>3 DEF result
<1>6. CASE x.ok /\ y.ok /\ op \in {"+", "-"}
  <2>1. AnalyzeBinary(op, x, y) = IF sums # {} THEN Typed(picked, said) ELSE TypedIf(IsNumeric(l) /\ IsNumeric(r), both, said)
    BY <1>6 DEF AnalyzeBinary, Assignments, Comparisons, BitOperators
  <2> HIDE DEF said, sums, picked
  <2>2. Refused(Typed(picked, said), {}) /\ Refused(TypedIf(IsNumeric(l) /\ IsNumeric(r), both, said), {})
    BY <1>1, ErrorsRefuse
  <2> QED BY <2>1, <2>2
<1>7. CASE x.ok /\ y.ok /\ op \in {"*", "/"}
  <2>1. AnalyzeBinary(op, x, y) = TypedIf(IsNumeric(l) /\ IsNumeric(r), both, said)
    BY <1>7 DEF AnalyzeBinary, Assignments, Comparisons, BitOperators
  <2> HIDE DEF said
  <2> QED BY <1>1, <2>1, ErrorsRefuse
<1>8. CASE x.ok /\ y.ok /\ op \in BitOperators
  <2>1. AnalyzeBinary(op, x, y) = TypedIf(IsInteger(l) /\ IsInteger(r), both, said)
    BY <1>8 DEF AnalyzeBinary, Assignments, Comparisons, BitOperators
  <2> HIDE DEF said
  <2> QED BY <1>1, <2>1, ErrorsRefuse
<1>9. \/ op \in Assignments \/ op \in {"&&", "||"} \union Comparisons \/ op = "," \/ op \in {"+", "-"}
      \/ op \in {"*", "/"} \/ op \in BitOperators
  BY DEF BinaryOperators
<1> QED BY <1>2, <1>3, <1>4, <1>5, <1>6, <1>7, <1>8, <1>9

LEMMA ConditionalRefuses ==
  ASSUME NEW z, z.said \in Nat, NEW x, x.said \in Nat, NEW y, y.said \in Nat,
         z.said > 0 \/ x.said > 0 \/ y.said > 0
  PROVE  Refused(AnalyzeConditional(z, x, y), {})
<1> DEFINE said == z.said + x.said + y.said + Unless(IsScalar(z.type))
<1>1. said \in Nat /\ said > 0
  <2>1. Unless(IsScalar(z.type)) \in {0, 1}
    BY DEF Unless
  <2> QED BY <2>1
<1>2. AnalyzeConditional(z, x, y) =
        IF Assignable(x.type, y.type) THEN Typed(x.type, said)
        ELSE TypedIf(Assignable(y.type, x.type), y.type, said)
  BY DEF AnalyzeConditional
<1> HIDE DEF said
<1>3. Refused(Typed(x.type, said), {}) /\ Refused(TypedIf(Assignable(y.type, x.type), y.type, said), {})
  BY <1>1, ErrorsRefuse
<1> QED BY <1>2, <1>3

LEMMA SubscriptRefuses ==
  ASSUME NEW x, x.said \in Nat, NEW y, y.said \in Nat, x.said > 0 \/ y.said > 0
  PROVE  Refused(AnalyzeSubscript(x, y), {})
<1> DEFINE said == x.said + y.said
<1>1. said \in Nat /\ said > 0
  OBVIOUS
<1>2. AnalyzeSubscript(x, y) =
        IF IsPointer(x.type) /\ IsInteger(y.type) THEN Designating(Base(x.type), said) ELSE GivenUp(said + 1)
  BY DEF AnalyzeSubscript
<1> HIDE DEF said
<1>3. Refused(Designating(Base(x.type), said), {}) /\ Refused(GivenUp(said + 1), {})
  BY <1>1, ErrorsRefuse
<1> QED BY <1>2, <1>3

LEMMA MemberRefuses ==
  ASSUME NEW how, NEW name, NEW x, x.ok \in BOOLEAN, x.said \in Nat, x.said > 0
  PROVE  Refused(AnalyzeMember(how, x, name), {})
<1> DEFINE result == AnalyzeMember(how, x, name)
           t == IF how = "->" /\ IsPointer(x.type) THEN Base(x.type) ELSE x.type
           f == Fields[t.tag][name]
           b == how = "->" \/ x.lvalue
           found == [Typed(f, x.said) EXCEPT !.lvalue = b]
<1>1. result = GivenUp(x.said) \/ result = GivenUp(x.said + 1) \/ result = found
  BY DEF AnalyzeMember
<1>2. found.ok = TRUE /\ found.said = x.said
  BY DEF Typed
<1>3. Refused(GivenUp(x.said), {}) /\ Refused(GivenUp(x.said + 1), {})
  BY ErrorsRefuse
<1> HIDE DEF found, result
<1>4. Refused(found, {})
  BY <1>2 DEF Refused
<1>5. Refused(result, {})
  BY <1>1, <1>3, <1>4
<1> QED BY <1>5 DEF result

LEMMA CastRefuses ==
  ASSUME NEW t, NEW x, x.ok \in BOOLEAN, x.said \in Nat, x.said > 0
  PROVE  Refused(AnalyzeCast(t, x), {})
<1>1. Refused(GivenUp(x.said), {}) /\ Refused(TypedIf(Castable(t, x.type), t, x.said), {})
  BY ErrorsRefuse
<1> QED BY <1>1 DEF AnalyzeCast

LEMMA UseRefuses ==
  ASSUME NEW how, NEW t, NEW x, x.ok \in BOOLEAN, x.said \in Nat, x.said > 0
  PROVE  Refused(AnalyzeUse(how, t, x), {})
<1> DEFINE fits == CASE how = "condition" -> IsScalar(x.type)
                     [] how = "selector" -> IsInteger(x.type)
                     [] how = "returned" -> ~IsVoid(t) /\ Assignable(t, x.type)
                     [] how = "initializer" -> Assignable(t, x.type)
           result == AnalyzeUse(how, t, x)
<1>1. result = [type |-> x.type, lvalue |-> x.lvalue, ok |-> x.ok, said |-> x.said + Unless(fits)]
  BY DEF AnalyzeUse
<1>2. Unless(fits) \in {0, 1}
  BY DEF Unless
<1> HIDE DEF fits, result
<1>3. result.ok = x.ok /\ result.said = x.said + Unless(fits)
  BY <1>1
<1>4. x.said + Unless(fits) \in Nat /\ x.said + Unless(fits) > 0
  BY <1>2
<1>5. Refused(result, {})
  BY <1>3, <1>4 DEF Refused
<1> QED BY <1>5 DEF result

-----------------------------------------------------------------------------
(* One node of a tree over others, of which the analysis and C agree.       *)
NodeOver(e) ==
    /\ Shaped(e)
    /\ Len(e.kids) \in Nat /\ DOMAIN e.kids = 1 .. Len(e.kids)
    /\ \A i \in 1 .. Len(e.kids) : e.kids[i].kind = "type" => e.kids[i].text \in DOMAIN TypeNames

Matches(e, analyses, answers) ==
    /\ Agree(analyses[e], answers[e])
    /\ IsStar(e) /\ answers[e] # {} => analyses[e].lvalue

KidsMatch(e, analyses, answers) ==
    \A i \in 1 .. Len(e.kids) : e.kids[i].kind # "type" => Matches(e.kids[i], analyses, answers)

LEMMA ShapedIs ==
  ASSUME NEW e, NodeOver(e)
  PROVE  /\ e.kind \in {"identifier", "literal", "type", "unary", "binary", "conditional", "call",
                        "subscript", "member", "cast", "use"} =>
            /\ e.kind = "type" => e.text \in DOMAIN TypeNames
            /\ e.kind = "unary" => Len(e.kids) = 1 /\ e.text \in UnaryOperators
            /\ e.kind = "unary" /\ e.text \notin Sizes => e.kids[1].kind # "type"
            /\ e.kind = "binary" => Len(e.kids) = 2 /\ e.text \in BinaryOperators
            /\ e.kind = "conditional" => Len(e.kids) = 3
            /\ e.kind = "call" => Len(e.kids) >= 1
            /\ e.kind = "subscript" => Len(e.kids) = 2
            /\ e.kind = "member" => Len(e.kids) = 2 /\ e.text \in {".", "->"}
            /\ e.kind \in {"binary", "conditional", "call", "subscript", "member"} =>
                  \A i \in 1 .. Len(e.kids) : e.kids[i].kind # "type"
            /\ e.kind \in {"cast", "use"} =>
                  Len(e.kids) = 2 /\ e.kids[1].kind = "type" /\ e.kids[2].kind # "type"
            /\ e.kind = "use" => e.text \in UsedAs
<1> DEFINE n == Len(e.kids)
           isType(i) == e.kids[i].kind = "type"
           named == {i \in 1 .. n : isType(i)}
<1>1. CASE e.kind \in {"identifier", "literal"}
  BY <1>1
<1>2. CASE e.kind = "type"
  BY <1>2 DEF NodeOver, Shaped
<1>3. CASE e.kind = "unary"
  <2>1. n = 1 /\ e.text \in UnaryOperators /\ (e.text \in Sizes \/ named = {})
    BY <1>3 DEF NodeOver, Shaped
  <2>2. named = {} => ~isType(1)
    BY <2>1
  <2> QED BY <1>3, <2>1, <2>2
<1>4. CASE e.kind \in {"binary", "conditional", "call", "subscript", "member"}
  <2>1. named = {}
    BY <1>4 DEF NodeOver, Shaped
  <2>2. \A i \in 1 .. n : ~isType(i)
    BY <2>1
  <2>3. /\ e.kind = "binary" => n = 2 /\ e.text \in BinaryOperators
        /\ e.kind = "conditional" => n = 3
        /\ e.kind = "call" => n >= 1
        /\ e.kind = "subscript" => n = 2
        /\ e.kind = "member" => n = 2 /\ e.text \in {".", "->"}
    BY <1>4 DEF NodeOver, Shaped
  <2> QED BY <1>4, <2>2, <2>3
<1>5. CASE e.kind \in {"cast", "use"}
  <2>1. n = 2 /\ named = {1} /\ (e.kind = "use" => e.text \in UsedAs)
    BY <1>5 DEF NodeOver, Shaped
  <2>2. isType(1) /\ ~isType(2)
    <3>1. 1 \in 1 .. n /\ 2 \in 1 .. n
      BY <2>1
    <3> HIDE DEF n, isType
    <3> QED BY <2>1, <3>1
  <2> QED BY <1>5, <2>1, <2>2
<1> QED BY <1>1, <1>2, <1>3, <1>4, <1>5

LEMMA LeafAgrees ==
  ASSUME NEW e, NEW analyses, NEW answers, e.kind \in {"identifier", "literal"}
  PROVE  Agree(AnalyzeNode(e, analyses), TypeInC(e, answers))
<1>1. CASE e.kind = "literal"
  <2>1. AnalyzeNode(e, analyses) = TypedIf(TRUE, IntType, 0)
    BY <1>1 DEF AnalyzeNode, TypedIf
  <2>2. TypeInC(e, answers) = If(TRUE, Basic("int"))
    BY <1>1 DEF TypeInC
  <2>3. IntType \in Known /\ Alike(IntType, Basic("int"))
    BY NumbersAreKnown DEF Alike
  <2> QED BY <2>1, <2>2, <2>3, ResultAgrees
<1>2. CASE e.kind = "identifier"
  <2> DEFINE s == Symbols[e.text]
             known == e.text \in DOMAIN Symbols /\ s.kind # "typedef"
             result == AnalyzeNode(e, analyses)
             typed == TypeInC(e, answers)
  <2>1. result = IF ~known THEN GivenUp(1) ELSE IF s.kind = "object" THEN Designating(s.type, 0) ELSE Typed(s.type, 0)
    BY <1>2 DEF AnalyzeNode, AnalyzeIdentifier
  <2>2. typed = IF known THEN Lval(s.type) ELSE {}
    BY <1>2 DEF TypeInC
  <2> SUFFICES Agree(result, typed)
    OBVIOUS
  <2> HIDE DEF result, typed
  <2>3. CASE ~known
    <3>1. Refused(GivenUp(0 + 1), {})
      BY ErrorsRefuse
    <3>2. result = GivenUp(0 + 1) /\ typed = {}
      BY <2>1, <2>2, <2>3
    <3> QED BY <3>1, <3>2 DEF Agree
  <2>4. ASSUME known PROVE s.type \in Declared /\ (s.kind = "function" => s.type.kind = "function")
                           /\ s.kind \in {"object", "function"}
    BY <2>4, DeclaredAssumption
  <2>5. CASE known /\ s.kind = "object"
    BY <2>1, <2>2, <2>4, <2>5, PlaceAgrees
  <2>6. CASE known /\ s.kind # "object"
    <3> DEFINE t == s.type
               x == Typed(t, 0)
               a == [type |-> t, lvalue |-> FALSE]
    <3>1. t \in Known /\ Alike(t, t)
      BY <2>4, <2>6 DEF Known, Alike
    <3>2. Fits(x, a)
      <4> HIDE DEF t
      <4> QED BY <3>1, ValueFits
    <3>3. typed = {a} /\ result = x
      BY <2>1, <2>2, <2>4, <2>6 DEF Lval
    <3> HIDE DEF x, a
    <3> QED BY <3>2, <3>3 DEF Agree
  <2> QED BY <2>3, <2>5, <2>6
<1> QED BY <1>1, <1>2

LEMMA UnaryNodeAgrees ==
  ASSUME NEW e, NodeOver(e), e.kind = "unary",
         NEW analyses, NEW answers, KidsMatch(e, analyses, answers), ~Departs(e, answers)
  PROVE  /\ Agree(AnalyzeNode(e, analyses), TypeInC(e, answers))
         /\ IsStar(e) /\ TypeInC(e, answers) # {} => AnalyzeNode(e, analyses).lvalue
<1> DEFINE x == analyses[e.kids[1]]
           ys == answers[e.kids[1]]
           op == e.text
<1>1. op \in UnaryOperators /\ Len(e.kids) = 1 /\ 1 \in DOMAIN e.kids /\ (op \notin Sizes => e.kids[1].kind # "type")
  <2>1. Len(e.kids) = 1 /\ DOMAIN e.kids = 1 .. Len(e.kids)
    BY ShapedIs DEF NodeOver
  <2>2. 1 \in 1 .. 1
    OBVIOUS
  <2> QED BY <2>1, <2>2, ShapedIs
<1>2. e.kids[1].kind # "type"
  <2>1. ~SizesAType(e)
    BY DEF Departs
  <2> QED BY <1>1, <2>1 DEF SizesAType
<1>3. Agree(x, ys) /\ (IsStar(e.kids[1]) /\ ys # {} => x.lvalue)
  <2>1. 1 \in 1 .. Len(e.kids)
    BY <1>1 DEF NodeOver
  <2> QED BY <1>2, <2>1 DEF KidsMatch, Matches
<1>4. AnalyzeNode(e, analyses) = AnalyzeUnary(op, x)
  BY DEF AnalyzeNode
<1>5. TypeInC(e, answers) = UNION {OfUnary(e, a) : a \in ys}
  BY DEF TypeInC
<1>6. \A a \in ys : a.type.kind # "function"
  BY <1>1 DEF Departs
<1>7. /\ op = "ampersand" => \A a \in ys : IsVoid(a.type) => IsStar(e.kids[1])
      /\ op \in Steps => \A a \in ys : IsPointer(a.type) => ToComplete(a.type)
  BY DEF Departs
<1> HIDE DEF x, ys
<1>8. CASE ys = {}
  <2>1. TypeInC(e, answers) = {}
    BY <1>5, <1>8
  <2>2. Refused(AnalyzeUnary(op, x), {})
    <3>1. x.ok \in BOOLEAN /\ x.said \in Nat
      BY <1>3, AgreeingIs
    <3>2. x.said > 0
      <4>1. x.said # 0
        BY <1>3, <1>8, AgreeingIs
      <4> QED BY <3>1, <4>1
    <3> QED BY <1>1, <3>1, <3>2, UnaryRefuses
  <2> QED BY <1>4, <2>1, <2>2 DEF Agree
<1>9. CASE ys # {}
  <2>1. PICK a : ys = {a} /\ Fits(x, a)
    BY <1>3, <1>9, AgreeingIs
  <2>2. TypeInC(e, answers) = OfUnary(e, a) /\ a.type.kind # "function"
    BY <1>5, <1>6, <2>1
  <2>3. ASSUME op = "ampersand" PROVE Agree(AnalyzeUnary(op, x), OfUnary(e, a))
    BY <1>3, <1>7, <1>9, <2>1, <2>2, <2>3, AddressAgrees
  <2>4. ASSUME op = "star"
        PROVE  Agree(AnalyzeUnary(op, x), OfUnary(e, a)) /\ (OfUnary(e, a) # {} => AnalyzeUnary(op, x).lvalue)
    BY <2>1, <2>2, <2>4, StarAgrees
  <2>5. ASSUME op \in Steps PROVE Agree(AnalyzeUnary(op, x), OfUnary(e, a))
    BY <1>7, <2>1, <2>2, <2>5, StepAgrees
  <2>6. ASSUME op \in {"bang", "tilde", "plus", "minus"} PROVE Agree(AnalyzeUnary(op, x), OfUnary(e, a))
    BY <2>1, <2>2, <2>6, ValueOperatorAgrees
  <2>7. ASSUME op \in Sizes PROVE Agree(AnalyzeUnary(op, x), OfUnary(e, a))
    BY <2>1, <2>2, <2>7, SizeAgrees
  <2>8. Agree(AnalyzeUnary(op, x), OfUnary(e, a))
    BY <1>1, <2>3, <2>4, <2>5, <2>6, <2>7 DEF UnaryOperators
  <2> QED BY <1>4, <2>2, <2>4, <2>8 DEF IsStar
<1> QED BY <1>8, <1>9

LEMMA BinaryNodeAgrees ==
  ASSUME NEW e, NodeOver(e), e.kind = "binary",
         NEW analyses, NEW answers, KidsMatch(e, analyses, answers), ~Departs(e, answers)
  PROVE  Agree(AnalyzeNode(e, analyses), TypeInC(e, answers))
<1> DEFINE x == analyses[e.kids[1]]
           y == analyses[e.kids[2]]
           xs == answers[e.kids[1]]
           ys == answers[e.kids[2]]
           op == e.text
<1>1. op \in BinaryOperators /\ 1 \in DOMAIN e.kids /\ 2 \in DOMAIN e.kids /\ DOMAIN e.kids = 1 .. Len(e.kids)
      /\ e.kids[1].kind # "type" /\ e.kids[2].kind # "type"
  <2>1. DOMAIN e.kids = 1 .. 2 /\ DOMAIN e.kids = 1 .. Len(e.kids)
    BY ShapedIs DEF NodeOver
  <2>2. 1 \in 1 .. 2 /\ 2 \in 1 .. 2
    OBVIOUS
  <2> QED BY <2>1, <2>2, ShapedIs
<1>2. Agree(x, xs) /\ Agree(y, ys)
  BY <1>1 DEF KidsMatch, Matches
<1>3. AnalyzeNode(e, analyses) = AnalyzeBinary(op, x, y)
  BY DEF AnalyzeNode
<1>4. /\ op \in Assignments =>
            TypeInC(e, answers) = UNION {OfAssignment(op, a, Decayed(b.type)) : a \in xs, b \in ys}
      /\ op \notin Assignments =>
            TypeInC(e, answers) = UNION {OfBinary(op, Decayed(a.type), Decayed(b.type)) : a \in xs, b \in ys}
  BY DEF TypeInC
<1>5. (\A a \in xs : a.type.kind # "function") /\ (\A b \in ys : b.type.kind # "function")
  BY <1>1 DEF Departs
<1>6. \A a \in xs, b \in ys :
        /\ op \in Assignments => ~DepartsInAssignment(op, a.type, b.type)
        /\ op \notin Assignments => ~DepartsInOperator(op, a.type, b.type)
  BY DEF Departs
<1> DEFINE result == AnalyzeBinary(op, x, y)
           typed == TypeInC(e, answers)
<1>7. SUFFICES Agree(result, typed)
  BY <1>3
<1> HIDE DEF x, y, xs, ys
<1>8. x.ok \in BOOLEAN /\ x.said \in Nat /\ y.ok \in BOOLEAN /\ y.said \in Nat
  BY <1>2, AgreeingIs
<1>9. CASE xs = {} \/ ys = {}
  <2>1. typed = {}
    BY <1>4, <1>9
  <2>2. x.said # 0 \/ y.said # 0
    BY <1>2, <1>9, AgreeingIs
  <2>3. x.said > 0 \/ y.said > 0
    BY <1>8, <2>2
  <2>4. Refused(result, {})
    BY <1>1, <1>8, <2>3, BinaryRefuses
  <2> HIDE DEF result, typed
  <2> QED BY <2>1, <2>4 DEF Agree
<1>10. CASE xs # {} /\ ys # {}
  <2>1. PICK a : xs = {a} /\ Fits(x, a)
    BY <1>2, <1>10, AgreeingIs
  <2>2. PICK b : ys = {b} /\ Fits(y, b)
    BY <1>2, <1>10, AgreeingIs
  <2>3. Decayed(a.type) = a.type /\ Decayed(b.type) = b.type
    BY <1>5, <2>1, <2>2, FitsIs
  <2>4. CASE op \in Assignments
    <3>1. typed = OfAssignment(op, a, b.type)
      <4> DEFINE F(u, v) == OfAssignment(op, u, Decayed(v.type))
      <4>1. typed = UNION {F(u, v) : u \in xs, v \in ys}
        BY <1>4, <2>4
      <4>2. F(a, b) = OfAssignment(op, a, b.type)
        BY <2>3
      <4> HIDE DEF F, typed
      <4>3. typed = F(a, b)
        BY <2>1, <2>2, <4>1
      <4> QED BY <4>2, <4>3
    <3>2. ~DepartsInAssignment(op, a.type, b.type)
      BY <1>6, <2>1, <2>2, <2>4
    <3>3. Agree(result, OfAssignment(op, a, b.type))
      BY <2>1, <2>2, <2>4, <3>2, AssignmentAgrees
    <3> HIDE DEF result, typed
    <3> QED BY <3>1, <3>3
  <2>5. CASE op \notin Assignments
    <3>1. typed = OfBinary(op, a.type, b.type)
      <4> DEFINE F(u, v) == OfBinary(op, Decayed(u.type), Decayed(v.type))
      <4>1. typed = UNION {F(u, v) : u \in xs, v \in ys}
        BY <1>4, <2>5
      <4>2. F(a, b) = OfBinary(op, a.type, b.type)
        BY <2>3
      <4> HIDE DEF F, typed
      <4>3. typed = F(a, b)
        BY <2>1, <2>2, <4>1
      <4> QED BY <4>2, <4>3
    <3>2. ~DepartsInOperator(op, a.type, b.type)
      BY <1>6, <2>1, <2>2, <2>5
    <3>3. Agree(result, OfBinary(op, a.type, b.type))
      BY <1>1, <2>1, <2>2, <2>5, <3>2, OperatorAgrees
    <3> HIDE DEF result, typed
    <3> QED BY <3>1, <3>3
  <2> QED BY <2>4, <2>5
<1> QED BY <1>9, <1>10

LEMMA ConditionalNodeAgrees ==
  ASSUME NEW e, NodeOver(e), e.kind = "conditional",
         NEW analyses, NEW answers, KidsMatch(e, analyses, answers), ~Departs(e, answers)
  PROVE  Agree(AnalyzeNode(e, analyses), TypeInC(e, answers))
<1> DEFINE z == analyses[e.kids[1]]
           x == analyses[e.kids[2]]
           y == analyses[e.kids[3]]
           zs == answers[e.kids[1]]
           xs == answers[e.kids[2]]
           ys == answers[e.kids[3]]
<1>1. DOMAIN e.kids = 1 .. 3 /\ \A i \in 1 .. 3 : e.kids[i].kind # "type"
  BY ShapedIs DEF NodeOver
<1>2. 1 \in 1 .. 3 /\ 2 \in 1 .. 3 /\ 3 \in 1 .. 3
  OBVIOUS
<1>3. Agree(z, zs) /\ Agree(x, xs) /\ Agree(y, ys)
  BY <1>1, <1>2 DEF KidsMatch, Matches, NodeOver
<1>4. AnalyzeNode(e, analyses) = AnalyzeConditional(z, x, y)
  BY DEF AnalyzeNode
<1>5. TypeInC(e, answers) =
        UNION {OfConditional(Decayed(a.type), Decayed(b.type), Decayed(d.type)) : a \in zs, b \in xs, d \in ys}
  BY DEF TypeInC
<1>6. /\ \A a \in zs : a.type.kind # "function"
      /\ \A a \in xs : a.type.kind # "function"
      /\ \A a \in ys : a.type.kind # "function"
  BY <1>1, <1>2 DEF Departs
<1>7. \A a \in xs, b \in ys : ~DepartsInConditional(a.type, b.type)
  BY DEF Departs
<1> HIDE DEF z, x, y, zs, xs, ys
<1>8. z.said \in Nat /\ x.said \in Nat /\ y.said \in Nat
  BY <1>3, AgreeingIs
<1>9. CASE zs = {} \/ xs = {} \/ ys = {}
  <2>1. TypeInC(e, answers) = {}
    BY <1>5, <1>9
  <2>2. z.said # 0 \/ x.said # 0 \/ y.said # 0
    BY <1>3, <1>9, AgreeingIs
  <2>3. z.said > 0 \/ x.said > 0 \/ y.said > 0
    BY <1>8, <2>2
  <2>4. Refused(AnalyzeConditional(z, x, y), {})
    BY <1>8, <2>3, ConditionalRefuses
  <2> QED BY <1>4, <2>1, <2>4 DEF Agree
<1>10. CASE zs # {} /\ xs # {} /\ ys # {}
  <2>1. PICK a : zs = {a} /\ Fits(z, a)
    BY <1>3, <1>10, AgreeingIs
  <2>2. PICK b : xs = {b} /\ Fits(x, b)
    BY <1>3, <1>10, AgreeingIs
  <2>3. PICK d : ys = {d} /\ Fits(y, d)
    BY <1>3, <1>10, AgreeingIs
  <2>4. Decayed(a.type) = a.type /\ Decayed(b.type) = b.type /\ Decayed(d.type) = d.type
    BY <1>6, <2>1, <2>2, <2>3, FitsIs
  <2>5. TypeInC(e, answers) = OfConditional(a.type, b.type, d.type)
    BY <1>5, <2>1, <2>2, <2>3, <2>4
  <2>6. ~DepartsInConditional(b.type, d.type)
    BY <1>7, <2>2, <2>3
  <2> QED BY <1>4, <2>1, <2>2, <2>3, <2>5, <2>6, ConditionalAgrees
<1> QED BY <1>9, <1>10

LEMMA SubscriptNodeAgrees ==
  ASSUME NEW e, NodeOver(e), e.kind = "subscript",
         NEW analyses, NEW answers, KidsMatch(e, analyses, answers), ~Departs(e, answers)
  PROVE  Agree(AnalyzeNode(e, analyses), TypeInC(e, answers))
<1> DEFINE x == analyses[e.kids[1]]
           y == analyses[e.kids[2]]
           xs == answers[e.kids[1]]
           ys == answers[e.kids[2]]
<1>1. DOMAIN e.kids = 1 .. 2 /\ \A i \in 1 .. 2 : e.kids[i].kind # "type"
  BY ShapedIs DEF NodeOver
<1>2. 1 \in 1 .. 2 /\ 2 \in 1 .. 2
  OBVIOUS
<1>3. Agree(x, xs) /\ Agree(y, ys)
  BY <1>1, <1>2 DEF KidsMatch, Matches, NodeOver
<1>4. AnalyzeNode(e, analyses) = AnalyzeSubscript(x, y)
  BY DEF AnalyzeNode
<1>5. TypeInC(e, answers) = UNION {OfSubscript(Decayed(a.type), Decayed(b.type)) : a \in xs, b \in ys}
  BY DEF TypeInC
<1>6. (\A a \in xs : a.type.kind # "function") /\ (\A b \in ys : b.type.kind # "function")
  BY <1>1, <1>2 DEF Departs
<1>7. \A a \in xs : ~IsInteger(a.type) /\ (IsPointer(a.type) => ToComplete(a.type))
  BY DEF Departs
<1> HIDE DEF x, y, xs, ys
<1>8. x.said \in Nat /\ y.said \in Nat
  BY <1>3, AgreeingIs
<1>9. CASE xs = {} \/ ys = {}
  <2>1. TypeInC(e, answers) = {}
    BY <1>5, <1>9
  <2>2. x.said # 0 \/ y.said # 0
    BY <1>3, <1>9, AgreeingIs
  <2>3. x.said > 0 \/ y.said > 0
    BY <1>8, <2>2
  <2>4. Refused(AnalyzeSubscript(x, y), {})
    BY <1>8, <2>3, SubscriptRefuses
  <2> QED BY <1>4, <2>1, <2>4 DEF Agree
<1>10. CASE xs # {} /\ ys # {}
  <2>1. PICK a : xs = {a} /\ Fits(x, a)
    BY <1>3, <1>10, AgreeingIs
  <2>2. PICK b : ys = {b} /\ Fits(y, b)
    BY <1>3, <1>10, AgreeingIs
  <2>3. Decayed(a.type) = a.type /\ Decayed(b.type) = b.type
    BY <1>6, <2>1, <2>2, FitsIs
  <2>4. TypeInC(e, answers) = OfSubscript(a.type, b.type)
    BY <1>5, <2>1, <2>2, <2>3
  <2>5. ~IsInteger(a.type) /\ (IsPointer(a.type) => ToComplete(a.type))
    BY <1>7, <2>1
  <2> QED BY <1>4, <2>1, <2>2, <2>4, <2>5, SubscriptAgrees
<1> QED BY <1>9, <1>10

LEMMA MemberNodeAgrees ==
  ASSUME NEW e, NodeOver(e), e.kind = "member",
         NEW analyses, NEW answers, KidsMatch(e, analyses, answers)
  PROVE  Agree(AnalyzeNode(e, analyses), TypeInC(e, answers))
<1> DEFINE x == analyses[e.kids[1]]
           xs == answers[e.kids[1]]
           name == e.kids[2].text
<1>1. Len(e.kids) = 2 /\ e.text \in {".", "->"} /\ \A i \in 1 .. 2 : e.kids[i].kind # "type"
  BY ShapedIs
<1>2. 1 \in 1 .. 2
  OBVIOUS
<1>3. Agree(x, xs)
  BY <1>1, <1>2 DEF KidsMatch, Matches
<1>4. AnalyzeNode(e, analyses) = AnalyzeMember(e.text, x, name)
  BY DEF AnalyzeNode
<1>5. TypeInC(e, answers) = UNION {OfMember(e.text, a, name) : a \in xs}
  BY DEF TypeInC
<1> HIDE DEF x, xs, name
<1>6. CASE xs = {}
  <2>1. TypeInC(e, answers) = {}
    BY <1>5, <1>6
  <2>2. x.ok \in BOOLEAN /\ x.said \in Nat
    BY <1>3, AgreeingIs
  <2>3. x.said # 0
    BY <1>3, <1>6, AgreeingIs
  <2>4. x.said > 0
    BY <2>2, <2>3
  <2>5. Refused(AnalyzeMember(e.text, x, name), {})
    BY <2>2, <2>4, MemberRefuses
  <2> QED BY <1>4, <2>1, <2>5 DEF Agree
<1>7. CASE xs # {}
  <2>1. PICK a : xs = {a} /\ Fits(x, a)
    BY <1>3, <1>7, AgreeingIs
  <2>2. TypeInC(e, answers) = OfMember(e.text, a, name)
    BY <1>5, <2>1
  <2> QED BY <1>1, <1>4, <2>1, <2>2, MemberAgrees
<1> QED BY <1>6, <1>7

LEMMA CastNodeAgrees ==
  ASSUME NEW e, NodeOver(e), e.kind \in {"cast", "use"},
         NEW analyses, NEW answers, KidsMatch(e, analyses, answers), ~Departs(e, answers)
  PROVE  Agree(AnalyzeNode(e, analyses), TypeInC(e, answers))
<1> DEFINE x == analyses[e.kids[2]]
           xs == answers[e.kids[2]]
           target == TypeNames[e.kids[1].text]
<1>1. DOMAIN e.kids = 1 .. 2 /\ Len(e.kids) = 2 /\ e.kids[1].kind = "type" /\ e.kids[2].kind # "type"
      /\ (e.kind = "use" => e.text \in UsedAs)
  BY ShapedIs DEF NodeOver
<1>2. 1 \in 1 .. 2 /\ 2 \in 1 .. 2 /\ 2 > 1
  OBVIOUS
<1>3. Agree(x, xs)
  BY <1>1, <1>2 DEF KidsMatch, Matches
<1>4. target \in Declared
  BY <1>1, <1>2, DeclaredAssumption DEF NodeOver
<1>5. /\ e.kind = "cast" => /\ AnalyzeNode(e, analyses) = AnalyzeCast(target, x)
                            /\ TypeInC(e, answers) = UNION {OfCast(target, Decayed(a.type)) : a \in xs}
      /\ e.kind = "use" => /\ AnalyzeNode(e, analyses) = AnalyzeUse(e.text, target, x)
                           /\ TypeInC(e, answers) = {a \in xs : FitsUse(e.text, target, Decayed(a.type))}
  <2>1. ASSUME e.kind = "cast" PROVE AnalyzeNode(e, analyses) = AnalyzeCast(target, x)
    BY <2>1 DEF AnalyzeNode
  <2>2. ASSUME e.kind = "cast" PROVE TypeInC(e, answers) = UNION {OfCast(target, Decayed(a.type)) : a \in xs}
    BY <2>2 DEF TypeInC
  <2>3. ASSUME e.kind = "use" PROVE AnalyzeNode(e, analyses) = AnalyzeUse(e.text, target, x)
    BY <2>3 DEF AnalyzeNode
  <2>4. ASSUME e.kind = "use" PROVE TypeInC(e, answers) = {a \in xs : FitsUse(e.text, target, Decayed(a.type))}
    BY <2>4 DEF TypeInC
  <2> QED BY <2>1, <2>2, <2>3, <2>4
<1>6. \A a \in xs : a.type.kind # "function"
  BY <1>1, <1>2 DEF Departs
<1>7. \A a \in xs : /\ e.kind = "cast" => ~DepartsInCast(target, a.type)
                    /\ e.kind = "use" => ~DepartsInUse(e.text, target, a.type)
  BY DEF Departs
<1> HIDE DEF x, xs, target
<1>8. CASE xs = {}
  <2>1. TypeInC(e, answers) = {}
    BY <1>5, <1>8
  <2>2. x.ok \in BOOLEAN /\ x.said \in Nat
    BY <1>3, AgreeingIs
  <2>3. x.said # 0
    BY <1>3, <1>8, AgreeingIs
  <2>4. x.said > 0
    BY <2>2, <2>3
  <2>5. Refused(AnalyzeCast(target, x), {}) /\ Refused(AnalyzeUse(e.text, target, x), {})
    BY <2>2, <2>4, CastRefuses, UseRefuses
  <2> QED BY <1>5, <2>1, <2>5 DEF Agree
<1>9. CASE xs # {}
  <2>1. PICK a : xs = {a} /\ Fits(x, a)
    BY <1>3, <1>9, AgreeingIs
  <2>2. a.type.kind # "function" /\ Decayed(a.type) = a.type
    BY <1>6, <2>1, FitsIs
  <2>3. CASE e.kind = "cast"
    <3>1. TypeInC(e, answers) = OfCast(target, a.type)
      <4> DEFINE F(u) == OfCast(target, Decayed(u.type))
      <4>1. TypeInC(e, answers) = UNION {F(u) : u \in xs}
        BY <1>5, <2>3
      <4>2. F(a) = OfCast(target, a.type)
        BY <2>2
      <4> HIDE DEF F
      <4>3. TypeInC(e, answers) = F(a)
        BY <2>1, <4>1
      <4> QED BY <4>2, <4>3
    <3>2. ~DepartsInCast(target, a.type)
      BY <1>7, <2>1, <2>3
    <3> QED BY <1>4, <1>5, <2>1, <2>2, <2>3, <3>1, <3>2, CastAgrees
  <2>4. CASE e.kind = "use"
    <3>1. TypeInC(e, answers) = {v \in {a} : FitsUse(e.text, target, Decayed(v.type))}
      BY <1>5, <2>1, <2>4
    <3>2. ~DepartsInUse(e.text, target, a.type) /\ e.text \in UsedAs
      BY <1>1, <1>7, <2>1, <2>4
    <3> QED BY <1>4, <1>5, <2>1, <2>2, <2>4, <3>1, <3>2, UseAgrees
  <2> QED BY <2>3, <2>4
<1> QED BY <1>8, <1>9

LEMMA CallNodeAgrees ==
  ASSUME NEW e, NodeOver(e), e.kind = "call",
         NEW analyses, NEW answers, KidsMatch(e, analyses, answers), ~Departs(e, answers)
  PROVE  Agree(AnalyzeNode(e, analyses), TypeInC(e, answers))
<1> DEFINE m == Len(e.kids) - 1
           kid(i) == analyses[e.kids[i]]
           answer(i) == answers[e.kids[i]]
           typed(i) == Decayed((CHOOSE a \in answer(i) : TRUE).type)
           x == kid(1)
           xs == [i \in 1 .. m |-> kid(i + 1)]
           ts == [i \in 1 .. m |-> typed(i + 1)]
<1>1. /\ Len(e.kids) \in Nat /\ Len(e.kids) >= 1 /\ DOMAIN e.kids = 1 .. Len(e.kids)
      /\ \A i \in 1 .. Len(e.kids) : e.kids[i].kind # "type"
  BY ShapedIs DEF NodeOver
<1>2. m \in Nat /\ 1 \in 1 .. Len(e.kids) /\ \A i \in 1 .. m : i + 1 \in 2 .. Len(e.kids) /\ i + 1 - 1 = i
  BY <1>1
<1>3. \A i \in 1 .. Len(e.kids) : Agree(kid(i), answer(i))
  BY <1>1 DEF KidsMatch, Matches
<1>4. AnalyzeNode(e, analyses) = AnalyzeCall(x, xs)
  BY DEF AnalyzeNode
<1>5. TypeInC(e, answers) = IF \E i \in DOMAIN e.kids : answer(i) = {} THEN {} ELSE OfCall(typed(1), ts)
  BY DEF TypeInC
<1>6. \A i \in 2 .. Len(e.kids) : \A a \in answer(i) : a.type.kind # "function"
  BY <1>1 DEF Departs
<1>7. \A a \in answer(1) : \A i \in 2 .. Len(e.kids) : \A b \in answer(i) :
        IsPointer(Decayed(a.type)) /\ Base(Decayed(a.type)).kind = "function"
          => ~DepartsInArgument(Base(Decayed(a.type)), i - 1, b.type)
  BY DEF Departs
<1> HIDE DEF kid, answer
<1>8. /\ xs = [i \in 1 .. m |-> xs[i]] /\ ts = [i \in 1 .. m |-> ts[i]]
      /\ \A i \in 1 .. m : xs[i] = kid(i + 1) /\ ts[i] = typed(i + 1)
  OBVIOUS
<1> HIDE DEF xs, ts, typed, m
<1>9. ASSUME NEW i \in 1 .. Len(e.kids)
      PROVE  /\ kid(i).ok \in BOOLEAN /\ kid(i).said \in Nat
             /\ ~kid(i).ok => kid(i).said > 0
             /\ kid(i).said = 0 <=> answer(i) # {}
  BY <1>3, AgreeingIs
<1>12. x.ok \in BOOLEAN /\ x.said \in Nat /\ (~x.ok => x.said > 0)
  BY <1>2, <1>9
<1>10. CASE \E i \in 1 .. Len(e.kids) : answer(i) = {}
  <2>1. TypeInC(e, answers) = {}
    BY <1>1, <1>5, <1>10
  <2>2. PICK i \in 1 .. Len(e.kids) : kid(i).said # 0
    <3>1. PICK i \in 1 .. Len(e.kids) : answer(i) = {}
      BY <1>10
    <3>2. kid(i).said # 0
      BY <1>9, <3>1
    <3> QED BY <3>2
  <2>3. x.said > 0 \/ \E j \in 1 .. m : xs[j].said # 0
    <3>1. CASE i = 1
      <4>1. x.said # 0
        BY <2>2, <3>1
      <4>2. x.said > 0
        BY <1>12, <4>1
      <4> QED BY <4>2
    <3>2. CASE i # 1
      <4>1. i - 1 \in 1 .. m /\ (i - 1) + 1 = i
        BY <1>1, <3>2 DEF m
      <4>2. xs[i - 1] = kid(i)
        BY <1>8, <4>1
      <4> QED BY <2>2, <4>1, <4>2
    <3> QED BY <3>1, <3>2
  <2>4. \A j \in 1 .. m : xs[j].said \in Nat
    <3>1. \A j \in 1 .. m : j + 1 \in 1 .. Len(e.kids)
      BY <1>1, <1>2
    <3>2. \A j \in 1 .. m : kid(j + 1).said \in Nat
      BY <1>9, <3>1
    <3> QED BY <1>8, <3>2
  <2> HIDE DEF x
  <2>6. Refused(AnalyzeCall(x, xs), {})
    <3>1. m \in Nat /\ xs = [j \in 1 .. m |-> xs[j]]
      BY <1>2, <1>8
    <3>2. x.ok \in BOOLEAN /\ x.said \in Nat /\ (~x.ok => x.said > 0)
      BY <1>12
    <3> QED BY <2>3, <2>4, <3>1, <3>2, CallRefuses
  <2> QED BY <1>4, <2>1, <2>6 DEF Agree
<1>11. CASE \A i \in 1 .. Len(e.kids) : answer(i) # {}
  <2>1. \A i \in 1 .. Len(e.kids) : \E a : answer(i) = {a} /\ Fits(kid(i), a) /\ typed(i) = Decayed(a.type)
    <3> SUFFICES ASSUME NEW i \in 1 .. Len(e.kids)
                 PROVE  \E a : answer(i) = {a} /\ Fits(kid(i), a) /\ typed(i) = Decayed(a.type)
      OBVIOUS
    <3>1. PICK a : answer(i) = {a} /\ Fits(kid(i), a)
      BY <1>3, <1>11, AgreeingIs
    <3>2. (CHOOSE b \in answer(i) : TRUE) = a
      BY <3>1
    <3> QED BY <3>1, <3>2 DEF typed
  <2>2. PICK a : answer(1) = {a} /\ Fits(x, a) /\ typed(1) = Decayed(a.type)
    BY <1>2, <2>1
  <2>3. TypeInC(e, answers) = OfCall(Decayed(a.type), ts)
    BY <1>1, <1>5, <1>11, <2>2
  <2>4. ASSUME NEW i \in 1 .. m
        PROVE  \E b : answer(i + 1) = {b} /\ Fits(xs[i], b) /\ b.type = ts[i] /\ b.type.kind # "function"
    <3>1. i + 1 \in 1 .. Len(e.kids) /\ i + 1 \in 2 .. Len(e.kids)
      BY <1>1, <1>2
    <3>2. PICK b : answer(i + 1) = {b} /\ Fits(kid(i + 1), b) /\ typed(i + 1) = Decayed(b.type)
      BY <2>1, <3>1
    <3>3. b.type.kind # "function"
      BY <1>6, <3>1, <3>2
    <3>4. Decayed(b.type) = b.type
      BY <3>3 DEF Decayed
    <3> QED BY <1>8, <3>2, <3>3, <3>4
  <2>5. ASSUME IsPointer(Decayed(a.type)), Base(Decayed(a.type)).kind = "function", NEW i \in 1 .. m
        PROVE  ~DepartsInArgument(Base(Decayed(a.type)), i, ts[i])
    <3>1. PICK b : answer(i + 1) = {b} /\ b.type = ts[i]
      BY <2>4
    <3>2. i + 1 \in 2 .. Len(e.kids) /\ i + 1 - 1 = i
      BY <1>2
    <3>3. ~DepartsInArgument(Base(Decayed(a.type)), i + 1 - 1, b.type)
      BY <1>7, <2>2, <2>5, <3>1, <3>2
    <3> QED BY <3>1, <3>2, <3>3
  <2> HIDE DEF x
  <2>6. Agree(AnalyzeCall(x, xs), OfCall(Decayed(a.type), ts))
    BY <1>2, <1>8, <2>2, <2>4, <2>5, CallAgrees
  <2> QED BY <1>4, <2>3, <2>6
<1> QED BY <1>10, <1>11

LEMMA NodeAgrees ==
  ASSUME NEW e, NodeOver(e), e.kind \in NodeKinds, e.kind # "type",
         NEW analyses, NEW answers, KidsMatch(e, analyses, answers), ~Departs(e, answers)
  PROVE  /\ Agree(AnalyzeNode(e, analyses), TypeInC(e, answers))
         /\ IsStar(e) /\ TypeInC(e, answers) # {} => AnalyzeNode(e, analyses).lvalue
<1>1. CASE e.kind = "unary"
  BY <1>1, UnaryNodeAgrees
<1>2. CASE e.kind # "unary"
  <2>1. ~IsStar(e)
    BY <1>2 DEF IsStar
  <2>2. CASE e.kind \in {"identifier", "literal"}
    BY <2>1, <2>2, LeafAgrees
  <2>3. CASE e.kind = "binary"
    BY <2>1, <2>3, BinaryNodeAgrees
  <2>4. CASE e.kind = "conditional"
    BY <2>1, <2>4, ConditionalNodeAgrees
  <2>5. CASE e.kind = "call"
    BY <2>1, <2>5, CallNodeAgrees
  <2>6. CASE e.kind = "subscript"
    BY <2>1, <2>6, SubscriptNodeAgrees
  <2>7. CASE e.kind = "member"
    BY <2>1, <2>7, MemberNodeAgrees
  <2>8. CASE e.kind \in {"cast", "use"}
    BY <2>1, <2>8, CastNodeAgrees
  <2> QED BY <1>2, <2>2, <2>3, <2>4, <2>5, <2>6, <2>7, <2>8 DEF NodeKinds
<1> QED BY <1>1, <1>2

-----------------------------------------------------------------------------
(* Trees of every height.                                                   *)
LEMMA TreesAreNodes ==
  ASSUME NEW n \in 0 .. Height, NEW e \in Expression[n]
  PROVE  /\ n \in 1 .. Height
         /\ e.kind \in NodeKinds
         /\ e.kids \in Seq(Expression[n - 1])
         /\ Shaped(e)
         /\ e.kind = "type" => e.text \in DOMAIN TypeNames
<1>1. Height \in Nat
  BY HeightAssumption
<1>2. n # 0
  BY NoExpressionOfHeightZero
<1>3. e \in ExpressionsOver(Expression[n - 1])
  BY <1>2, ExpressionIs
<1>4. e.kind \in NodeKinds /\ e.kids \in Seq(Expression[n - 1]) /\ Shaped(e)
  BY <1>3 DEF ExpressionsOver
<1>5. e.kind = "type" => e.text \in DOMAIN TypeNames
  BY <1>4 DEF Shaped
<1> QED BY <1>1, <1>2, <1>4, <1>5

LEMMA NodesOverTrees ==
  ASSUME NEW n \in 1 .. Height, NEW e \in Expression[n]
  PROVE  /\ NodeOver(e)
         /\ \A i \in 1 .. Len(e.kids) : e.kids[i] \in Expression[n - 1]
<1>1. n \in 0 .. Height /\ n - 1 \in 0 .. Height
  BY HeightAssumption
<1>2. e.kids \in Seq(Expression[n - 1]) /\ Shaped(e)
  BY <1>1, TreesAreNodes
<1>3. /\ Len(e.kids) \in Nat /\ DOMAIN e.kids = 1 .. Len(e.kids)
      /\ \A i \in 1 .. Len(e.kids) : e.kids[i] \in Expression[n - 1]
  BY <1>2
<1>4. \A kid \in Expression[n - 1] : kid.kind = "type" => kid.text \in DOMAIN TypeNames
  BY <1>1, TreesAreNodes
<1> QED BY <1>2, <1>3, <1>4 DEF NodeOver

(* The analysis of a tree of any height agrees with C, unless it departs.   *)
LEMMA TreesMatch ==
  ASSUME NEW n \in 0 .. Height, NEW e \in Expression[n], e.kind # "type", ~Departing[n][e]
  PROVE  Matches(e, Analyzing[n], CTyping[n])
<1> DEFINE Right(k, tree) == tree.kind = "type" \/ Departing[k][tree] \/ Matches(tree, Analyzing[k], CTyping[k])
           T == {k \in 0 .. Height : \A tree \in Expression[k] : Right(k, tree)}
<1>1. Height \in Nat
  BY HeightAssumption
<1>2. 0 \in T
  BY <1>1, NoExpressionOfHeightZero
<1>3. ASSUME NEW k \in 1 .. Height, k - 1 \in T PROVE k \in T
  <2> SUFFICES ASSUME NEW tree \in Expression[k], tree.kind # "type", ~Departing[k][tree]
               PROVE  Matches(tree, Analyzing[k], CTyping[k])
    <3>1. k \in 0 .. Height
      BY <1>1
    <3> QED BY <3>1
  <2> DEFINE analyses == Analyzing[k - 1]
             answers == CTyping[k - 1]
             departing == Departing[k - 1]
  <2>1. k \in 0 .. Height
    BY <1>1
  <2>2. /\ Analyzing[k][tree] = AnalyzeNode(tree, analyses)
        /\ CTyping[k][tree] = TypeInC(tree, answers)
        /\ Departing[k][tree] = (Departs(tree, answers) \/ \E i \in DOMAIN tree.kids : departing[tree.kids[i]])
    <3>1. Analyzing[k] = AnalysesOver(Expression[k], analyses)
      BY <2>1, AnalyzingIs
    <3>2. CTyping[k] = TypesInC(Expression[k], answers)
      BY <2>1, CTypingIs
    <3>3. Departing[k] = DeparturesIn(Expression[k], answers, departing)
      BY <2>1, DepartingIs
    <3> HIDE DEF analyses, answers, departing
    <3> QED BY <3>1, <3>2, <3>3 DEF AnalysesOver, TypesInC, DeparturesIn
  <2>3. /\ NodeOver(tree) /\ tree.kind \in NodeKinds
        /\ DOMAIN tree.kids = 1 .. Len(tree.kids)
        /\ \A i \in 1 .. Len(tree.kids) : tree.kids[i] \in Expression[k - 1]
    BY <2>1, NodesOverTrees, TreesAreNodes DEF NodeOver
  <2>4. ~Departs(tree, answers) /\ \A i \in 1 .. Len(tree.kids) : ~departing[tree.kids[i]]
    BY <2>2, <2>3
  <2>5. KidsMatch(tree, analyses, answers)
    <3> SUFFICES ASSUME NEW i \in 1 .. Len(tree.kids), tree.kids[i].kind # "type"
                 PROVE  Matches(tree.kids[i], analyses, answers)
      BY DEF KidsMatch
    <3>1. Right(k - 1, tree.kids[i])
      BY <1>3, <2>3
    <3> QED BY <2>4, <3>1
  <2> HIDE DEF analyses, answers, departing
  <2>6. /\ Agree(AnalyzeNode(tree, analyses), TypeInC(tree, answers))
        /\ IsStar(tree) /\ TypeInC(tree, answers) # {} => AnalyzeNode(tree, analyses).lvalue
    BY <2>3, <2>4, <2>5, NodeAgrees
  <2> QED BY <2>2, <2>6 DEF Matches
<1>4. \A k \in 0 .. Height : k \in T
  <2> HIDE DEF T
  <2> QED BY <1>1, <1>2, <1>3, UpTo
<1>5. Right(n, e)
  BY <1>4
<1> QED BY <1>5

-----------------------------------------------------------------------------
(* What has been checked has been analysed as a whole.                      *)
AnalysedWhole ==
    /\ expression \in Expressions \union Analysed
    /\ checked => analysis = Analyze(expression)

LEMMA AnalysedWholeIsC ==
  ASSUME AnalysedWhole
  PROVE  TypesAreC
<1> SUFFICES ASSUME checked, ~Departing[Height][expression]
             PROVE  LET answers == CTypes(expression)
                    IN  /\ IsAccepted <=> answers # {}
                        /\ \A answer \in answers :
                               /\ Promoted(analysis.type) = Promoted(answer.type)
                               /\ IsComplete(answer.type) => analysis.lvalue = answer.lvalue
                               /\ analysis.lvalue /\ answer.lvalue => analysis.type = answer.type
  BY DEF TypesAreC
<1> DEFINE answers == CTypes(expression)
<1>1. Height \in 0 .. Height
  BY HeightAssumption
<1>2. expression \in Expression[Height] /\ expression.kind # "type"
  BY ExpressionsAssumption DEF AnalysedWhole
<1>3. Matches(expression, Analyzing[Height], CTyping[Height])
  BY <1>1, <1>2, TreesMatch
<1>4. Agree(analysis, answers)
  BY <1>3 DEF Matches, AnalysedWhole, Analyze, CTypes
<1> HIDE DEF answers
<1>5. IsAccepted <=> answers # {}
  <2>1. analysis.said = 0 <=> answers # {}
    BY <1>4, AgreeingIs
  <2> QED BY <2>1 DEF IsAccepted
<1>6. ASSUME NEW answer \in answers
      PROVE  /\ Promoted(analysis.type) = Promoted(answer.type)
             /\ IsComplete(answer.type) => analysis.lvalue = answer.lvalue
             /\ analysis.lvalue /\ answer.lvalue => analysis.type = answer.type
  <2>1. Fits(analysis, answer)
    <3>1. answers # {}
      BY <1>6
    <3>2. PICK a : answers = {a} /\ Fits(analysis, a)
      BY <1>4, <3>1, AgreeingIs
    <3> QED BY <1>6, <3>2
  <2>2. IsComplete(answer.type) => answer.type.kind \notin {"void", "function"}
    BY Kinds
  <2> QED BY <2>1, <2>2 DEF Fits, Alike
<1>7. /\ IsAccepted <=> answers # {}
      /\ \A answer \in answers :
             /\ Promoted(analysis.type) = Promoted(answer.type)
             /\ IsComplete(answer.type) => analysis.lvalue = answer.lvalue
             /\ analysis.lvalue /\ answer.lvalue => analysis.type = answer.type
  BY <1>5, <1>6
<1> QED BY <1>7 DEF answers

(* Whatever is declared and however high an expression is: wherever the     *)
(* analysis does not depart from C by a known rule, it refuses exactly what *)
(* violates C's constraints, and gives what it accepts C's type (sema.c,    *)
(* cc_analyze_expression).                                                  *)
THEOREM AcceptedTypesAreC == TypesSpec => []TypesAreC
<1>1. TypesInit => AnalysedWhole
  BY DEF TypesInit, Unchecked, AnalysedWhole
<1>2. AnalysedWhole /\ [CheckTypes]_typesVars => AnalysedWhole'
  <2> SUFFICES ASSUME AnalysedWhole, [CheckTypes]_typesVars
               PROVE  AnalysedWhole'
    OBVIOUS
  <2>1. CASE CheckTypes
    BY <2>1 DEF CheckTypes, AnalysedWhole
  <2>2. CASE UNCHANGED typesVars
    BY <2>2 DEF typesVars, AnalysedWhole
  <2> QED BY <2>1, <2>2
<1>3. AnalysedWhole => TypesAreC
  BY AnalysedWholeIsC
<1> QED BY <1>1, <1>2, <1>3, PTL DEF TypesSpec

=============================================================================
