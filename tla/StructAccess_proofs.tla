-------------------------- MODULE StructAccess_proofs --------------------------
(***************************************************************************)
(* Proofs about StructAccess for structs of any number of fields, in every *)
(* address space and for every width of the sandbox's long.                *)
(***************************************************************************)
EXTENDS StructAccess, CopyAndVerify_proofs

USE RegionAssumption, CellsAssumption, FieldsAssumption, PointersAssumption, OperandsAssumption

-----------------------------------------------------------------------------
(* What is known of an access at each of its steps.                          *)

FieldLists == Ranges \union {<<a>> : a \in StoreTargets}

AccessType ==
  [op : Operations, fields : Ranges \union {<<a>> : a \in StoreTargets} \union {<< >>},
   operand : Int, next : Nat \ {0}, data : Seq(Int), result : Results]

AccessTyped ==
  /\ access \in AccessType
  /\ access.next \in 1..(Len(access.fields) + 1)
  /\ DOMAIN seen = DOMAIN access.fields
  /\ noise \in BOOLEAN
  /\ kept \in Addresses \union {NoPointer}
  /\ Busy => access.next <= Len(access.fields)

(* The values that are stored are the application's, and a sum is of one     *)
(* long.                                                                     *)
DataOK ==
  /\ access.op = "load" => Len(access.data) = access.next - 1
  /\ access.op = "store" =>
       /\ Len(access.data) = Len(access.fields)
       /\ \A i \in DOMAIN access.fields : access.data[i] \in Storable(access.fields[i])
  /\ access.op = "add" =>
       /\ access.operand \in Operands
       /\ \E a \in StoreTargets : access.fields = <<a>>
       /\ IF access.data = << >> THEN access.next = 1
          ELSE Len(access.data) = 1 /\ access.data[1] \in StoreValues \intersect ValuesOf(AppLong)

StructInv == Inv /\ AccessTyped /\ DataOK

LEMMA FieldListFacts ==
  ASSUME NEW fields \in FieldLists
  PROVE  /\ fields \in Seq(StoreTargets \union {Link}) /\ Len(fields) \in Nat /\ Len(fields) > 0
         /\ DOMAIN fields = 1..Len(fields)
         /\ \A i \in DOMAIN fields : fields[i] \in StoreTargets \union {Link}
         /\ \A i, j \in DOMAIN fields : fields[i] = fields[j] => i = j
<1>1. CASE fields = Fields
  <2>1. Fields \in Seq(StoreTargets \union {Link}) /\ Fields # << >>
    OBVIOUS
  <2>2. Len(Fields) \in Nat /\ DOMAIN Fields = 1..Len(Fields)
    BY <2>1, LenProperties
  <2>3. Len(Fields) > 0
    BY <2>1, <2>2, EmptySeq
  <2>4. \A i \in DOMAIN Fields : Fields[i] \in StoreTargets \union {Link}
    BY <2>1, <2>2, ElementOfSeq
  <2> QED BY <1>1, <2>1, <2>2, <2>3, <2>4
<1>2. ASSUME NEW a \in StoreTargets \union {Link}, fields = <<a>>
      PROVE  /\ fields \in Seq(StoreTargets \union {Link}) /\ Len(fields) = 1
             /\ DOMAIN fields = 1..Len(fields) /\ fields[1] = a
  BY <1>2
<1>3. CASE fields # Fields
  <2>1. PICK a \in StoreTargets \union {Link} : fields = <<a>>
    <3>1. \A i \in DOMAIN Fields : Fields[i] \in StoreTargets \union {Link}
      BY LenProperties, ElementOfSeq
    <3> QED BY <1>3, <3>1 DEF FieldLists, Ranges
  <2>2. /\ fields \in Seq(StoreTargets \union {Link}) /\ Len(fields) = 1
        /\ DOMAIN fields = 1..Len(fields) /\ fields[1] = a
    BY <1>2, <2>1
  <2> QED BY <2>2
<1> QED BY <1>1, <1>3

(* The field of an access that is under way. *)
LEMMA FieldFacts ==
  ASSUME AccessTyped, Busy
  PROVE  /\ access.fields \in FieldLists /\ access.next \in DOMAIN access.fields
         /\ Field \in StoreTargets \union {Link}
         /\ DOMAIN access.fields = 1..Len(access.fields) /\ Len(access.fields) \in Nat
<1>1. access.fields \in FieldLists
  <2>1. Len(access.fields) > 0
    BY DEF AccessTyped, AccessType
  <2>2. access.fields # << >>
    BY <2>1
  <2> QED BY <2>2 DEF AccessTyped, AccessType, FieldLists
<1>2. /\ DOMAIN access.fields = 1..Len(access.fields) /\ Len(access.fields) \in Nat
      /\ \A i \in DOMAIN access.fields : access.fields[i] \in StoreTargets \union {Link}
  BY <1>1, FieldListFacts
<1>3. access.next \in DOMAIN access.fields
  BY <1>2 DEF AccessTyped, AccessType
<1> QED BY <1>1, <1>2, <1>3 DEF Field

LEMMA WithData ==
  ASSUME NEW a \in AccessType, NEW d \in Seq(Int)
  PROVE  LET b == [a EXCEPT !.data = d]
         IN /\ b \in AccessType /\ b.op = a.op /\ b.fields = a.fields /\ b.operand = a.operand
            /\ b.next = a.next /\ b.data = d /\ b.result = a.result
BY DEF AccessType

LEMMA AdvancedFacts ==
  ASSUME NEW a \in AccessType
  PROVE  LET b == Advanced(a)
         IN /\ b \in AccessType /\ b.op = a.op /\ b.fields = a.fields /\ b.operand = a.operand
            /\ b.next = a.next + 1 /\ b.data = a.data
            /\ b.result = IF a.next = Len(a.fields) THEN "done" ELSE "busy"
<1> DEFINE r == IF a.next = Len(a.fields) THEN "done" ELSE "busy"
           b == [a EXCEPT !.next = @ + 1, !.result = r]
<1>1. r \in Results /\ a.next + 1 \in Nat \ {0}
  BY DEF Results, AccessType
<1>2. Advanced(a) = b
  BY DEF Advanced
<1> HIDE DEF r
<1>3. /\ b \in AccessType /\ b.op = a.op /\ b.fields = a.fields /\ b.operand = a.operand
      /\ b.next = a.next + 1 /\ b.data = a.data /\ b.result = r
  BY <1>1 DEF AccessType
<1> HIDE DEF b
<1> QED BY <1>2, <1>3 DEF r

LEMMA AppendFacts ==
  ASSUME NEW d \in Seq(Int), NEW n \in Int
  PROVE  /\ Append(d, n) \in Seq(Int) /\ Len(Append(d, n)) = Len(d) + 1 /\ Len(d) \in Nat
         /\ \A i \in 1..Len(d) : Append(d, n)[i] = d[i]
         /\ Append(d, n)[Len(d) + 1] = n
BY AppendProperties, LenProperties

(* A long that is loaded is one that the sandbox has, and the sum of it and  *)
(* an operand one that the application can assign.                           *)
LEMMA LoadedLong ==
  ASSUME Inv, NEW a \in StoreTargets, Load(a)
  PROVE  /\ copy'[1] = Cast(AppLong, Cast(SandboxLong, mem[a]))
         /\ copy'[1] \in ValuesOf(SandboxLong) /\ copy'[1] \in Int
<1>1. mem[a] \in Int /\ mem[a] \in 0..(CellValues - 1)
  BY DEF Inv, TypeOK
<1>2. Cast(SandboxLong, mem[a]) \in ValuesOf(SandboxLong)
  BY <1>1, LongTypes, CastInt
<1>3. Cast(AppLong, Cast(SandboxLong, mem[a])) = Cast(SandboxLong, mem[a])
  <2> DEFINE n == Cast(SandboxLong, mem[a])
  <2>1. Accepted(AppLong, SandboxLong, n)
    <3>1. CellValues * CellValues >= CellValues
      OBVIOUS
    <3> QED BY <3>1 DEF Accepted, Widens, AppLong, SandboxLong
  <2> HIDE DEF n
  <2>2. n \in ValuesOf(SandboxLong)
    BY <1>2 DEF n
  <2>3. Cast(AppLong, n) = n
    BY <2>1, <2>2, LongTypes, ConversionExact
  <2> QED BY <2>3 DEF n
<1>4. copy' = <<Cast(AppLong, Cast(SandboxLong, mem[a]))>>
  BY DEF Load
<1>5. \A x : <<x>>[1] = x
  OBVIOUS
<1>6. copy'[1] = Cast(AppLong, Cast(SandboxLong, mem[a]))
  BY <1>4, <1>5
<1> QED BY <1>2, <1>3, <1>6 DEF ValuesOf

(* The value that goes into the field whose turn it is. *)
LEMMA StoredValue ==
  ASSUME StructInv, Storing
  PROVE  /\ access.data[access.next] \in Storable(Field)
         /\ access.data \in Seq(Int) /\ access.next \in DOMAIN access.data
         /\ access.op = "add" => access.next = 1 /\ Field # Link
<1>1. /\ access.next \in DOMAIN access.fields /\ Field \in StoreTargets \union {Link}
      /\ DOMAIN access.fields = 1..Len(access.fields) /\ access.data \in Seq(Int)
  BY FieldFacts DEF StructInv, Storing, AccessTyped, AccessType
<1>2. CASE access.op = "store"
  <2>1. Len(access.data) = Len(access.fields)
    BY <1>2 DEF StructInv, DataOK
  <2>2. DOMAIN access.data = 1..Len(access.data)
    BY <1>1, LenProperties
  <2> QED BY <1>1, <1>2, <2>1, <2>2 DEF StructInv, DataOK, Field
<1>3. CASE access.op = "add"
  <2>1. /\ Len(access.data) = 1
        /\ access.data[1] \in StoreValues \intersect ValuesOf(AppLong)
    BY <1>3 DEF StructInv, DataOK, Storing
  <2>2. PICK a \in StoreTargets : access.fields = <<a>>
    BY <1>3 DEF StructInv, DataOK
  <2>3. access.next = 1 /\ Field = a
    BY <1>1, <2>2 DEF Field
  <2>4. DOMAIN access.data = 1..1
    BY <1>1, <2>1, LenProperties
  <2> QED BY <1>1, <2>1, <2>3, <2>4 DEF Storable
<1> QED BY <1>1, <1>2, <1>3 DEF Storing

LEMMA AddField ==
  ASSUME StructInv, Busy, access.op = "add"
  PROVE  Field \in StoreTargets /\ access.operand \in Operands /\ Len(access.fields) = 1
<1>1. PICK a \in StoreTargets : access.fields = <<a>>
  BY DEF StructInv, DataOK
<1>2. access.next = 1
  BY <1>1, FieldFacts DEF StructInv
<1> QED BY <1>1, <1>2 DEF Field, StructInv, DataOK

(* Every step is one of CopyAndVerify, or leaves its state alone. *)
LEMMA StepOfCalls == StructInv /\ [StructNext]_allVars => [Next]_vars
<1> SUFFICES ASSUME StructInv, [StructNext]_allVars PROVE [Next]_vars
  OBVIOUS
<1> USE DEF Next, Library, Longs
<1>1. CASE UNCHANGED allVars
  BY <1>1 DEF allVars
<1>2. CASE BeginLoad \/ BeginStore \/ BeginAdd
  BY <1>2 DEF BeginLoad, BeginStore, BeginAdd, BeginAccess
<1>3. CASE LoadField
  BY <1>3, FieldFacts DEF LoadField, StructInv
<1>4. CASE AddReads
  BY <1>4, AddField DEF AddReads
<1>5. CASE StoreField
  <2> DEFINE value == access.data[access.next]
  <2>1. value \in Storable(Field) /\ Field \in StoreTargets \union {Link}
    BY <1>5, StoredValue, FieldFacts DEF StoreField, Storing, StructInv
  <2>2. CASE Field = Link /\ PointerMoves(Stored(value))
    <3>1. Stored(value) \in Targets \union {Null}
      BY <2>1, <2>2 DEF Storable
    <3> QED BY <2>2, <3>1
  <2>3. CASE Field # Link /\ Assign(Field, AppLong, value)
    <3>1. value \in StoreValues /\ Field \in StoreTargets /\ AppLong \in AssignedTypes
      BY <2>1, <2>3 DEF Storable, AppLong, AssignedTypes
    <3> QED BY <2>3, <3>1
  <2> QED BY <1>5, <2>2, <2>3 DEF StoreField
<1>6. ASSUME NEW p \in AppPointers \union {Null}, AssignPointer(p) PROVE [Next]_vars
  BY <1>6 DEF AssignPointer
<1>7. CASE LibraryStep \/ CallStep
  BY <1>7 DEF LibraryStep, CallStep
<1> QED BY <1>1, <1>2, <1>3, <1>4, <1>5, <1>6, <1>7 DEF StructNext

-----------------------------------------------------------------------------
(* The invariant is kept, action by action.                                  *)

LEMMA NoAccessFacts ==
  /\ NoAccess \in AccessType /\ NoAccess.op = "none" /\ NoAccess.fields = << >>
  /\ NoAccess.next = 1 /\ NoAccess.result = "none" /\ NoAccess.data = << >>
BY EmptySeq DEF NoAccess, AccessType, Operations, Results

LEMMA ForgetKeeps ==
  ASSUME Forget, kept' \in Addresses \union {NoPointer}
  PROVE  AccessTyped' /\ DataOK'
<1>1. /\ access' \in AccessType /\ access'.op = "none" /\ access'.fields = << >>
      /\ access'.next = 1 /\ access'.result = "none"
      /\ seen' = << >> /\ noise' = FALSE
  BY NoAccessFacts DEF Forget
<1>2. Len(<< >>) = 0 /\ 1 \in 1..(Len(<< >>) + 1)
  BY EmptySeq
<1>3. AccessTyped'
  BY <1>1, <1>2 DEF AccessTyped, Busy
<1>4. DataOK'
  BY <1>1 DEF DataOK
<1> QED BY <1>3, <1>4

LEMMA BeginKeeps ==
  ASSUME StructInv, NEW op \in Operations \ {"none"}, NEW fields \in FieldLists,
         NEW operand \in Int, NEW data \in Seq(Int),
         BeginAccess(op, fields, operand, data)
  PROVE  /\ AccessTyped'
         /\ access'.op = op /\ access'.fields = fields /\ access'.operand = operand
         /\ access'.next = 1 /\ access'.data = data
<1> DEFINE a == [op |-> op, fields |-> fields, operand |-> operand, next |-> 1,
                 data |-> data, result |-> "busy"]
<1>1. /\ a \in AccessType /\ a.op = op /\ a.fields = fields /\ a.operand = operand
      /\ a.next = 1 /\ a.data = data /\ a.result = "busy"
  BY DEF AccessType, FieldLists, Results
<1>2. access' = a /\ DOMAIN seen' = DOMAIN fields /\ noise' = FALSE /\ UNCHANGED kept
  BY DEF BeginAccess
<1>3. Len(fields) \in Nat /\ Len(fields) > 0
  BY FieldListFacts
<1> HIDE DEF a
<1>4. 1 \in 1..(Len(fields) + 1) /\ 1 <= Len(fields)
  BY <1>3
<1>5. kept' \in Addresses \union {NoPointer} /\ noise' \in BOOLEAN
  BY <1>2 DEF StructInv, AccessTyped
<1>6. AccessTyped'
  BY <1>1, <1>2, <1>4, <1>5 DEF AccessTyped
<1> QED BY <1>1, <1>2, <1>6

LEMMA RangesFacts ==
  ASSUME NEW fields \in Ranges
  PROVE  fields \in FieldLists
BY DEF FieldLists

LEMMA BeginsKeep ==
  ASSUME StructInv, BeginLoad \/ BeginStore \/ BeginAdd
  PROVE  AccessTyped' /\ DataOK'
<1>1. CASE BeginLoad
  <2>1. PICK fields \in Ranges : BeginAccess("load", fields, 0, << >>)
    BY <1>1 DEF BeginLoad
  <2>2. /\ AccessTyped' /\ access'.op = "load" /\ access'.next = 1 /\ access'.data = << >>
    <3>1. fields \in FieldLists /\ "load" \in Operations \ {"none"} /\ 0 \in Int
      BY RangesFacts DEF Operations
    <3>2. << >> \in Seq(Int)
      BY EmptySeq
    <3> QED BY <2>1, <3>1, <3>2, BeginKeeps
  <2>3. Len(access'.data) = access'.next - 1
    BY <2>2, EmptySeq
  <2> QED BY <2>2, <2>3 DEF DataOK
<1>2. CASE BeginStore
  <2>0. PICK fields \in Ranges :
          \E data \in [DOMAIN fields -> AppPointers \union StoreValues] :
            /\ \A i \in DOMAIN fields : data[i] \in Storable(fields[i])
            /\ BeginAccess("store", fields, 0, data)
    BY <1>2 DEF BeginStore
  <2>1. PICK data \in [DOMAIN fields -> AppPointers \union StoreValues] :
          /\ \A i \in DOMAIN fields : data[i] \in Storable(fields[i])
          /\ BeginAccess("store", fields, 0, data)
    BY <2>0
  <2>2. DOMAIN fields = 1..Len(fields) /\ Len(fields) \in Nat
    BY RangesFacts, FieldListFacts
  <2>3. data \in Seq(Int) /\ Len(data) = Len(fields)
    <3>1. \A i \in 1..Len(fields) : data[i] \in Int
      <4>1. AppPointers \subseteq Int /\ StoreValues \subseteq Int
        BY DEF Addresses
      <4> QED BY <2>1, <2>2, <4>1
    <3>2. data \in [1..Len(fields) -> Int]
      BY <2>1, <2>2, <3>1
    <3> QED BY <2>2, <3>2, SeqDef, LenProperties
  <2>4. /\ AccessTyped' /\ access'.op = "store" /\ access'.fields = fields /\ access'.data = data
    BY <2>1, <2>3, BeginKeeps, RangesFacts DEF Operations
  <2> QED BY <2>1, <2>3, <2>4 DEF DataOK
<1>3. CASE BeginAdd
  <2>1. PICK a \in StoreTargets, n \in Operands : BeginAccess("add", <<a>>, n, << >>)
    BY <1>3 DEF BeginAdd
  <2>2. <<a>> \in FieldLists /\ n \in Int
    BY DEF FieldLists
  <2>3. /\ AccessTyped' /\ access'.op = "add" /\ access'.fields = <<a>> /\ access'.operand = n
        /\ access'.next = 1 /\ access'.data = << >>
    BY <2>1, <2>2, BeginKeeps, EmptySeq DEF Operations
  <2> QED BY <2>1, <2>3 DEF DataOK
<1> QED BY <1>1, <1>2, <1>3

(* The field's turn is over: the next one's comes, or the access is done. *)
LEMMA AdvanceKeeps ==
  ASSUME AccessTyped, Busy, NEW a \in AccessType, a.next = access.next, a.fields = access.fields,
         access' = Advanced(a), DOMAIN seen' = DOMAIN access.fields, UNCHANGED noise,
         kept' \in Addresses \union {NoPointer}
  PROVE  AccessTyped' /\ access'.next = access.next + 1
<1>1. /\ access' \in AccessType /\ access'.fields = access.fields /\ access'.next = access.next + 1
      /\ access'.result = IF access.next = Len(access.fields) THEN "done" ELSE "busy"
  BY AdvancedFacts
<1>2. access.next \in 1..Len(access.fields) /\ Len(access.fields) \in Nat
  BY FieldFacts
<1> QED BY <1>1, <1>2 DEF AccessTyped, Busy

LEMMA LoadFieldKeeps ==
  ASSUME StructInv, LoadField
  PROVE  /\ AccessTyped' /\ DataOK'
         /\ access'.op = "load" /\ access'.fields = access.fields
         /\ Len(access.data) = access.next - 1
         /\ access'.data = Append(access.data, ValueOf(Field)) /\ ValueOf(Field) \in Int
<1> DEFINE n == ValueOf(Field)
           d == Append(access.data, n)
           a == [access EXCEPT !.data = d]
<1>1. n \in Int /\ access' = Advanced(a)
  <2>1. CASE Field = Link
    <3>1. slot \in Int
      BY DEF StructInv, Inv, TypeOK, HomeMemory, Null
    <3> QED BY <2>1, <3>1 DEF LoadField, ValueOf
  <2>2. CASE Field # Link /\ Load(Field)
    <3>1. Field \in StoreTargets
      BY <2>2, FieldFacts DEF LoadField, StructInv
    <3>2. copy'[1] = n /\ copy'[1] \in Int
      BY <2>2, <3>1, LoadedLong DEF StructInv, ValueOf
    <3> QED BY <2>2, <3>2 DEF LoadField
  <2> QED BY <2>1, <2>2 DEF LoadField
<1>2. /\ access \in AccessType /\ access.data \in Seq(Int) /\ access.op = "load" /\ Busy
      /\ Len(access.data) = access.next - 1 /\ access.next \in Nat
  BY DEF LoadField, StructInv, AccessTyped, AccessType, DataOK
<1> HIDE DEF n
<1>3. d \in Seq(Int) /\ Len(d) = access.next
  BY <1>1, <1>2, AppendFacts
<1> HIDE DEF d
<1>4. a \in AccessType /\ a.op = "load" /\ a.fields = access.fields /\ a.next = access.next /\ a.data = d
  BY <1>2, <1>3, WithData
<1> HIDE DEF a
<1>5. DOMAIN seen' = DOMAIN access.fields /\ UNCHANGED noise /\ kept' \in Addresses \union {NoPointer}
  BY DEF LoadField, StructInv, AccessTyped
<1>6. AccessTyped' /\ access'.next = access.next + 1
  BY <1>1, <1>2, <1>4, <1>5, AdvanceKeeps DEF StructInv
<1>7. access'.op = "load" /\ access'.data = d /\ access'.fields = access.fields
  BY <1>1, <1>4, AdvancedFacts
<1> QED BY <1>1, <1>2, <1>3, <1>6, <1>7 DEF DataOK, d, n

LEMMA AddReadsKeeps ==
  ASSUME StructInv, AddReads
  PROVE  /\ AccessTyped' /\ DataOK'
         /\ access'.op = "add" /\ access'.fields = access.fields /\ access'.next = access.next
         /\ access'.operand = access.operand /\ access'.result = access.result
         /\ access'.data[1] = ValueOf(Field) + access.operand /\ access.next = 1
         /\ ValueOf(Field) \in Int /\ access.operand \in Int
<1> DEFINE n == copy'[1] + access.operand
           d == <<n>>
           a == [access EXCEPT !.data = d]
<1>1. /\ access \in AccessType /\ access.op = "add" /\ Busy /\ access.next = 1
      /\ access' = a /\ UNCHANGED <<seen, noise, kept>> /\ Load(Field)
      /\ \E b \in StoreTargets : access.fields = <<b>>
  BY DEF AddReads, StructInv, AccessTyped, DataOK
<1>2. Field \in StoreTargets /\ access.operand \in Operands /\ access.operand \in Int
  BY <1>1, AddField
<1>3. copy'[1] \in ValuesOf(SandboxLong) /\ copy'[1] \in Int /\ copy'[1] = ValueOf(Field)
  <2>1. Field # Link
    BY <1>2
  <2> QED BY <1>1, <1>2, <2>1, LoadedLong DEF StructInv, ValueOf
<1>4. n \in StoreValues \intersect ValuesOf(AppLong) /\ n \in Int
  <2>1. copy'[1] + access.operand \in StoreValues \intersect ValuesOf(AppLong)
    BY <1>2, <1>3
  <2>2. StoreValues \subseteq Int
    OBVIOUS
  <2> QED BY <2>1, <2>2
<1> HIDE DEF n
<1>5. d \in Seq(Int) /\ Len(d) = 1 /\ d[1] = n /\ d # << >>
  BY <1>4
<1> HIDE DEF d
<1>6. /\ a \in AccessType /\ a.op = "add" /\ a.fields = access.fields /\ a.data = d
      /\ a.operand = access.operand /\ a.next = 1 /\ a.result = access.result
  BY <1>1, <1>5, WithData
<1> HIDE DEF a
<1>7. AccessTyped'
  BY <1>1, <1>6 DEF StructInv, AccessTyped, Busy
<1>8. DataOK'
  BY <1>1, <1>2, <1>4, <1>5, <1>6 DEF DataOK
<1> QED BY <1>1, <1>2, <1>3, <1>5, <1>6, <1>7, <1>8 DEF n

(* A step of a store ends the access, refused, or goes on to the next field. *)
LEMMA StoreFieldKeeps ==
  ASSUME StructInv, StoreField
  PROVE  /\ AccessTyped' /\ DataOK'
         /\ access'.op = access.op /\ access'.fields = access.fields
         /\ access'.data = access.data /\ access'.operand = access.operand
         /\ \/ /\ access' = Advanced(access) /\ access'.next = access.next + 1
               /\ access'.result = IF access.next = Len(access.fields) THEN "done" ELSE "busy"
            \/ /\ access'.next = access.next /\ access'.result = "refused"
               /\ Field # Link /\ Assign(Field, AppLong, access.data[access.next])
               /\ outcome' = "refused"
<1>1. /\ access \in AccessType /\ Busy /\ access.op \in {"store", "add"}
      /\ DOMAIN seen' = DOMAIN access.fields /\ UNCHANGED noise
  BY DEF StoreField, Storing, Observe, StructInv, AccessTyped
<1>2. kept' \in Addresses \union {NoPointer}
  <2>1. CASE Field = Link /\ kept' = access.data[access.next]
    <3>1. access.data[access.next] \in AppPointers
      BY <2>1, StoredValue DEF StoreField, Storable
    <3> QED BY <2>1, <3>1
  <2>2. CASE UNCHANGED kept
    BY <2>2 DEF StructInv, AccessTyped
  <2> QED BY <2>1, <2>2 DEF StoreField
<1>3. CASE access' = Advanced(access)
  <2>1. AccessTyped'
    BY <1>1, <1>2, <1>3, AdvanceKeeps DEF StructInv
  <2>2. /\ access'.op = access.op /\ access'.fields = access.fields
        /\ access'.data = access.data /\ access'.operand = access.operand
        /\ access'.next = access.next + 1
        /\ access'.result = IF access.next = Len(access.fields) THEN "done" ELSE "busy"
    BY <1>1, <1>3, AdvancedFacts
  <2>3. access.data # << >>
    BY DEF StoreField, Storing
  <2>4. DataOK'
    BY <1>1, <2>2, <2>3 DEF StructInv, DataOK
  <2> QED BY <1>3, <2>1, <2>2, <2>4
<1>4. CASE /\ access' = [access EXCEPT !.result = "refused"] /\ outcome' = "refused"
           /\ Field # Link /\ Assign(Field, AppLong, access.data[access.next])
  <2>1. /\ access' \in AccessType /\ access'.op = access.op /\ access'.fields = access.fields
        /\ access'.data = access.data /\ access'.operand = access.operand
        /\ access'.next = access.next /\ access'.result = "refused"
    BY <1>1, <1>4 DEF AccessType, Results
  <2>2. access.data # << >>
    BY DEF StoreField, Storing
  <2>3. AccessTyped'
    BY <1>1, <1>2, <2>1 DEF StructInv, AccessTyped, Busy
  <2>4. DataOK'
    BY <1>1, <2>1, <2>2 DEF StructInv, DataOK
  <2> QED BY <1>4, <2>1, <2>3, <2>4
<1> QED BY <1>3, <1>4 DEF StoreField

LEMMA OthersKeep ==
  ASSUME StructInv,
         \/ \E p \in AppPointers \union {Null} : AssignPointer(p)
         \/ LibraryStep \/ CallStep
  PROVE  AccessTyped' /\ DataOK'
<1>1. kept' \in Addresses \union {NoPointer}
  <2>1. AppPointers \union {Null} \subseteq Addresses
    BY HomeRange
  <2> QED BY <2>1 DEF AssignPointer, LibraryStep, CallStep, StructInv, AccessTyped
<1>2. CASE Forget
  BY <1>1, <1>2, ForgetKeeps
<1>3. CASE Busy /\ UNCHANGED access /\ noise' = TRUE /\ Observe
  <2>1. DOMAIN seen' = DOMAIN access.fields
    BY <1>3 DEF Observe
  <2> QED BY <1>1, <1>3, <2>1 DEF StructInv, AccessTyped, DataOK, Busy
<1> QED BY <1>2, <1>3 DEF AssignPointer, LibraryStep, CallStep

LEMMA StructInvInit == StructInit => StructInv
<1> SUFFICES ASSUME StructInit PROVE StructInv
  OBVIOUS
<1>1. Inv
  BY InitInv DEF StructInit
<1>2. AccessTyped /\ DataOK
  <2>1. Len(<< >>) = 0 /\ 1 \in 1..(Len(<< >>) + 1)
    BY EmptySeq
  <2> QED BY <2>1, NoAccessFacts DEF StructInit, AccessTyped, DataOK, Busy
<1> QED BY <1>1, <1>2 DEF StructInv

LEMMA StructInvStep == StructInv /\ [StructNext]_allVars => StructInv'
<1> SUFFICES ASSUME StructInv, [StructNext]_allVars PROVE StructInv'
  OBVIOUS
<1>1. Inv'
  BY StepOfCalls, InvStep DEF StructInv
<1>2. CASE UNCHANGED allVars
  <2>1. UNCHANGED <<access, seen, noise, kept>>
    BY <1>2 DEF allVars, structVars
  <2>2. AccessTyped' /\ DataOK'
    BY <2>1 DEF StructInv, AccessTyped, DataOK, Busy
  <2> QED BY <1>1, <2>2 DEF StructInv
<1>3. CASE StructNext
  <2>1. AccessTyped' /\ DataOK'
    BY <1>3, BeginsKeep, LoadFieldKeeps, AddReadsKeeps, StoreFieldKeeps, OthersKeep DEF StructNext
  <2> QED BY <1>1, <2>1 DEF StructInv
<1> QED BY <1>2, <1>3

LEMMA StructInvHolds == StructSpec => []StructInv
BY StructInvInit, StructInvStep, PTL DEF StructSpec

(* Accesses to structs and fields keep to the calls of CopyAndVerify: what   *)
(* is proved of those holds beside them.                                     *)
THEOREM StructsKeepCalls == StructSpec => Spec
<1>1. StructInit => Init
  BY DEF StructInit
<1> QED BY <1>1, StructInvHolds, StepOfCalls, PTL DEF StructSpec, Spec

(* The state keeps its types, for every struct.                              *)
THEOREM StructTypeCorrect == StructSpec => []StructTypeOK
<1>1. StructInv => StructTypeOK
  BY DEF StructInv, Inv, AccessTyped, AccessType, StructTypeOK
<1> QED BY <1>1, StructInvHolds, PTL

-----------------------------------------------------------------------------
(* What a load reads was there.                                              *)

(* The value of a field, of what it is made of. *)
FieldValue(m, p, f) == IF f = Link THEN p ELSE Cast(AppLong, Cast(SandboxLong, m[f]))

LEMMA Observed ==
  ASSUME Observe, access'.fields = access.fields, NEW i \in DOMAIN access.fields
  PROVE  seen'[i] = seen[i] \union {FieldValue(mem', slot', access.fields[i])}
BY DEF Observe, ValueOf, FieldValue

SeenNow ==
  Busy => \A i \in DOMAIN access.fields : FieldValue(mem, slot, access.fields[i]) \in seen[i]

LEMMA BeginSees ==
  ASSUME NEW op, NEW fields, NEW operand, NEW data, BeginAccess(op, fields, operand, data)
  PROVE  /\ access'.op = op /\ access'.fields = fields /\ access'.data = data
         /\ access'.next = 1 /\ access'.result = "busy"
         /\ noise' = FALSE /\ UNCHANGED <<mem, slot>> /\ DOMAIN seen' = DOMAIN fields
         /\ \A i \in DOMAIN fields : seen'[i] = {FieldValue(mem, slot, fields[i])}
BY DEF BeginAccess, Leave, FieldValue, ValueOf

LEMMA SeenStep ==
  StructInv /\ SeenNow /\ ReadsWereThere /\ [StructNext]_allVars => SeenNow' /\ ReadsWereThere'
<1> SUFFICES ASSUME StructInv, SeenNow, ReadsWereThere, [StructNext]_allVars
             PROVE  SeenNow' /\ ReadsWereThere'
  OBVIOUS
<1>1. CASE UNCHANGED allVars
  <2>1. UNCHANGED <<mem, slot, access, seen>>
    BY <1>1 DEF allVars, vars, structVars
  <2> QED BY <2>1 DEF SeenNow, ReadsWereThere, Busy, FieldValue
<1>2. ASSUME NEW op, NEW fields, NEW operand, NEW data, BeginAccess(op, fields, operand, data),
             op \in {"load", "add"} => data = << >>
      PROVE  SeenNow' /\ ReadsWereThere'
  <2>1. /\ access'.op = op /\ access'.fields = fields /\ access'.data = data
        /\ UNCHANGED <<mem, slot>>
        /\ \A i \in DOMAIN fields : seen'[i] = {FieldValue(mem, slot, fields[i])}
    BY <1>2, BeginSees
  <2>2. SeenNow'
    BY <2>1 DEF SeenNow, FieldValue
  <2>3. ReadsWereThere'
    <3>1. Len(<< >>) = 0 /\ 1..0 = {}
      BY EmptySeq
    <3> QED BY <1>2, <2>1, <3>1 DEF ReadsWereThere
  <2> QED BY <2>2, <2>3
<1>3. CASE LoadField
  <2>1. /\ access'.op = "load" /\ access'.fields = access.fields /\ access.op = "load"
        /\ access'.data = Append(access.data, ValueOf(Field)) /\ ValueOf(Field) \in Int
        /\ access.data \in Seq(Int) /\ Len(access.data) = access.next - 1 /\ Busy
        /\ access.next \in DOMAIN access.fields /\ UNCHANGED <<seen, mem, slot>>
    BY <1>3, LoadFieldKeeps, FieldFacts DEF LoadField, StructInv, AccessTyped, AccessType, Load, vars
  <2>2. ValueOf(Field) \in seen[access.next]
    BY <2>1 DEF SeenNow, FieldValue, ValueOf, Field
  <2>3. /\ Len(access'.data) = Len(access.data) + 1 /\ Len(access.data) \in Nat
        /\ \A i \in 1..Len(access.data) : access'.data[i] = access.data[i]
        /\ access'.data[Len(access.data) + 1] = ValueOf(Field)
    BY <2>1, AppendFacts
  <2>4. Len(access.data) + 1 = access.next
    BY <2>1, <2>3 DEF StructInv, AccessTyped, AccessType
  <2>5. ReadsWereThere'
    BY <2>1, <2>2, <2>3, <2>4 DEF ReadsWereThere
  <2>6. SeenNow'
    BY <2>1 DEF SeenNow, FieldValue
  <2> QED BY <2>5, <2>6
<1>4. CASE AddReads
  <2>1. /\ access'.op = "add" /\ access'.fields = access.fields
        /\ access'.operand = access.operand /\ access.next = 1 /\ Busy
        /\ access'.data[1] = ValueOf(Field) + access.operand
        /\ ValueOf(Field) \in Int /\ access.operand \in Int
        /\ UNCHANGED <<seen, mem, slot>> /\ access.next \in DOMAIN access.fields
    BY <1>4, AddReadsKeeps, FieldFacts DEF AddReads, Load, StructInv
  <2>2. ValueOf(Field) \in seen[1]
    BY <2>1 DEF SeenNow, FieldValue, ValueOf, Field
  <2>3. access'.data[1] - access'.operand = ValueOf(Field)
    BY <2>1
  <2>4. ReadsWereThere'
    BY <2>1, <2>2, <2>3 DEF ReadsWereThere
  <2>5. SeenNow'
    BY <2>1 DEF SeenNow, FieldValue
  <2> QED BY <2>4, <2>5
<1>5. ASSUME Observe, Busy, access'.fields = access.fields, access'.data = access.data,
             access'.op = access.op, access'.operand = access.operand
      PROVE  SeenNow' /\ ReadsWereThere'
  <2>1. \A i \in DOMAIN access.fields :
          seen'[i] = seen[i] \union {FieldValue(mem', slot', access.fields[i])}
    BY <1>5, Observed
  <2>2. SeenNow'
    BY <1>5, <2>1 DEF SeenNow, FieldValue
  <2>3. ReadsWereThere'
    <3>1. access.op = "load" => \A i \in 1..Len(access.data) : i \in DOMAIN access.fields
      <4>1. /\ DOMAIN access.fields = 1..Len(access.fields) /\ Len(access.fields) \in Nat
            /\ access.next \in DOMAIN access.fields
        BY <1>5, FieldFacts DEF StructInv
      <4>2. access.op = "load" => Len(access.data) = access.next - 1
        BY DEF StructInv, DataOK
      <4> QED BY <4>1, <4>2
    <3>2. ASSUME access.op = "add" PROVE 1 \in DOMAIN access.fields
      <4>1. PICK a \in StoreTargets : access.fields = <<a>>
        BY <3>2 DEF StructInv, DataOK
      <4> QED BY <4>1
    <3> QED BY <1>5, <2>1, <3>1, <3>2 DEF ReadsWereThere
  <2> QED BY <2>2, <2>3
<1>6. CASE Forget
  <2>1. access'.op = "none" /\ access'.result = "none"
    BY <1>6, NoAccessFacts DEF Forget
  <2> QED BY <2>1 DEF SeenNow, ReadsWereThere, Busy
<1>7. CASE BeginLoad \/ BeginStore \/ BeginAdd
  BY <1>2, <1>7 DEF BeginLoad, BeginStore, BeginAdd
<1>8. CASE StoreField
  BY <1>5, <1>8, StoreFieldKeeps DEF StoreField, Storing
<1>9. CASE \/ \E p \in AppPointers \union {Null} : AssignPointer(p)
           \/ LibraryStep \/ CallStep
  BY <1>5, <1>6, <1>9 DEF AssignPointer, LibraryStep, CallStep
<1> QED BY <1>1, <1>3, <1>4, <1>7, <1>8, <1>9 DEF StructNext

(* Whatever library code writes meanwhile, what the application reads of a   *)
(* struct was there, for structs of any number of fields.                    *)
THEOREM ReadsAreOfMemory == StructSpec => []ReadsWereThere
<1>1. StructInit => SeenNow /\ ReadsWereThere
  BY NoAccessFacts DEF StructInit, SeenNow, ReadsWereThere, Busy
<1> QED BY <1>1, StructInvHolds, SeenStep, PTL DEF StructSpec

-----------------------------------------------------------------------------
(* Pointers come home.                                                       *)

LEMMA ModOfOffset ==
  ASSUME NEW n \in Nat, NEW r \in Nat \ {0}, NEW h \in Nat, NEW j \in 0..(r - 1), n = r * h + j
  PROVE  n % r = j
OBVIOUS

LEMMA Offset ==
  ASSUME NEW p \in Addresses
  PROVE  /\ p % RegionSize \in 0..(RegionSize - 1)
         /\ p \in HomeMemory => p % RegionSize = p - RegionSize * Home
<1>1. p \in Nat /\ RegionSize \in Nat \ {0} /\ Home \in Nat /\ RegionSize * Home \in Nat
  BY DEF Addresses
<1>2. p % RegionSize \in 0..(RegionSize - 1)
  BY <1>1
<1>3. ASSUME p \in HomeMemory PROVE p % RegionSize = p - RegionSize * Home
  <2> DEFINE j == p - RegionSize * Home
  <2>1. j \in 0..(RegionSize - 1) /\ p = RegionSize * Home + j
    BY <1>1, <1>3 DEF HomeMemory
  <2> HIDE DEF j
  <2>2. p % RegionSize = j
    BY <1>1, <2>1, ModOfOffset
  <2> QED BY <2>2 DEF j
<1> QED BY <1>2, <1>3

LEMMA StoredPointers ==
  ASSUME NEW p \in Addresses
  PROVE  CASE p = Null \/ p = RegionSize * Home -> Stored(p) = Null
           [] p \in HomeMemory \ {RegionSize * Home} -> Stored(p) = p
           [] OTHER -> Stored(p) # p
<1> DEFINE base == RegionSize * Home  k == p % RegionSize
<1>1. /\ base \in Nat /\ base > 0 /\ k \in 0..(RegionSize - 1) /\ p \in Nat /\ RegionSize \in Nat
      /\ p \in HomeMemory => k = p - base
  <2>1. k \in 0..(RegionSize - 1) /\ (p \in HomeMemory => k = p - base)
    BY Offset
  <2>2. base \in Nat /\ base >= RegionSize /\ RegionSize \in Nat \ {0}
    BY HomeRange
  <2>3. p \in Nat
    BY DEF Addresses
  <2> HIDE DEF base, k
  <2> QED BY <2>1, <2>2, <2>3
<1>2. HomeMemory = base..(base + RegionSize - 1)
  BY DEF HomeMemory
<1>3. Stored(p) = IF p = Null \/ k = 0 THEN Null ELSE base + k
  BY DEF Stored, Sandboxed, Unsandboxed
<1>4. base \in HomeMemory /\ Null = 0
  BY <1>1, <1>2 DEF Null
<1> HIDE DEF base, k
<1>5. /\ p = Null \/ p = base => Stored(p) = Null
      /\ p \in HomeMemory \ {base} => Stored(p) = p
      /\ p # Null /\ p \notin HomeMemory => Stored(p) # p
  BY <1>1, <1>2, <1>3, <1>4
<1>6. Null \notin HomeMemory
  BY HomeRange
<1> QED BY <1>4, <1>5, <1>6 DEF base

KeptStored == kept # NoPointer => slot = Stored(kept)

LEMMA KeptStep == StructInv /\ KeptStored /\ [StructNext]_allVars => KeptStored'
<1> SUFFICES ASSUME StructInv, KeptStored, [StructNext]_allVars PROVE KeptStored'
  OBVIOUS
<1> USE DEF KeptStored
<1>1. CASE UNCHANGED <<slot, kept>>
  BY <1>1
<1>2. CASE StoreField \/ \E p \in AppPointers \union {Null} : AssignPointer(p)
  <2>1. ASSUME NEW p, PointerMoves(Stored(p)), kept' = p PROVE KeptStored'
    BY <2>1 DEF PointerMoves
  <2>2. ASSUME NEW a, NEW type, NEW n, Assign(a, type, n), UNCHANGED kept PROVE KeptStored'
    BY <2>2 DEF Assign
  <2> QED BY <1>2, <2>1, <2>2 DEF StoreField, AssignPointer
<1>3. CASE LibraryStep
  BY <1>3 DEF LibraryStep
<1>4. CASE BeginLoad \/ BeginStore \/ BeginAdd \/ LoadField \/ AddReads \/ CallStep \/ UNCHANGED allVars
  <2>1. Longs \/ Copying => UNCHANGED slot
    BY DEF Longs, Load, Assign, Copying, Begin, Strlen, CheckNull, CheckRange, CopyElement, Verify,
           Returns, Continue, Ends
  <2>2. CASE BeginLoad \/ BeginStore \/ BeginAdd
    BY <1>1, <2>2 DEF BeginLoad, BeginStore, BeginAdd, BeginAccess, Leave
  <2>3. CASE LoadField \/ AddReads \/ CallStep
    BY <1>1, <2>1, <2>3 DEF LoadField, AddReads, Load, CallStep, vars
  <2>4. CASE UNCHANGED allVars
    BY <1>1, <2>4 DEF allVars, vars, structVars
  <2> QED BY <1>4, <2>2, <2>3, <2>4
<1> QED BY <1>2, <1>3, <1>4 DEF StructNext

(* A pointer into the sandbox survives being stored in its memory.           *)
THEOREM PointersSurvive == StructSpec => []PointersComeHome
<1>1. StructInit => KeptStored
  BY DEF StructInit, KeptStored
<1>2. StructInv /\ KeptStored => PointersComeHome
  <2> SUFFICES ASSUME StructInv, KeptStored, kept # NoPointer PROVE PointersComeHome
    BY DEF PointersComeHome
  <2>1. kept \in Addresses /\ slot = Stored(kept)
    BY DEF StructInv, AccessTyped, KeptStored
  <2> QED BY <2>1, StoredPointers DEF PointersComeHome
<1> QED BY <1>1, <1>2, StructInvHolds, KeptStep, PTL DEF StructSpec

-----------------------------------------------------------------------------
(* Stores change the fields in order, and end at the first that is refused.  *)

Target(f, value) == IF f = Link THEN Stored(value) ELSE value

PrefixOK ==
  access.op \in {"store", "add"} =>
    /\ ~noise =>
         \A i \in DOMAIN access.fields :
           IF i >= access.next
             THEN seen[i] = {FieldValue(mem, slot, access.fields[i])}
             ELSE FieldValue(mem, slot, access.fields[i]) = Target(access.fields[i], access.data[i])
    /\ access.result \in {"busy", "done", "refused"}
    /\ access.result = "done" => access.next > Len(access.fields)
    /\ access.result = "refused" =>
         /\ access.next <= Len(access.fields)
         /\ access.data[access.next] \notin ValuesOf(SandboxLong)

(* A field that is stored into: the others keep their values. *)
LEMMA FieldStored ==
  ASSUME StructInv, StoreField, NEW i \in DOMAIN access.fields
  PROVE  LET f == access.fields[i]
             value == access.data[access.next]
         IN  /\ i # access.next => FieldValue(mem', slot', f) = FieldValue(mem, slot, f)
             /\ i = access.next /\ access'.next # access.next =>
                  FieldValue(mem', slot', f) = Target(f, value)
             /\ access'.next = access.next =>
                  /\ value \notin ValuesOf(SandboxLong)
                  /\ FieldValue(mem', slot', f) = FieldValue(mem, slot, f)
<1> DEFINE f == access.fields[i]
           value == access.data[access.next]
<1>1. /\ Busy /\ access.fields \in FieldLists /\ access.next \in DOMAIN access.fields
      /\ Field \in StoreTargets \union {Link} /\ Field = access.fields[access.next]
      /\ f \in StoreTargets \union {Link}
      /\ i # access.next => f # Field
      /\ i = access.next => f = Field
  BY FieldFacts, FieldListFacts DEF StoreField, Storing, StructInv, Field
<1>2. /\ value \in Storable(Field) /\ access.next \in Nat
  BY StoredValue DEF StoreField, StructInv, AccessTyped, AccessType
<1>3. CASE Field = Link /\ PointerMoves(Stored(value)) /\ access' = Advanced(access)
  <2>1. mem' = mem /\ slot' = Stored(value)
    BY <1>3 DEF PointerMoves
  <2>2. access'.next = access.next + 1
    BY <1>3, AdvancedFacts DEF StructInv, AccessTyped
  <2> HIDE DEF f, value
  <2> QED BY <1>1, <1>2, <1>3, <2>1, <2>2 DEF FieldValue, Target, f, value
<1>4. CASE Field # Link /\ Assign(Field, AppLong, value) /\ outcome' = "refused"
           /\ access' = [access EXCEPT !.result = "refused"]
  <2>1. UNCHANGED <<mem, slot>> /\ ~Accepted(SandboxLong, AppLong, value)
    BY <1>4 DEF Assign
  <2>2. value \in ValuesOf(AppLong)
    BY <1>4 DEF Assign
  <2>3. value \notin ValuesOf(SandboxLong)
    BY <2>1, <2>2, LongTypes, ConversionExact
  <2>4. access'.next = access.next
    BY <1>4 DEF StructInv, AccessTyped, AccessType
  <2> QED BY <2>1, <2>3, <2>4 DEF FieldValue
<1>5. CASE Field # Link /\ Assign(Field, AppLong, value) /\ outcome' # "refused"
           /\ access' = Advanced(access)
  <2>1. /\ mem' = [mem EXCEPT ![Field] = Bits(SandboxLong, Cast(SandboxLong, value))]
        /\ slot' = slot /\ Accepted(SandboxLong, AppLong, value) /\ value \in ValuesOf(AppLong)
    BY <1>5 DEF Assign
  <2>2. value \in ValuesOf(SandboxLong) /\ Cast(SandboxLong, value) = value
    BY <2>1, LongTypes, ConversionExact
  <2>3. Field \in HomeMemory /\ mem \in [HomeMemory -> 0..(CellValues - 1)]
    BY <1>1, <1>5 DEF StructInv, Inv, TypeOK
  <2>4. Cast(AppLong, Cast(SandboxLong, mem'[Field])) = value
    <3>1. mem'[Field] = Bits(SandboxLong, value)
      BY <2>1, <2>2, <2>3
    <3> QED BY <2>2, <3>1, RoundTrip
  <2>5. \A a \in StoreTargets : a # Field => mem'[a] = mem[a]
    BY <2>1, <2>3
  <2>6. access'.next = access.next + 1
    BY <1>5, AdvancedFacts DEF StructInv, AccessTyped
  <2> HIDE DEF f, value
  <2> QED BY <1>1, <1>2, <1>5, <2>1, <2>4, <2>5, <2>6 DEF FieldValue, Target, f, value
<1> QED BY <1>3, <1>4, <1>5 DEF StoreField

LEMMA PrefixStep == StructInv /\ PrefixOK /\ [StructNext]_allVars => PrefixOK'
<1> SUFFICES ASSUME StructInv, PrefixOK, [StructNext]_allVars PROVE PrefixOK'
  OBVIOUS
<1>1. CASE UNCHANGED allVars
  <2>1. UNCHANGED <<mem, slot, access, seen, noise>>
    BY <1>1 DEF allVars, vars, structVars
  <2> QED BY <2>1 DEF PrefixOK, FieldValue, Target
<1>2. ASSUME NEW op, NEW fields, NEW operand, NEW data, BeginAccess(op, fields, operand, data),
             fields \in FieldLists
      PROVE  PrefixOK'
  <2>1. /\ access'.fields = fields /\ access'.next = 1 /\ access'.result = "busy"
        /\ UNCHANGED <<mem, slot>>
        /\ \A i \in DOMAIN fields : seen'[i] = {FieldValue(mem, slot, fields[i])}
    BY <1>2, BeginSees
  <2>2. \A i \in DOMAIN fields : i >= 1
    BY <1>2, FieldListFacts
  <2> QED BY <2>1, <2>2 DEF PrefixOK, FieldValue
<1>3. CASE LoadField
  BY <1>3, LoadFieldKeeps DEF PrefixOK
<1>4. CASE AddReads
  <2>1. /\ access'.op = "add" /\ access.op = "add" /\ access'.fields = access.fields
        /\ access'.next = access.next /\ access.next = 1 /\ Busy
        /\ access'.result = access.result /\ UNCHANGED <<mem, slot, seen, noise>>
        /\ \A i \in DOMAIN access.fields : i >= 1
    BY <1>4, AddReadsKeeps, FieldFacts DEF AddReads, Load, StructInv
  <2> QED BY <2>1 DEF PrefixOK, FieldValue, Busy
<1>5. CASE StoreField
  <2> DEFINE n == access.next
  <2>1. /\ access'.op = access.op /\ access'.fields = access.fields /\ access'.data = access.data
        /\ \/ /\ access'.next = n + 1
              /\ access'.result = IF n = Len(access.fields) THEN "done" ELSE "busy"
           \/ access'.next = n /\ access'.result = "refused"
    BY <1>5, StoreFieldKeeps
  <2>2. /\ n \in DOMAIN access.fields /\ Len(access.fields) \in Nat /\ n \in Nat
        /\ DOMAIN access.fields = 1..Len(access.fields) /\ UNCHANGED noise
        /\ access.op \in {"store", "add"} /\ Observe
    BY <1>5, FieldFacts DEF StoreField, Storing, StructInv, AccessTyped, AccessType
  <2>3. ASSUME ~noise, NEW i \in DOMAIN access.fields
        PROVE  IF i >= access'.next
                 THEN seen'[i] = {FieldValue(mem', slot', access.fields[i])}
                 ELSE FieldValue(mem', slot', access.fields[i]) = Target(access.fields[i], access.data[i])
    <3> DEFINE old == FieldValue(mem, slot, access.fields[i])
               new == FieldValue(mem', slot', access.fields[i])
    <3>1. seen'[i] = seen[i] \union {new}
      BY <2>1, <2>2, Observed
    <3>2. IF i >= n THEN seen[i] = {old} ELSE old = Target(access.fields[i], access.data[i])
      BY <2>2, <2>3 DEF PrefixOK
    <3>3. /\ i # n => new = old
          /\ i = n /\ access'.next # n => new = Target(access.fields[i], access.data[i])
          /\ access'.next = n => new = old
      BY <1>5, FieldStored
    <3>4. i \in Nat
      BY <2>2
    <3> HIDE DEF old, new, n
    <3> QED BY <2>1, <2>2, <3>1, <3>2, <3>3, <3>4 DEF old, new
  <2>4. access'.next = n => access.data[n] \notin ValuesOf(SandboxLong)
    BY <1>5, <2>2, FieldStored
  <2>5. /\ access'.result \in {"busy", "done", "refused"}
        /\ access'.result = "done" => access'.next > Len(access.fields)
        /\ access'.result = "refused" => access'.next = n /\ n <= Len(access.fields)
    BY <2>1, <2>2
  <2> HIDE DEF n
  <2> QED BY <2>1, <2>2, <2>3, <2>4, <2>5 DEF PrefixOK, FieldValue, Target
<1>6. CASE Forget
  BY <1>6, NoAccessFacts DEF Forget, PrefixOK
<1>7. CASE Busy /\ UNCHANGED access /\ noise' = TRUE
  BY <1>7 DEF PrefixOK
<1>8. CASE BeginLoad \/ BeginStore \/ BeginAdd
  BY <1>2, <1>8, RangesFacts DEF BeginLoad, BeginStore, BeginAdd, FieldLists
<1>9. CASE \/ \E p \in AppPointers \union {Null} : AssignPointer(p)
           \/ LibraryStep \/ CallStep
  BY <1>6, <1>7, <1>9 DEF AssignPointer, LibraryStep, CallStep
<1> QED BY <1>1, <1>3, <1>4, <1>5, <1>8, <1>9 DEF StructNext

(* A store that is refused leaves the fields before the refused one with     *)
(* their new values and the others as they were.                             *)
THEOREM StoresEndAtRefusal == StructSpec => []StoresArePrefixes
<1>1. StructInit => PrefixOK
  BY NoAccessFacts DEF StructInit, PrefixOK
<1>2. StructInv /\ PrefixOK => StoresArePrefixes
  <2> SUFFICES ASSUME StructInv, PrefixOK, access.op \in {"store", "add"},
                      access.result \in {"done", "refused"}, ~noise
               PROVE  StoresArePrefixes
    BY DEF StoresArePrefixes
  <2>1. access.next \in Nat /\ Len(access.fields) \in Nat
    BY DEF StructInv, AccessTyped
  <2> QED BY <2>1 DEF PrefixOK, StoresArePrefixes, FieldValue, ValueOf, Target
<1> QED BY <1>1, <1>2, StructInvHolds, PrefixStep, PTL DEF StructSpec
=============================================================================
