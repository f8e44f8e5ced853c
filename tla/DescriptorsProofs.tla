-------------------------- MODULE DescriptorsProofs --------------------------
(***************************************************************************)
(* Theorems about Descriptors, for any connections, statements and         *)
(* descriptors.                                                            *)
(***************************************************************************)
EXTENDS Descriptors, DescriptorRecords, TLAPS

\* The implicit descriptors of a statement are handles of their own.
LEMMA ImplicitHandles ==
  ASSUME NEW s \in Stmts
  PROVE  /\ Ardi(s) \in Handles /\ Irdi(s) \in Handles
         /\ Ardi(s) \notin Descs /\ Irdi(s) \notin Descs
         /\ Ardi(s) # NULL /\ Irdi(s) # NULL
         /\ \A t \in Stmts : Ardi(s) # Irdi(t)
         /\ \A t \in Stmts : s # t => Ardi(s) # Ardi(t) /\ Irdi(s) # Irdi(t)
  BY NullAssumption, HandlesAssumption DEF Ardi, Irdi, Handles, Implicit

\* The descriptor records the actions write.
LEMMA RecordTypes ==
  /\ Blank \in DescRecord
  /\ \A c \in Conns : [Blank EXCEPT !.conn = c] \in DescRecord
  /\ \A s \in Stmts, y \in DescTypes :
       [conn |-> NULL, stmt |-> s, type |-> y] \in DescRecord
  /\ \A r \in DescRecord, s \in Stmts :
       [[r EXCEPT !.type = "ARD"] EXCEPT !.stmt = s] \in DescRecord
  BY DEF Blank, DescRecord, DescTypes

\* Every step keeps the types.
LEMMA NextTypeOK == TypeOK /\ [Next]_vars => TypeOK'
  <1> SUFFICES ASSUME TypeOK, [Next]_vars PROVE TypeOK'
    OBVIOUS
  <1> USE DEF TypeOK
  <1>1. ASSUME NEW s \in Stmts, NEW c \in Conns, AllocStmt(s, c) PROVE TypeOK'
    BY <1>1, ImplicitHandles, RecordTypes DEF AllocStmt, DescTypes
  <1>2. ASSUME NEW s \in Stmts, FreeStmt(s) PROVE TypeOK'
    BY <1>2, RecordTypes DEF FreeStmt
  <1>3. ASSUME NEW s \in Stmts, NEW d \in Handles, SetARDDesc(s, d)
        PROVE  TypeOK'
    <2>1. desc' \in [Handles -> DescRecord]
      BY <1>3, ZenonT(30) DEF SetARDDesc, DescRecord, DescTypes
    <2> QED
      BY <1>3, <2>1 DEF SetARDDesc
  <1>4. ASSUME NEW s \in Stmts, ResetARDDesc(s) PROVE TypeOK'
    BY <1>4, ImplicitHandles DEF ResetARDDesc
  <1>5. ASSUME NEW d \in Descs, NEW c \in Conns, AllocDesc(d, c) PROVE TypeOK'
    BY <1>5, RecordTypes DEF AllocDesc, Handles
  <1>6. ASSUME NEW d \in Descs, FreeDescriptor(d) PROVE TypeOK'
    <2>1. d \in Handles /\ desc[d] \in DescRecord
      BY DEF Handles
    <2>2. desc[d].stmt \in Stmts \cup {NULL}
      BY <2>1 DEF DescRecord
    <2> QED
      BY <1>6, <2>2, ImplicitHandles, RecordTypes
      DEF FreeDescriptor, RestoreDescriptor
  <1>7. ASSUME NEW src \in Handles, NEW dst \in Handles, CopyDesc(src, dst)
        PROVE  TypeOK'
    <2>1. copiedOver' \in BOOLEAN
      BY <1>7 DEF CopyDesc, NoteCopy
    <2> QED
      BY <1>7, <2>1 DEF CopyDesc
  <1>8. CASE UNCHANGED vars
    BY <1>8 DEF vars
  <1> QED
    BY <1>1, <1>2, <1>3, <1>4, <1>5, <1>6, <1>7, <1>8 DEF Next

\* The statements and descriptors are well-typed, whatever is copied.
THEOREM TypeCorrect == Spec => []TypeOK
  <1>1. Init => TypeOK
    BY RecordTypes DEF Init, TypeOK
  <1> QED
    BY <1>1, NextTypeOK, PTL DEF Spec

-----------------------------------------------------------------------------
\* The implicit descriptors of freed statements are freed; those of live ones
\* exist, and the IRD is as the constructor left it.
IrdInv ==
  \A s \in Stmts :
    /\ Allocated(s) <=> Irdi(s) \in live
    /\ Allocated(s) =>
         /\ ird[s] = Irdi(s)
         /\ desc[Irdi(s)] = [conn |-> NULL, stmt |-> s, type |-> "IRD"]
         /\ desc[Irdi(s)].conn = NULL /\ desc[Irdi(s)].type = "IRD"

\* Every step keeps the implicit IRDs: no action but the statement's own
\* constructor and destructor may write to them.
LEMMA NextIrdInv == TypeOK /\ IrdInv /\ [Next]_vars => IrdInv'
  <1> SUFFICES ASSUME TypeOK, IrdInv, [Next]_vars PROVE IrdInv'
    OBVIOUS
  <1> USE ImplicitHandles, NullAssumption DEF TypeOK, IrdInv, Allocated
  <1>1. ASSUME NEW s \in Stmts, NEW c \in Conns, AllocStmt(s, c) PROVE IrdInv'
    BY <1>1 DEF AllocStmt
  <1>2. ASSUME NEW s \in Stmts, FreeStmt(s) PROVE IrdInv'
    BY <1>2 DEF FreeStmt
  <1>3. ASSUME NEW s \in Stmts, NEW d \in Handles, SetARDDesc(s, d)
        PROVE  IrdInv'
    <2>1. \A t \in Stmts : Allocated(t) => d # Irdi(t)
      BY <1>3 DEF SetARDDesc
    <2> QED
      BY <1>3, <2>1 DEF SetARDDesc
  <1>4. ASSUME NEW s \in Stmts, ResetARDDesc(s) PROVE IrdInv'
    BY <1>4 DEF ResetARDDesc
  <1>5. ASSUME NEW d \in Descs, NEW c \in Conns, AllocDesc(d, c) PROVE IrdInv'
    BY <1>5 DEF AllocDesc
  <1>6. ASSUME NEW d \in Descs, FreeDescriptor(d) PROVE IrdInv'
    BY <1>6 DEF FreeDescriptor, RestoreDescriptor
  <1>7. ASSUME NEW src \in Handles, NEW dst \in Handles, CopyDesc(src, dst)
        PROVE  IrdInv'
    <2>1. \A t \in Stmts : Allocated(t) => dst # Irdi(t)
      BY <1>7 DEF CopyDesc
    <2> QED
      BY <1>7, <2>1 DEF CopyDesc
  <1>8. CASE UNCHANGED vars
    BY <1>8 DEF vars
  <1> QED
    BY <1>1, <1>2, <1>3, <1>4, <1>5, <1>6, <1>7, <1>8 DEF Next

\* The implicit IRD of a live statement is never modified, even when the
\* application copies any descriptor onto any other (descriptor.cpp:431).
THEOREM IrdUnmodified == Spec => []IrdNeverModified
  <1>1. Init => IrdInv
    BY DEF Init, IrdInv, Allocated
  <1>2. IrdInv => IrdNeverModified
    BY DEF IrdInv, IrdNeverModified
  <1> QED
    BY <1>1, <1>2, NextIrdInv, TypeCorrect, PTL DEF Spec

-----------------------------------------------------------------------------
\* The active ARD of a live statement is its implicit one or a descriptor of
\* the application that exists, points back at the statement as its ARD and
\* belongs to the statement's connection; the implicit descriptors belong to
\* none, so that they are never set on a statement.
ArdInv ==
  /\ \A s \in Stmts :
       /\ Allocated(s) => Ardi(s) \in live
       /\ ~Allocated(s) => ard[s] = NULL
       /\ desc[Ardi(s)].conn = NULL /\ desc[Irdi(s)].conn = NULL
       /\ Allocated(s) =>
            \/ ard[s] = Ardi(s)
            \/ /\ ard[s] \in Descs /\ ard[s] \in live
               /\ desc[ard[s]].conn = conn[s]
               /\ desc[ard[s]].stmt = s
               /\ desc[ard[s]].type = "ARD"

\* It holds until something is copied onto an implicit or an active one.
CopyInv == ~copiedOver => ArdInv

\* The flag never goes back.
LEMMA CopiedOverStays ==
  ASSUME TypeOK, [Next]_vars, ~copiedOver'
  PROVE  ~copiedOver
  BY DEF TypeOK, Next, vars, AllocStmt, FreeStmt, SetARDDesc, ResetARDDesc,
         AllocDesc, FreeDescriptor, CopyDesc, NoteCopy

\* Every step that does not set the flag keeps the invariant.
LEMMA NextArdInv ==
  ASSUME ~copiedOver', TypeOK, ArdInv, [Next]_vars
  PROVE  ArdInv'
  <1> USE ImplicitHandles, NullAssumption DEF TypeOK, ArdInv, Allocated
  <1>1. ASSUME NEW s \in Stmts, NEW c \in Conns, AllocStmt(s, c) PROVE ArdInv'
    BY <1>1 DEF AllocStmt, Handles
  <1>2. ASSUME NEW s \in Stmts, FreeStmt(s) PROVE ArdInv'
    BY <1>2 DEF FreeStmt, Blank, Handles
  <1>3. ASSUME NEW s \in Stmts, NEW d \in Handles, SetARDDesc(s, d)
        PROVE  ArdInv'
    <2>1. d \in Descs
      <3>1. \A h \in Implicit :
              \E t \in Stmts : h = Ardi(t) \/ h = Irdi(t)
        BY DEF Implicit, Ardi, Irdi
      <3> QED
        BY <1>3, <3>1 DEF SetARDDesc, Handles
    <2>2. desc[d] \in DescRecord /\ desc[d].conn = conn[s]
      BY <1>3 DEF SetARDDesc
    <2>3. /\ desc'[d].conn = conn[s]
          /\ desc'[d].stmt = s
          /\ desc'[d].type = "ARD"
      BY <1>3, <2>2 DEF SetARDDesc, DescRecord
    <2>4. \A h \in Handles : h # d => desc'[h] = desc[h]
      BY <1>3 DEF SetARDDesc
    <2>5. \A t \in Stmts : t # s => ard[t] # d
      <3> SUFFICES ASSUME NEW t \in Stmts, t # s, ard[t] = d PROVE FALSE
        OBVIOUS
      <3>1. desc[d].stmt = t
        BY <2>1
      <3> QED
        BY <1>3, <3>1 DEF SetARDDesc
    <2> QED
      BY <1>3, <2>1, <2>3, <2>4, <2>5 DEF SetARDDesc, Handles
  <1>4. ASSUME NEW s \in Stmts, ResetARDDesc(s) PROVE ArdInv'
    BY <1>4 DEF ResetARDDesc
  <1>5. ASSUME NEW d \in Descs, NEW c \in Conns, AllocDesc(d, c) PROVE ArdInv'
    BY <1>5 DEF AllocDesc, Handles
  <1>6. ASSUME NEW d \in Descs, FreeDescriptor(d) PROVE ArdInv'
    <2>1. \A s \in Stmts : Allocated(s) /\ ard[s] = d => ard'[s] = Ardi(s)
      BY <1>6 DEF FreeDescriptor, RestoreDescriptor
    <2>2. \A s \in Stmts : ard'[s] \in {ard[s], Ardi(s)}
      BY <1>6 DEF FreeDescriptor, RestoreDescriptor
    <2>3. \A s \in Stmts : ~Allocated(s) => ard'[s] = ard[s]
      BY <1>6 DEF FreeDescriptor, RestoreDescriptor
    <2>4. \A h \in Handles : h # d => desc'[h] = desc[h]
      BY <1>6 DEF FreeDescriptor
    <2> QED
      BY <1>6, <2>1, <2>2, <2>3, <2>4 DEF FreeDescriptor, Handles
  <1>7. ASSUME NEW src \in Handles, NEW dst \in Handles, CopyDesc(src, dst)
        PROVE  ArdInv'
    <2>1. dst \in Descs /\ \A s \in Stmts : ard[s] # dst
      BY <1>7 DEF CopyDesc, NoteCopy, Active, Handles
    <2> QED
      BY <1>7, <2>1 DEF CopyDesc, Handles
  <1>8. CASE UNCHANGED vars
    BY <1>8 DEF vars
  <1> QED
    BY <1>1, <1>2, <1>3, <1>4, <1>5, <1>6, <1>7, <1>8 DEF Next

\* There is no live statement at first.
LEMMA InitCopyInv == Init => CopyInv
  BY NullAssumption, ImplicitHandles
  DEF Init, CopyInv, ArdInv, Allocated, Blank

\* Every step keeps the guarded invariant.
LEMMA NextCopyInv == TypeOK /\ CopyInv /\ [Next]_vars => CopyInv'
  BY CopiedOverStays, NextArdInv DEF CopyInv

\* What the invariant says of the active ARDs.
LEMMA CopyInvImplies ==
  ASSUME TypeOK, CopyInv
  PROVE  ActiveArdAlive /\ ArdNotShared /\ ArdOfOwnConnection
  <1> SUFFICES ASSUME ArdInv
               PROVE  ActiveArdAlive /\ ArdNotShared /\ ArdOfOwnConnection
    BY DEF CopyInv, ActiveArdAlive, ArdNotShared, ArdOfOwnConnection
  <1> USE ImplicitHandles, NullAssumption DEF TypeOK, ArdInv
  <1>1. ActiveArdAlive
    BY DEF ActiveArdAlive
  <1>2. ArdNotShared
    <2> SUFFICES ASSUME NEW s \in Stmts, NEW t \in Stmts, s # t,
                        Allocated(s), Allocated(t), ard[s] = ard[t]
                 PROVE  FALSE
      BY DEF ArdNotShared
    <2>1. ard[s] \in Descs
      OBVIOUS
    <2>2. desc[ard[s]].stmt = s /\ desc[ard[t]].stmt = t
      BY <2>1
    <2> QED
      BY <2>2
  <1>3. ArdOfOwnConnection
    BY DEF ArdOfOwnConnection
  <1> QED
    BY <1>1, <1>2, <1>3

\* Until something is copied onto an implicit or an active descriptor, the
\* active ARDs exist, because SQLFreeDescriptor finds the statement that uses
\* the descriptor, and SQL_ATTR_APP_ROW_DESC shares none of them and accepts
\* none of another connection.
THEOREM ActiveArdsSound == Spec => []ArdSound
  <1>1. TypeOK /\ CopyInv => ArdSound
    BY CopyInvImplies DEF ArdSound
  <1> QED
    BY <1>1, InitCopyInv, NextCopyInv, TypeCorrect, PTL DEF Spec
-----------------------------------------------------------------------------
(* The records of the row descriptors *)

RecordFields ==
  {"type", "conciseType", "code", "precision", "intervalPrecision", "scale", "length",
   "octetLength", "dataPtr", "indicatorPtr", "octetLengthPtr"}

\* What can be set with SQLSetDescField and read back.
SettableFields ==
  {"CONCISE_TYPE", "TYPE", "DATETIME_INTERVAL_CODE", "DATETIME_INTERVAL_PRECISION", "LENGTH",
   "OCTET_LENGTH", "DATA_PTR", "INDICATOR_PTR", "OCTET_LENGTH_PTR"}

RecordShape(record) == DOMAIN record = RecordFields
RecordsShape(records) ==
  DOMAIN records = Columns /\ \A c \in Columns : RecordShape(records[c])

\* Every descriptor has a head and a record for each column.
DescShape(d) ==
  /\ DOMAIN rows[d] = {"head", "type", "conn", "stmt", "records"}
  /\ rows[d].head \in [count : Nat, alloc : {"AUTO", "USER"}]
  /\ RecordsShape(rows[d].records)

RowsShape ==
  /\ DOMAIN rows = RowDescs
  /\ \A d \in RowDescs : DescShape(d)
  /\ activeArd \in RowDescs
  /\ DOMAIN columnBindings = Columns /\ redirected \in BOOLEAN
  /\ DOMAIN readable = RowDescs

\* The field last set in a descriptor has the value it was set to.
KeepsField(d) ==
  readable[d] # NothingSet =>
    /\ readable[d].column \in Columns /\ readable[d].field \in SettableFields
    /\ GetField(rows[d].records[readable[d].column], readable[d].field) = readable[d].value

KeepsFields == \A d \in RowDescs : KeepsField(d)

RecordsInv == RowsShape /\ BoundIsDescribed /\ KeepsFields /\ FieldsReadBack

LEMMA RecordsInvInit == RecordsInit => RecordsInv
<1> SUFFICES ASSUME RecordsInit PROVE RecordsInv OBVIOUS
<1>0. RecordShape(ZeroRecord) BY DEF RecordShape, ZeroRecord, RecordFields
<1>1. /\ rows["ardi"] = NewDesc([count |-> 0, alloc |-> "AUTO"], "ARD", FALSE, TRUE)
      /\ rows["irdi"] = NewDesc([count |-> 0, alloc |-> "AUTO"], "IRD", FALSE, TRUE)
      /\ rows["app"] = NewDesc([count |-> 0, alloc |-> "USER"], "UNKNOWN", TRUE, FALSE)
  BY DEF RecordsInit, AppHead, ImpHead
<1>3. DescShape("ardi") BY <1>0, <1>1 DEF DescShape, NewDesc, RecordsShape
<1>4. DescShape("irdi") BY <1>0, <1>1 DEF DescShape, NewDesc, RecordsShape
<1>5. DescShape("app") BY <1>0, <1>1 DEF DescShape, NewDesc, RecordsShape
<1>6. RowsShape BY <1>3, <1>4, <1>5 DEF RecordsInit, RowsShape, RowDescs
<1>7. BoundIsDescribed BY DEF RecordsInit, BoundIsDescribed
<1>8. KeepsFields BY DEF RecordsInit, KeepsFields, KeepsField
<1>9. FieldsReadBack BY DEF RecordsInit, FieldsReadBack, NoAnswer
<1> QED BY <1>6, <1>7, <1>8, <1>9 DEF RecordsInv

\* A change of one record leaves all the others and the rest of its descriptor.
LEMMA OneRecord ==
  ASSUME RowsShape, NEW d \in RowDescs, NEW c \in Columns, NEW record, RecordShape(record),
         rows' = [rows EXCEPT ![d].records[c] = record]
  PROVE  /\ DOMAIN rows' = RowDescs
         /\ \A e \in RowDescs : DescShape(e)'
         /\ \A e \in RowDescs \ {d} : rows'[e] = rows[e]
         /\ \A e \in RowDescs : rows'[e].head = rows[e].head
         /\ rows'[d].records[c] = record
         /\ \A b \in Columns \ {c} : rows'[d].records[b] = rows[d].records[b]
<1>1. /\ DOMAIN rows' = RowDescs
      /\ \A e \in RowDescs \ {d} : rows'[e] = rows[e]
      /\ rows'[d] = [rows[d] EXCEPT !.records = [@ EXCEPT ![c] = record]]
  BY DEF RowsShape
<1>2. /\ DOMAIN rows'[d] = DOMAIN rows[d] /\ rows'[d].head = rows[d].head
      /\ rows'[d].records = [rows[d].records EXCEPT ![c] = record]
  BY <1>1 DEF RowsShape, DescShape
<1>3. RecordsShape(rows'[d].records)
  BY <1>2 DEF RowsShape, DescShape, RecordsShape
<1>4. /\ rows'[d].records[c] = record
      /\ \A b \in Columns \ {c} : rows'[d].records[b] = rows[d].records[b]
  BY <1>2 DEF RowsShape, DescShape, RecordsShape
<1>5. DescShape(d)' BY <1>2, <1>3 DEF RowsShape, DescShape
<1>6. \A e \in RowDescs \ {d} : DescShape(e)' BY <1>1 DEF RowsShape, DescShape
<1> QED BY <1>1, <1>2, <1>4, <1>5, <1>6

\* Storing a field of a record that then reads as what was stored, without
\* changing the buffer or its length in the active ARD.
LEMMA StoresKeeps ==
  ASSUME RecordsInv, NEW d \in RowDescs, NEW c \in Columns, NEW field \in SettableFields,
         NEW value, NEW record, RecordShape(record), Stores(d, c, field, value, record),
         GetField(record, field) = value, answer' = NoAnswer, UNCHANGED columnBindings,
         \/ /\ redirected' = redirected
            /\ record.dataPtr = rows[d].records[c].dataPtr
            /\ record.octetLength = rows[d].records[c].octetLength
         \/ redirected' = (redirected \/ d = activeArd)
  PROVE  RecordsInv'
<1>0. rows' = [rows EXCEPT ![d].records[c] = record] /\ activeArd' = activeArd
      /\ readable' = [readable EXCEPT ![d] = [column |-> c, field |-> field, value |-> value]]
  BY DEF Stores
<1>a. rows'[d].records[c] = record
  BY <1>0 DEF RecordsInv, RowsShape, DescShape, RecordsShape
<1>1. RowsShape'
  BY <1>0, OneRecord DEF RecordsInv, RowsShape
<1>2. BoundIsDescribed'
  <2> SUFFICES ASSUME ~redirected', NEW b \in Columns, columnBindings[b] # Unbound
               PROVE  /\ rows'[activeArd].records[b].dataPtr = columnBindings[b].data
                      /\ rows'[activeArd].records[b].octetLength = columnBindings[b].len
                      /\ rows'[activeArd].head.count >= b
    BY <1>0 DEF BoundIsDescribed
  <2>1. /\ rows[activeArd].records[b].dataPtr = columnBindings[b].data
        /\ rows[activeArd].records[b].octetLength = columnBindings[b].len
        /\ rows[activeArd].head.count >= b
    BY DEF RecordsInv, BoundIsDescribed
  <2>2. /\ rows'[activeArd].head = rows[activeArd].head
        /\ \/ rows'[activeArd].records[b] = rows[activeArd].records[b]
           \/ activeArd = d /\ b = c /\ rows'[activeArd].records[b] = record
    BY <1>0, OneRecord DEF RecordsInv, RowsShape
  <2> QED BY <2>1, <2>2
<1>3. KeepsFields'
  <2>1. KeepsField(d)'
    <3>1. readable'[d].column = c /\ readable'[d].field = field /\ readable'[d].value = value
      BY <1>0 DEF RecordsInv, RowsShape
    <3> QED BY <1>a, <3>1 DEF KeepsField
  <2>2. \A e \in RowDescs \ {d} : KeepsField(e)'
    BY <1>0, OneRecord DEF RecordsInv, RowsShape, KeepsFields, KeepsField
  <2> QED BY <2>1, <2>2 DEF KeepsFields
<1>4. FieldsReadBack' BY DEF FieldsReadBack, NoAnswer
<1> QED BY <1>1, <1>2, <1>3, <1>4 DEF RecordsInv

\* The records that SQLSetDescField and SQLBindCol make have all the fields.
LEMMA ShapesKept ==
  ASSUME NEW record, RecordShape(record)
  PROVE  /\ \A t : RecordShape(SetConciseType(record, t)) /\ RecordShape(SetDescType(record, t))
         /\ \A len : RecordShape(WithLength(record, len))
         /\ \A t, data, len, ind : RecordShape(Described(record, t, data, len, ind))
  BY DEF RecordShape, SetConciseType, SetDescType, WithLength, Described

LEMMA SetTypeFieldKeeps ==
  ASSUME RecordsInv, NEW d \in RowDescs, NEW c \in Columns, NEW field, NEW value,
         SetTypeField(d, c, field, value)
  PROVE  RecordsInv'
<1> DEFINE record == rows[d].records[c]
<1>0. RecordShape(record) BY DEF RecordsInv, RowsShape, DescShape, RecordsShape
<1>1. answer' = NoAnswer /\ UNCHANGED <<columnBindings, redirected>>
  BY DEF SetTypeField, Counted
<1>2. CASE field = "CONCISE_TYPE" /\ Stores(d, c, field, value, SetConciseType(record, value))
  <2>1. /\ SetConciseType(record, value).dataPtr = record.dataPtr
        /\ SetConciseType(record, value).octetLength = record.octetLength
        /\ GetField(SetConciseType(record, value), field) = value
    BY <1>0, <1>2 DEF RecordShape, RecordFields, SetConciseType, GetField
  <2> QED BY <1>0, <1>1, <1>2, <2>1, ShapesKept, StoresKeeps DEF SettableFields
<1>3. CASE field = "TYPE" /\ Stores(d, c, field, value, SetDescType(record, value))
  <2>1. /\ SetDescType(record, value).dataPtr = record.dataPtr
        /\ SetDescType(record, value).octetLength = record.octetLength
        /\ GetField(SetDescType(record, value), field) = value
    BY <1>0, <1>3 DEF RecordShape, RecordFields, SetDescType, GetField
  <2> QED BY <1>0, <1>1, <1>3, <2>1, ShapesKept, StoresKeeps DEF SettableFields
<1>4. CASE field = "DATETIME_INTERVAL_CODE"
           /\ Stores(d, c, field, value, [record EXCEPT !.code = value])
  <2> DEFINE r == [record EXCEPT !.code = value]
  <2>1. /\ RecordShape(r) /\ r.dataPtr = record.dataPtr /\ r.octetLength = record.octetLength
        /\ GetField(r, field) = value
    BY <1>0, <1>4 DEF RecordShape, RecordFields, GetField
  <2> QED BY <1>1, <1>4, <2>1, StoresKeeps DEF SettableFields
<1>5. CASE field = "DATETIME_INTERVAL_PRECISION"
           /\ Stores(d, c, field, value, [record EXCEPT !.intervalPrecision = value])
  <2> DEFINE r == [record EXCEPT !.intervalPrecision = value]
  <2>1. /\ RecordShape(r) /\ r.dataPtr = record.dataPtr /\ r.octetLength = record.octetLength
        /\ GetField(r, field) = value
    BY <1>0, <1>5 DEF RecordShape, RecordFields, GetField
  <2> QED BY <1>1, <1>5, <2>1, StoresKeeps DEF SettableFields
<1> QED BY <1>2, <1>3, <1>4, <1>5 DEF SetTypeField

LEMMA SetPointerFieldKeeps ==
  ASSUME RecordsInv, NEW d \in RowDescs, NEW c \in Columns, NEW field, NEW value,
         SetPointerField(d, c, field, value)
  PROVE  RecordsInv'
<1> DEFINE record == rows[d].records[c]
<1>0. RecordShape(record) BY DEF RecordsInv, RowsShape, DescShape, RecordsShape
<1>1. answer' = NoAnswer /\ UNCHANGED columnBindings /\ redirected' = (redirected \/ d = activeArd)
  BY DEF SetPointerField, Counted
<1>2. CASE field = "INDICATOR_PTR"
           /\ Stores(d, c, field, value, [record EXCEPT !.indicatorPtr = value])
  <2> DEFINE r == [record EXCEPT !.indicatorPtr = value]
  <2>1. RecordShape(r) /\ GetField(r, field) = value
    BY <1>0, <1>2 DEF RecordShape, RecordFields, GetField
  <2> QED BY <1>1, <1>2, <2>1, StoresKeeps DEF SettableFields
<1>3. CASE field = "OCTET_LENGTH_PTR"
           /\ Stores(d, c, field, value, [record EXCEPT !.octetLengthPtr = value])
  <2> DEFINE r == [record EXCEPT !.octetLengthPtr = value]
  <2>1. RecordShape(r) /\ GetField(r, field) = value
    BY <1>0, <1>3 DEF RecordShape, RecordFields, GetField
  <2> QED BY <1>1, <1>3, <2>1, StoresKeeps DEF SettableFields
<1> QED BY <1>2, <1>3 DEF SetPointerField

LEMMA SetLengthFieldKeeps ==
  ASSUME RecordsInv, NEW d \in RowDescs, NEW c \in Columns,
         NEW field \in {"LENGTH", "OCTET_LENGTH"}, NEW len, SetLengthField(d, c, field, len)
  PROVE  RecordsInv'
<1> DEFINE record == rows[d].records[c]
           r == WithLength(record, len)
<1>0. RecordShape(record) BY DEF RecordsInv, RowsShape, DescShape, RecordsShape
<1>1. answer' = NoAnswer /\ UNCHANGED columnBindings /\ redirected' = (redirected \/ d = activeArd)
      /\ Stores(d, c, field, len, r)
  BY DEF SetLengthField, Counted
<1>2. RecordShape(r) /\ GetField(r, field) = len
  BY <1>0 DEF RecordShape, RecordFields, GetField, WithLength
<1> QED BY <1>1, <1>2, StoresKeeps DEF SettableFields

LEMMA SetDataPtrKeeps ==
  ASSUME RecordsInv, NEW d \in RowDescs, NEW c \in Columns, NEW data, NEW len,
         SetDataPtr(d, c, data, len)
  PROVE  RecordsInv'
<1> DEFINE record == rows[d].records[c]
<1>0. RecordShape(record) BY DEF RecordsInv, RowsShape, DescShape, RecordsShape
<1>1. answer' = NoAnswer /\ redirected' = (redirected \/ d = activeArd)
  BY DEF SetDataPtr, Counted
<1>2. CASE data # NoPointer
  <2> DEFINE r == WithLength([record EXCEPT !.dataPtr = data], len)
  <2>1. Stores(d, c, "DATA_PTR", data, r) /\ UNCHANGED columnBindings
    BY <1>2 DEF SetDataPtr
  <2>2. RecordShape(r) /\ GetField(r, "DATA_PTR") = data
    BY <1>0 DEF RecordShape, RecordFields, GetField, WithLength
  <2> QED BY <1>1, <2>1, <2>2, StoresKeeps DEF SettableFields
<1>3. CASE data = NoPointer
  <2> DEFINE r == WithLength(record, 0)
  <2>1. /\ rows' = [rows EXCEPT ![d].records[c] = r] /\ UNCHANGED activeArd
        /\ columnBindings' = [columnBindings EXCEPT ![c] = Unbound]
        /\ readable' = [readable EXCEPT ![d] = NothingSet]
    BY <1>3 DEF SetDataPtr
  <2>2. RecordShape(r) BY <1>0, ShapesKept
  <2> HIDE DEF r
  <2>3. RowsShape'
    BY <1>1, <2>1, <2>2, OneRecord DEF RecordsInv, RowsShape
  <2>4. BoundIsDescribed'
    <3> SUFFICES ASSUME ~redirected' PROVE BoundIsDescribed' BY DEF BoundIsDescribed
    <3>1. ~redirected /\ activeArd # d BY <1>1
    <3>2. rows'[activeArd] = rows[activeArd]
      BY <2>1, <2>2, <3>1, OneRecord DEF RecordsInv, RowsShape
    <3> QED BY <2>1, <3>1, <3>2 DEF RecordsInv, RowsShape, BoundIsDescribed
  <2>5. KeepsFields'
    BY <2>1, <2>2, OneRecord DEF RecordsInv, RowsShape, KeepsFields, KeepsField
  <2>6. FieldsReadBack' BY <1>1 DEF FieldsReadBack, NoAnswer
  <2> QED BY <2>3, <2>4, <2>5, <2>6 DEF RecordsInv
<1> QED BY <1>2, <1>3

LEMMA BindColumnKeeps ==
  ASSUME RecordsInv, NEW c \in Columns, NEW t, NEW data, NEW len, NEW ind,
         BindColumn(c, t, data, len, ind)
  PROVE  RecordsInv'
<1> DEFINE d == activeArd
           record == Described(rows[d].records[c], t, data, len, ind)
<1>0. d \in RowDescs /\ RecordShape(rows[d].records[c]) /\ c \in Nat
  BY ColumnsAssumption DEF RecordsInv, RowsShape, DescShape, RecordsShape
<1>1. answer' = NoAnswer /\ UNCHANGED <<activeArd, redirected>>
  BY DEF BindColumn, Counted
<1>2. FieldsReadBack' BY <1>1 DEF FieldsReadBack, NoAnswer
<1>3. CASE data # NoPointer \/ ind # NoPointer
  <2>1. /\ columnBindings' = [columnBindings EXCEPT ![c] = [data |-> data, len |-> len, type |-> t]]
        /\ rows' = SetDescriptorFields(d, c, t, data, len, ind)
        /\ readable' = [readable EXCEPT ![d] = NothingSet]
    BY <1>3 DEF BindColumn
  <2>2. RecordShape(record) /\ record.dataPtr = data /\ record.octetLength = len
    BY <1>0, ShapesKept DEF RecordShape, RecordFields, Described
  <2>3. /\ DOMAIN rows' = RowDescs
        /\ \A e \in RowDescs \ {d} : rows'[e] = rows[e]
        /\ DOMAIN rows'[d] = DOMAIN rows[d]
        /\ rows'[d].head = [rows[d].head EXCEPT !.count = IF @ < c THEN c ELSE @]
        /\ rows'[d].records = [rows[d].records EXCEPT ![c] = record]
    BY <1>0, <2>1 DEF SetDescriptorFields, RecordsInv, RowsShape, DescShape, RecordsShape
  <2> HIDE DEF record
  <2>4. /\ rows'[d].head \in [count : Nat, alloc : {"AUTO", "USER"}]
        /\ rows'[d].head.count >= c /\ rows'[d].head.count >= rows[d].head.count
    BY <1>0, <2>3 DEF RecordsInv, RowsShape, DescShape
  <2>5. RecordsShape(rows'[d].records)
    BY <1>0, <2>2, <2>3 DEF RecordsInv, RowsShape, DescShape, RecordsShape
  <2>6. \A e \in RowDescs : DescShape(e)'
    BY <1>0, <2>3, <2>4, <2>5 DEF RecordsInv, RowsShape, DescShape
  <2>7. RowsShape'
    BY <1>0, <1>1, <2>1, <2>3, <2>6 DEF RecordsInv, RowsShape
  <2>8. BoundIsDescribed'
    <3> SUFFICES ASSUME ~redirected, NEW b \in Columns, columnBindings'[b] # Unbound
                 PROVE  /\ rows'[d].records[b].dataPtr = columnBindings'[b].data
                        /\ rows'[d].records[b].octetLength = columnBindings'[b].len
                        /\ rows'[d].head.count >= b
      BY <1>1 DEF BoundIsDescribed
    <3>1. CASE b = c
      BY <1>0, <2>1, <2>2, <2>3, <2>4, <3>1 DEF RecordsInv, RowsShape, DescShape, RecordsShape
    <3>2. CASE b # c
      <4>1. columnBindings'[b] = columnBindings[b] /\ rows'[d].records[b] = rows[d].records[b]
        BY <1>0, <2>1, <2>3, <3>2 DEF RecordsInv, RowsShape, DescShape, RecordsShape
      <4>2. /\ rows[d].records[b].dataPtr = columnBindings[b].data
            /\ rows[d].records[b].octetLength = columnBindings[b].len
            /\ rows[d].head.count >= b
        BY <4>1 DEF RecordsInv, BoundIsDescribed
      <4>3. rows[d].head.count \in Nat /\ rows'[d].head.count \in Nat /\ b \in Nat
        BY <1>0, <2>4, ColumnsAssumption DEF RecordsInv, RowsShape, DescShape
      <4> QED BY <2>4, <4>1, <4>2, <4>3
    <3> QED BY <3>1, <3>2
  <2>9. KeepsFields'
    BY <2>1, <2>3 DEF RecordsInv, RowsShape, KeepsFields, KeepsField
  <2> QED BY <1>2, <2>7, <2>8, <2>9 DEF RecordsInv
<1>4. CASE ~(data # NoPointer \/ ind # NoPointer)
  <2>1. columnBindings' = [columnBindings EXCEPT ![c] = Unbound] /\ UNCHANGED <<rows, readable>>
    BY <1>4 DEF BindColumn
  <2> QED BY <1>1, <1>2, <2>1
          DEF RecordsInv, RowsShape, DescShape, BoundIsDescribed, KeepsFields, KeepsField
<1> QED BY <1>3, <1>4

LEMMA CopyRecordsKeeps ==
  ASSUME RecordsInv, NEW src \in RowDescs, NEW dst \in RowDescs, CopyRecords(src, dst)
  PROVE  RecordsInv'
<1> DEFINE head == IF rows[src].type \in {"ARD", "APD"} THEN AppHead(TRUE) ELSE ImpHead
<1>0. head \in [count : Nat, alloc : {"AUTO", "USER"}]
  BY DEF AppHead, ImpHead
<1>1. /\ rows' = [rows EXCEPT ![dst] = [rows[src] EXCEPT !.head = head,
                                           !.records = CopiedRecords(src, dst)]]
      /\ readable' = [readable EXCEPT ![dst] = IF src = dst THEN NothingSet ELSE readable[src]]
      /\ redirected' = (redirected \/ dst = activeArd)
      /\ answer' = NoAnswer /\ UNCHANGED <<activeArd, columnBindings>>
  BY DEF CopyRecords, Counted
<1> HIDE DEF head
<1>2. RecordsShape(CopiedRecords(src, dst))
  BY DEF CopiedRecords, RecordsInv, RowsShape, DescShape, RecordsShape, RecordShape, ZeroRecord,
         RecordFields
<1>3. /\ DOMAIN rows' = RowDescs
      /\ \A e \in RowDescs \ {dst} : rows'[e] = rows[e]
      /\ DOMAIN rows'[dst] = DOMAIN rows[src] /\ rows'[dst].head = head
      /\ rows'[dst].records = CopiedRecords(src, dst)
  BY <1>1 DEF RecordsInv, RowsShape, DescShape
<1>4. RowsShape'
  BY <1>0, <1>1, <1>2, <1>3 DEF RecordsInv, RowsShape, DescShape
<1>5. BoundIsDescribed'
  BY <1>1, <1>3 DEF RecordsInv, RowsShape, BoundIsDescribed
<1>6. KeepsFields'
  <2>1. KeepsField(dst)'
    <3>1. CASE src = dst BY <1>1, <3>1 DEF RecordsInv, RowsShape, KeepsField
    <3>2. CASE src # dst
      <4>1. readable'[dst] = readable[src] /\ rows'[dst].records = rows[src].records
        BY <1>1, <1>3, <3>2 DEF RecordsInv, RowsShape, CopiedRecords
      <4> QED BY <4>1 DEF RecordsInv, KeepsFields, KeepsField
    <3> QED BY <3>1, <3>2
  <2>2. \A e \in RowDescs \ {dst} : KeepsField(e)'
    BY <1>1, <1>3 DEF RecordsInv, RowsShape, KeepsFields, KeepsField
  <2> QED BY <2>1, <2>2 DEF KeepsFields
<1>7. FieldsReadBack' BY <1>1 DEF FieldsReadBack, NoAnswer
<1> QED BY <1>4, <1>5, <1>6, <1>7 DEF RecordsInv

LEMMA SetArdKeeps ==
  ASSUME RecordsInv, NEW d \in RowDescs \cup {NoPointer}, SetArd(d)
  PROVE  RecordsInv'
<1>1. answer' = NoAnswer /\ redirected' = TRUE /\ UNCHANGED <<columnBindings, readable>>
      /\ activeArd' \in RowDescs
  BY DEF SetArd, Counted, RowDescs
<1>2. /\ DOMAIN rows' = RowDescs
      /\ \A e \in RowDescs : /\ DOMAIN rows'[e] = DOMAIN rows[e] /\ rows'[e].head = rows[e].head
                             /\ rows'[e].records = rows[e].records
  BY DEF SetArd, RecordsInv, RowsShape, DescShape
<1>3. RowsShape' BY <1>1, <1>2 DEF RecordsInv, RowsShape, DescShape
<1>4. BoundIsDescribed' BY <1>1 DEF BoundIsDescribed
<1>5. KeepsFields' BY <1>1, <1>2 DEF RecordsInv, KeepsFields, KeepsField
<1>6. FieldsReadBack' BY <1>1 DEF FieldsReadBack, NoAnswer
<1> QED BY <1>3, <1>4, <1>5, <1>6 DEF RecordsInv

LEMMA GetDescFieldKeeps ==
  ASSUME RecordsInv, NEW d \in RowDescs, NEW c \in Columns, NEW field,
         GetDescField(d, c, field),
         field = "LABEL" \/ (readable[d] # NothingSet /\ c = readable[d].column
                                                     /\ field = readable[d].field)
  PROVE  RecordsInv'
<1>1. UNCHANGED <<rows, activeArd, columnBindings, redirected, readable>>
  BY DEF GetDescField
<1>2. FieldsReadBack'
  <2>1. CASE field = "LABEL"
    BY <2>1 DEF GetDescField, FieldsReadBack
  <2>2. CASE field # "LABEL"
    <3>1. GetField(rows[d].records[c], field) = readable[d].value
      BY <2>2 DEF RecordsInv, KeepsFields, KeepsField
    <3> QED BY <2>2, <3>1, <1>1 DEF GetDescField, FieldsReadBack
  <2> QED BY <2>1, <2>2
<1>3. RowsShape' /\ BoundIsDescribed' /\ KeepsFields'
  BY <1>1 DEF RecordsInv, RowsShape, DescShape, BoundIsDescribed, KeepsFields, KeepsField
<1> QED BY <1>2, <1>3 DEF RecordsInv

LEMMA RecordsInvStep == RecordsInv /\ [RecordsNext]_recordVars => RecordsInv'
<1> SUFFICES ASSUME RecordsInv, [RecordsNext]_recordVars PROVE RecordsInv' OBVIOUS
<1>0. CASE UNCHANGED recordVars
  BY <1>0 DEF recordVars, RecordsInv, RowsShape, DescShape, BoundIsDescribed, KeepsFields,
              KeepsField, FieldsReadBack
<1>1. ASSUME NEW c \in Columns, NEW t, NEW b, NEW len, BindColumn(c, t, b[1], len, b[2])
      PROVE  RecordsInv'
  BY <1>1, BindColumnKeeps
<1>2. CASE UnbindAll
  BY <1>2 DEF UnbindAll, Counted, RecordsInv, RowsShape, DescShape, BoundIsDescribed,
              KeepsFields, KeepsField, FieldsReadBack, NoAnswer
<1>3. ASSUME NEW d \in RowDescs, NEW c \in FieldColumns, SetDescField(d, c) PROVE RecordsInv'
  <2>0. c \in Columns BY ColumnsAssumption
  <2> QED BY <1>3, <2>0, SetTypeFieldKeeps, SetPointerFieldKeeps, SetLengthFieldKeeps,
             SetDataPtrKeeps DEF SetDescField
<1>4. ASSUME NEW d \in RowDescs, readable[d] # NothingSet,
             GetDescField(d, readable[d].column, readable[d].field)
      PROVE  RecordsInv'
  <2>1. readable[d].column \in Columns BY <1>4 DEF RecordsInv, KeepsFields, KeepsField
  <2> QED BY <1>4, <2>1, GetDescFieldKeeps
<1>5. ASSUME NEW d \in RowDescs, NEW c \in FieldColumns, GetDescField(d, c, "LABEL")
      PROVE  RecordsInv'
  BY <1>5, GetDescFieldKeeps, ColumnsAssumption
<1>6. ASSUME NEW src \in RowDescs, NEW dst \in RowDescs, CopyRecords(src, dst) PROVE RecordsInv'
  BY <1>6, CopyRecordsKeeps
<1>7. ASSUME NEW d \in RowDescs \cup {NoPointer}, SetArd(d) PROVE RecordsInv'
  BY <1>7, SetArdKeeps
<1> QED BY <1>0, <1>1, <1>2, <1>3, <1>4, <1>5, <1>6, <1>7 DEF RecordsNext

LEMMA RecordsInvariant == RecordsSpec => []RecordsInv
  BY RecordsInvInit, RecordsInvStep, PTL DEF RecordsSpec

\* Every column a fetch fills is described by the active ARD as long as
\* SQLBindCol alone changed that, for any columns, buffers and types
\* (statement.cpp, SafeBindColumn and SetDescriptorFields).
THEOREM BoundIsDescribedHolds == RecordsSpec => []BoundIsDescribed
<1>1. RecordsInv => BoundIsDescribed BY DEF RecordsInv
<1> QED BY RecordsInvariant, <1>1, PTL

\* A field SQLSetDescField accepted reads back as set, also from a copy
\* (descriptor.cpp, SetField, InternalGetField and InternalCopyDesc).
THEOREM FieldsReadBackHolds == RecordsSpec => []FieldsReadBack
<1>1. RecordsInv => FieldsReadBack BY DEF RecordsInv
<1> QED BY RecordsInvariant, <1>1, PTL

=============================================================================
