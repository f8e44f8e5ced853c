---------------------------- MODULE HandlesProofs ----------------------------
(***************************************************************************)
(* Theorems about the handles of an application: CursorNames, for any      *)
(* statements and names; Types, for any columns; and Calls, for any length *)
(* of a message and any number of records.                                 *)
(***************************************************************************)
EXTENDS CursorNames, Types, Calls, TLAPS

-----------------------------------------------------------------------------
(* Cursor names *)

\* The constructor of Connection establishes the types.
LEMMA InitTypeOK == Init => TypeOK
  BY DEF Init, TypeOK

\* Every step keeps the types.
LEMMA NextTypeOK == TypeOK /\ [Next]_vars => TypeOK'
  <1> SUFFICES ASSUME TypeOK, [Next]_vars PROVE TypeOK'
    OBVIOUS
  <1> USE NoNameAssumption DEF TypeOK
  <1>1. ASSUME NEW s \in Stmts, AllocStmt(s) PROVE TypeOK'
    BY <1>1 DEF AllocStmt
  <1>2. ASSUME NEW s \in Stmts, NEW name \in Names, SetCursorName(s, name)
        PROVE  TypeOK'
    BY <1>2 DEF SetCursorName
  <1>3. ASSUME NEW s \in Stmts, AddCursorName(s) PROVE TypeOK'
    BY <1>3 DEF AddCursorName
  <1>4. ASSUME NEW s \in Stmts, FreeStmt(s) PROVE TypeOK'
    BY <1>4 DEF FreeStmt
  <1>5. CASE UNCHANGED vars
    BY <1>5 DEF vars
  <1> QED
    BY <1>1, <1>2, <1>3, <1>4, <1>5 DEF Next

\* The registry of cursor names is well-typed.
THEOREM TypeCorrect == Spec => []TypeOK
  BY InitTypeOK, NextTypeOK, PTL DEF Spec

-----------------------------------------------------------------------------
\* Only a statement that exists has a name or is about to get one.
OnlyAllocated ==
  \A s \in Stmts \ allocated : cursorNameMap[s] = NoName /\ adding[s] = NoName

\* A name in the set is some statement's.
NoGhost == \A n \in cursorNames : \E s \in Stmts : cursorNameMap[s] = n

\* Every step keeps the two, overlapping calls included.  The name a step takes
\* out of the set is the one the statement gives up.
LEMMA NextNoGhost ==
  ASSUME TypeOK, OnlyAllocated, NoGhost, [Next]_vars
  PROVE  OnlyAllocated' /\ NoGhost'
  <1> USE NoNameAssumption DEF TypeOK, OnlyAllocated
  <1>1. ASSUME NEW s \in Stmts, AllocStmt(s) PROVE OnlyAllocated' /\ NoGhost'
    BY <1>1 DEF AllocStmt, NoGhost
  <1>2. ASSUME NEW s \in Stmts, NEW name \in Names, SetCursorName(s, name)
        PROVE  OnlyAllocated' /\ NoGhost'
    BY <1>2 DEF SetCursorName, NoGhost
  <1>3. ASSUME NEW s \in Stmts, AddCursorName(s)
        PROVE  OnlyAllocated' /\ NoGhost'
    <2> USE <1>3 DEF AddCursorName
    <2>1. OnlyAllocated'
      OBVIOUS
    <2>2. ASSUME NEW n \in cursorNames'
          PROVE  \E t \in Stmts : cursorNameMap'[t] = n
      <3>1. CASE n = adding[s]
        BY <3>1
      <3>2. CASE n # adding[s]
        <4>1. n \in cursorNames /\ n # cursorNameMap[s]
          BY <2>2, <3>2
        <4>2. PICK t \in Stmts : cursorNameMap[t] = n
          BY <4>1 DEF NoGhost
        <4> QED
          BY <4>1, <4>2
      <3> QED
        BY <3>1, <3>2
    <2> QED
      BY <2>1, <2>2 DEF NoGhost
  <1>4. ASSUME NEW s \in Stmts, FreeStmt(s) PROVE OnlyAllocated' /\ NoGhost'
    <2> USE <1>4 DEF FreeStmt, Idle
    <2>1. OnlyAllocated'
      OBVIOUS
    <2>2. ASSUME NEW n \in cursorNames'
          PROVE  \E t \in Stmts : cursorNameMap'[t] = n
      <3>1. n \in cursorNames /\ n # cursorNameMap[s]
        BY <2>2
      <3>2. PICK t \in Stmts : cursorNameMap[t] = n
        BY <3>1 DEF NoGhost
      <3> QED
        BY <3>1, <3>2
    <2> QED
      BY <2>1, <2>2 DEF NoGhost
  <1>5. CASE UNCHANGED vars
    BY <1>5 DEF vars, NoGhost
  <1> QED
    BY <1>1, <1>2, <1>3, <1>4, <1>5 DEF Next

\* A freed statement leaves no name behind, even when calls overlap.
THEOREM FreedStatementsLeaveNoName == Spec => []NoNameLeftBehind
  <1>1. Init => OnlyAllocated /\ NoGhost
    BY DEF Init, OnlyAllocated, NoGhost
  <1>2. TypeOK /\ (OnlyAllocated /\ NoGhost) /\ [Next]_vars
          => (OnlyAllocated /\ NoGhost)'
    BY NextNoGhost
  <1>3. TypeOK /\ OnlyAllocated /\ NoGhost => NoNameLeftBehind
    BY NoNameAssumption
    DEF TypeOK, OnlyAllocated, NoGhost, NoNameLeftBehind, Held
  <1> QED
    BY <1>1, <1>2, <1>3, TypeCorrect, PTL DEF Spec

-----------------------------------------------------------------------------
(* As long as no two overlapping calls set the same name *)

\* Names about to be added are different and in no use, and the names of the
\* map are all in the set, each held by one statement.
AddingApart ==
  \A s, t \in Stmts : adding[s] = adding[t] /\ s # t => adding[s] = NoName

AddingUnused ==
  \A s \in Stmts : adding[s] # NoName => adding[s] \notin cursorNames

HeldInSet ==
  \A s \in Stmts : cursorNameMap[s] # NoName => cursorNameMap[s] \in cursorNames

HeldApart ==
  \A s, t \in Stmts :
    cursorNameMap[s] = cursorNameMap[t] /\ s # t => cursorNameMap[s] = NoName

Apart == AddingApart /\ AddingUnused /\ HeldInSet /\ HeldApart
ApartInv == ~collided => Apart

\* A step keeps the names apart unless it is a call that collides.
LEMMA NextApartInv ==
  ASSUME TypeOK, ApartInv, [Next]_vars
  PROVE  ApartInv'
  <1> SUFFICES ASSUME ~collided' PROVE Apart'
    BY DEF ApartInv
  <1> USE NoNameAssumption
      DEF TypeOK, Apart, AddingApart, AddingUnused, HeldInSet, HeldApart
  <1>0. ~collided /\ Apart
    BY DEF ApartInv, Next, AllocStmt, SetCursorName, AddCursorName, FreeStmt,
           vars
  <1>1. ASSUME NEW s \in Stmts, AllocStmt(s) PROVE Apart'
    BY <1>0, <1>1 DEF AllocStmt
  <1>2. ASSUME NEW s \in Stmts, NEW name \in Names, SetCursorName(s, name)
        PROVE  Apart'
    <2>1. AddingApart'
      BY <1>0, <1>2 DEF SetCursorName, Collides
    <2>2. AddingUnused' /\ HeldInSet' /\ HeldApart'
      BY <1>0, <1>2 DEF SetCursorName, CursorNameExists
    <2> QED
      BY <2>1, <2>2
  <1>3. ASSUME NEW s \in Stmts, AddCursorName(s) PROVE Apart'
    <2> USE <1>0, <1>3 DEF AddCursorName
    <2>1. AddingApart' /\ AddingUnused'
      OBVIOUS
    <2>2. HeldInSet'
      OBVIOUS
    <2>3. HeldApart'
      OBVIOUS
    <2> QED
      BY <2>1, <2>2, <2>3
  <1>4. ASSUME NEW s \in Stmts, FreeStmt(s) PROVE Apart'
    BY <1>0, <1>4 DEF FreeStmt, Idle
  <1>5. CASE UNCHANGED vars
    BY <1>0, <1>5 DEF vars
  <1> QED
    BY <1>1, <1>2, <1>3, <1>4, <1>5 DEF Next

\* The names stay apart as long as no two calls collide.
LEMMA ApartInvHolds == Spec => []ApartInv
  <1>1. Init => ApartInv
    BY DEF Init, ApartInv, Apart, AddingApart, AddingUnused, HeldInSet,
           HeldApart
  <1>2. TypeOK /\ ApartInv /\ [Next]_vars => ApartInv'
    BY NextApartInv
  <1> QED
    BY <1>1, <1>2, TypeCorrect, PTL DEF Spec

\* Cursor names are unique unless two overlapping calls set the same name
\* (InternalSetCursorName, AddCursorName).
THEOREM CursorNamesUnique == Spec => []NamesUnique
  <1>1. ApartInv => NamesUnique
    BY DEF ApartInv, Apart, HeldApart, NamesUnique
  <1> QED
    BY <1>1, ApartInvHolds, PTL

\* Under the same condition a name is refused exactly when a statement has it
\* (cursorNames_ and cursorNameMap_ agree).
THEOREM SetAgreesWithMap == Spec => []SetIsHeldNames
  <1>1. TypeOK /\ ApartInv /\ NoNameLeftBehind => SetIsHeldNames
    BY NoNameAssumption
    DEF TypeOK, ApartInv, Apart, HeldInSet, NoNameLeftBehind, SetIsHeldNames,
        Held
  <1> QED
    BY <1>1, TypeCorrect, ApartInvHolds, FreedStatementsLeaveNoName, PTL

-----------------------------------------------------------------------------
(* The views of a type *)

ScalarTypes == {"STRING", "DOUBLE", "BOOLEAN", "TIMESTAMP", "INT", "NOT_SET"}

\* What every view says of a type is what the tables of type_traits.cpp say of
\* the SQL type it names, and of its scalar type.
Says(a) ==
  /\ DOMAIN a \subseteq {"view", "scalar", "type", "name", "size", "display", "octets",
                         "digits", "radix", "charOctets", "unsigned", "quoted", "sensitive",
                         "searchable", "nullable", "isNullable"}
  /\ {"type", "scalar", "digits"} \subseteq DOMAIN a
  /\ a.scalar \in ScalarTypes
  /\ a.type = BinaryToSqlType(a.scalar)
  /\ a.digits \in Int
  /\ Digits(a) = IF SqlTypeDecimalDigits(a.type) < 0 THEN Null ELSE SqlTypeDecimalDigits(a.type)
  /\ "size" \in DOMAIN a => a.size = SqlTypeColumnSize(a.type)
  /\ "radix" \in DOMAIN a => a.radix = SqlTypeNumPrecRadix(a.type)
  /\ "octets" \in DOMAIN a => a.octets = SqlTypeTransferLength(a.type)
  /\ "name" \in DOMAIN a => a.name = BinaryTypeToSqlTypeName(a.scalar)
  /\ "unsigned" \in DOMAIN a => a.unsigned = SqlTypeUnsigned(a.type)
  /\ "quoted" \in DOMAIN a => a.quoted = (a.scalar = "STRING")
  /\ "sensitive" \in DOMAIN a => a.sensitive = (a.scalar = "STRING")

TypesInv ==
  /\ DOMAIN seen = {"catalog", "result", "typeInfo"}
  /\ \A v \in DOMAIN seen : seen[v] # Unseen => Says(seen[v])
  /\ types \in Seq(ScalarTypes)

LEMMA DigitsAreInt == \A t : SqlTypeDecimalDigits(t) \in Int
  BY DEF SqlTypeDecimalDigits

LEMMA TypeInfoSays == \A t \in ScalarTypes : Says(TypeInfoRow(t))
  BY DigitsAreInt DEF Says, Digits, TypeInfoRow, ScalarTypes

LEMMA AttributeSays == \A t \in ScalarTypes : Says(GetAttribute(t))
  BY DigitsAreInt DEF Says, Digits, GetAttribute, ScalarTypes

LEMMA CatalogSays == \A name, text : Says(CatalogRow(name, text))
<1>1. \A text : GetScalarDataType(text) \in ScalarTypes
  BY DEF GetScalarDataType, ScalarTypes
<1> QED BY <1>1, DigitsAreInt, SMTT(60) DEF Says, Digits, CatalogRow, ScalarTypes, Null

LEMMA TypesInvStep == TypesInv /\ [TypesNext]_typesVars => TypesInv'
<1> SUFFICES ASSUME TypesInv, [TypesNext]_typesVars PROVE TypesInv' OBVIOUS
<1>0. CASE UNCHANGED typesVars BY <1>0 DEF typesVars, TypesInv
<1>1. CASE SQLColumnsRow BY <1>1, CatalogSays DEF SQLColumnsRow, TypesInv
<1>2. CASE SQLColAttributeOfResult
  <2>1. \A set \in BOOLEAN : \A text : ReadMetadata(set, text) \in ScalarTypes
    BY DEF ReadMetadata, GetScalarDataType, ScalarTypes
  <2> QED BY <1>2, <2>1, AttributeSays DEF SQLColAttributeOfResult, TypesInv
<1>3. ASSUME NEW t \in SqlTypes \cup {"ALL_TYPES"}, SQLGetTypeInfoOf(t) PROVE TypesInv'
  <2>0. SqlTypeToBinary(t) \in ScalarTypes BY DEF SqlTypeToBinary, ScalarTypes
  <2>1. /\ <<SqlTypeToBinary(t)>> \in Seq(ScalarTypes)
        /\ <<"STRING", "BOOLEAN", "DOUBLE", "TIMESTAMP", "INT", "NOT_SET">> \in Seq(ScalarTypes)
    BY <2>0 DEF ScalarTypes
  <2>2. types' \in Seq(ScalarTypes) BY <1>3, <2>1 DEF SQLGetTypeInfoOf, TypesInv
  <2> QED BY <1>3, <2>2 DEF SQLGetTypeInfoOf, TypesInv
<1>4. CASE FetchTypeInfo
  <2>1. Head(types) \in ScalarTypes /\ Tail(types) \in Seq(ScalarTypes)
    BY <1>4 DEF FetchTypeInfo, TypesInv
  <2> QED BY <1>4, <2>1, TypeInfoSays DEF FetchTypeInfo, TypesInv
<1> QED BY <1>0, <1>1, <1>2, <1>3, <1>4 DEF TypesNext

\* Two scalar types the driver knows have different SQL types.
LEMMA TypesDiffer ==
  \A s, t \in ScalarTypes \ {"NOT_SET"} : BinaryToSqlType(s) = BinaryToSqlType(t) => s = t
  BY DEF ScalarTypes, BinaryToSqlType

\* SQLColumns, SQLColAttribute and SQLGetTypeInfo describe a type alike, for
\* every name and type text of a column (column_meta.cpp, type_info_query.cpp,
\* column_metadata_query.cpp).
THEOREM TypeViewsAgree == TypesSpec => []ViewsAgree
<1>1. TypesInit => TypesInv BY DEF TypesInit, TypesInv
<1>2. TypesInv => ViewsAgree
  <2> SUFFICES ASSUME TypesInv PROVE ViewsAgree OBVIOUS
  <2>1. ASSUME NEW v \in DOMAIN seen, NEW w \in DOMAIN seen,
               seen[v] # Unseen, seen[w] # Unseen, seen[v].type = seen[w].type
        PROVE  /\ Digits(seen[v]) = Digits(seen[w])
               /\ SameIn({"size", "radix", "octets"}, seen[v], seen[w])
               /\ "NOT_SET" \notin {seen[v].scalar, seen[w].scalar} =>
                    SameIn({"name", "unsigned", "quoted", "sensitive"}, seen[v], seen[w])
    <3>1. Says(seen[v]) /\ Says(seen[w]) BY <2>1 DEF TypesInv
    <3>2. "NOT_SET" \notin {seen[v].scalar, seen[w].scalar} => seen[v].scalar = seen[w].scalar
      <4>1. /\ seen[v].scalar \in ScalarTypes /\ seen[w].scalar \in ScalarTypes
            /\ BinaryToSqlType(seen[v].scalar) = BinaryToSqlType(seen[w].scalar)
        BY <2>1, <3>1 DEF Says
      <4> QED BY <4>1, TypesDiffer
    <3> QED BY <2>1, <3>1, <3>2 DEF Says, Digits, SameIn
  <2> QED BY <2>1, Zenon DEF ViewsAgree
<1> QED BY <1>1, <1>2, TypesInvStep, PTL DEF TypesSpec

-----------------------------------------------------------------------------
(* The calls and their records *)

ReturnCodes == {"SUCCESS", "SUCCESS_WITH_INFO", "ERROR", "NO_DATA"}
Warned == {"ERROR", "SUCCESS_WITH_INFO"}

\* Where each class of queries can be.
Queries ==
  {q \in [kind : {"NONE", "DATA", "TABLES", "COLUMNS", "TYPES", "EMPTY"},
         at : {"rows", "end", "none", "closed", "starved"}, meta : BOOLEAN] :
     /\ q.kind = "DATA" => q.at # "none"
     /\ q.kind \in {"TABLES", "COLUMNS", "TYPES"} => q.at # "starved"}

StatusRecords == [fresh : BOOLEAN, retrieved : BOOLEAN]

CallsTypeOK ==
  /\ watched \in Handles /\ held \subseteq Handles
  /\ storage \in [result : ReturnCodes, records : Seq(StatusRecords)]
  /\ current \in Queries

CallsInv == CallsTypeOK /\ ErrorsAreExplained /\ ResultSetOfLastSuccess /\ SuccessIsWhole

\* The SQLSTATEs of the records.
SqlStates ==
  {"01000", "01004", "01S01", "01S02", "01S07", "07009", "22002", "24000", "34000", "3C000", "HY000",
   "HY003", "HY009", "HY010", "HY016", "HY024", "HY090", "HY091", "HY092", "HYC00"}

Outcomes == [ret : ReturnCodes, states : Seq(SqlStates), q : Queries]

\* The outcomes of a call that does not read the columns: where it fails or
\* warns there is a record.
Explained(outcomes) ==
  outcomes \subseteq Outcomes /\ \A o \in outcomes : o.ret \in Warned => o.states # <<>>

\* Those of a call that asks for a result set of this class.
Asked(kind, outcomes) == \A o \in outcomes : o.ret \in {"SUCCESS", "SUCCESS_WITH_INFO"} => o.q.kind = kind

-----------------------------------------------------------------------------
LEMMA QueriesMade ==
  /\ NoQuery \in Queries
  /\ \A kind \in {"TABLES", "COLUMNS", "TYPES", "EMPTY"}, at \in {"rows", "end", "none", "closed"} :
       Query(kind, at) \in Queries /\ Query(kind, at).kind = kind
  /\ \A at \in {"rows", "end", "closed", "starved"}, meta \in BOOLEAN :
       DataQuery(at, meta) \in Queries /\ DataQuery(at, meta).kind = "DATA"
  BY DEF NoQuery, Query, DataQuery, Queries

LEMMA StoredTypes ==
  ASSUME NEW ret \in ReturnCodes, NEW states \in Seq(SqlStates)
  PROVE  /\ Stored(ret, states) \in [result : ReturnCodes, records : Seq(StatusRecords)]
         /\ states # <<>> => /\ 1 \in DOMAIN Stored(ret, states).records
                             /\ Stored(ret, states).records[1].fresh
<1>1. Added \in StatusRecords /\ Added.fresh BY DEF Added, StatusRecords
<1>2. DOMAIN states = 1..Len(states) /\ Len(states) \in Nat OBVIOUS
<1>3. [i \in DOMAIN states |-> Added] \in Seq(StatusRecords)
  BY <1>1, <1>2
<1>4. states # <<>> => 1 \in DOMAIN states BY <1>2
<1> QED BY <1>1, <1>3, <1>4 DEF Stored

LEMMA StoredTooTypes ==
  ASSUME CallsTypeOK
  PROVE  /\ StoredToo \in [result : ReturnCodes, records : Seq(StatusRecords)]
         /\ \E i \in DOMAIN StoredToo.records : StoredToo.records[i].fresh
<1> DEFINE records == storage.records
           older == Older(records)
<1>1. Added \in StatusRecords /\ Added.fresh BY DEF Added, StatusRecords
<1>2. records \in Seq(StatusRecords) /\ storage.result \in ReturnCodes BY DEF CallsTypeOK
<1>3. ASSUME NEW i \in DOMAIN records
      PROVE  [records[i] EXCEPT !.fresh = FALSE] \in StatusRecords
  <2>1. records[i] \in StatusRecords BY <1>2
  <2>2. \A r \in StatusRecords : [r EXCEPT !.fresh = FALSE] \in StatusRecords
    BY DEF StatusRecords
  <2> QED BY <2>1, <2>2
<1>4. older \in Seq(StatusRecords)
  <2>1. DOMAIN records = 1..Len(records) /\ Len(records) \in Nat BY <1>2
  <2>2. older \in [1..Len(records) -> StatusRecords] BY <1>3, <2>1 DEF Older
  <2> QED BY <2>1, <2>2
<1> HIDE DEF older
<1>5. /\ Append(older, Added) \in Seq(StatusRecords)
      /\ Len(older) + 1 \in DOMAIN Append(older, Added)
      /\ Append(older, Added)[Len(older) + 1] = Added
  BY <1>1, <1>4
<1>6. StoredToo = [storage EXCEPT !.records = Append(older, Added)] BY DEF StoredToo, older
<1>7. StoredToo.records = Append(older, Added) BY <1>6 DEF CallsTypeOK
<1> QED BY <1>1, <1>5, <1>6, <1>7 DEF CallsTypeOK

\* What a call that resets the records of its handle leaves.
LEMMA AnsweredKeeps ==
  ASSUME CallsTypeOK, NEW h \in Handles, NEW call, NEW ret \in ReturnCodes,
         NEW states \in Seq(SqlStates), NEW q \in Queries,
         \/ Answered(h, call, ret, states, q)
         \/ \E other : other # h /\ AnsweredThrough(other, h, call, ret, states, q),
         call \notin RecordCalls,
         call \notin ColumnCalls /\ ret \in Warned => states # <<>>,
         ret \in {"SUCCESS", "SUCCESS_WITH_INFO"} /\ Opens(call) # "none" => q.kind = Opens(call)
  PROVE  CallsInv'
<1>1. /\ UNCHANGED <<watched, held>> /\ current' = q /\ given' = NothingGiven
      /\ told' = [h |-> h, call |-> call, ret |-> ret, resets |-> TRUE]
      /\ \/ storage' = Stored(ret, states)
         \/ h # watched /\ storage' = Stored("SUCCESS", <<>>)
         \/ h # watched /\ storage' = storage
  <2>1. CASE Answered(h, call, ret, states, q) BY <2>1 DEF Answered
  <2>2. CASE \E other : other # h /\ AnsweredThrough(other, h, call, ret, states, q)
    BY <2>2 DEF AnsweredThrough
  <2> QED BY <2>1, <2>2
<1>2. <<>> \in Seq(SqlStates) /\ "SUCCESS" \in ReturnCodes BY DEF ReturnCodes
<1>3. storage' \in [result : ReturnCodes, records : Seq(StatusRecords)]
  BY <1>1, <1>2, StoredTypes, ZenonT(30) DEF CallsTypeOK
<1>4. CallsTypeOK' BY <1>1, <1>3 DEF CallsTypeOK
<1>5. ErrorsAreExplained'
  <2> SUFFICES ASSUME told'.ret \in Warned, told'.h = watched', told'.call \notin ColumnCalls
               PROVE  \E i \in DOMAIN storage'.records : storage'.records[i].fresh
    BY DEF ErrorsAreExplained, Warned
  <2>1. storage' = Stored(ret, states) /\ states # <<>> BY <1>1
  <2> QED BY <2>1, StoredTypes
<1>6. ResultSetOfLastSuccess' BY <1>1 DEF ResultSetOfLastSuccess
<1>7. SuccessIsWhole' BY <1>1 DEF SuccessIsWhole, NothingGiven, RecordCalls
<1> QED BY <1>4, <1>5, <1>6, <1>7 DEF CallsInv

\* A call of the statement, by its outcomes.
LEMMA StatementCallKeeps ==
  ASSUME CallsTypeOK, NEW call, NEW outcomes,
         StatementCall(call, outcomes) \/
           \E o \in outcomes : AnsweredWithVersion("STMT", call, o.ret, o.states, o.q),
         call \notin RecordCalls, outcomes \subseteq Outcomes,
         call \notin ColumnCalls => Explained(outcomes),
         Opens(call) # "none" => Asked(Opens(call), outcomes)
  PROVE  CallsInv'
<1>1. PICK o \in outcomes : \/ Answered("STMT", call, o.ret, o.states, o.q)
                           \/ AnsweredThrough("ENV", "STMT", call, o.ret, o.states, o.q)
  BY DEF StatementCall, AnsweredWithVersion
<1>2. o.ret \in ReturnCodes /\ o.states \in Seq(SqlStates) /\ o.q \in Queries
  BY DEF Outcomes
<1>3. "STMT" \in Handles BY DEF Handles
<1>4. call \notin ColumnCalls /\ o.ret \in Warned => o.states # <<>>
  BY DEF Explained
<1>5. o.ret \in {"SUCCESS", "SUCCESS_WITH_INFO"} /\ Opens(call) # "none" => o.q.kind = Opens(call)
  BY DEF Asked
<1> QED BY <1>1, <1>2, <1>3, <1>4, <1>5, AnsweredKeeps

LEMMA OtherCallKeeps ==
  ASSUME CallsTypeOK, NEW outcomes, OtherCall(outcomes), Explained(outcomes)
  PROVE  CallsInv'
<1>1. /\ "other" \notin RecordCalls /\ "other" \notin ColumnCalls /\ Opens("other") = "none"
  BY DEF RecordCalls, ColumnCalls, Opens
<1>2. StatementCall("other", outcomes) /\ outcomes \subseteq Outcomes
  BY DEF OtherCall, Explained
<1> QED BY <1>1, <1>2, StatementCallKeeps

\* A call that only adds a record.
LEMMA AnsweredTooKeeps ==
  ASSUME CallsTypeOK, NEW h \in Handles, NEW call, NEW ret, NEW state, AnsweredToo(h, call, ret, state),
         call \notin RecordCalls
  PROVE  CallsInv'
<1>1. /\ UNCHANGED <<watched, held, current>> /\ given' = NothingGiven
      /\ told' = [h |-> h, call |-> call, ret |-> ret, resets |-> FALSE]
      /\ storage' = IF h = watched THEN StoredToo ELSE storage
  BY DEF AnsweredToo
<1>2. CallsTypeOK' BY <1>1, StoredTooTypes DEF CallsTypeOK
<1>3. ErrorsAreExplained' BY <1>1, StoredTooTypes DEF ErrorsAreExplained
<1>4. ResultSetOfLastSuccess' BY <1>1 DEF ResultSetOfLastSuccess
<1>5. SuccessIsWhole' BY <1>1 DEF SuccessIsWhole, NothingGiven, RecordCalls
<1> QED BY <1>2, <1>3, <1>4, <1>5 DEF CallsInv

\* A call that makes or frees a handle, or sets the version: it succeeds.
LEMMA SucceedingKeeps ==
  ASSUME CallsTypeOK, UNCHANGED watched, held' \subseteq Handles, NEW h, current' \in Queries,
         told' = [h |-> h, call |-> "other", ret |-> "SUCCESS", resets |-> TRUE],
         given' = NothingGiven,
         storage' \in {storage, NewStorage, Stored("SUCCESS", <<>>)}
  PROVE  CallsInv'
<1>1. <<>> \in Seq(SqlStates) /\ <<>> \in Seq(StatusRecords) /\ "SUCCESS" \in ReturnCodes
  BY DEF ReturnCodes
<1>2. NewStorage \in [result : ReturnCodes, records : Seq(StatusRecords)]
  BY <1>1 DEF NewStorage
<1>3. CallsTypeOK' BY <1>1, <1>2, StoredTypes DEF CallsTypeOK
<1>4. ErrorsAreExplained' BY DEF ErrorsAreExplained
<1>5. ResultSetOfLastSuccess' BY DEF ResultSetOfLastSuccess, Opens
<1>6. SuccessIsWhole' BY DEF SuccessIsWhole, NothingGiven
<1> QED BY <1>3, <1>4, <1>5, <1>6 DEF CallsInv

-----------------------------------------------------------------------------
(* The outcomes of the calls *)

\* The lists of states that the calls name.
LEMMA StatesAre ==
  /\ <<>> \in Seq(SqlStates)
  /\ \A a \in SqlStates : <<a>> \in Seq(SqlStates) /\ <<a>> # <<>>
  /\ \A a, b \in SqlStates : <<a, b>> \in Seq(SqlStates) /\ <<a, b>> # <<>>
<1>1. ASSUME NEW a \in SqlStates, NEW b \in SqlStates
      PROVE  /\ <<a>> \in Seq(SqlStates) /\ Len(<<a>>) = 1
             /\ <<a, b>> \in Seq(SqlStates) /\ Len(<<a, b>>) = 2
  OBVIOUS
<1>2. <<>> \in Seq(SqlStates) /\ Len(<<>>) = 0 OBVIOUS
<1> QED BY <1>1, <1>2

Fine(o) == o \in Outcomes /\ (o.ret \in Warned => o.states # <<>>)

\* An outcome without a record that does not warn, and those with records.
LEMMA FineOnes ==
  /\ \A ret \in {"SUCCESS", "NO_DATA"}, q \in Queries : Fine(Outcome(ret, <<>>, q))
  /\ \A ret \in ReturnCodes, a \in SqlStates, q \in Queries : Fine(Outcome(ret, <<a>>, q))
  /\ \A ret \in ReturnCodes, a, b \in SqlStates, q \in Queries : Fine(Outcome(ret, <<a, b>>, q))
<1>1. ASSUME NEW ret \in {"SUCCESS", "NO_DATA"}, NEW q \in Queries PROVE Fine(Outcome(ret, <<>>, q))
  <2>1. ret \in ReturnCodes /\ ret \notin Warned BY DEF ReturnCodes, Warned
  <2>2. <<>> \in Seq(SqlStates) BY StatesAre
  <2>3. /\ Outcome(ret, <<>>, q) \in Outcomes
        /\ Outcome(ret, <<>>, q).ret = ret
    BY <2>1, <2>2, SMT DEF Outcome, Outcomes
  <2> QED BY <2>1, <2>3 DEF Fine
<1>2. ASSUME NEW ret \in ReturnCodes, NEW a \in SqlStates, NEW q \in Queries
      PROVE  Fine(Outcome(ret, <<a>>, q))
  <2>1. <<a>> \in Seq(SqlStates) /\ <<a>> # <<>> BY StatesAre
  <2>2. Outcome(ret, <<a>>, q) \in Outcomes /\ Outcome(ret, <<a>>, q).states = <<a>>
    BY <2>1, SMT DEF Outcome, Outcomes
  <2> QED BY <2>1, <2>2 DEF Fine
<1>3. ASSUME NEW ret \in ReturnCodes, NEW a \in SqlStates, NEW b \in SqlStates, NEW q \in Queries
      PROVE  Fine(Outcome(ret, <<a, b>>, q))
  <2>1. <<a, b>> \in Seq(SqlStates) /\ <<a, b>> # <<>> BY StatesAre
  <2>2. Outcome(ret, <<a, b>>, q) \in Outcomes /\ Outcome(ret, <<a, b>>, q).states = <<a, b>>
    BY <2>1, SMT DEF Outcome, Outcomes
  <2> QED BY <2>1, <2>2 DEF Fine
<1> QED BY <1>1, <1>2, <1>3

LEMMA ExplainedFine ==
  ASSUME NEW outcomes, \A o \in outcomes : Fine(o) PROVE Explained(outcomes)
  BY DEF Explained, Fine

LEMMA ExplainedBoth ==
  ASSUME NEW A, NEW B, Explained(A), Explained(B) PROVE Explained(A \cup B)
  BY DEF Explained

LEMMA CurrentMoves ==
  ASSUME CallsTypeOK
  PROVE  /\ current \in Queries
         /\ \A at \in {"rows", "end", "closed"} : At(at) \in Queries
         /\ current.kind = "DATA" => At("starved") \in Queries
         /\ Closed \in Queries /\ WithMeta \in Queries
  BY DEF CallsTypeOK, Queries, At, Closed, WithMeta

LEMMA Simple ==
  ASSUME CallsTypeOK
  PROVE  /\ Explained(Succeeds)
         /\ \A state \in SqlStates : Explained(Refused(state))
<1>1. current \in Queries /\ "ERROR" \in ReturnCodes BY DEF CallsTypeOK, ReturnCodes
<1>2. \A o \in Succeeds : Fine(o) BY <1>1, FineOnes DEF Succeeds
<1>3. \A state \in SqlStates : \A o \in Refused(state) : Fine(o) BY <1>1, FineOnes DEF Refused
<1> QED BY <1>2, <1>3, ExplainedFine

LEMMA DataExecutedIs ==
  ASSUME NEW meta \in BOOLEAN
  PROVE  Explained(DataExecuted(meta)) /\ \A o \in DataExecuted(meta) : o.q.kind = "DATA"
<1> DEFINE closed == DataQuery("closed", meta)
           rows == DataQuery("rows", TRUE)
<1>1. /\ closed \in Queries /\ closed.kind = "DATA"
      /\ rows \in Queries /\ rows.kind = "DATA"
  BY QueriesMade
<1> HIDE DEF closed, rows
<1>2. "HY000" \in SqlStates BY DEF SqlStates
<1>3. "ERROR" \in ReturnCodes BY DEF ReturnCodes
<1>4. DataExecuted(meta) = {Outcome("ERROR", <<"HY000">>, closed),
        Outcome("NO_DATA", <<>>, closed), Outcome("SUCCESS", <<>>, rows)}
  BY DEF DataExecuted, closed, rows
<1>5. \A o \in DataExecuted(meta) : Fine(o)
  BY <1>1, <1>2, <1>3, <1>4, FineOnes
<1>6. \A o \in DataExecuted(meta) : o.q.kind = "DATA"
  BY <1>1, <1>4 DEF Outcome
<1> QED BY <1>5, <1>6, ExplainedFine

\* InternalExecuteSqlQuery makes a warning of a result without rows.
LEMMA ExecutedIs ==
  ASSUME NEW outcomes, Explained(outcomes)
  PROVE  /\ Explained(Executed(outcomes))
         /\ \A kind : (\A o \in outcomes : o.q.kind = kind) => Asked(kind, Executed(outcomes))
<1> DEFINE Warning(o) == Outcome("SUCCESS_WITH_INFO", Append(o.states, "01000"), o.q)
<1>1. ASSUME NEW o \in outcomes
      PROVE  Fine(Warning(o)) /\ Warning(o).q = o.q /\ Fine(o)
  <2>1. o.ret \in ReturnCodes /\ o.states \in Seq(SqlStates) /\ o.q \in Queries
    BY DEF Explained, Outcomes
  <2>2. "01000" \in SqlStates /\ "SUCCESS_WITH_INFO" \in ReturnCodes
    BY DEF SqlStates, ReturnCodes
  <2> DEFINE states == Append(o.states, "01000")
  <2>3. states \in Seq(SqlStates) /\ states # <<>>
    BY <2>1, <2>2
  <2> HIDE DEF states
  <2>4. /\ Outcome("SUCCESS_WITH_INFO", states, o.q) \in Outcomes
        /\ Outcome("SUCCESS_WITH_INFO", states, o.q).states = states
        /\ Outcome("SUCCESS_WITH_INFO", states, o.q).q = o.q
    BY <2>1, <2>2, <2>3, SMT DEF Outcome, Outcomes
  <2>5. Fine(Outcome("SUCCESS_WITH_INFO", states, o.q)) BY <2>3, <2>4 DEF Fine
  <2> QED BY <2>4, <2>5 DEF states, Fine, Explained
<1>2. ASSUME NEW e \in Executed(outcomes)
      PROVE  \E o \in outcomes : e = Warning(o) \/ e = o
  BY <1>2, Zenon DEF Executed
<1> HIDE DEF Warning
<1>3. ASSUME NEW e \in Executed(outcomes) PROVE Fine(e)
  <2>1. PICK o \in outcomes : e = Warning(o) \/ e = o BY <1>2
  <2>2. Fine(Warning(o)) /\ Fine(o) BY <1>1
  <2> QED BY <2>1, <2>2
<1>4. \A kind : (\A o \in outcomes : o.q.kind = kind) =>
        \A e \in Executed(outcomes) : e.q.kind = kind
  <2>1. \A e \in Executed(outcomes) : \E o \in outcomes : e.q = o.q
    BY <1>1, <1>2, Zenon
  <2> QED BY <2>1
<1> QED BY <1>3, <1>4, ExplainedFine DEF Asked

\* The names of the records and of the codes, for the leaves below.
LEMMA NamesAreKnown ==
  /\ {"SUCCESS", "SUCCESS_WITH_INFO", "ERROR", "NO_DATA"} \subseteq ReturnCodes
  /\ {"01000", "01004", "01S01", "01S07", "07009", "22002", "24000", "34000", "3C000", "HY000", "HY003",
      "HY009", "HY010", "HY024", "HY090", "HY092", "HYC00"} \subseteq SqlStates
  BY DEF ReturnCodes, SqlStates

LEMMA TablesExecutedIs == Explained(TablesExecuted) /\ Asked("TABLES", TablesExecuted)
<1> DEFINE rows == Query("TABLES", "rows")
           none == Query("TABLES", "none")
           closed == Query("TABLES", "closed")
<1>1. /\ {rows, none, closed} \subseteq Queries
      /\ \A q \in {rows, none, closed} : q.kind = "TABLES"
  BY QueriesMade
<1> HIDE DEF rows, none, closed
<1>2. ASSUME NEW o \in TablesExecuted
      PROVE  \/ o \in {Outcome("SUCCESS", <<>>, rows), Outcome("SUCCESS", <<"24000">>, rows)}
             \/ o \in {Outcome("SUCCESS", <<"01000">>, none), Outcome("SUCCESS_WITH_INFO", <<"01000">>, none)}
             \/ o \in {Outcome("ERROR", <<"HY000">>, closed), Outcome("ERROR", <<"HY009">>, closed)}
  BY Zenon DEF TablesExecuted, rows, none, closed
<1>3. \A o \in TablesExecuted : Fine(o)
  BY <1>1, <1>2, NamesAreKnown, FineOnes
<1>4. \A o \in TablesExecuted : o.q.kind = "TABLES"
  BY <1>1, <1>2 DEF Outcome
<1> QED BY <1>3, <1>4, ExplainedFine DEF Asked

LEMMA ColumnsExecutedIs == Explained(ColumnsExecuted) /\ Asked("COLUMNS", ColumnsExecuted)
<1> DEFINE rows == Query("COLUMNS", "rows")
           closed == Query("COLUMNS", "closed")
<1>1. /\ {rows, closed} \subseteq Queries
      /\ \A q \in {rows, closed} : q.kind = "COLUMNS"
  BY QueriesMade
<1> HIDE DEF rows, closed
<1>2. ASSUME NEW o \in ColumnsExecuted
      PROVE  \/ o \in {Outcome("SUCCESS", <<>>, rows), Outcome("SUCCESS", <<"24000">>, rows)}
             \/ o \in {Outcome("SUCCESS_WITH_INFO", <<"01000">>, closed),
                       Outcome("SUCCESS_WITH_INFO", <<"01000", "01000">>, closed),
                       Outcome("SUCCESS_WITH_INFO", <<"HY000", "01000">>, closed)}
             \/ o \in {Outcome("NO_DATA", <<>>, closed), Outcome("NO_DATA", <<"HY000">>, closed),
                       Outcome("ERROR", <<"HY009">>, closed)}
  BY Zenon DEF ColumnsExecuted, rows, closed
<1>3. \A o \in ColumnsExecuted : Fine(o)
  BY <1>1, <1>2, NamesAreKnown, FineOnes
<1>4. \A o \in ColumnsExecuted : o.q.kind = "COLUMNS"
  BY <1>1, <1>2 DEF Outcome
<1> QED BY <1>3, <1>4, ExplainedFine DEF Asked

LEMMA OthersExecutedAre ==
  /\ Explained(TypesExecuted) /\ Asked("TYPES", TypesExecuted)
  /\ Explained(EmptyExecuted) /\ Asked("EMPTY", EmptyExecuted)
<1> DEFINE types_ == Query("TYPES", "rows")
           empty == Query("EMPTY", "none")
<1>1. types_ \in Queries /\ empty \in Queries /\ types_.kind = "TYPES" /\ empty.kind = "EMPTY"
  BY QueriesMade
<1> HIDE DEF types_, empty
<1>2. /\ TypesExecuted = {Outcome("SUCCESS", <<>>, types_)}
      /\ EmptyExecuted = {Outcome("SUCCESS_WITH_INFO", <<"01000">>, empty)}
  BY DEF TypesExecuted, EmptyExecuted, types_, empty
<1>3. /\ \A o \in TypesExecuted : Fine(o)
      /\ \A o \in EmptyExecuted : Fine(o)
  BY <1>1, <1>2, NamesAreKnown, FineOnes
<1>4. /\ \A o \in TypesExecuted : o.q.kind = "TYPES"
      /\ \A o \in EmptyExecuted : o.q.kind = "EMPTY"
  BY <1>1, <1>2 DEF Outcome
<1> QED BY <1>3, <1>4, ExplainedFine DEF Asked

\* SQLExecute and the calls that fetch, close or ask about the current query.
LEMMA DataFetchedIs ==
  ASSUME CallsTypeOK, current.kind = "DATA"
  PROVE  Explained(DataFetched)
<1>1. /\ current \in Queries /\ At("end") \in Queries /\ At("starved") \in Queries
      /\ At("closed") \in Queries /\ current.at \in {"rows", "end", "closed", "starved"}
  BY CurrentMoves DEF Queries
<1>2. CASE current.at = "rows"
  <2>1. ASSUME NEW o \in DataFetched
        PROVE  \/ o \in {Outcome("SUCCESS", <<>>, current), Outcome("SUCCESS", <<"01004">>, current),
                         Outcome("SUCCESS", <<"01S07">>, current), Outcome("SUCCESS", <<"22002">>, current),
                         Outcome("SUCCESS", <<"HYC00">>, current)}
               \/ o \in {Outcome("ERROR", <<"01S01">>, current), Outcome("NO_DATA", <<>>, At("end")),
                         Outcome("NO_DATA", <<"24000">>, At("starved")), Outcome("ERROR", <<"24000">>, At("closed"))}
    <3>1. DataFetched =
            {Outcome("SUCCESS", states, current) : states \in {<<>>, <<"01004">>, <<"01S07">>, <<"22002">>, <<"HYC00">>}}
            \cup {Outcome("ERROR", <<"01S01">>, current), Outcome("NO_DATA", <<>>, At("end")),
                  Outcome("NO_DATA", <<"24000">>, At("starved")), Outcome("ERROR", <<"24000">>, At("closed"))}
      BY <1>2 DEF DataFetched
    <3> QED BY <3>1, Zenon
  <2> QED BY <1>1, <2>1, NamesAreKnown, FineOnes, ExplainedFine
<1>3. CASE current.at # "rows"
  <2>1. DataFetched \in {{Outcome("NO_DATA", <<>>, current)}, {Outcome("NO_DATA", <<"01000">>, current)}, {}}
    BY <1>1, <1>3 DEF DataFetched
  <2> QED BY <1>1, <2>1, NamesAreKnown, FineOnes, ExplainedFine
<1> QED BY <1>2, <1>3

LEMMA CatalogFetchedIs ==
  ASSUME CallsTypeOK, current.kind \in {"TABLES", "COLUMNS", "TYPES"}
  PROVE  Explained(CatalogFetched)
<1>1. /\ current \in Queries /\ At("end") \in Queries
      /\ current.at \in {"rows", "end", "none", "closed"}
  BY CurrentMoves DEF Queries
<1>2. Explained({Outcome("NO_DATA", <<>>, At("end"))}) /\ Explained({Outcome("NO_DATA", <<>>, current)})
  BY <1>1, FineOnes, ExplainedFine
<1>3. Explained(Succeeds) /\ Explained(Refused("HY010"))
  BY Simple, NamesAreKnown
<1>4. Explained(Succeeds \cup {Outcome("NO_DATA", <<>>, At("end"))})
  BY <1>2, <1>3, ExplainedBoth
<1> QED BY <1>1, <1>2, <1>3, <1>4 DEF CatalogFetched

LEMMA FetchedIs == ASSUME CallsTypeOK PROVE Explained(Fetched)
<1>1. current.kind \in {"NONE", "DATA", "TABLES", "COLUMNS", "TYPES", "EMPTY"} /\ current \in Queries
  BY CurrentMoves DEF Queries
<1>2. Explained({Outcome("NO_DATA", <<"01000">>, current)})
  BY <1>1, NamesAreKnown, FineOnes, ExplainedFine
<1>3. Explained(Refused("24000")) BY Simple, NamesAreKnown
<1>4. CASE current.kind = "NONE" BY <1>3, <1>4 DEF Fetched
<1>5. CASE current.kind = "DATA" BY <1>5, DataFetchedIs DEF Fetched
<1>6. CASE current.kind = "EMPTY" BY <1>2, <1>6 DEF Fetched
<1>7. CASE current.kind \in {"TABLES", "COLUMNS", "TYPES"} BY <1>7, CatalogFetchedIs DEF Fetched
<1> QED BY <1>1, <1>4, <1>5, <1>6, <1>7

LEMMA ExecuteKeeps == ASSUME CallsTypeOK, SQLExecute PROVE CallsInv'
<1>1. /\ current.kind \in {"NONE", "DATA", "TABLES", "COLUMNS", "TYPES", "EMPTY"}
      /\ current.meta \in BOOLEAN
  BY CurrentMoves DEF Queries
<1>2. Explained(Refused("HY010")) /\ Explained(DataExecuted(current.meta))
  BY <1>1, Simple, NamesAreKnown, DataExecutedIs
<1>3. current.kind # "NONE" => Explained(QueryExecuted)
  BY <1>1, <1>2, TablesExecutedIs, ColumnsExecutedIs, OthersExecutedAre DEF QueryExecuted
<1>4. PICK outcomes : OtherCall(outcomes) /\ Explained(outcomes)
  BY <1>2, <1>3, ExecutedIs DEF SQLExecute
<1> QED BY <1>4, OtherCallKeeps

LEMMA GetDataKeeps == ASSUME CallsTypeOK, SQLGetData PROVE CallsInv'
<1>1. /\ current.kind \in {"NONE", "DATA", "TABLES", "COLUMNS", "TYPES", "EMPTY"} /\ current \in Queries
      /\ current.at \in {"rows", "end", "none", "closed", "starved"}
      /\ current.kind = "DATA" => current.at # "none"
  BY CurrentMoves DEF Queries
<1>2. /\ Explained({Outcome("NO_DATA", <<"01000">>, current)})
      /\ Explained({Outcome("NO_DATA", <<>>, current)})
      /\ Explained({Outcome("NO_DATA", <<>>, current), Outcome("ERROR", <<"01S01">>, current)})
  BY <1>1, NamesAreKnown, FineOnes, ExplainedFine
<1>3. Explained({Outcome("SUCCESS_WITH_INFO", <<state>>, current)
                   : state \in {"01004", "01S07", "22002", "HYC00"}})
  <2>1. ASSUME NEW state \in {"01004", "01S07", "22002", "HYC00"}
        PROVE  Fine(Outcome("SUCCESS_WITH_INFO", <<state>>, current))
    BY <1>1, NamesAreKnown, FineOnes
  <2> QED BY <2>1, ExplainedFine
<1>4. /\ Explained(Succeeds) /\ Explained(Refused("24000")) /\ Explained(Refused("HY010"))
      /\ Explained(Refused("07009")) /\ Explained({})
  BY Simple, NamesAreKnown DEF Explained
<1> DEFINE data == IF current.kind = "DATA"
                     THEN {Outcome("NO_DATA", <<>>, current), Outcome("ERROR", <<"01S01">>, current)}
                          \cup {Outcome("SUCCESS_WITH_INFO", <<state>>, current)
                                  : state \in {"01004", "01S07", "22002", "HYC00"}}
                     ELSE {}
           columns == IF current.kind = "COLUMNS" THEN Refused("07009") ELSE {}
<1>5. Explained(data) /\ Explained(columns) BY <1>2, <1>3, <1>4, ExplainedBoth
<1> HIDE DEF data, columns
<1>6. Explained(Succeeds \cup data \cup columns) BY <1>4, <1>5, ExplainedBoth
<1>7. CASE current.kind = "NONE"
  <2>1. OtherCall(Refused("24000")) \/ OtherCall({Outcome("NO_DATA", <<>>, current)}) \/ OtherCall(Refused("HY010"))
        \/ OtherCall(Succeeds \cup data \cup columns)
    BY <1>1, <1>7 DEF SQLGetData, data, columns
  <2> QED BY <1>2, <1>4, <1>6, <2>1, OtherCallKeeps
<1>8. CASE current.kind = "EMPTY" \/ (current.kind = "DATA" /\ current.at = "closed")
  <2>1. OtherCall({Outcome("NO_DATA", <<"01000">>, current)}) \/ OtherCall({Outcome("NO_DATA", <<>>, current)})
        \/ OtherCall(Refused("24000")) \/ OtherCall(Refused("HY010")) \/ OtherCall(Succeeds \cup data \cup columns)
    BY <1>1, <1>8 DEF SQLGetData, data, columns
  <2> QED BY <1>2, <1>4, <1>6, <2>1, OtherCallKeeps
<1>9. CASE current.kind \notin {"NONE", "EMPTY"} /\ ~(current.kind = "DATA" /\ current.at = "closed")
  <2>1. OtherCall({Outcome("NO_DATA", <<>>, current)}) \/ OtherCall(Refused("HY010")) \/ OtherCall(Refused("24000"))
        \/ OtherCall(Succeeds \cup data \cup columns)
    BY <1>1, <1>9 DEF SQLGetData, data, columns
  <2> QED BY <1>2, <1>4, <1>6, <2>1, OtherCallKeeps
<1> QED BY <1>1, <1>7, <1>8, <1>9

LEMMA CancelKeeps == ASSUME CallsTypeOK, SQLCancel PROVE CallsInv'
<1>1. Closed \in Queries BY CurrentMoves
<1>2. Explained({Outcome("SUCCESS", <<>>, Closed)}) BY <1>1, FineOnes, ExplainedFine
<1>3. Explained(Refused("HY010")) /\ Explained(Refused("HY000")) /\ Explained({})
  BY Simple, NamesAreKnown DEF Explained
<1>4. /\ Explained({Outcome("SUCCESS", <<>>, Closed)} \cup Refused("HY000"))
      /\ Explained({Outcome("SUCCESS", <<>>, Closed)} \cup {})
  BY <1>2, <1>3, ExplainedBoth
<1>5. PICK outcomes : OtherCall(outcomes) /\ Explained(outcomes)
  BY <1>3, <1>4 DEF SQLCancel
<1> QED BY <1>5, OtherCallKeeps

LEMMA ClosesIs == ASSUME CallsTypeOK, NEW ignoreErrors \in BOOLEAN PROVE Explained(Closes(ignoreErrors))
<1>1. Closed \in Queries /\ current \in Queries BY CurrentMoves
<1>2. /\ Explained({Outcome("SUCCESS", <<>>, Closed)})
      /\ \A ret \in {"SUCCESS", "ERROR"} : Explained({Outcome(ret, <<"24000">>, current)})
  BY <1>1, NamesAreKnown, FineOnes, ExplainedFine
<1>3. Explained(Succeeds) BY Simple
<1>4. current.kind = "NONE" => ~DataAvailable BY DEF DataAvailable
<1> QED BY <1>2, <1>3, <1>4 DEF Closes

LEMMA CloseKeeps == ASSUME CallsTypeOK, SQLCloseCursor \/ SQLFreeStmt PROVE CallsInv'
<1>1. Explained(Closes(FALSE)) /\ Explained(Closes(TRUE)) BY ClosesIs
<1>2. Explained(Succeeds) /\ Explained(Refused("HY092")) BY Simple, NamesAreKnown
<1>3. Explained(Closes(TRUE) \cup Succeeds \cup Refused("HY092")) BY <1>1, <1>2, ExplainedBoth
<1> QED BY <1>1, <1>3, OtherCallKeeps DEF SQLCloseCursor, SQLFreeStmt

LEMMA FetchKeeps == ASSUME CallsTypeOK, SQLFetch \/ SQLFetchScroll \/ SQLExtendedFetch PROVE CallsInv'
<1>1. Explained(Fetched) /\ Explained(Fetched \cup Refused("HYC00"))
  BY FetchedIs, Simple, NamesAreKnown, ExplainedBoth
<1> QED BY <1>1, OtherCallKeeps DEF SQLFetch, SQLFetchScroll, SQLExtendedFetch

LEMMA MoreResultsKeeps == ASSUME CallsTypeOK, SQLMoreResults \/ SQLRowCount PROVE CallsInv'
<1>1. current \in Queries BY CurrentMoves
<1>2. Explained({Outcome("NO_DATA", <<>>, current)}) BY <1>1, FineOnes, ExplainedFine
<1>3. Explained(Succeeds) /\ Explained(Refused("HY010")) BY Simple, NamesAreKnown
<1>4. Explained(NeedsQuery({Outcome("NO_DATA", <<>>, current)})) /\ Explained(NeedsQuery(Succeeds))
  BY <1>2, <1>3 DEF NeedsQuery
<1> QED BY <1>4, OtherCallKeeps DEF SQLMoreResults, SQLRowCount

LEMMA AttributeKeeps ==
  ASSUME CallsTypeOK, SQLBindCol \/ SQLGetStmtAttr \/ SQLGetStmtOption \/ SQLSetStmtAttr
  PROVE  CallsInv'
<1>1. current \in Queries BY CurrentMoves
<1>2. /\ Explained(Succeeds) /\ \A state \in SqlStates : Explained(Refused(state))
      /\ Explained({})
  BY Simple DEF Explained
<1>3. Explained(Succeeds \cup Refused("HY003") \cup Refused("HY090"))
  BY <1>2, NamesAreKnown, ExplainedBoth
<1>4. Explained(AttributeRead)
  <2> DEFINE a == IF current.kind = "NONE" THEN {Outcome("SUCCESS", <<"24000">>, current)} ELSE {}
             b == IF current.kind # "NONE" /\ current.at # "rows"
                    THEN {Outcome("SUCCESS", <<"01000">>, current)} ELSE {}
  <2>1. /\ Explained({Outcome("SUCCESS", <<"24000">>, current)})
        /\ Explained({Outcome("SUCCESS", <<"01000">>, current)})
    BY <1>1, NamesAreKnown, FineOnes, ExplainedFine
  <2>2. Explained(a) /\ Explained(b) BY <1>2, <2>1
  <2>3. Explained(Succeeds \cup Refused("HY000") \cup Refused("HYC00"))
    BY <1>2, NamesAreKnown, ExplainedBoth
  <2> HIDE DEF a, b
  <2>4. Explained(Succeeds \cup Refused("HY000") \cup Refused("HYC00") \cup a \cup b)
    BY <2>2, <2>3, ExplainedBoth
  <2> QED BY <2>4 DEF AttributeRead, a, b
<1>5. Explained(Succeeds \cup UNION {Refused(state) : state \in {"HYC00", "HY024", "HY000"}})
  BY <1>2, NamesAreKnown DEF Explained
<1>6. CASE AnsweredThrough("DBC", "STMT", "setMetadataId", "SUCCESS", <<>>, current)
  <2>1. /\ "setMetadataId" \notin RecordCalls /\ Opens("setMetadataId") = "none"
        /\ "STMT" \in Handles /\ "SUCCESS" \in ReturnCodes /\ "SUCCESS" \notin Warned
        /\ "DBC" # "STMT"
    BY DEF RecordCalls, Opens, Handles, ReturnCodes, Warned
  <2>2. <<>> \in Seq(SqlStates) BY StatesAre
  <2> QED BY <1>1, <1>6, <2>1, <2>2, AnsweredKeeps
<1> QED BY <1>3, <1>4, <1>5, <1>6, OtherCallKeeps
        DEF SQLBindCol, SQLGetStmtAttr, SQLGetStmtOption, SQLSetStmtAttr

LEMMA CursorNameKeeps == ASSUME CallsTypeOK, SQLGetCursorName \/ SQLSetCursorName PROVE CallsInv'
<1>1. current \in Queries BY CurrentMoves
<1>2. Explained({Outcome("SUCCESS_WITH_INFO", <<"01000">>, current)})
  BY <1>1, NamesAreKnown, FineOnes, ExplainedFine
<1>3. Explained(Succeeds) /\ Explained(Refused("3C000")) /\ Explained(Refused("34000"))
  BY Simple, NamesAreKnown
<1>4. /\ Explained(Succeeds \cup {Outcome("SUCCESS_WITH_INFO", <<"01000">>, current)})
      /\ Explained(Succeeds \cup Refused("3C000") \cup Refused("34000"))
  BY <1>2, <1>3, ExplainedBoth
<1> QED BY <1>4, OtherCallKeeps DEF SQLGetCursorName, SQLSetCursorName

\* The calls that ask for a result set.
LEMMA AsksKeeps ==
  ASSUME CallsTypeOK, SQLPrepare \/ SQLExecDirect \/ SQLTables \/ SQLColumns \/ SQLGetTypeInfo
  PROVE  CallsInv'
<1>1. /\ {"SQLPrepare", "SQLExecDirect", "SQLTables", "SQLColumns", "SQLGetTypeInfo"} \cap RecordCalls = {}
      /\ Opens("SQLPrepare") = "DATA" /\ Opens("SQLExecDirect") = "DATA" /\ Opens("SQLTables") = "TABLES"
      /\ Opens("SQLColumns") = "COLUMNS" /\ Opens("SQLGetTypeInfo") = "TYPES"
  BY DEF RecordCalls, Opens
<1>2. CASE SQLPrepare
  <2> DEFINE q == DataQuery("closed", FALSE)
  <2>1. q \in Queries /\ q.kind = "DATA" BY QueriesMade
  <2> HIDE DEF q
  <2>2. Explained({Outcome("SUCCESS", <<>>, q)}) BY <2>1, FineOnes, ExplainedFine
  <2>3. Asked("DATA", {Outcome("SUCCESS", <<>>, q)}) BY <2>1 DEF Asked, Outcome
  <2>4. StatementCall("SQLPrepare", {Outcome("SUCCESS", <<>>, q)}) BY <1>2 DEF SQLPrepare, q
  <2> QED BY <1>1, <2>2, <2>3, <2>4, StatementCallKeeps DEF Explained
<1>3. CASE SQLExecDirect
  <2>1. /\ Explained(Executed(DataExecuted(FALSE)))
        /\ Asked("DATA", Executed(DataExecuted(FALSE)))
    BY DataExecutedIs, ExecutedIs
  <2> QED BY <1>1, <1>3, <2>1, StatementCallKeeps DEF Explained, SQLExecDirect
<1>4. CASE SQLTables
  BY <1>1, <1>4, TablesExecutedIs, StatementCallKeeps DEF Explained, SQLTables
<1>5. CASE SQLColumns
  <2>1. "STMT" \in Handles BY DEF Handles
  <2>2. CASE AnsweredToo("STMT", "SQLColumns", "SUCCESS_WITH_INFO", "01000")
    BY <1>1, <2>1, <2>2, AnsweredTooKeeps
  <2>3. CASE \E o \in ColumnsExecuted : AnsweredWithVersion("STMT", "SQLColumns", o.ret, o.states, o.q)
    BY <1>1, <2>3, ColumnsExecutedIs, StatementCallKeeps DEF Explained
  <2> QED BY <1>5, <2>2, <2>3 DEF SQLColumns
<1>6. CASE SQLGetTypeInfo
  <2>1. Explained(TypesExecuted \cup Refused("HYC00"))
    BY OthersExecutedAre, Simple, NamesAreKnown, ExplainedBoth
  <2>2. Asked("TYPES", TypesExecuted \cup Refused("HYC00"))
    BY OthersExecutedAre DEF Asked, Refused, Outcome
  <2> QED BY <1>1, <1>6, <2>1, <2>2, StatementCallKeeps DEF Explained, SQLGetTypeInfo
<1> QED BY <1>2, <1>3, <1>4, <1>5, <1>6

LEMMA EmptyCatalogKeeps ==
  ASSUME CallsTypeOK,
         \/ SQLColumnPrivileges \/ SQLTablePrivileges \/ SQLForeignKeys \/ SQLPrimaryKeys
         \/ SQLSpecialColumns \/ SQLProcedureColumns \/ SQLProcedures \/ SQLStatistics
  PROVE  CallsInv'
<1>1. /\ {"emptyCatalog", "SQLStatistics"} \cap RecordCalls = {}
      /\ Opens("emptyCatalog") = "EMPTY" /\ Opens("SQLStatistics") = "EMPTY"
  BY DEF RecordCalls, Opens
<1>2. CASE StatementCall("emptyCatalog", EmptyExecuted)
  BY <1>1, <1>2, OthersExecutedAre, StatementCallKeeps DEF Explained
<1>3. CASE SQLStatistics
  BY <1>1, <1>3, OthersExecutedAre, StatementCallKeeps DEF Explained, SQLStatistics
<1> QED BY <1>2, <1>3 DEF SQLColumnPrivileges, SQLTablePrivileges, SQLForeignKeys, SQLPrimaryKeys,
           SQLSpecialColumns, SQLProcedureColumns, SQLProcedures

\* The calls that read the columns of the current query.
LEMMA ReadsColumnsIs ==
  ASSUME CallsTypeOK, NEW outcomes, outcomes \subseteq Outcomes
  PROVE  ReadsColumns(outcomes) \subseteq Outcomes
<1>1. current \in Queries /\ WithMeta \in Queries BY CurrentMoves
<1>2. Refused("HY010") \subseteq Outcomes BY Simple, NamesAreKnown DEF Explained
<1>3. {Outcome("ERROR", states, current) : states \in MetaFailures} \subseteq Outcomes
  <2>1. <<>> \in Seq(SqlStates) /\ <<"HY000">> \in Seq(SqlStates) BY StatesAre, NamesAreKnown
  <2>2. \A states \in MetaFailures : states \in Seq(SqlStates) BY <2>1 DEF MetaFailures
  <2> QED BY <1>1, <2>2, NamesAreKnown DEF Outcome, Outcomes
<1>4. {[o EXCEPT !.q = WithMeta] : o \in outcomes} \subseteq Outcomes
  BY <1>1 DEF Outcomes
<1> QED BY <1>2, <1>3, <1>4 DEF ReadsColumns, NeedsQuery

LEMMA ReadsColumnsKeeps ==
  ASSUME CallsTypeOK, SQLNumResultCols \/ SQLColAttribute \/ SQLColAttributes
  PROVE  CallsInv'
<1>1. /\ {"SQLNumResultCols", "SQLColAttribute", "SQLColAttributes"} \cap RecordCalls = {}
      /\ {"SQLNumResultCols", "SQLColAttribute", "SQLColAttributes"} \subseteq ColumnCalls
      /\ Opens("SQLNumResultCols") = "none" /\ Opens("SQLColAttribute") = "none"
      /\ Opens("SQLColAttributes") = "none"
  BY DEF RecordCalls, ColumnCalls, Opens
<1>2. Succeeds \subseteq Outcomes /\ Refused("HY000") \subseteq Outcomes /\ Refused("HYC00") \subseteq Outcomes
  BY Simple, NamesAreKnown DEF Explained
<1>3. ColumnAttribute \subseteq Outcomes
  <2>1. current \in Queries /\ <<>> \in Seq(SqlStates) BY CurrentMoves, StatesAre
  <2>2. Outcome("SUCCESS_WITH_INFO", <<>>, current) \in Outcomes
    BY <2>1, NamesAreKnown DEF Outcome, Outcomes
  <2> QED BY <1>2, <2>2 DEF ColumnAttribute
<1>4. ReadsColumns(Succeeds) \subseteq Outcomes /\ ReadsColumns(ColumnAttribute) \subseteq Outcomes
  BY <1>2, <1>3, ReadsColumnsIs
<1>5. CASE SQLNumResultCols BY <1>1, <1>4, <1>5, StatementCallKeeps DEF SQLNumResultCols
<1>6. CASE SQLColAttribute BY <1>1, <1>4, <1>6, StatementCallKeeps DEF SQLColAttribute
<1>7. CASE SQLColAttributes BY <1>1, <1>4, <1>7, StatementCallKeeps DEF SQLColAttributes
<1> QED BY <1>5, <1>6, <1>7

LEMMA DescribeColKeeps == ASSUME CallsTypeOK, SQLDescribeCol PROVE CallsInv'
<1>1. /\ "SQLDescribeCol" \notin RecordCalls /\ "SQLDescribeCol" \in ColumnCalls
      /\ Opens("SQLDescribeCol") = "none" /\ "STMT" \in Handles
  BY DEF RecordCalls, ColumnCalls, Opens, Handles
<1>2. current \in Queries /\ WithMeta \in Queries BY CurrentMoves
<1>3. <<>> \in Seq(SqlStates) /\ <<"HY000">> \in Seq(SqlStates) /\ <<"HY010">> \in Seq(SqlStates)
  BY StatesAre, NamesAreKnown
<1>4. CASE Answered("STMT", "SQLDescribeCol", "ERROR", <<"HY010">>, current)
  BY <1>1, <1>2, <1>3, <1>4, NamesAreKnown, AnsweredKeeps
<1> DEFINE codes(failed, inRange, cut) ==
             [i \in Described |->
                IF i <= failed \/ ~inRange THEN "ERROR"
                ELSE IF i = 1 /\ cut THEN "SUCCESS_WITH_INFO"
                ELSE "SUCCESS"]
           last(failed, failure, inRange) ==
             IF failed = 5 THEN failure ELSE IF inRange THEN <<>> ELSE <<"HY000">>
           described(failed, failure, inRange, cut) ==
             /\ storage' = IF watched = "STMT"
                             THEN Stored(codes(failed, inRange, cut)[5], last(failed, failure, inRange))
                             ELSE storage
             /\ told' = [h |-> "STMT", call |-> "SQLDescribeCol",
                         ret |-> Worst(codes(failed, inRange, cut)), resets |-> TRUE]
             /\ given' = [of |-> "SQLDescribeCol",
                          whole |-> \A i \in Described : codes(failed, inRange, cut)[i] # "ERROR"]
             /\ current' = (IF failed < 5 THEN WithMeta ELSE current)
<1>5. CASE /\ \E failed \in FailedRequests, failure \in MetaFailures, inRange \in BOOLEAN, cut \in BOOLEAN :
                described(failed, failure, inRange, cut)
           /\ UNCHANGED <<watched, held, odbcVersion>>
  <2>1. PICK failed \in FailedRequests, failure \in MetaFailures, inRange \in BOOLEAN, cut \in BOOLEAN :
          described(failed, failure, inRange, cut)
    BY <1>5, Zenon
  <2> DEFINE cs == codes(failed, inRange, cut)
             ls == last(failed, failure, inRange)
  <2>2. /\ storage' = IF watched = "STMT" THEN Stored(cs[5], ls) ELSE storage
        /\ told' = [h |-> "STMT", call |-> "SQLDescribeCol", ret |-> Worst(cs), resets |-> TRUE]
        /\ given' = [of |-> "SQLDescribeCol", whole |-> \A i \in Described : cs[i] # "ERROR"]
        /\ current' = (IF failed < 5 THEN WithMeta ELSE current)
    BY <2>1, Zenon
  <2>3. cs[5] \in ReturnCodes BY NamesAreKnown DEF Described
  <2>4. ls \in Seq(SqlStates)
    <3>1. failure \in Seq(SqlStates) BY <1>3 DEF MetaFailures
    <3> QED BY <1>3, <3>1
  <2> HIDE DEF cs, ls, codes, last, described
  <2>5. CallsTypeOK' BY <1>2, <1>5, <2>2, <2>3, <2>4, StoredTypes DEF CallsTypeOK
  <2>6. ErrorsAreExplained' BY <1>1, <2>2 DEF ErrorsAreExplained
  <2>7. ResultSetOfLastSuccess' BY <1>1, <2>2 DEF ResultSetOfLastSuccess
  <2>8. Worst(cs) # "ERROR" => \A i \in Described : cs[i] # "ERROR" BY DEF Worst
  <2>9. told'.ret = Worst(cs) /\ told'.call = "SQLDescribeCol" BY <2>2
  <2>10. given'.whole = (\A i \in Described : cs[i] # "ERROR") BY <2>2
  <2>11. SuccessIsWhole' BY <2>8, <2>9, <2>10 DEF SuccessIsWhole
  <2> QED BY <2>5, <2>6, <2>7, <2>11 DEF CallsInv
<1> QED BY <1>4, <1>5, Zenon DEF SQLDescribeCol

\* The calls of the other handles.
LEMMA HandleCallsKeep == ASSUME CallsTypeOK, HandleCalls PROVE CallsInv'
<1>1. current \in Queries /\ NoQuery \in Queries BY CurrentMoves, QueriesMade
<1>2. {"ENV", "DBC", "STMT", "DESC"} \subseteq Handles BY DEF Handles
<1>3. /\ "other" \notin RecordCalls /\ Opens("other") = "none" BY DEF RecordCalls, Opens
<1>4. ASSUME NEW h \in Handles, NEW ret \in ReturnCodes, NEW state \in SqlStates,
             Answered(h, "other", ret, <<state>>, current)
      PROVE  CallsInv'
  <2>1. <<state>> \in Seq(SqlStates) /\ <<state>> # <<>> BY StatesAre
  <2> QED BY <1>1, <1>3, <1>4, <2>1, AnsweredKeeps
<1>5. ASSUME NEW h \in Handles, Answered(h, "other", "SUCCESS", <<>>, current)
      PROVE  CallsInv'
  <2>1. <<>> \in Seq(SqlStates) /\ "SUCCESS" \in ReturnCodes /\ "SUCCESS" \notin Warned
    BY StatesAre DEF ReturnCodes, Warned
  <2> QED BY <1>1, <1>3, <1>5, <2>1, AnsweredKeeps
<1>6. ASSUME NEW h \in Handles, NEW parent, Allocated(h, parent) PROVE CallsInv'
  <2>1. storage' \in {storage, NewStorage, Stored("SUCCESS", <<>>)}
    BY <1>6 DEF Allocated
  <2> QED BY <1>1, <1>6, <2>1, SucceedingKeeps DEF Allocated, CallsTypeOK
<1>7. CASE SQLAllocEnv
  <2>1. storage' \in {storage, NewStorage, Stored("SUCCESS", <<>>)} BY <1>7 DEF SQLAllocEnv
  <2> QED BY <1>1, <1>2, <1>7, <2>1, SucceedingKeeps DEF SQLAllocEnv, CallsTypeOK
<1>8. CASE SQLAllocConnect \/ SQLAllocStmt \/ SQLAllocDesc
  BY <1>2, <1>6, <1>8 DEF SQLAllocConnect, SQLAllocStmt, SQLAllocDesc
<1>9. ASSUME NEW h \in Handles, SQLFreeHandle(h) PROVE CallsInv'
  <2>1. storage' \in {storage, NewStorage, Stored("SUCCESS", <<>>)} BY <1>9 DEF SQLFreeHandle
  <2> QED BY <1>1, <1>9, <2>1, SucceedingKeeps DEF SQLFreeHandle, CallsTypeOK
<1>10. ASSUME NEW h \in Handles, UnsupportedFunction(h) PROVE CallsInv'
  BY <1>3, <1>10, AnsweredTooKeeps DEF UnsupportedFunction
<1>11. CASE SQLSetEnvAttr
  <2>1. "01S02" \in SqlStates /\ "HYC00" \in SqlStates BY DEF SqlStates
  <2>2. CASE EnvironmentCall("SUCCESS_WITH_INFO", <<"01S02">>) \/ EnvironmentCall("ERROR", <<"HYC00">>)
    BY <1>2, <1>4, <2>1, <2>2, NamesAreKnown DEF EnvironmentCall
  <2>3. ASSUME storage' = IF watched = "ENV" THEN Stored("SUCCESS", <<>>) ELSE storage,
               told' = [h |-> "ENV", call |-> "other", ret |-> "SUCCESS", resets |-> TRUE],
               given' = NothingGiven, UNCHANGED <<watched, held, current>>
        PROVE  CallsInv'
    BY <1>1, <2>3, SucceedingKeeps DEF CallsTypeOK
  <2> QED BY <1>11, <2>2, <2>3 DEF SQLSetEnvAttr
<1>12. CASE SQLGetEnvAttr
  BY <1>2, <1>4, <1>5, <1>12, NamesAreKnown DEF SQLGetEnvAttr, EnvironmentCall
<1>13. CASE SQLNativeSql
  BY <1>2, <1>4, <1>5, <1>13, NamesAreKnown DEF SQLNativeSql
<1>14. CASE SQLSetDescField \/ SQLGetDescField \/ SQLCopyDesc
  <2>1. {"HY000", "HY091", "HY016"} \subseteq SqlStates BY DEF SqlStates
  <2>2. ASSUME NEW states, states \subseteq SqlStates, DescriptorCall(states) PROVE CallsInv'
    BY <1>2, <1>4, <1>5, <2>2, NamesAreKnown DEF DescriptorCall
  <2> QED BY <1>14, <2>1, <2>2 DEF SQLSetDescField, SQLGetDescField, SQLCopyDesc
<1> QED BY <1>7, <1>8, <1>9, <1>10, <1>11, <1>12, <1>13, <1>14 DEF HandleCalls

\* The calls that read the records.
LEMMA HandedKeeps ==
  ASSUME CallsTypeOK, NEW call \in RecordCalls, NEW ret, NEW text, NEW length, Handed(call, ret, text, length),
         storage' \in [result : ReturnCodes, records : Seq(StatusRecords)],
         call = "SQLGetDiagRec" /\ ret = "SUCCESS" => text = MessageLength
  PROVE  CallsInv'
<1>1. /\ told' = [h |-> watched, call |-> call, ret |-> ret, resets |-> FALSE]
      /\ given' = [of |-> call, text |-> text, length |-> length]
      /\ UNCHANGED <<watched, held, current>>
  BY DEF Handed
<1>2. CallsTypeOK' BY <1>1 DEF CallsTypeOK
<1>3. ErrorsAreExplained' BY <1>1 DEF ErrorsAreExplained
<1>4. ResultSetOfLastSuccess' BY <1>1 DEF ResultSetOfLastSuccess
<1>5. SuccessIsWhole' BY <1>1 DEF SuccessIsWhole, RecordCalls
<1> QED BY <1>2, <1>3, <1>4, <1>5 DEF CallsInv

LEMMA Handed0Keeps ==
  ASSUME CallsTypeOK, NEW call \in RecordCalls, NEW ret, Handed0(call, ret), UNCHANGED storage,
         ~(call = "SQLGetDiagRec" /\ ret = "SUCCESS")
  PROVE  CallsInv'
  BY HandedKeeps DEF Handed0, CallsTypeOK

LEMMA DiagnosticCallsKeep == ASSUME CallsTypeOK, DiagnosticCalls PROVE CallsInv'
<1>1. /\ "SQLGetDiagRec" \in RecordCalls /\ "SQLGetDiagField" \in RecordCalls /\ "SQLError" \in RecordCalls
  BY DEF RecordCalls
<1>2. CASE SQLGetDiagRec
  <2>1. UNCHANGED storage /\ storage' \in [result : ReturnCodes, records : Seq(StatusRecords)]
    BY <1>2 DEF SQLGetDiagRec, CallsTypeOK
  <2>2. CASE Handed0("SQLGetDiagRec", "ERROR") \/ Handed0("SQLGetDiagRec", "NO_DATA")
    BY <1>1, <2>1, <2>2, Handed0Keeps
  <2>3. ASSUME NEW len \in Lengths, NEW null \in BOOLEAN, NEW ret, NEW text,
               ret = IF null \/ ~TextFits(len) THEN "SUCCESS_WITH_INFO" ELSE "SUCCESS",
               text = IF null \/ len = 1 THEN 0 ELSE Copied(null, len),
               Handed("SQLGetDiagRec", ret, text, Copied(null, len))
        PROVE  CallsInv'
    <3>1. ret = "SUCCESS" => text = MessageLength
      <4> SUFFICES ASSUME ~null, TextFits(len) PROVE text = MessageLength BY <2>3
      <4>1. len = MessageLength + 1 /\ len # 1 /\ len # 0 /\ len - 1 = MessageLength
        BY MessageLengthAssumption DEF TextFits, Lengths
      <4> QED BY <2>3, <4>1, MessageLengthAssumption DEF Copied
    <3> QED BY <1>1, <2>1, <2>3, <3>1, HandedKeeps
  <2>4. ASSUME NEW len \in Lengths, NEW null \in BOOLEAN,
               Handed("SQLGetDiagRec", IF null \/ ~TextFits(len) THEN "SUCCESS_WITH_INFO" ELSE "SUCCESS",
                      IF null \/ len = 1 THEN 0 ELSE Copied(null, len), Copied(null, len))
        PROVE  CallsInv'
    BY <2>3, <2>4
  <2> QED BY <1>2, <2>2, <2>4 DEF SQLGetDiagRec
<1>3. CASE SQLGetDiagField
  <2>1. PICK ret : Handed0("SQLGetDiagField", ret) BY <1>3 DEF SQLGetDiagField
  <2> QED BY <1>1, <1>3, <2>1, Handed0Keeps DEF SQLGetDiagField
<1>4. CASE SQLError
  <2> DEFINE n == LastNonRetrieved(storage.records)
  <2>1. CASE Handed0("SQLError", "NO_DATA") /\ UNCHANGED storage
    BY <1>1, <2>1, Handed0Keeps
  <2>2. CASE /\ storage' = [storage EXCEPT !.records[n].retrieved = TRUE]
             /\ \E len \in Lengths : Handed("SQLError", "SUCCESS", 0, Copied(FALSE, len))
    <3> HIDE DEF n
    <3>1. /\ storage.result \in ReturnCodes /\ storage.records \in Seq(StatusRecords)
          /\ storage = [result |-> storage.result, records |-> storage.records]
      BY DEF CallsTypeOK
    <3> DEFINE marked == [storage.records EXCEPT ![n].retrieved = TRUE]
    <3>2. marked \in Seq(StatusRecords)
      <4>1. /\ DOMAIN storage.records = 1 .. Len(storage.records) /\ Len(storage.records) \in Nat
            /\ DOMAIN marked = DOMAIN storage.records
            /\ \A i \in DOMAIN storage.records : storage.records[i] \in StatusRecords
        BY <3>1
      <4>2. \A r \in StatusRecords : [r EXCEPT !.retrieved = TRUE] \in StatusRecords
        BY DEF StatusRecords
      <4>3. ASSUME NEW i \in DOMAIN storage.records PROVE marked[i] \in StatusRecords
        <5>1. CASE i = n
          <6>1. marked[i] = [storage.records[i] EXCEPT !.retrieved = TRUE] BY <5>1
          <6> QED BY <4>1, <4>2, <6>1
        <5>2. CASE i # n
          <6>1. marked[i] = storage.records[i] BY <5>2
          <6> QED BY <4>1, <6>1
        <5> QED BY <5>1, <5>2
      <4> HIDE DEF marked
      <4>4. marked \in [1 .. Len(storage.records) -> StatusRecords]
        <5>1. marked = [i \in DOMAIN marked |-> marked[i]] BY DEF marked
        <5> QED BY <4>1, <4>3, <5>1
      <4> QED BY <4>1, <4>4
    <3>3. storage' = [result |-> storage.result, records |-> marked] BY <2>2, <3>1
    <3> HIDE DEF marked
    <3>4. storage' \in [result : ReturnCodes, records : Seq(StatusRecords)] BY <3>1, <3>2, <3>3
    <3> QED BY <1>1, <2>2, <3>4, HandedKeeps
  <2> QED BY <1>4, <2>1, <2>2 DEF SQLError
<1> QED BY <1>2, <1>3, <1>4 DEF DiagnosticCalls

LEMMA CallsInvInit == CallsInit => CallsInv
<1> SUFFICES ASSUME CallsInit PROVE CallsInv OBVIOUS
<1>1. <<>> \in Seq(StatusRecords) /\ NoQuery \in Queries BY QueriesMade
<1>2. CallsTypeOK BY <1>1 DEF CallsInit, CallsTypeOK, NewStorage, ReturnCodes, Handles
<1>3. ErrorsAreExplained /\ SuccessIsWhole
  BY DEF CallsInit, ErrorsAreExplained, SuccessIsWhole, NothingGiven
<1>4. ResultSetOfLastSuccess BY DEF CallsInit, ResultSetOfLastSuccess, Opens
<1> QED BY <1>2, <1>3, <1>4 DEF CallsInv

LEMMA CallsInvStep == CallsInv /\ [CallsNext]_callVars => CallsInv'
<1> SUFFICES ASSUME CallsInv, [CallsNext]_callVars PROVE CallsInv' OBVIOUS
<1>1. CallsTypeOK BY DEF CallsInv
<1>2. CASE HandleCalls BY <1>1, <1>2, HandleCallsKeep
<1>3. CASE QueryCalls
  BY <1>1, <1>3, AsksKeeps, EmptyCatalogKeeps, ExecuteKeeps, FetchKeeps, GetDataKeeps, CancelKeeps, CloseKeeps,
     MoreResultsKeeps, ReadsColumnsKeeps, DescribeColKeeps, AttributeKeeps, CursorNameKeeps, Zenon
  DEF QueryCalls
<1>4. CASE DiagnosticCalls BY <1>1, <1>4, DiagnosticCallsKeep
<1>5. CASE UNCHANGED callVars
  BY <1>5 DEF CallsInv, CallsTypeOK, ErrorsAreExplained, ResultSetOfLastSuccess, SuccessIsWhole, callVars
<1> QED BY <1>2, <1>3, <1>4, <1>5 DEF CallsNext

\* No call that fails or warns leaves its handle without a record of it,
\* except those that read columns or records, whatever was called before:
\* IGNITE_ODBC_API_CALL and AddStatusRecord through all entry points of
\* odbc.cpp.
THEOREM ErrorsAreExplainedHolds == CallsSpec => []ErrorsAreExplained
<1>1. CallsInv => ErrorsAreExplained BY DEF CallsInv
<1> QED BY <1>1, CallsInvInit, CallsInvStep, PTL DEF CallsSpec

\* A call that asks for a result set and does not fail leaves the query of
\* that result set as the current one (Statement::currentQuery).
THEOREM ResultSetOfLastSuccessHolds == CallsSpec => []ResultSetOfLastSuccess
<1>1. CallsInv => ResultSetOfLastSuccess BY DEF CallsInv
<1> QED BY <1>1, CallsInvInit, CallsInvStep, PTL DEF CallsSpec

\* SQLDescribeCol that does not fail has read all its values, and SQLGetDiagRec
\* that succeeds has copied the whole text, for texts of any length.
THEOREM SuccessIsWholeHolds == CallsSpec => []SuccessIsWhole
<1>1. CallsInv => SuccessIsWhole BY DEF CallsInv
<1> QED BY <1>1, CallsInvInit, CallsInvStep, PTL DEF CallsSpec

-----------------------------------------------------------------------------
(* What a call does to the records of the other handles *)

KeptFromOthers ==
  watched \in held \cap held' /\ storage' # storage =>
    watched \in {told'.h} \cup Disturbs(told'.call)

LEMMA AnsweredKeepsOthers ==
  ASSUME NEW h, NEW call, NEW ret, NEW states, NEW q,
         \/ Answered(h, call, ret, states, q)
         \/ \E other \in Disturbs(call) : AnsweredThrough(other, h, call, ret, states, q)
         \/ AnsweredToo(h, call, ret, states)
  PROVE  KeptFromOthers
<1>1. told'.h = h /\ told'.call = call BY DEF Answered, AnsweredThrough, AnsweredToo
<1>2. CASE Answered(h, call, ret, states, q) BY <1>1, <1>2 DEF Answered, KeptFromOthers
<1>3. CASE \E other \in Disturbs(call) : AnsweredThrough(other, h, call, ret, states, q)
  <2>1. watched # h /\ watched \notin Disturbs(call) => storage' = storage
    BY <1>3 DEF AnsweredThrough
  <2> QED BY <1>1, <1>3, <2>1 DEF KeptFromOthers
<1>4. CASE AnsweredToo(h, call, ret, states) BY <1>1, <1>4 DEF AnsweredToo, KeptFromOthers
<1> QED BY <1>2, <1>3, <1>4

LEMMA StatementCallKeepsOthers ==
  ASSUME NEW call, NEW outcomes,
         \/ StatementCall(call, outcomes)
         \/ /\ call \in AsksVersion
            /\ \E o \in outcomes : AnsweredWithVersion("STMT", call, o.ret, o.states, o.q)
  PROVE  KeptFromOthers
<1>1. PICK o \in outcomes : \/ Answered("STMT", call, o.ret, o.states, o.q)
                           \/ /\ "ENV" \in Disturbs(call)
                              /\ AnsweredThrough("ENV", "STMT", call, o.ret, o.states, o.q)
  BY DEF StatementCall, AnsweredWithVersion, Disturbs
<1> QED BY <1>1, AnsweredKeepsOthers

LEMMA HandleCallsKeepOthers == ASSUME HandleCalls PROVE KeptFromOthers
<1>1. ASSUME NEW h, NEW parent, Allocated(h, parent) PROVE KeptFromOthers
  <2>1. told'.h = parent /\ h \notin held /\ (watched # h /\ watched # parent => storage' = storage)
    BY <1>1 DEF Allocated
  <2> QED BY <2>1 DEF KeptFromOthers
<1>2. CASE SQLAllocEnv BY <1>2 DEF SQLAllocEnv, KeptFromOthers
<1>3. CASE SQLAllocConnect \/ SQLAllocStmt \/ SQLAllocDesc
  BY <1>1, <1>3 DEF SQLAllocConnect, SQLAllocStmt, SQLAllocDesc
<1>4. ASSUME NEW h \in Handles, SQLFreeHandle(h) \/ UnsupportedFunction(h) PROVE KeptFromOthers
  <2>1. CASE SQLFreeHandle(h) BY <2>1 DEF SQLFreeHandle, KeptFromOthers
  <2>2. CASE UnsupportedFunction(h) BY <2>2, AnsweredKeepsOthers DEF UnsupportedFunction
  <2> QED BY <1>4, <2>1, <2>2
<1>5. CASE SQLSetEnvAttr
  <2>1. CASE EnvironmentCall("SUCCESS_WITH_INFO", <<"01S02">>) \/ EnvironmentCall("ERROR", <<"HYC00">>)
    BY <2>1, AnsweredKeepsOthers DEF EnvironmentCall
  <2>2. ASSUME storage' = IF watched = "ENV" THEN Stored("SUCCESS", <<>>) ELSE storage,
               told' = [h |-> "ENV", call |-> "other", ret |-> "SUCCESS", resets |-> TRUE]
        PROVE  KeptFromOthers
    BY <2>2 DEF KeptFromOthers
  <2> QED BY <1>5, <2>1, <2>2 DEF SQLSetEnvAttr
<1>6. CASE SQLGetEnvAttr \/ SQLNativeSql \/ SQLSetDescField \/ SQLGetDescField \/ SQLCopyDesc
  BY <1>6, AnsweredKeepsOthers
  DEF SQLGetEnvAttr, EnvironmentCall, SQLNativeSql, SQLSetDescField, SQLGetDescField, SQLCopyDesc, DescriptorCall
<1> QED BY <1>2, <1>3, <1>4, <1>5, <1>6 DEF HandleCalls

LEMMA QueryCallsKeepOthers == ASSUME QueryCalls PROVE KeptFromOthers
<1>1. CASE SQLDescribeCol
  <2>1. CASE Answered("STMT", "SQLDescribeCol", "ERROR", <<"HY010">>, current)
    BY <2>1, AnsweredKeepsOthers
  <2>2. ASSUME NEW ret, NEW stored, told' = [h |-> "STMT", call |-> "SQLDescribeCol", ret |-> ret, resets |-> TRUE],
               storage' = IF watched = "STMT" THEN stored ELSE storage
        PROVE  KeptFromOthers
    BY <2>2 DEF KeptFromOthers
  <2> QED BY <1>1, <2>1, <2>2, Zenon DEF SQLDescribeCol
<1>2. CASE SQLColumns
  <2>1. "SQLColumns" \in AsksVersion BY DEF AsksVersion
  <2> QED BY <1>2, <2>1, AnsweredKeepsOthers, StatementCallKeepsOthers DEF SQLColumns
<1>3. CASE SQLTables \/ SQLStatistics \/ SQLColAttributes
  <2>1. {"SQLTables", "SQLStatistics", "SQLColAttributes"} \subseteq AsksVersion BY DEF AsksVersion
  <2> QED BY <1>3, <2>1, StatementCallKeepsOthers DEF SQLTables, SQLStatistics, SQLColAttributes
<1>4. CASE \E call, outcomes : StatementCall(call, outcomes)
  BY <1>4, StatementCallKeepsOthers
<1>5. CASE \/ SQLPrepare \/ SQLExecDirect \/ SQLGetTypeInfo \/ SQLColumnPrivileges \/ SQLTablePrivileges
           \/ SQLForeignKeys \/ SQLPrimaryKeys \/ SQLSpecialColumns \/ SQLProcedureColumns \/ SQLProcedures
           \/ SQLNumResultCols \/ SQLColAttribute
  BY <1>4, <1>5, Zenon
  DEF SQLPrepare, SQLExecDirect, SQLGetTypeInfo, SQLColumnPrivileges, SQLTablePrivileges, SQLForeignKeys,
      SQLPrimaryKeys, SQLSpecialColumns, SQLProcedureColumns, SQLProcedures, SQLNumResultCols, SQLColAttribute
<1>6. ASSUME NEW outcomes, OtherCall(outcomes) PROVE KeptFromOthers
  BY <1>4, <1>6 DEF OtherCall
<1>7. CASE \/ SQLExecute \/ SQLFetch \/ SQLFetchScroll \/ SQLExtendedFetch \/ SQLGetData \/ SQLCancel
           \/ SQLCloseCursor \/ SQLFreeStmt \/ SQLMoreResults \/ SQLRowCount \/ SQLBindCol \/ SQLGetStmtAttr
           \/ SQLGetStmtOption \/ SQLGetCursorName \/ SQLSetCursorName
  BY <1>6, <1>7, Zenon
  DEF SQLExecute, SQLFetch, SQLFetchScroll, SQLExtendedFetch, SQLGetData, SQLCancel, SQLCloseCursor, SQLFreeStmt,
      SQLMoreResults, SQLRowCount, SQLBindCol, SQLGetStmtAttr, SQLGetStmtOption, SQLGetCursorName,
      SQLSetCursorName
<1>8. CASE SQLSetStmtAttr
  <2>1. "DBC" \in Disturbs("setMetadataId") BY DEF Disturbs, AsksVersion
  <2> QED BY <1>6, <1>8, <2>1, AnsweredKeepsOthers DEF SQLSetStmtAttr
<1> QED BY <1>1, <1>2, <1>3, <1>5, <1>7, <1>8, Zenon DEF QueryCalls

\* The records of a handle change only in a call with that handle, with two
\* exceptions: those of the environment go when a call of the statement asks for
\* the ODBC version (Connection::GetEnvODBCVer), and those of the connection
\* when SQL_ATTR_METADATA_ID of a statement is set (statement.cpp:311).
THEOREM RecordsOfOthersKeptHolds == CallsSpec => RecordsOfOthersKept
<1>1. ASSUME [CallsNext]_callVars
      PROVE  [(watched \in held \cap held' /\ storage' # storage) =>
                watched \in {told'.h} \cup Disturbs(told'.call)]_callVars
  <2>1. CASE UNCHANGED callVars BY <2>1
  <2>2. CASE HandleCalls BY <2>2, HandleCallsKeepOthers DEF KeptFromOthers
  <2>3. CASE QueryCalls BY <2>3, QueryCallsKeepOthers DEF KeptFromOthers
  <2>4. CASE DiagnosticCalls
    <3>1. ASSUME NEW call, NEW ret, NEW text, NEW length, Handed(call, ret, text, length)
          PROVE  told'.h = watched
      BY <3>1 DEF Handed
    <3>2. ASSUME NEW call, NEW ret, Handed0(call, ret) PROVE told'.h = watched
      BY <3>1, <3>2 DEF Handed0
    <3>3. told'.h = watched
      BY <2>4, <3>1, <3>2, Zenon DEF DiagnosticCalls, SQLGetDiagRec, SQLGetDiagField, SQLError
    <3> QED BY <3>3
  <2> QED BY <1>1, <2>1, <2>2, <2>3, <2>4 DEF CallsNext
<1> QED BY <1>1, PTL DEF CallsSpec, RecordsOfOthersKept
=============================================================================
