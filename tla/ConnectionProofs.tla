--------------------------- MODULE ConnectionProofs ---------------------------
(***************************************************************************)
(* Proofs about the connection, for every set of connection strings, data  *)
(* sources and user names: ClientIffConnected and ClientNotReplaced (with  *)
(* the inductive invariant Phases, which says at each point of a call      *)
(* whether there is a client), and ResultExplained.                        *)
(***************************************************************************)
EXTENDS Connection, Information, TLAPS

Before == {"auth", "session", "assertion", "token", "role"}

\* While an attempt authenticates there is no client, while it tries one the
\* connection does not count as connected, and at all other times there is a
\* client exactly when it does.
Phases ==
  /\ pc \in Before \cup {"idle", "parse", "try"}
  /\ saml \in BOOLEAN /\ connected \in BOOLEAN
  /\ pc \in {"idle", "parse"} => (client # None <=> connected) /\ (saml => connected)
  /\ pc \in Before => client = None /\ ~connected
  /\ pc = "try" => client # None /\ ~connected

\* A client that was made is not the absent one.
LEMMA ClientMade == \A c : ClientOf(c) # None
<1> SUFFICES ASSUME NEW c PROVE ClientOf(c) # None
  OBVIOUS
<1>1. "region" \in DOMAIN ClientOf(c)
  BY DEF ClientOf
<1>2. "region" \notin DOMAIN None
  BY DEF None
<1> QED
  BY <1>1, <1>2

LEMMA InitPhases == Init => Phases
BY DEF Init, Phases, Before

LEMMA NextPhases == Phases /\ [Next]_vars => Phases'
<1> SUFFICES ASSUME Phases, [Next]_vars PROVE Phases'
  OBVIOUS
<1>f. ASSUME Fails, pc \in Before \cup {"try"} PROVE Phases'
  BY <1>f DEF Fails, Returns, NoClient, Phases, Before
<1>c. ASSUME CreateClient, pc \in Before PROVE Phases'
  BY <1>c, ClientMade DEF CreateClient, Phases, Before
<1>e. ASSUME NEW c, NEW recs, NEW x, NEW inh,
             InternalEstablish(c, recs, x, inh), pc \in {"idle", "parse"}
      PROVE  Phases'
  BY <1>e DEF InternalEstablish, Returns, Phases, Before
<1>1. CASE DriverConnect
  BY <1>1 DEF DriverConnect, Phases, Before
<1>2. CASE ParsePair
  BY <1>2 DEF ParsePair, Phases, Before
<1>3. CASE Establish
  BY <1>3, <1>e DEF Establish
<1>4. CASE SQLConnect
  BY <1>4, <1>e DEF SQLConnect
<1>5. CASE Authenticate
  BY <1>5 DEF Authenticate, GoesOn, Phases, Before
<1>6. CASE GetSessionToken
  BY <1>6, <1>f DEF GetSessionToken, GoesOn, Phases, Before
<1>7. CASE GetSAMLAssertion
  BY <1>7, <1>f DEF GetSAMLAssertion, GoesOn, Phases, Before
<1>8. CASE GetAccessToken
  BY <1>8, <1>f DEF GetAccessToken, GoesOn, Phases, Before
<1>9. CASE FetchCredentialsWithSAMLAssertion
  BY <1>9, <1>f, <1>c DEF FetchCredentialsWithSAMLAssertion, Before
<1>10. CASE OtherCredentials
  BY <1>10, <1>f, <1>c DEF OtherCredentials, Before
<1>11. CASE TryClient
  BY <1>11, <1>f DEF TryClient, Returns, Phases, Before
<1>12. CASE InternalRelease
  BY <1>12 DEF InternalRelease, Returns, NoClient, Phases, Before
<1>13. CASE Destroy
  BY <1>13 DEF Destroy, Returns, NoClient, Phases, Before
<1>a. ASSUME NEW r, NEW state, Answers(r, state) PROVE Phases'
  BY <1>a DEF Answers, Returns, Phases, Before
<1>14. CASE InternalGetInfo
  BY <1>14, <1>a DEF InternalGetInfo
<1>15. CASE InternalGetAttribute
  BY <1>15, <1>a DEF InternalGetAttribute
<1>16. CASE InternalSetAttribute
  BY <1>16, <1>a DEF InternalSetAttribute
<1>17. CASE InternalSetConnectOption
  BY <1>17, <1>a DEF InternalSetConnectOption, InternalSetAttribute
<1>18. CASE InternalGetConnectOption
  BY <1>18, <1>a DEF InternalGetConnectOption, InternalGetAttribute
<1>19. CASE SQLError
  BY <1>19 DEF SQLError, Phases, Before
<1>20. CASE UNCHANGED vars
  BY <1>20 DEF vars, Phases, Before
<1> QED
  BY <1>1, <1>2, <1>3, <1>4, <1>5, <1>6, <1>7, <1>8, <1>9, <1>10, <1>11,
     <1>12, <1>13, <1>14, <1>15, <1>16, <1>17, <1>18, <1>19, <1>20 DEF Next

THEOREM PhasesInvariant == Spec => []Phases
<1>1. Init => Phases
  BY InitPhases
<1>2. Phases /\ [Next]_vars => Phases'
  BY NextPhases
<1> QED
  BY <1>1, <1>2, PTL DEF Spec

\* Whatever the calls and wherever an attempt fails: between calls there is a
\* client exactly when the connection is connected, and no credentials provider
\* without one.
THEOREM ConnectedHasClient == Spec => []ClientIffConnected
<1>1. Phases => ClientIffConnected
  BY DEF Phases, ClientIffConnected
<1> QED
  BY <1>1, PhasesInvariant, PTL

\* No call replaces the client of a connection that is connected.
THEOREM ConnectedKeepsClient == Spec => ClientNotReplaced
<1> DEFINE Keeps == connected => \/ client' = client /\ connected'
                                 \/ client' = None /\ ~connected'
<1>1. ASSUME Phases, Next PROVE Keeps
  <2> SUFFICES ASSUME connected PROVE Keeps
    OBVIOUS
  <2>0. pc \in {"idle", "parse"}
    BY <1>1 DEF Phases, Before
  <2>1. CASE DriverConnect
    BY <2>1 DEF DriverConnect
  <2>2. CASE ParsePair
    BY <2>2 DEF ParsePair
  <2>3. CASE Establish
    BY <2>3 DEF Establish, InternalEstablish
  <2>4. CASE SQLConnect
    BY <2>4 DEF SQLConnect, InternalEstablish
  <2>5. CASE InternalRelease
    BY <2>5 DEF InternalRelease, NoClient
  <2>6. CASE Destroy
    BY <2>6 DEF Destroy, NoClient
  <2>7. CASE \E r, state : Answers(r, state)
    BY <2>7 DEF Answers
  <2>8. CASE SQLError
    BY <2>8 DEF SQLError
  <2>9. ~( \/ Authenticate \/ GetSessionToken \/ GetSAMLAssertion
           \/ GetAccessToken \/ FetchCredentialsWithSAMLAssertion
           \/ OtherCredentials \/ TryClient)
    BY <2>0 DEF Authenticate, GetSessionToken, GetSAMLAssertion,
                GetAccessToken, FetchCredentialsWithSAMLAssertion,
                OtherCredentials, TryClient
  <2> QED
    BY <1>1, <2>1, <2>2, <2>3, <2>4, <2>5, <2>6, <2>7, <2>8, <2>9
    DEF Next, InternalGetInfo, InternalGetAttribute, InternalSetAttribute,
        InternalSetConnectOption, InternalGetConnectOption
<1>2. Phases /\ [Next]_vars => [Keeps]_vars
  BY <1>1
<1> QED
  BY <1>2, PhasesInvariant, PTL DEF Spec, ClientNotReplaced

-----------------------------------------------------------------------------
(* The records *)

StatusRecords == [state : States, retrieved : BOOLEAN]

\* The records are a sequence in which those handed out come first, and explain
\* the result.
RecordsInv ==
  /\ records \in Seq(StatusRecords)
  /\ RecordsInOrder
  /\ ResultExplained

LEMMA RecordType == \A s \in States : Record(s) \in StatusRecords
BY DEF Record, StatusRecords

\* A record that is added keeps the order, and there is one then.
LEMMA AppendRecord ==
  ASSUME NEW recs \in Seq(StatusRecords), NEW s \in States,
         \A i, j \in DOMAIN recs :
           i < j /\ recs[j].retrieved => recs[i].retrieved
  PROVE  LET new == Append(recs, Record(s))
         IN  /\ new \in Seq(StatusRecords)
             /\ new # <<>>
             /\ \A i, j \in DOMAIN new :
                  i < j /\ new[j].retrieved => new[i].retrieved
<1> DEFINE new == Append(recs, Record(s))
<1>1. Record(s) \in StatusRecords
  BY RecordType
<1>2. new \in Seq(StatusRecords) /\ Len(new) = Len(recs) + 1
  BY <1>1
<1>3. \A i \in 1 .. Len(recs) : new[i] = recs[i]
  BY <1>1
<1>4. new[Len(recs) + 1] = Record(s)
  BY <1>1
<1>5. ASSUME NEW i \in DOMAIN new, NEW j \in DOMAIN new, i < j,
             new[j].retrieved
      PROVE  new[i].retrieved
  <2>1. i \in 1 .. Len(recs) + 1 /\ j \in 1 .. Len(recs) + 1
    BY <1>2, <1>5
  <2>2. CASE j = Len(recs) + 1
    BY <1>4, <1>5, <2>2 DEF Record
  <2>3. CASE j # Len(recs) + 1
    BY <1>3, <1>5, <2>1, <2>3
  <2> QED
    BY <2>2, <2>3
<1>6. new # <<>>
  BY <1>2
<1> QED
  BY <1>2, <1>5, <1>6

LEMMA InitRecords == Init => RecordsInv
BY DEF Init, RecordsInv, RecordsInOrder, ResultExplained

\* A call that returns the records recs, in order, with a result they explain.
LEMMA ReturnRecords ==
  ASSUME NEW recs \in Seq(StatusRecords), NEW r, Returns(recs, r),
         \A i, j \in DOMAIN recs :
           i < j /\ recs[j].retrieved => recs[i].retrieved,
         r = "SUCCESS" <=> recs = <<>>
  PROVE  RecordsInv'
BY DEF Returns, RecordsInv, RecordsInOrder, ResultExplained

\* A call that fails adds a record.
LEMMA ErrorRecords ==
  ASSUME NEW recs \in Seq(StatusRecords), NEW s \in States,
         \A i, j \in DOMAIN recs :
           i < j /\ recs[j].retrieved => recs[i].retrieved,
         NEW r, r # "SUCCESS", Returns(Append(recs, Record(s)), r)
  PROVE  RecordsInv'
<1> DEFINE new == Append(recs, Record(s))
<1>1. /\ new \in Seq(StatusRecords) /\ new # <<>>
      /\ \A i, j \in DOMAIN new :
           i < j /\ new[j].retrieved => new[i].retrieved
  BY AppendRecord
<1>2. Returns(new, r)
  OBVIOUS
<1> HIDE DEF new
<1> QED
  BY <1>1, <1>2, ReturnRecords

LEMMA NextRecords == RecordsInv /\ [Next]_vars => RecordsInv'
<1> SUFFICES ASSUME RecordsInv, [Next]_vars PROVE RecordsInv'
  OBVIOUS
<1>t. records \in Seq(StatusRecords)
  BY DEF RecordsInv
<1>o. \A i, j \in DOMAIN records :
        i < j /\ records[j].retrieved => records[i].retrieved
  BY DEF RecordsInv, RecordsInOrder
<1>n. /\ <<>> \in Seq(StatusRecords)
      /\ \A i, j \in DOMAIN <<>> :
           i < j /\ <<>>[j].retrieved => <<>>[i].retrieved
  OBVIOUS
<1>f. ASSUME Fails PROVE RecordsInv'
  BY <1>f, <1>t, <1>o, ErrorRecords DEF Fails, States
<1>k. ASSUME UNCHANGED <<records, ret>>, pc' # "idle" PROVE RecordsInv'
  BY <1>k DEF RecordsInv, RecordsInOrder, ResultExplained
<1>e. ASSUME NEW c, NEW recs \in Seq(StatusRecords), NEW x, NEW inh,
             \A i, j \in DOMAIN recs :
               i < j /\ recs[j].retrieved => recs[i].retrieved,
             InternalEstablish(c, recs, x, inh)
      PROVE  RecordsInv'
  <2>1. CASE Returns(Append(recs, Record("08002")), "ERROR")
    BY <1>e, <2>1, ErrorRecords DEF States
  <2>2. CASE Returns(Append(recs, Record("01S00")), "ERROR")
    BY <1>e, <2>2, ErrorRecords DEF States
  <2>3. CASE pc' = "auth" /\ records' = recs
    BY <1>e, <2>3 DEF RecordsInv, RecordsInOrder, ResultExplained
  <2> QED
    BY <1>e, <2>1, <2>2, <2>3 DEF InternalEstablish
<1>1. CASE DriverConnect
  BY <1>1 DEF DriverConnect, RecordsInv, RecordsInOrder, ResultExplained
<1>2. CASE ParsePair
  <2>1. pc' = "parse"
    BY <1>2 DEF ParsePair
  <2>2. CASE records' = records
    BY <2>1, <2>2 DEF RecordsInv, RecordsInOrder, ResultExplained
  <2>3. CASE records' = Append(records, Record("01S02"))
    <3>1. /\ records' \in Seq(StatusRecords)
          /\ \A i, j \in DOMAIN records' :
               i < j /\ records'[j].retrieved => records'[i].retrieved
      BY <2>3, <1>t, <1>o, AppendRecord DEF States
    <3> QED
      BY <2>1, <3>1 DEF RecordsInv, RecordsInOrder, ResultExplained
  <2> QED
    BY <1>2, <2>2, <2>3 DEF ParsePair
<1>3. CASE Establish
  BY <1>3, <1>t, <1>o, <1>e DEF Establish
<1>4. CASE SQLConnect
  <2>1. PICK c, x : InternalEstablish(c, <<>>, x, FALSE)
    BY <1>4 DEF SQLConnect
  <2> QED
    BY <2>1, <1>n, <1>e
<1>5. CASE \/ Authenticate \/ GetSessionToken \/ GetSAMLAssertion
           \/ GetAccessToken
  BY <1>5, <1>f, <1>k DEF Authenticate, GetSessionToken, GetSAMLAssertion,
                          GetAccessToken, GoesOn
<1>6. CASE FetchCredentialsWithSAMLAssertion \/ OtherCredentials
  BY <1>6, <1>f, <1>k DEF FetchCredentialsWithSAMLAssertion, OtherCredentials,
                          CreateClient
<1>7. CASE TryClient
  <2>1. CASE Fails
    BY <2>1, <1>f
  <2>2. CASE Returns(records, IF records = <<>> THEN "SUCCESS"
                                                ELSE "SUCCESS_WITH_INFO")
    BY <2>2, <1>t, <1>o, ReturnRecords
  <2> QED
    BY <1>7, <2>1, <2>2 DEF TryClient
<1>s. ASSUME NEW s \in States, NEW r, r # "SUCCESS", Returns(<<Record(s)>>, r)
      PROVE  RecordsInv'
  <2>1. <<Record(s)>> = Append(<<>>, Record(s))
    OBVIOUS
  <2> QED
    BY <1>s, <1>n, <2>1, ErrorRecords
<1>8. CASE InternalRelease
  BY <1>8, <1>n, <1>s, ReturnRecords DEF InternalRelease, States
<1>9. CASE Destroy
  BY <1>9, <1>n, ReturnRecords DEF Destroy
<1>a. ASSUME NEW r, NEW state, Answers(r, state),
             r = "SUCCESS" \/ state \in States
      PROVE  RecordsInv'
  BY <1>a, <1>n, <1>s, ReturnRecords DEF Answers
<1>10. CASE \/ InternalGetInfo \/ InternalGetAttribute \/ InternalSetAttribute
            \/ InternalSetConnectOption \/ InternalGetConnectOption
  BY <1>10, <1>a
  DEF InternalGetInfo, InternalGetAttribute, InternalSetAttribute,
      InternalSetConnectOption, InternalGetConnectOption, States
<1>11. CASE SQLError
  <2>1. PICK i \in DOMAIN records :
          /\ \A j \in 1 .. (i - 1) : records[j].retrieved
          /\ records' = [records EXCEPT ![i].retrieved = TRUE]
    BY <1>11 DEF SQLError
  <2>2. i \in 1 .. Len(records)
    BY <1>t, <2>1
  <2>3. records[i] \in StatusRecords
    BY <1>t, <2>2
  <2>4. [records[i] EXCEPT !.retrieved = TRUE] \in StatusRecords
    BY <2>3 DEF StatusRecords
  <2>5. /\ records' \in Seq(StatusRecords)
        /\ Len(records') = Len(records)
    BY <1>t, <2>1, <2>2, <2>4
  <2>6. /\ records'[i].retrieved
        /\ \A j \in 1 .. Len(records) : j # i => records'[j] = records[j]
    <3>1. records' = [records EXCEPT ![i] = [records[i] EXCEPT !.retrieved = TRUE]]
      BY <2>1
    <3>2. records'[i] = [records[i] EXCEPT !.retrieved = TRUE]
      BY <1>t, <2>2, <3>1
    <3>3. records'[i].retrieved
      BY <2>3, <3>2 DEF StatusRecords
    <3> QED
      BY <1>t, <2>2, <3>1, <3>3
  <2>7. RecordsInOrder'
    <3> SUFFICES ASSUME NEW k \in 1 .. Len(records),
                        NEW j \in 1 .. Len(records),
                        k < j, records'[j].retrieved
                 PROVE  records'[k].retrieved
      BY <2>5 DEF RecordsInOrder
    <3>1. CASE j = i
      BY <2>1, <2>2, <2>6, <3>1
    <3>2. CASE j # i
      <4>1. records[j].retrieved
        BY <2>6, <3>2
      <4>2. records[k].retrieved
        BY <1>t, <1>o, <4>1
      <4> QED
        BY <2>6, <4>2
    <3> QED
      BY <3>1, <3>2
  <2>8. records # <<>> /\ records' # <<>>
    BY <1>t, <2>2, <2>5
  <2>9. ResultExplained'
    BY <1>11, <2>8 DEF SQLError, RecordsInv, ResultExplained
  <2> QED
    BY <2>5, <2>7, <2>9 DEF RecordsInv
<1>12. CASE UNCHANGED vars
  BY <1>12 DEF vars, RecordsInv, RecordsInOrder, ResultExplained
<1> QED
  BY <1>1, <1>2, <1>3, <1>4, <1>5, <1>6, <1>7, <1>8, <1>9, <1>10, <1>11, <1>12
  DEF Next

THEOREM RecordsInvariant == Spec => []RecordsInv
<1>1. Init => RecordsInv
  BY InitRecords
<1>2. RecordsInv /\ [Next]_vars => RecordsInv'
  BY NextRecords
<1> QED
  BY <1>1, <1>2, PTL DEF Spec

\* Whatever the calls: between calls a result other than success has a record
\* that explains it, and a success has none.
THEOREM ResultsExplained == Spec => []ResultExplained
<1>1. RecordsInv => ResultExplained
  BY DEF RecordsInv
<1> QED
  BY <1>1, RecordsInvariant, PTL

\* SQLError hands the records out in their order, whatever the calls.
THEOREM RecordsHandedOutInOrder == Spec => []RecordsInOrder
<1>1. RecordsInv => RecordsInOrder
  BY DEF RecordsInv
<1> QED
  BY <1>1, RecordsInvariant, PTL

-----------------------------------------------------------------------------
(* The types *)

\* What HandleAttributePair stores of a number fits an int32_t.
LEMMA AsInt32Type ==
  \A n \in Nat : n <= UintMax => AsInt32(n) \in Numbers
BY IntMaxAssumption DEF AsInt32, UintMax, Numbers

\* What the settings may be, by their kind.
LEMMA DomainType ==
  /\ \A k \in TextKeys : k \in Keys \ {"dsn"} /\ Domain(k) = AllTexts
  /\ \A k \in NumKeys : k \in Keys \ {"dsn"} /\ Domain(k) = Numbers
  /\ "dsn" \in Keys /\ Domain("dsn") = DOMAIN Dsns
<1>1. ASSUME NEW k \in TextKeys PROVE k \in Keys \ {"dsn"} /\ Domain(k) = AllTexts
  <2>1. k \in Keys /\ k # "dsn" /\ k # "auth" /\ k \notin NumKeys
    BY DEF TextKeys, NameKeys, NumKeys, Keys
  <2> QED
    BY <2>1 DEF Domain
<1>2. ASSUME NEW k \in NumKeys PROVE k \in Keys \ {"dsn"} /\ Domain(k) = Numbers
  <2>1. k \in Keys /\ k # "dsn" /\ k # "auth" /\ k \notin TextKeys
    BY DEF NumKeys, TextKeys, NameKeys, Keys
  <2> QED
    BY <2>1 DEF Domain
<1>3. "dsn" \in Keys /\ Domain("dsn") = DOMAIN Dsns
  <2>1. "dsn" \in Keys /\ "dsn" \notin TextKeys /\ "dsn" \notin NumKeys
    BY DEF Keys, TextKeys, NameKeys, NumKeys
  <2> QED
    BY <2>1 DEF Domain
<1> QED
  BY <1>1, <1>2, <1>3

LEMMA DefaultType ==
  \A k \in Keys \ {"dsn"} : Default(k) \in Domain(k)
BY IntMaxAssumption
   DEF Keys, Default, Domain, TextKeys, NameKeys, NumKeys, AuthTypes,
       AllTexts, Numbers

LEMMA ValueType ==
  ASSUME NEW c, IsConfig(c), NEW k \in Keys \ {"dsn"}
  PROVE  Value(c, k) \in Domain(k)
BY DefaultType DEF IsConfig, Value

LEMMA NoSettingsType == IsConfig(NoSettings)
BY DEF IsConfig, NoSettings

\* One setting that changes to a value it may have.
LEMMA SetType ==
  ASSUME NEW c, IsConfig(c), NEW k \in Keys, NEW v \in Domain(k)
  PROVE  IsConfig([c EXCEPT ![k] = v])
BY DEF IsConfig

LEMMA PairType ==
  ASSUME NEW c, IsConfig(c), NEW p \in Pairs
  PROVE  IsConfig(HandleAttributePair(c, p))
<1>1. CASE ~Accepts(p)
  BY <1>1 DEF HandleAttributePair
<1>2. CASE Accepts(p) /\ p.key \in NumKeys
  <2>1. p.value \in Nat /\ p.value <= UintMax
    BY <1>2 DEF Accepts, Pairs, NumKeys, TextKeys, NameKeys
  <2>2. AsInt32(p.value) \in Domain(p.key) /\ p.key \in Keys
    BY <1>2, <2>1, AsInt32Type
    DEF Domain, NumKeys, TextKeys, NameKeys, Keys
  <2>3. HandleAttributePair(c, p) = [c EXCEPT ![p.key] = AsInt32(p.value)]
    BY <1>2 DEF HandleAttributePair
  <2> QED
    BY <2>2, <2>3 DEF IsConfig
<1>3. CASE Accepts(p) /\ p.key \notin NumKeys
  <2>1. p.key \in Keys /\ p.value \in Domain(p.key)
    BY <1>3 DEF Accepts, Pairs, Domain, Keys, NumKeys, TextKeys, NameKeys
  <2>2. HandleAttributePair(c, p) = [c EXCEPT ![p.key] = p.value]
    BY <1>3 DEF HandleAttributePair
  <2> QED
    BY <2>1, <2>2 DEF IsConfig
<1> QED
  BY <1>1, <1>2, <1>3

LEMMA DsnType ==
  ASSUME NEW d \in DOMAIN Dsns, NEW c, IsConfig(c)
  PROVE  IsConfig(ReadDsnConfiguration(Dsns[d], c))
<1> DEFINE r == ReadDsnConfiguration(Dsns[d], c)
<1>1. IsConfig(Dsns[d])
  BY InputsAssumption
<1>2. \A k \in Keys : r[k] \in Domain(k) \cup {Unset}
  <2> SUFFICES ASSUME NEW k \in Keys PROVE r[k] \in Domain(k) \cup {Unset}
    OBVIOUS
  <2>1. CASE IsSet(c, k)
    BY <2>1 DEF ReadDsnConfiguration, IsConfig
  <2>2. CASE ~IsSet(c, k) /\ k = "connectiontimeout"
    <3>1. 0 \in Domain(k)
      BY <2>2, IntMaxAssumption
      DEF Domain, TextKeys, NameKeys, NumKeys, Numbers
    <3> QED
      BY <1>1, <2>2, <3>1 DEF ReadDsnConfiguration, IsConfig
  <2>3. CASE ~IsSet(c, k) /\ k # "connectiontimeout"
    BY <1>1, <2>3 DEF ReadDsnConfiguration, IsConfig
  <2> QED
    BY <2>1, <2>2, <2>3
<1>3. r = [k \in Keys |-> r[k]]
  BY DEF ReadDsnConfiguration
<1> QED
  BY <1>2, <1>3 DEF IsConfig

LEMMA UserType ==
  ASSUME NEW c, IsConfig(c)
  PROVE  GetDSNUserName(c) \in AllTexts
<1>1. \A k \in NameKeys : Value(c, k) \in AllTexts
  BY ValueType, DomainType, ZenonT(30) DEF TextKeys
<1> QED
  BY <1>1 DEF GetDSNUserName, NameKeys, AllTexts

LEMMA ClientOfType ==
  ASSUME NEW c, IsConfig(c)
  PROVE  ClientOf(c) \in ClientType
<1>1. \A k \in TextKeys : Value(c, k) \in AllTexts
  BY ValueType, DomainType
<1>2. \A k \in NumKeys : Value(c, k) \in Numbers
  BY ValueType, DomainType
<1>3. 0 \in Numbers
  BY IntMaxAssumption DEF Numbers
<1> QED
  BY <1>1, <1>2, <1>3, UserType DEF ClientOf, ClientType, TextKeys, NumKeys

LEMMA InitTypes == Init => TypeOK
<1> SUFFICES ASSUME Init PROVE TypeOK
  OBVIOUS
<1>1. IsConfig(config)
  BY NoSettingsType DEF Init
<1>2. records \in Seq([state : States, retrieved : BOOLEAN]) /\ todo \in Seq(Pairs)
  BY DEF Init
<1>3. pc \in PcSet
  BY DEF Init, PcSet
<1> QED
  BY <1>1, <1>2, <1>3 DEF Init, TypeOK

LEMMA NextTypes == TypeOK /\ RecordsInv' /\ [Next]_vars => TypeOK'
<1> SUFFICES ASSUME TypeOK, RecordsInv', [Next]_vars PROVE TypeOK'
  OBVIOUS
<1>r. records' \in Seq([state : States, retrieved : BOOLEAN])
  BY DEF RecordsInv, StatusRecords
<1>t. IsConfig(config)
  BY DEF TypeOK
<1>f. ASSUME Fails PROVE TypeOK'
  BY <1>f, <1>r DEF Fails, Returns, NoClient, TypeOK, PcSet
<1>g. ASSUME NEW next \in PcSet, GoesOn(next), saml' \in BOOLEAN PROVE TypeOK'
  BY <1>g, <1>r DEF GoesOn, TypeOK
<1>c. ASSUME CreateClient PROVE TypeOK'
  <2>1. client' \in ClientType
    BY <1>c, <1>t, ClientOfType DEF CreateClient
  <2> QED
    BY <1>c, <1>r, <2>1 DEF CreateClient, TypeOK, PcSet
<1>e. ASSUME NEW c, IsConfig(c), NEW recs, NEW x, NEW inh \in BOOLEAN,
             InternalEstablish(c, recs, x, inh), todo' = todo
      PROVE  TypeOK'
  <2>1. IsConfig(config') /\ client' = client /\ saml' = saml
        /\ connected' = connected
    BY <1>e DEF InternalEstablish
  <2>2. /\ pc' \in {"idle", "auth"} /\ ret' = "ERROR" /\ inherited' \in BOOLEAN
    BY <1>e DEF InternalEstablish, Returns
  <2> QED
    BY <1>e, <1>r, <2>1, <2>2 DEF TypeOK, PcSet
<1>1. CASE DriverConnect
  <2>1. todo' \in Seq(Pairs)
    BY <1>1, InputsAssumption DEF DriverConnect
  <2> QED
    BY <1>1, <1>r, <2>1 DEF DriverConnect, TypeOK, PcSet
<1>2. CASE ParsePair
  <2>1. todo \in Seq(Pairs) /\ Len(todo) \in Nat \ {0}
    BY <1>2 DEF ParsePair, TypeOK
  <2>2. todo[Len(todo)] \in Pairs /\ todo' \in Seq(Pairs)
    BY <1>2, <2>1 DEF ParsePair
  <2>3. IsConfig(config')
    BY <1>2, <1>t, <2>2, PairType DEF ParsePair
  <2> QED
    BY <1>2, <1>r, <2>2, <2>3 DEF ParsePair, TypeOK
<1>3. CASE Establish
  <2>1. CASE config["dsn"] = Unset
    BY <1>3, <1>t, <1>e, <2>1 DEF Establish, TypeOK
  <2>2. CASE config["dsn"] # Unset
    <3>1. config["dsn"] \in DOMAIN Dsns
      BY <1>t, <2>2, DomainType DEF IsConfig
    <3>2. IsConfig(ReadDsnConfiguration(Dsns[config["dsn"]], config))
      BY <1>t, <3>1, DsnType
    <3> QED
      BY <1>3, <1>e, <2>2, <3>2 DEF Establish, TypeOK
  <2> QED
    BY <2>1, <2>2
<1>4. CASE SQLConnect
  <2>1. PICK d \in DOMAIN Dsns, user \in Users \cup {Unset} : \E x :
          InternalEstablish(
            IF user = Unset THEN ReadDsnConfiguration(Dsns[d], NoSettings)
            ELSE [ReadDsnConfiguration(Dsns[d], NoSettings)
                    EXCEPT !["uid"] = user],
            <<>>, x, FALSE)
    BY <1>4 DEF SQLConnect
  <2>2. IsConfig(ReadDsnConfiguration(Dsns[d], NoSettings))
    BY NoSettingsType, DsnType
  <2>3. user # Unset => user \in Domain("uid") /\ "uid" \in Keys
    <3>1. "uid" \in TextKeys
      BY DEF TextKeys, NameKeys
    <3> QED
      BY <3>1, InputsAssumption, DomainType
  <2>4. CASE user = Unset
    BY <1>4, <1>e, <2>1, <2>2, <2>4 DEF SQLConnect
  <2>5. CASE user # Unset
    <3>1. IsConfig([ReadDsnConfiguration(Dsns[d], NoSettings)
                      EXCEPT !["uid"] = user])
      BY <2>2, <2>3, <2>5, SetType
    <3> QED
      BY <1>4, <1>e, <2>1, <2>5, <3>1 DEF SQLConnect
  <2> QED
    BY <2>4, <2>5
<1>5. CASE Authenticate
  BY <1>5, <1>g DEF Authenticate, PcSet
<1>6. CASE GetSessionToken \/ GetSAMLAssertion \/ GetAccessToken
  BY <1>6, <1>f, <1>g
  DEF GetSessionToken, GetSAMLAssertion, GetAccessToken, PcSet, TypeOK
<1>7. CASE FetchCredentialsWithSAMLAssertion \/ OtherCredentials
  BY <1>7, <1>f, <1>c DEF FetchCredentialsWithSAMLAssertion, OtherCredentials
<1>8. CASE TryClient
  BY <1>8, <1>f, <1>r DEF TryClient, Returns, TypeOK, PcSet
<1>9. CASE InternalRelease
  BY <1>9, <1>r DEF InternalRelease, Returns, NoClient, TypeOK, PcSet
<1>10. CASE Destroy
  BY <1>10, <1>r, NoSettingsType DEF Destroy, Returns, NoClient, TypeOK, PcSet
<1>a. ASSUME NEW r \in {"SUCCESS", "SUCCESS_WITH_INFO", "ERROR"}, NEW state,
             Answers(r, state)
      PROVE  TypeOK'
  BY <1>a, <1>r DEF Answers, Returns, TypeOK, PcSet
<1>11. CASE \/ InternalGetInfo \/ InternalGetAttribute \/ InternalSetAttribute
            \/ InternalSetConnectOption \/ InternalGetConnectOption
  BY <1>11, <1>a
  DEF InternalGetInfo, InternalGetAttribute, InternalSetAttribute,
      InternalSetConnectOption, InternalGetConnectOption
<1>12. CASE SQLError
  BY <1>12, <1>r DEF SQLError, TypeOK
<1>13. CASE UNCHANGED vars
  BY <1>13 DEF vars, TypeOK
<1> QED
  BY <1>1, <1>2, <1>3, <1>4, <1>5, <1>6, <1>7, <1>8, <1>9, <1>10, <1>11,
     <1>12, <1>13
  DEF Next

\* Every setting has its type throughout, numbers of any size in the string
\* included.
THEOREM TypesCorrect == Spec => []TypeOK
<1>1. Init => TypeOK
  BY InitTypes
<1>2. TypeOK /\ RecordsInv' /\ [Next]_vars => TypeOK'
  BY NextTypes
<1> QED
  BY <1>1, <1>2, RecordsInvariant, PTL DEF Spec

-----------------------------------------------------------------------------
(* The settings of the client *)

\* What HandleAttributePair stores of a pair it accepts.
Taken(p) == IF p.key \in NumKeys THEN AsInt32(p.value) ELSE p.value

\* The settings c are those of the pairs of s after the n-th: of each key the
\* first pair among them that is accepted.
Parsed(s, n, c) ==
  \A k \in Keys :
    \/ (\A i \in Given(s, k) : i <= n) /\ c[k] = Unset
    \/ \E i \in Given(s, k) :
         /\ i > n /\ c[k] = Taken(s[i])
         /\ \A j \in Given(s, k) : j > n => i <= j

Agrees(a, c) == \A f \in DOMAIN c : a[f] \in {Unset, c[f]}

\* While the string is parsed the settings are those of the pairs handled; then
\* a client made of them agrees with the one asked for, and then there is one.
AskedInv ==
  ~inherited =>
    /\ pc = "parse" =>
         \E s \in Strings :
           /\ asked = AskedFor(s) /\ Len(todo) <= Len(s)
           /\ \A i \in 1 .. Len(todo) : todo[i] = s[i]
           /\ Parsed(s, Len(todo), config)
    /\ pc \in Before => Agrees(asked, ClientOf(config))
    /\ pc = "try" => Agrees(asked, client)

\* A pair that is accepted has a value of its setting.
LEMMA TakenIs ==
  ASSUME NEW p \in Pairs, Accepts(p)
  PROVE  /\ p.key \in Keys /\ p.value # Unset /\ Taken(p) # Unset
         /\ p.key \in NumKeys => p.value \in Nat /\ p.value <= UintMax
         /\ p.key = "dsn" => p.value \in DOMAIN Dsns
<1>1. CASE p.key \in NumKeys
  <2>1. p.value \in Nat /\ p.value <= UintMax
    BY <1>1 DEF Accepts, Pairs, NumKeys, TextKeys, NameKeys
  <2>2. AsInt32(p.value) \in Int
    BY <2>1, AsInt32Type DEF Numbers
  <2> QED BY <1>1, <2>1, <2>2, UnsetAssumption DEF Taken, NumKeys, Keys
<1>2. CASE p.key \notin NumKeys
  <2>1. p.key \in Keys /\ p.value \in DOMAIN Dsns \cup AuthTypes \cup AllTexts
    BY <1>2 DEF Accepts, Pairs, Keys, NumKeys, TextKeys, NameKeys
  <2>2. p.key = "dsn" => p.value \in DOMAIN Dsns
    BY <1>2 DEF Pairs, NumKeys, TextKeys, NameKeys
  <2> QED BY <1>2, <2>1, <2>2, UnsetAssumption DEF Taken
<1> QED BY <1>1, <1>2

\* ParsePair goes from the pairs after the n-th to those from it on.
LEMMA ParsedStep ==
  ASSUME NEW s \in Seq(Pairs), NEW n \in 1 .. Len(s), NEW c, c = [k \in Keys |-> c[k]],
         Parsed(s, n, c)
  PROVE  Parsed(s, n - 1, HandleAttributePair(c, s[n]))
<1> DEFINE p == s[n]
           next == HandleAttributePair(c, p)
<1>1. p \in Pairs OBVIOUS
<1>2. \A k \in Keys : Given(s, k) \subseteq 1 .. Len(s) BY DEF Given
<1>3. CASE ~Accepts(p)
  <2>1. next = c BY <1>3 DEF HandleAttributePair
  <2>2. \A k \in Keys : n \notin Given(s, k) BY <1>3 DEF Given
  <2> QED BY <1>2, <2>1, <2>2, SMTT(30) DEF Parsed
<1>4. CASE Accepts(p)
  <2>1. p.key \in Keys BY <1>1, <1>4, TakenIs
  <2>2. next = [c EXCEPT ![p.key] = Taken(p)]
    BY <1>4 DEF HandleAttributePair, Taken
  <2>3. ASSUME NEW k \in Keys, k # p.key
        PROVE  next[k] = c[k] /\ n \notin Given(s, k)
    BY <2>1, <2>2, <2>3 DEF Given
  <2>4. next[p.key] = Taken(p) /\ n \in Given(s, p.key)
    BY <1>4, <2>1, <2>2 DEF Given
  <2> HIDE DEF next
  <2> SUFFICES ASSUME NEW k \in Keys
               PROVE  \/ (\A i \in Given(s, k) : i <= n - 1) /\ next[k] = Unset
                      \/ \E i \in Given(s, k) :
                           /\ i > n - 1 /\ next[k] = Taken(s[i])
                           /\ \A j \in Given(s, k) : j > n - 1 => i <= j
    BY DEF Parsed, next
  <2>5. CASE k = p.key
    <3>1. \A j \in Given(s, k) : j > n - 1 => n <= j BY <1>2
    <3> QED BY <2>4, <2>5, <3>1
  <2>6. CASE k # p.key
    BY <1>2, <2>3, <2>6 DEF Parsed
  <2> QED BY <2>5, <2>6
<1> QED BY <1>3, <1>4

\* After the whole string the settings are those of the reference, but that
\* the numbers went through an int32_t.
LEMMA ParsedAll ==
  ASSUME NEW s \in Seq(Pairs), NEW c, Parsed(s, 0, c), NEW k \in Keys
  PROVE  \/ FirstGiven(s, k) = Unset /\ c[k] = Unset
         \/ /\ FirstGiven(s, k) # Unset /\ c[k] # Unset
            /\ k \notin NumKeys => c[k] = FirstGiven(s, k)
            /\ k \in NumKeys => /\ FirstGiven(s, k) \in Nat /\ FirstGiven(s, k) <= UintMax
                                /\ c[k] = AsInt32(FirstGiven(s, k))
            /\ k = "dsn" => c[k] \in DOMAIN Dsns
<1>1. Given(s, k) \subseteq 1 .. Len(s) /\ \A i \in Given(s, k) : s[i] \in Pairs /\ s[i].key = k /\ Accepts(s[i])
  BY DEF Given
<1>2. CASE Given(s, k) = {}
  BY <1>2 DEF Parsed, FirstGiven
<1>3. CASE Given(s, k) # {}
  <2>1. PICK i \in Given(s, k) : c[k] = Taken(s[i]) /\ \A j \in Given(s, k) : i <= j
    BY <1>1, <1>3 DEF Parsed
  <2> DEFINE m == CHOOSE j \in Given(s, k) : \A l \in Given(s, k) : j <= l
  <2>2. m \in Given(s, k) /\ \A l \in Given(s, k) : m <= l BY <2>1
  <2>3. m = i BY <1>1, <2>1, <2>2
  <2>4. FirstGiven(s, k) = s[i].value BY <1>3, <2>3 DEF FirstGiven
  <2> HIDE DEF m
  <2>5. s[i] \in Pairs /\ s[i].key = k /\ Accepts(s[i]) BY <1>1, <2>1
  <2>6. /\ s[i].value # Unset /\ Taken(s[i]) # Unset
        /\ k \in NumKeys => s[i].value \in Nat /\ s[i].value <= UintMax
        /\ k = "dsn" => s[i].value \in DOMAIN Dsns
    BY <2>5, TakenIs
  <2>7. Taken(s[i]) = IF k \in NumKeys THEN AsInt32(s[i].value) ELSE s[i].value
    BY <2>5 DEF Taken
  <2>8. "dsn" \notin NumKeys BY DEF NumKeys
  <2> QED BY <2>1, <2>4, <2>6, <2>7, <2>8
<1> QED BY <1>2, <1>3

\* The settings that AskedFor makes its client of.
Wanted(s) ==
  LET d == FirstGiven(s, "dsn")
      given(k) == \/ FirstGiven(s, k) \notin {Unset, Empty}
                  \/ FirstGiven(s, k) = Empty /\ k # "profilename"
  IN  [k \in Keys |-> IF d # Unset /\ ~given(k) THEN Dsns[d][k] ELSE FirstGiven(s, k)]

\* The data source has one of the timeouts only, and the string does not have
\* the other.
TimeoutUnclear(s) ==
  LET d == FirstGiven(s, "dsn")
  IN  /\ FirstGiven(s, "connectiontimeout") = Unset
      /\ d # Unset
      /\ (Dsns[d]["requesttimeout"] = Unset) # (Dsns[d]["connectiontimeout"] = Unset)

\* Two settings that agree on everything but numbers that do not fit, and on
\* the connection timeout where that is clear, make clients that agree.
LEMMA ClientsAgree ==
  ASSUME NEW s, NEW c, IsConfig(c),
         \A k \in {"auth"} \cup TextKeys : Value(c, k) = Value(Wanted(s), k),
         \A k \in NumKeys :
           \/ c[k] = Wanted(s)[k]
           \/ Wanted(s)[k] \in Nat /\ Wanted(s)[k] > IntMax
           \/ k = "connectiontimeout" /\ TimeoutUnclear(s)
  PROVE  Agrees(AskedFor(s), ClientOf(c))
<1> DEFINE w == Wanted(s)
           client_ == ClientOf(w)
           fits(n) == IF n > IntMax THEN Unset ELSE n
<1>1. AskedFor(s) = [client_ EXCEPT
         !.requesttimeout = fits(client_.requesttimeout),
         !.connectiontimeout = IF TimeoutUnclear(s) THEN Unset ELSE fits(client_.connectiontimeout),
         !.retries = fits(client_.retries)]
  BY DEF AskedFor, Wanted, TimeoutUnclear
<1>2. \A k \in {"auth"} \cup TextKeys : Value(c, k) = Value(w, k)
  OBVIOUS
<1>3. GetDSNUserName(c) = GetDSNUserName(w)
  BY <1>2 DEF GetDSNUserName, TextKeys, NameKeys
<1>4. client_.user = ClientOf(c).user /\ client_.region = ClientOf(c).region
  BY <1>2, <1>3 DEF ClientOf, TextKeys, NameKeys
<1>5. \A k \in NumKeys : c[k] \in Numbers \cup {Unset}
  BY DomainType DEF IsConfig
<1>6. ASSUME NEW k \in NumKeys
      PROVE  \/ Value(w, k) = Value(c, k) /\ Value(c, k) \in Int
             \/ Value(w, k) \in Nat /\ Value(w, k) > IntMax
             \/ k = "connectiontimeout" /\ TimeoutUnclear(s)
  <2>1. Value(c, k) \in Int
    <3>1. Value(c, k) \in Numbers BY ValueType, DomainType
    <3> QED BY <3>1, IntMaxAssumption DEF Numbers
  <2>2. CASE c[k] = w[k] BY <2>1, <2>2 DEF Value
  <2>3. CASE w[k] \in Nat /\ w[k] > IntMax BY <2>3, UnsetAssumption DEF Value
  <2> QED BY <2>2, <2>3
<1> HIDE DEF w
<1>7. DOMAIN ClientOf(c) = {"user", "region", "requesttimeout", "connectiontimeout", "retries"}
  BY DEF ClientOf
<1>8. /\ client_.requesttimeout = Value(w, "requesttimeout")
      /\ client_.connectiontimeout = Value(w, "connectiontimeout")
      /\ client_.retries = IF Value(w, "maxretrycountclient") > 0 THEN Value(w, "maxretrycountclient") ELSE 0
      /\ ClientOf(c).requesttimeout = Value(c, "requesttimeout")
      /\ ClientOf(c).connectiontimeout = Value(c, "connectiontimeout")
      /\ ClientOf(c).retries = IF Value(c, "maxretrycountclient") > 0 THEN Value(c, "maxretrycountclient") ELSE 0
      /\ DOMAIN client_ = {"user", "region", "requesttimeout", "connectiontimeout", "retries"}
  BY DEF ClientOf
<1> HIDE DEF client_
<1>9. /\ AskedFor(s).user = client_.user /\ AskedFor(s).region = client_.region
      /\ AskedFor(s).requesttimeout = fits(client_.requesttimeout)
      /\ AskedFor(s).connectiontimeout = IF TimeoutUnclear(s) THEN Unset ELSE fits(client_.connectiontimeout)
      /\ AskedFor(s).retries = fits(client_.retries)
  BY <1>1, <1>8
<1>10. AskedFor(s).requesttimeout \in {Unset, ClientOf(c).requesttimeout}
  BY <1>6, <1>8, <1>9 DEF NumKeys
<1>11. AskedFor(s).connectiontimeout \in {Unset, ClientOf(c).connectiontimeout}
  BY <1>6, <1>8, <1>9 DEF NumKeys
<1>12. AskedFor(s).retries \in {Unset, ClientOf(c).retries}
  BY <1>6, <1>8, <1>9, IntMaxAssumption DEF NumKeys
<1> QED BY <1>4, <1>7, <1>9, <1>10, <1>11, <1>12 DEF Agrees

\* What Establish and SQLConnect add of the data source: the settings of the
\* string s, completed, agree with those asked for.
LEMMA CompletedAgree ==
  ASSUME NEW s \in Seq(Pairs), NEW c, IsConfig(c), Parsed(s, 0, c), NEW full, IsConfig(full),
         c["dsn"] = Unset => \A k \in Keys \ {"dsn"} : full[k] = c[k],
         c["dsn"] # Unset =>
           \A k \in Keys \ {"dsn"} : full[k] = ReadDsnConfiguration(Dsns[c["dsn"]], c)[k]
  PROVE  Agrees(AskedFor(s), ClientOf(full))
<1> DEFINE d == FirstGiven(s, "dsn")
<1>1. /\ "dsn" \in Keys /\ "dsn" \notin NumKeys
      /\ {"auth"} \cup TextKeys \subseteq Keys \ {"dsn"} /\ NumKeys \subseteq Keys \ {"dsn"}
      /\ \A k \in {"auth"} \cup TextKeys : k \notin NumKeys
      /\ "connectiontimeout" \in NumKeys
  BY DEF Keys, TextKeys, NameKeys, NumKeys
<1>2. d = c["dsn"] BY <1>1, ParsedAll
<1>3. ASSUME NEW k \in Keys
      PROVE  Wanted(s)[k] = IF d # Unset /\ (\/ FirstGiven(s, k) = Unset
                                             \/ FirstGiven(s, k) = Empty /\ k = "profilename")
                              THEN Dsns[d][k] ELSE FirstGiven(s, k)
  BY UnsetAssumption DEF Wanted, AllTexts
<1> HIDE DEF d
<1>4. ASSUME NEW k \in Keys \ {"dsn"}, IsSet(c, k) \/ d = Unset PROVE full[k] = c[k]
  BY <1>2, <1>4 DEF ReadDsnConfiguration
<1>5. ASSUME NEW k \in Keys \ {"dsn"}, ~IsSet(c, k), d # Unset, k # "connectiontimeout"
      PROVE  full[k] = IF Dsns[d][k] = Unset THEN c[k] ELSE Dsns[d][k]
  BY <1>2, <1>5 DEF ReadDsnConfiguration
<1>6. ASSUME NEW k \in {"auth"} \cup TextKeys PROVE Value(full, k) = Value(Wanted(s), k)
  <2>1. k \in Keys \ {"dsn"} /\ k \notin NumKeys /\ k # "connectiontimeout" BY <1>1
  <2>2. FirstGiven(s, k) = c[k] BY <2>1, ParsedAll
  <2>3. CASE IsSet(c, k) \/ d = Unset
    <3>1. Wanted(s)[k] = c[k] BY <1>3, <2>1, <2>2, <2>3 DEF IsSet
    <3> QED BY <1>4, <2>1, <2>3, <3>1 DEF Value
  <2>4. CASE ~IsSet(c, k) /\ d # Unset
    <3>1. Wanted(s)[k] = Dsns[d][k] BY <1>3, <2>1, <2>2, <2>4 DEF IsSet
    <3>2. c[k] = Unset \/ (c[k] = Empty /\ k = "profilename") BY <2>4 DEF IsSet
    <3>3. Default("profilename") = Empty BY DEF Default
    <3> QED BY <1>5, <2>1, <2>4, <3>1, <3>2, <3>3 DEF Value
  <2> QED BY <2>3, <2>4
<1>7. ASSUME NEW k \in NumKeys
      PROVE  \/ full[k] = Wanted(s)[k]
             \/ Wanted(s)[k] \in Nat /\ Wanted(s)[k] > IntMax
             \/ k = "connectiontimeout" /\ TimeoutUnclear(s)
  <2>1. k \in Keys \ {"dsn"} /\ k # "profilename" BY <1>1 DEF NumKeys
  <2>6. IsSet(c, k) <=> c[k] # Unset BY <2>1 DEF IsSet
  <2>2. CASE c[k] # Unset
    <3>1. FirstGiven(s, k) # Unset /\ FirstGiven(s, k) \in Nat /\ c[k] = AsInt32(FirstGiven(s, k))
      BY <2>1, <2>2, ParsedAll
    <3>2. Wanted(s)[k] = FirstGiven(s, k) BY <1>3, <2>1, <3>1
    <3>3. FirstGiven(s, k) <= IntMax => full[k] = FirstGiven(s, k)
      BY <1>4, <2>1, <2>2, <2>6, <3>1 DEF AsInt32
    <3> QED BY <3>1, <3>2, <3>3, IntMaxAssumption
  <2>3. CASE c[k] = Unset /\ d = Unset BY <1>3, <1>4, <2>1, <2>3, ParsedAll
  <2>4. CASE c[k] = Unset /\ d # Unset /\ k # "connectiontimeout"
    <3>1. FirstGiven(s, k) = Unset BY <2>1, <2>4, ParsedAll
    <3>2. full[k] = Dsns[d][k] BY <1>5, <2>1, <2>4, <2>6
    <3> QED BY <1>3, <2>1, <2>4, <3>1, <3>2
  <2>5. CASE c[k] = Unset /\ d # Unset /\ k = "connectiontimeout"
    <3>1. FirstGiven(s, k) = Unset BY <2>1, <2>5, ParsedAll
    <3>2. full[k] = IF Dsns[d]["requesttimeout"] = Unset THEN Unset
                    ELSE IF Dsns[d][k] = Unset THEN 0 ELSE Dsns[d][k]
      BY <1>2, <2>1, <2>5, <2>6 DEF ReadDsnConfiguration
    <3>3. Wanted(s)[k] = Dsns[d][k] BY <1>3, <2>1, <2>5, <3>1
    <3> QED BY <2>5, <3>1, <3>2, <3>3 DEF TimeoutUnclear, d
  <2> QED BY <2>2, <2>3, <2>4, <2>5
<1> QED BY <1>6, <1>7, ClientsAgree

\* The pairs SQLConnect stands for.
LEMMA SQLConnectAgrees ==
  ASSUME NEW d \in DOMAIN Dsns, NEW user \in Users \cup {Unset}
  PROVE  LET c    == ReadDsnConfiguration(Dsns[d], NoSettings)
             name == IF user = Unset THEN <<>> ELSE <<[key |-> "uid", value |-> user]>>
         IN  Agrees(AskedFor(<<[key |-> "dsn", value |-> d]>> \o name),
                    ClientOf(IF user = Unset THEN c ELSE [c EXCEPT !["uid"] = user]))
<1> DEFINE c == ReadDsnConfiguration(Dsns[d], NoSettings)
           full == IF user = Unset THEN c ELSE [c EXCEPT !["uid"] = user]
           name == IF user = Unset THEN <<>> ELSE <<[key |-> "uid", value |-> user]>>
           s == <<[key |-> "dsn", value |-> d]>> \o name
           given_ == [k \in Keys |-> IF k = "dsn" THEN d ELSE IF k = "uid" THEN user ELSE Unset]
<1>1. /\ [key |-> "dsn", value |-> d] \in Pairs
      /\ user # Unset => [key |-> "uid", value |-> user] \in Pairs /\ user \in AllTexts
  BY InputsAssumption DEF Pairs, TextKeys, NameKeys
<1>2. name \in Seq(Pairs) /\ Len(name) = IF user = Unset THEN 0 ELSE 1
  BY <1>1
<1>3. <<[key |-> "dsn", value |-> d]>> \in Seq(Pairs) BY <1>1
<1>4. /\ s \in Seq(Pairs) /\ Len(s) = (IF user = Unset THEN 1 ELSE 2)
      /\ s[1] = [key |-> "dsn", value |-> d]
      /\ user # Unset => s[2] = [key |-> "uid", value |-> user]
  BY <1>1, <1>2, <1>3
<1> HIDE DEF s, name
<1>5. /\ {"dsn", "uid"} \subseteq Keys /\ {"dsn", "uid"} \cap NumKeys = {} /\ "uid" \in TextKeys
  BY DEF Keys, NumKeys, TextKeys, NameKeys
<1>6. /\ 1 \in DOMAIN s /\ s[1].key = "dsn" /\ s[1].value = d /\ Accepts(s[1]) /\ Taken(s[1]) = d
      /\ user # Unset => /\ 2 \in DOMAIN s /\ s[2].key = "uid" /\ Accepts(s[2]) /\ Taken(s[2]) = user
      /\ \A i \in DOMAIN s : i = 1 \/ (i = 2 /\ user # Unset)
  BY <1>4, <1>5 DEF Accepts, Taken
<1>7. Parsed(s, 0, given_)
  <2> SUFFICES ASSUME NEW k \in Keys
               PROVE  \/ (\A i \in Given(s, k) : i <= 0) /\ given_[k] = Unset
                      \/ \E i \in Given(s, k) : /\ i > 0 /\ given_[k] = Taken(s[i])
                                                /\ \A j \in Given(s, k) : j > 0 => i <= j
    BY DEF Parsed
  <2>1. CASE k = "dsn"
    <3>1. 1 \in Given(s, k) /\ \A j \in Given(s, k) : 1 <= j BY <1>6, <2>1 DEF Given
    <3> QED BY <1>6, <2>1, <3>1
  <2>2. CASE k = "uid" /\ user # Unset
    <3>1. 2 \in Given(s, k) /\ \A j \in Given(s, k) : 2 <= j BY <1>6, <2>2 DEF Given
    <3> QED BY <1>6, <2>2, <3>1
  <2>3. CASE k # "dsn" /\ ~(k = "uid" /\ user # Unset)
    <3>1. Given(s, k) = {} BY <1>6, <2>3 DEF Given
    <3> QED BY <2>3, <3>1
  <2> QED BY <2>1, <2>2, <2>3
<1>8. IsConfig(given_)
  BY <1>1, <1>5, DomainType DEF IsConfig
<1>9. IsConfig(full)
  <2>1. IsConfig(c) BY NoSettingsType, DsnType
  <2> HIDE DEF c
  <2>2. user # Unset => user \in Domain("uid") BY <1>1, <1>5, DomainType
  <2> QED BY <1>5, <2>1, <2>2, SetType
<1>10. \A k \in Keys \ {"dsn"} : full[k] = ReadDsnConfiguration(Dsns[d], given_)[k]
  <2>1. \A k \in Keys : c[k] = IF k = "connectiontimeout"
                               THEN IF Dsns[d]["requesttimeout"] = Unset THEN Unset
                                    ELSE IF Dsns[d][k] = Unset THEN 0 ELSE Dsns[d][k]
                               ELSE Dsns[d][k]
    BY DEF ReadDsnConfiguration, NoSettings, IsSet
  <2>2. ASSUME NEW k \in Keys \ {"dsn"}
        PROVE  ReadDsnConfiguration(Dsns[d], given_)[k] = IF k = "uid" /\ user # Unset THEN user ELSE c[k]
    <3>1. k # "uid" \/ user = Unset => given_[k] = Unset /\ ~IsSet(given_, k) BY DEF IsSet
    <3>2. k = "uid" /\ user # Unset => given_[k] = user /\ IsSet(given_, k) BY <1>5 DEF IsSet
    <3> QED BY <2>1, <3>1, <3>2 DEF ReadDsnConfiguration
  <2>3. DOMAIN c = Keys BY DEF ReadDsnConfiguration
  <2> HIDE DEF c, given_
  <2> QED BY <2>2, <2>3
<1>11. given_["dsn"] = d /\ d # Unset
  BY <1>5, UnsetAssumption
<1> HIDE DEF given_, full
<1>12. Agrees(AskedFor(s), ClientOf(full))
  BY <1>4, <1>7, <1>8, <1>9, <1>10, <1>11, CompletedAgree
<1> QED BY <1>12 DEF s, full, name

LEMMA InitAsked == Init => AskedInv
  BY DEF Init, AskedInv, Before

LEMMA NextAsked == TypeOK /\ AskedInv /\ [Next]_vars => AskedInv'
<1> SUFFICES ASSUME TypeOK, AskedInv, [Next]_vars PROVE AskedInv'
  OBVIOUS
<1>i. ASSUME pc' = "idle" PROVE AskedInv' BY <1>i DEF AskedInv, Before
<1>g. ASSUME NEW next \in Before, GoesOn(next), pc \in Before PROVE AskedInv'
  BY <1>g DEF GoesOn, AskedInv, Before
<1>f. ASSUME Fails PROVE AskedInv' BY <1>f, <1>i DEF Fails, Returns
<1>c. ASSUME CreateClient, pc \in Before PROVE AskedInv'
  BY <1>c DEF CreateClient, AskedInv, Before
<1>e. ASSUME NEW c, NEW recs, NEW x, NEW inh, InternalEstablish(c, recs, x, inh),
             ~inh => Agrees(x, ClientOf(c))
      PROVE  AskedInv'
  <2>1. CASE pc' = "idle" BY <1>i, <2>1
  <2>2. CASE pc' = "auth"
    <3>1. config' = c /\ asked' = x /\ inherited' = inh
      BY <1>e, <2>2 DEF InternalEstablish, Returns
    <3> QED BY <1>e, <2>2, <3>1 DEF AskedInv, Before
  <2> QED BY <1>e, <2>1, <2>2 DEF InternalEstablish, Returns
<1>1. CASE DriverConnect
  <2>1. PICK s \in Strings : todo' = s /\ asked' = AskedFor(s) BY <1>1 DEF DriverConnect
  <2>2. s \in Seq(Pairs) BY InputsAssumption
  <2>3. pc' = "parse" /\ config' = config /\ (~inherited' => config = NoSettings)
    BY <1>1 DEF DriverConnect
  <2>4. ~inherited' => Parsed(s, Len(s), config')
    <3>1. ASSUME NEW k \in Keys PROVE \A i \in Given(s, k) : i <= Len(s) BY <2>2 DEF Given
    <3>2. \A k \in Keys : NoSettings[k] = Unset BY DEF NoSettings
    <3> QED BY <2>3, <3>1, <3>2 DEF Parsed
  <2> QED BY <2>1, <2>2, <2>3, <2>4 DEF AskedInv, Before
<1>2. CASE ParsePair
  <2>1. /\ pc = "parse" /\ pc' = "parse" /\ todo \in Seq(Pairs) /\ todo # <<>>
        /\ asked' = asked /\ inherited' = inherited
        /\ config' = HandleAttributePair(config, todo[Len(todo)])
        /\ todo' = SubSeq(todo, 1, Len(todo) - 1)
        /\ IsConfig(config)
    BY <1>2 DEF ParsePair, TypeOK
  <2>2. Len(todo) \in Nat \ {0} BY <2>1
  <2>3. Len(todo') = Len(todo) - 1 /\ \A i \in 1 .. Len(todo') : todo'[i] = todo[i]
    <3>1. \A m \in 0 .. Len(todo) : /\ Len(SubSeq(todo, 1, m)) = m
                                    /\ \A i \in 1 .. m : SubSeq(todo, 1, m)[i] = todo[i]
      BY <2>1
    <3>2. Len(todo) - 1 \in 0 .. Len(todo) BY <2>2
    <3> QED BY <2>1, <3>1, <3>2
  <2> SUFFICES ASSUME ~inherited'
               PROVE  \E s \in Strings :
                        /\ asked' = AskedFor(s) /\ Len(todo') <= Len(s)
                        /\ \A i \in 1 .. Len(todo') : todo'[i] = s[i]
                        /\ Parsed(s, Len(todo'), config')
    BY <2>1 DEF AskedInv, Before
  <2>4. PICK s \in Strings : /\ asked = AskedFor(s) /\ Len(todo) <= Len(s)
                             /\ \A i \in 1 .. Len(todo) : todo[i] = s[i]
                             /\ Parsed(s, Len(todo), config)
    BY <2>1 DEF AskedInv
  <2>5. s \in Seq(Pairs) /\ Len(s) \in Nat BY InputsAssumption
  <2>6. todo[Len(todo)] = s[Len(todo)] /\ Len(todo) \in 1 .. Len(s) BY <2>2, <2>4, <2>5
  <2>7. Parsed(s, Len(todo) - 1, config')
    BY <2>1, <2>4, <2>5, <2>6, ParsedStep DEF IsConfig
  <2>8. Len(todo') <= Len(s) BY <2>2, <2>3, <2>4, <2>5
  <2>9. \A i \in 1 .. Len(todo') : todo'[i] = s[i]
    <3>1. ASSUME NEW i \in 1 .. Len(todo') PROVE i \in 1 .. Len(todo) BY <2>2, <2>3
    <3> QED BY <2>3, <2>4, <3>1
  <2>10. asked' = AskedFor(s) /\ Parsed(s, Len(todo'), config') BY <2>1, <2>3, <2>4, <2>7
  <2> QED BY <2>8, <2>9, <2>10, Zenon
<1>3. CASE Establish
  <2> DEFINE full == IF config["dsn"] = Unset THEN config ELSE ReadDsnConfiguration(Dsns[config["dsn"]], config)
  <2>1. /\ pc = "parse" /\ todo = <<>> /\ IsConfig(config)
        /\ InternalEstablish(full, records, asked, inherited)
    BY <1>3 DEF Establish, TypeOK
  <2>2. IsConfig(full)
    <3>1. config["dsn"] # Unset => config["dsn"] \in DOMAIN Dsns
      BY <2>1, DomainType DEF IsConfig
    <3> QED BY <2>1, <3>1, DsnType
  <2>3. ASSUME ~inherited PROVE Agrees(asked, ClientOf(full))
    <3>1. PICK s \in Strings : asked = AskedFor(s) /\ Parsed(s, Len(todo), config)
      BY <2>1, <2>3 DEF AskedInv
    <3>2. s \in Seq(Pairs) /\ Len(todo) = 0 BY <2>1, InputsAssumption
    <3> QED BY <2>1, <2>2, <3>1, <3>2, CompletedAgree
  <2> HIDE DEF full
  <2> QED BY <1>e, <2>1, <2>3
<1>4. CASE SQLConnect
  BY <1>4, <1>e, SQLConnectAgrees, Zenon DEF SQLConnect
<1>5. CASE Authenticate BY <1>5, <1>g DEF Authenticate, Before
<1>6. CASE GetSessionToken \/ GetSAMLAssertion \/ GetAccessToken
  BY <1>6, <1>f, <1>g DEF GetSessionToken, GetSAMLAssertion, GetAccessToken, Before
<1>7. CASE FetchCredentialsWithSAMLAssertion \/ OtherCredentials
  BY <1>7, <1>f, <1>c DEF FetchCredentialsWithSAMLAssertion, OtherCredentials, Before
<1>8. CASE TryClient BY <1>8, <1>f, <1>i DEF TryClient, Returns
<1>9. CASE InternalRelease \/ Destroy BY <1>9, <1>i DEF InternalRelease, Destroy, Returns
<1>10. CASE \/ InternalGetInfo \/ InternalGetAttribute \/ InternalSetAttribute
            \/ InternalSetConnectOption \/ InternalGetConnectOption
  BY <1>10, <1>i
  DEF InternalGetInfo, InternalGetAttribute, InternalSetAttribute, InternalSetConnectOption,
      InternalGetConnectOption, Answers, Returns
<1>11. CASE SQLError BY <1>11, <1>i DEF SQLError
<1>12. CASE UNCHANGED vars BY <1>12 DEF vars, AskedInv
<1> QED
  BY <1>1, <1>2, <1>3, <1>4, <1>5, <1>6, <1>7, <1>8, <1>9, <1>10, <1>11, <1>12 DEF Next

\* The client is made with the settings asked for, for connection strings of
\* any length, repeated keys, data sources and numbers of any size: the parser
\* goes from the last pair to the first (connection_string_parser.cpp) and the
\* data source fills what is left.
THEOREM SettingsAsAskedHolds == Spec => []SettingsAsAsked
<1>1. AskedInv => SettingsAsAsked BY DEF AskedInv, SettingsAsAsked, Agrees
<1> QED BY <1>1, InitAsked, NextAsked, TypesCorrect, PTL DEF Spec

-----------------------------------------------------------------------------
(* The information about the driver *)

\* A key of one of the maps that none of the others has.
LEMMA JoinedIs ==
  ASSUME NEW maps, NEW m \in maps, NEW t \in DOMAIN m, \A n \in maps : t \in DOMAIN n => n = m
  PROVE  t \in DOMAIN Joined(maps) /\ Joined(maps)[t] = m[t]
<1>1. t \in UNION {DOMAIN n : n \in maps} OBVIOUS
<1> DEFINE c == CHOOSE n \in maps : t \in DOMAIN n
<1>2. c \in maps /\ t \in DOMAIN c OBVIOUS
<1>3. c = m BY <1>2
<1> QED BY <1>1, <1>3 DEF Joined

\* The texts a connection starts with, where a property is about them.
LEMMA TextsBuilt ==
  ASSUME NEW schema \in BOOLEAN
  PROVE  /\ {"USER_NAME", "DATA_SOURCE_NAME", "CATALOG_NAME", "CATALOG_TERM", "SCHEMA_TERM"}
              \subseteq DOMAIN StrParams(schema)
         /\ StrParams(schema)["USER_NAME"] = "" /\ StrParams(schema)["DATA_SOURCE_NAME"] = ""
         /\ StrParams(schema)["CATALOG_NAME"] = IF schema THEN "N" ELSE "Y"
         /\ StrParams(schema)["CATALOG_TERM"] = IF schema THEN "" ELSE "database"
         /\ StrParams(schema)["SCHEMA_TERM"] = IF schema THEN "schema" ELSE ""
<1> DEFINE keys == {"USER_NAME", "DATA_SOURCE_NAME", "CATALOG_NAME", "CATALOG_TERM", "SCHEMA_TERM"}
           maps == {ProductTexts, NamespaceTexts(schema), SourceTexts, StatementTexts, ManagerTexts}
<1>1. keys \cap DOMAIN ProductTexts = {} BY DEF ProductTexts
<1>2. keys \cap DOMAIN ManagerTexts = {} BY DEF ManagerTexts
<1>3. keys \cap DOMAIN NamespaceTexts(schema) = {"CATALOG_NAME", "CATALOG_TERM", "SCHEMA_TERM"}
  BY DEF NamespaceTexts
<1>4. keys \cap DOMAIN SourceTexts = {"DATA_SOURCE_NAME"} BY DEF SourceTexts
<1>5. keys \cap DOMAIN StatementTexts = {"USER_NAME"} BY DEF StatementTexts
<1>6. ASSUME NEW t \in {"CATALOG_NAME", "CATALOG_TERM", "SCHEMA_TERM"}
      PROVE  t \in DOMAIN Joined(maps) /\ Joined(maps)[t] = NamespaceTexts(schema)[t]
  <2>1. t \in DOMAIN NamespaceTexts(schema) /\ NamespaceTexts(schema) \in maps BY <1>3
  <2>2. \A n \in maps : t \in DOMAIN n => n = NamespaceTexts(schema) BY <1>1, <1>2, <1>4, <1>5
  <2> HIDE DEF maps
  <2> QED BY <2>1, <2>2, JoinedIs
<1>7. "DATA_SOURCE_NAME" \in DOMAIN Joined(maps) /\ Joined(maps)["DATA_SOURCE_NAME"] = SourceTexts["DATA_SOURCE_NAME"]
  <2>1. "DATA_SOURCE_NAME" \in DOMAIN SourceTexts /\ SourceTexts \in maps BY <1>4
  <2>2. \A n \in maps : "DATA_SOURCE_NAME" \in DOMAIN n => n = SourceTexts BY <1>1, <1>2, <1>3, <1>5
  <2> HIDE DEF maps
  <2> QED BY <2>1, <2>2, JoinedIs
<1>8. "USER_NAME" \in DOMAIN Joined(maps) /\ Joined(maps)["USER_NAME"] = StatementTexts["USER_NAME"]
  <2>1. "USER_NAME" \in DOMAIN StatementTexts /\ StatementTexts \in maps BY <1>5
  <2>2. \A n \in maps : "USER_NAME" \in DOMAIN n => n = StatementTexts BY <1>1, <1>2, <1>3, <1>4
  <2> HIDE DEF maps
  <2> QED BY <2>1, <2>2, JoinedIs
<1>9. SourceTexts["DATA_SOURCE_NAME"] = "" /\ StatementTexts["USER_NAME"] = ""
  BY DEF SourceTexts, StatementTexts
<1>10. /\ NamespaceTexts(schema)["CATALOG_NAME"] = IF schema THEN "N" ELSE "Y"
       /\ NamespaceTexts(schema)["CATALOG_TERM"] = IF schema THEN "" ELSE "database"
       /\ NamespaceTexts(schema)["SCHEMA_TERM"] = IF schema THEN "schema" ELSE ""
  BY DEF NamespaceTexts
<1>11. StrParams(schema) = Joined(maps) BY DEF StrParams
<1> HIDE DEF maps
<1> QED BY <1>6, <1>7, <1>8, <1>9, <1>10, <1>11

\* The flags that are the same for catalogs and schemas, and those that are not.
CursorInfoKeys ==
  {"FORWARD_ONLY_CURSOR_ATTRIBUTES1", "FORWARD_ONLY_CURSOR_ATTRIBUTES2", "STATIC_CURSOR_ATTRIBUTES1",
   "STATIC_CURSOR_ATTRIBUTES2", "KEYSET_CURSOR_ATTRIBUTES1", "KEYSET_CURSOR_ATTRIBUTES2",
   "DYNAMIC_CURSOR_ATTRIBUTES1", "DYNAMIC_CURSOR_ATTRIBUTES2", "SCROLL_OPTIONS", "SCROLL_CONCURRENCY"}
NamespaceKeys == {"CATALOG_USAGE", "CATALOG_LOCATION", "SCHEMA_USAGE"}

LEMMA FlagsBuilt ==
  ASSUME NEW schema \in BOOLEAN
  PROVE  /\ \A t \in NamespaceKeys : IntParams(schema)[t] = NamespaceInfo(schema)[t]
         /\ \A t \in {"STATIC_CURSOR_ATTRIBUTES1", "STATIC_CURSOR_ATTRIBUTES2"} :
              IntParams(schema)[t] = StaticCursorInfo[t]
         /\ IntParams(schema)["SCROLL_OPTIONS"] = ScrollInfo["SCROLL_OPTIONS"]
         /\ IntParams(schema)["DYNAMIC_CURSOR_ATTRIBUTES1"] = {}
         /\ \A t \in {"FORWARD_ONLY_CURSOR_ATTRIBUTES1", "FORWARD_ONLY_CURSOR_ATTRIBUTES2"} :
              IntParams(schema)[t] = ForwardCursorInfo[t]
         /\ IntParams(schema)["KEYSET_CURSOR_ATTRIBUTES1"] = {}
         /\ IntParams(schema)["SCROLL_CONCURRENCY"] = Odbc2Info["SCROLL_CONCURRENCY"]
<1> DEFINE keys == CursorInfoKeys \cup NamespaceKeys
           others == {AsyncAndBatchInfo, ScalarFunctionInfo, QueryInfo, ConvertInfo, AlterAndCreateInfo,
                      CreateInfo, TransactionInfo, DropInfo, SchemaViewInfo, LimitInfo, PrivilegeInfo,
                      SubqueryInfo}
           known == {NamespaceInfo(schema), StaticCursorInfo, ScrollInfo, DynamicCursorInfo1, DynamicCursorInfo2,
                     ForwardCursorInfo, KeysetCursorInfo, Odbc2Info}
           maps == others \cup known
<1>1. IntParams(schema) = Joined(maps)
  <2>1. maps = {AsyncAndBatchInfo, NamespaceInfo(schema), ScalarFunctionInfo, QueryInfo,
          StaticCursorInfo, ConvertInfo, ScrollInfo, AlterAndCreateInfo, CreateInfo,
          TransactionInfo, DropInfo, DynamicCursorInfo1, DynamicCursorInfo2,
          ForwardCursorInfo, SchemaViewInfo, KeysetCursorInfo, LimitInfo,
          PrivilegeInfo, SubqueryInfo, Odbc2Info}
    BY Zenon
  <2> QED BY <2>1, Zenon DEF IntParams
<1>j. \A a, b : DOMAIN Joined({a, b}) = DOMAIN a \cup DOMAIN b BY DEF Joined
<1>2. ASSUME NEW n \in others PROVE keys \cap DOMAIN n = {}
  <2>1. CASE n = AsyncAndBatchInfo
    <3> DEFINE a == [ASYNC_DBC_FUNCTIONS |-> {"ASYNC_DBC_NOT_CAPABLE"}, ASYNC_MODE |-> {"AM_NONE"},
                     ASYNC_NOTIFICATION |-> {"ASYNC_NOTIFICATION_NOT_CAPABLE"}]
               b == Unsupported({"BATCH_ROW_COUNT", "BATCH_SUPPORT", "BOOKMARK_PERSISTENCE"})
    <3>1. keys \cap DOMAIN a = {} /\ keys \cap DOMAIN b = {}
      BY DEF Unsupported, CursorInfoKeys, NamespaceKeys
    <3>2. n = Joined({a, b}) BY <2>1 DEF AsyncAndBatchInfo
    <3> HIDE DEF a, b
    <3> QED BY <1>j, <3>1, <3>2, ZenonT(30)
  <2>2. CASE n = ScalarFunctionInfo BY <2>2 DEF ScalarFunctionInfo, CursorInfoKeys, NamespaceKeys
  <2>3. CASE n = QueryInfo BY <2>3 DEF QueryInfo, CursorInfoKeys, NamespaceKeys
  <2>4. CASE n = ConvertInfo
    <3> DEFINE a == [CONVERT_BIGINT |-> {"BIGINT", "DOUBLE"}, CONVERT_VARCHAR |-> {"VARCHAR"},
                     CONVERT_DATE |-> {"DATE"}, CONVERT_DOUBLE |-> {"INTEGER", "BIGINT", "DOUBLE"},
                     CONVERT_INTEGER |-> {"INTEGER", "BIGINT", "DOUBLE"}, CONVERT_TIME |-> {"TIME"},
                     CONVERT_TIMESTAMP |-> {"TIMESTAMP"}]
    <3>1. PICK types : /\ n = Joined({a, Unsupported(types)})
                       /\ keys \cap types = {}
      BY <2>4 DEF ConvertInfo, CursorInfoKeys, NamespaceKeys
    <3> DEFINE b == Unsupported(types)
    <3>2. keys \cap DOMAIN a = {} /\ keys \cap DOMAIN b = {}
      BY <3>1 DEF Unsupported, CursorInfoKeys, NamespaceKeys
    <3>3. n = Joined({a, b}) BY <3>1
    <3> HIDE DEF a, b
    <3> QED BY <1>j, <3>2, <3>3, ZenonT(30)
  <2>5. CASE n = AlterAndCreateInfo BY <2>5 DEF AlterAndCreateInfo, Unsupported, CursorInfoKeys, NamespaceKeys
  <2>6. CASE n = CreateInfo BY <2>6 DEF CreateInfo, Unsupported, CursorInfoKeys, NamespaceKeys
  <2>7. CASE n = TransactionInfo BY <2>7 DEF TransactionInfo, CursorInfoKeys, NamespaceKeys
  <2>8. CASE n = DropInfo BY <2>8 DEF DropInfo, Unsupported, CursorInfoKeys, NamespaceKeys
  <2>9. CASE n = SchemaViewInfo BY <2>9 DEF SchemaViewInfo, Unsupported, CursorInfoKeys, NamespaceKeys
  <2>10. CASE n = LimitInfo BY <2>10 DEF LimitInfo, Unsupported, CursorInfoKeys, NamespaceKeys
  <2>11. CASE n = PrivilegeInfo BY <2>11 DEF PrivilegeInfo, Unsupported, CursorInfoKeys, NamespaceKeys
  <2>12. CASE n = SubqueryInfo
    <3> DEFINE a == [SQL92_ROW_VALUE_CONSTRUCTOR |-> {"SRVC_VALUE_EXPRESSION", "SRVC_NULL"},
                     STANDARD_CLI_CONFORMANCE |-> {},
                     SUBQUERIES |-> {"SQ_QUANTIFIED", "SQ_IN", "SQ_EXISTS", "SQ_COMPARISON"},
                     TXN_ISOLATION_OPTION |-> {}]
               b == [t \in {"UNION"} |-> {"U_UNION", "U_UNION_ALL"}]
    <3>1. keys \cap DOMAIN a = {} /\ keys \cap DOMAIN b = {} BY DEF CursorInfoKeys, NamespaceKeys
    <3>2. n = Joined({a, b}) BY <2>12 DEF SubqueryInfo
    <3> HIDE DEF a, b
    <3> QED BY <1>j, <3>1, <3>2, ZenonT(30)
  <2> QED BY <2>1, <2>2, <2>3, <2>4, <2>5, <2>6, <2>7, <2>8, <2>9, <2>10, <2>11, <2>12
<1>3. /\ keys \cap DOMAIN NamespaceInfo(schema) = NamespaceKeys
      /\ keys \cap DOMAIN StaticCursorInfo = {"STATIC_CURSOR_ATTRIBUTES1", "STATIC_CURSOR_ATTRIBUTES2"}
      /\ keys \cap DOMAIN ScrollInfo = {"SCROLL_OPTIONS"}
  BY DEF NamespaceInfo, StaticCursorInfo, ScrollInfo, CursorInfoKeys, NamespaceKeys
<1>4. /\ keys \cap DOMAIN DynamicCursorInfo1 = {"DYNAMIC_CURSOR_ATTRIBUTES1"}
      /\ keys \cap DOMAIN DynamicCursorInfo2 = {"DYNAMIC_CURSOR_ATTRIBUTES2"}
      /\ keys \cap DOMAIN KeysetCursorInfo = {"KEYSET_CURSOR_ATTRIBUTES1", "KEYSET_CURSOR_ATTRIBUTES2"}
  BY DEF DynamicCursorInfo1, DynamicCursorInfo2, KeysetCursorInfo, Unsupported, CursorInfoKeys, NamespaceKeys
<1>5. /\ keys \cap DOMAIN ForwardCursorInfo =
           {"FORWARD_ONLY_CURSOR_ATTRIBUTES1", "FORWARD_ONLY_CURSOR_ATTRIBUTES2"}
      /\ keys \cap DOMAIN Odbc2Info = {"SCROLL_CONCURRENCY"}
  BY DEF ForwardCursorInfo, Odbc2Info, CursorInfoKeys, NamespaceKeys
<1>6. ASSUME NEW m \in known, NEW t \in keys, t \in DOMAIN m
      PROVE  Joined(maps)[t] = m[t]
  <2>1. \A n \in known : t \in DOMAIN n => n = m
    BY <1>3, <1>4, <1>5, <1>6 DEF NamespaceKeys
  <2>2. \A n \in maps : t \in DOMAIN n => n = m BY <1>2, <2>1
  <2>3. m \in maps OBVIOUS
  <2> HIDE DEF maps
  <2> QED BY <1>6, <2>2, <2>3, JoinedIs
<1>7. DynamicCursorInfo1["DYNAMIC_CURSOR_ATTRIBUTES1"] = {} /\ KeysetCursorInfo["KEYSET_CURSOR_ATTRIBUTES1"] = {}
  BY DEF DynamicCursorInfo1, KeysetCursorInfo, Unsupported
<1> HIDE DEF maps
<1> QED BY <1>1, <1>3, <1>4, <1>5, <1>6, <1>7

\* The two texts a connection replaces.
Replaced == {"USER_NAME", "DATA_SOURCE_NAME"}

\* The texts are those the connection was built with but for the two names; a
\* length that was told is that of the text it was asked for; and an answer is
\* still the one GetInfo or GetFunctions would give.
InfoInv ==
  /\ asSchema \in BOOLEAN
  /\ strParams = [t \in DOMAIN StrParams(asSchema) |-> strParams[t]]
  /\ \A t \in DOMAIN StrParams(asSchema) : strParams[t] \in InfoTexts
  /\ \A t \in DOMAIN StrParams(asSchema) \ Replaced : strParams[t] = StrParams(asSchema)[t]
  /\ configDsn \in InfoDsns \cup {NoDsn}
  /\ NamesOfLastConnection
  /\ \/ learned.type = "none"
     \/ /\ learned.type \in DOMAIN strParams
        /\ learned.length = LengthTold(Len(strParams[learned.type]))
  /\ answer.call = "GetInfo" => /\ answer.type \in AskedInfo
                                /\ answer.outcome = GetInfo(answer.type, answer.room)
  /\ answer.call = "GetFunctions" =>
       answer.outcome.holds = IF answer.type \in OneByOne THEN Number(2, {"TRUE"}) ELSE Untouched
  /\ functions = [odbc3 |-> functions.odbc3, odbc2 |-> functions.odbc2]
  /\ functions.odbc3 \in {{}, ODBC3Functions} /\ functions.odbc2 \in {{}, ODBC2Functions}

LEMMA InfoInvInit == InfoInit => InfoInv
<1> SUFFICES ASSUME InfoInit PROVE InfoInv OBVIOUS
<1>1. asSchema \in BOOLEAN /\ strParams = StrParams(asSchema) BY DEF InfoInit
<1>2. strParams = [t \in DOMAIN StrParams(asSchema) |-> strParams[t]] BY <1>1 DEF StrParams, Joined
<1>3. \A t \in DOMAIN StrParams(asSchema) : strParams[t] \in InfoTexts
  <2>1. CASE strParams = StrParams(TRUE) BY <1>1, <2>1 DEF InfoTexts, TextsOf
  <2>2. CASE strParams = StrParams(FALSE) BY <1>1, <2>2 DEF InfoTexts, TextsOf
  <2>3. strParams = StrParams(TRUE) \/ strParams = StrParams(FALSE)
    <3>1. asSchema = TRUE \/ asSchema = FALSE BY <1>1
    <3> QED BY <1>1, <3>1
  <2> QED BY <2>1, <2>2, <2>3
<1>4. NamesOfLastConnection /\ configDsn = NoDsn
  BY <1>1, TextsBuilt DEF NamesOfLastConnection, InfoInit
<1>5. learned.type = "none" /\ answer.call = "none" BY DEF InfoInit, NotLearned, NoAnswer
<1>6. /\ functions = [odbc3 |-> functions.odbc3, odbc2 |-> functions.odbc2]
      /\ functions.odbc3 = {} /\ functions.odbc2 = {}
  BY DEF InfoInit
<1> QED BY <1>1, <1>2, <1>3, <1>4, <1>5, <1>6 DEF InfoInv

LEMMA InfoInvStep == InfoInv /\ [InfoNext]_infoVars => InfoInv'
<1> SUFFICES ASSUME InfoInv, [InfoNext]_infoVars PROVE InfoInv' OBVIOUS
<1>k. Replaced \subseteq DOMAIN StrParams(asSchema) /\ asSchema \in BOOLEAN /\ DOMAIN strParams = DOMAIN StrParams(asSchema)
  BY TextsBuilt DEF InfoInv, Replaced
<1>1. ASSUME NEW call \in {"SQLConnect", "SQLDriverConnect"}, NEW user \in InfoUsers,
             NEW dsn \in InfoDsns \cup {NoDsn}, InfoEstablish(call, user, dsn)
      PROVE  InfoInv'
  <2> DEFINE named == IF call = "SQLConnect" THEN NoDsn ELSE IF dsn = NoDsn THEN configDsn ELSE dsn
             told == GetDsn(named)
             made == [call |-> call, user |-> user,
                      dsn |-> IF call = "SQLConnect" THEN NoDsn ELSE dsn,
                      kept |-> IF named = dsn THEN NoDsn ELSE named]
  <2>1. /\ UNCHANGED <<asSchema, functions>> /\ configDsn' = named /\ answer' = NoAnswer
        /\ \/ /\ strParams' = UpdateConnectionRuntimeInfo(strParams, user, named)
              /\ connectedAs' = made /\ learned' = NotLearned
           \/ UNCHANGED <<strParams, connectedAs, learned>>
    BY <1>1 DEF InfoEstablish
  <2>2. configDsn \in InfoDsns \cup {NoDsn} BY DEF InfoInv
  <2>3. named \in InfoDsns \cup {NoDsn} BY <2>2
  <2>4. user \in InfoTexts /\ told \in InfoTexts BY <2>3 DEF GetDsn, InfoTexts
  <2>5. CASE UNCHANGED <<strParams, connectedAs, learned>>
    <3>1. answer'.call = "none" BY <2>1 DEF NoAnswer
    <3> HIDE DEF named
    <3> QED BY <2>1, <2>3, <2>5, <3>1 DEF InfoInv, NamesOfLastConnection
  <2>6. CASE /\ strParams' = UpdateConnectionRuntimeInfo(strParams, user, named)
             /\ connectedAs' = made /\ learned' = NotLearned
    <3>1. strParams' = [[strParams EXCEPT !["USER_NAME"] = user] EXCEPT !["DATA_SOURCE_NAME"] = told]
      BY <1>k, <2>6 DEF UpdateConnectionRuntimeInfo, SetInfo, Replaced
    <3>2. learned'.type = "none" /\ answer'.call = "none" BY <2>1, <2>6 DEF NotLearned, NoAnswer
    <3>3. /\ connectedAs'.call = call /\ connectedAs'.user = user
          /\ call = "SQLConnect" => told = DefaultDsn
          /\ call = "SQLDriverConnect" =>
               told = IF connectedAs'.dsn # NoDsn THEN connectedAs'.dsn ELSE GetDsn(connectedAs'.kept)
      BY <2>6 DEF GetDsn
    <3> HIDE DEF told, named, made
    <3>4. /\ strParams' = [t \in DOMAIN StrParams(asSchema) |-> strParams'[t]]
          /\ strParams'["USER_NAME"] = user /\ strParams'["DATA_SOURCE_NAME"] = told
          /\ \A t \in DOMAIN StrParams(asSchema) \ Replaced : strParams'[t] = strParams[t]
      BY <1>k, <3>1 DEF Replaced
    <3>5. \A t \in DOMAIN StrParams(asSchema) : strParams'[t] \in InfoTexts
      BY <2>4, <3>4 DEF InfoInv, Replaced
    <3>6. NamesOfLastConnection' BY <3>3, <3>4 DEF NamesOfLastConnection
    <3> QED BY <2>1, <2>3, <3>2, <3>4, <3>5, <3>6 DEF InfoInv
  <2> HIDE DEF made, named
  <2> QED BY <2>1, <2>5, <2>6
<1>2. ASSUME NEW type \in AskedInfo, NEW room \in Rooms(type), SQLGetInfo(type, room) PROVE InfoInv'
  <2>1. /\ UNCHANGED <<asSchema, strParams, configDsn, connectedAs, functions>>
        /\ answer' = [call |-> "GetInfo", type |-> type, room |-> room, outcome |-> GetInfo(type, room)]
        /\ learned' = IF room = NoBuffer /\ GetInfo(type, room).result = "SUCCESS"
                        THEN [type |-> type, length |-> GetInfo(type, room).reslen] ELSE learned
    BY <1>2 DEF SQLGetInfo
  <2>2. intParams' = intParams BY <2>1 DEF intParams
  <2>3. answer'.call = "GetInfo" /\ answer'.type = type /\ answer'.outcome = GetInfo(answer'.type, answer'.room)
    BY <2>1
  <2>4. GetInfo(answer.type, answer.room)' = GetInfo(answer'.type, answer'.room)
    BY <2>1, <2>2 DEF GetInfo
  <2>5. \/ learned'.type = "none"
        \/ /\ learned'.type \in DOMAIN strParams
           /\ learned'.length = LengthTold(Len(strParams[learned'.type]))
    <3>1. CASE room = NoBuffer /\ GetInfo(type, room).result = "SUCCESS"
      <4>1. type \in DOMAIN strParams /\ GetInfo(type, room) = CopyStringToBuffer(strParams[type], room)
        BY <3>1 DEF GetInfo, Failed, NoBuffer
      <4>2. Fits(strParams[type], room) = Len(strParams[type])
        BY <3>1, InfoWcharAssumption DEF Fits, NoBuffer
      <4>3. GetInfo(type, room).reslen = LengthTold(Len(strParams[type]))
        BY <4>1, <4>2 DEF CopyStringToBuffer
      <4> QED BY <2>1, <3>1, <4>1, <4>3
    <3>2. CASE ~(room = NoBuffer /\ GetInfo(type, room).result = "SUCCESS")
      BY <2>1, <3>2 DEF InfoInv
    <3> QED BY <3>1, <3>2
  <2>6. NamesOfLastConnection' BY <2>1 DEF NamesOfLastConnection, InfoInv
  <2> QED BY <2>1, <2>3, <2>4, <2>5, <2>6 DEF InfoInv
<1>3. ASSUME NEW f, SQLGetFunctions(f) PROVE InfoInv'
  <2>1. /\ UNCHANGED <<asSchema, strParams, configDsn, connectedAs, learned, functions>>
        /\ answer'.call = "GetFunctions" /\ answer'.type = f
        /\ answer'.outcome.holds = IF f \in OneByOne THEN Number(2, {"TRUE"}) ELSE Untouched
    BY <1>3 DEF SQLGetFunctions
  <2> QED BY <2>1 DEF InfoInv, NamesOfLastConnection
<1>4. ASSUME NEW version \in {"odbc3", "odbc2"}, SQLGetAllFunctions(version) PROVE InfoInv'
  <2>1. /\ UNCHANGED <<asSchema, strParams, configDsn, connectedAs, learned>> /\ answer'.call = "none"
        /\ functions' = [functions EXCEPT ![version] = IF version = "odbc3" THEN ODBC3Functions ELSE ODBC2Functions]
    BY <1>4 DEF SQLGetAllFunctions, NoAnswer
  <2>2. /\ functions' = [odbc3 |-> functions'.odbc3, odbc2 |-> functions'.odbc2]
        /\ functions'.odbc3 \in {{}, ODBC3Functions} /\ functions'.odbc2 \in {{}, ODBC2Functions}
    <3>1. PICK x, y : functions = [odbc3 |-> x, odbc2 |-> y] /\ x \in {{}, ODBC3Functions} /\ y \in {{}, ODBC2Functions}
      BY DEF InfoInv
    <3> QED BY <2>1, <3>1
  <2> QED BY <2>1, <2>2 DEF InfoInv, NamesOfLastConnection
<1>5. CASE UNCHANGED infoVars
  <2>1. UNCHANGED <<asSchema, strParams, configDsn, connectedAs, learned, functions, answer>> BY <1>5 DEF infoVars
  <2>2. GetInfo(answer.type, answer.room)' = GetInfo(answer.type, answer.room)
    BY <2>1 DEF GetInfo, intParams
  <2>3. NamesOfLastConnection' BY <2>1 DEF NamesOfLastConnection, InfoInv
  <2> QED BY <2>1, <2>2, <2>3, SMTT(30) DEF InfoInv
<1> QED BY <1>1, <1>2, <1>3, <1>4, <1>5 DEF InfoNext

\* A buffer of the length that was told holds the text, for texts of any
\* length, characters of two or four bytes, and whatever was asked and
\* connected between the two calls (ConnectionInfo::GetInfo, CopyStringToBuffer).
THEOREM LengthThenValueHolds == InfoSpec => []LengthThenValue
<1>1. InfoInv => LengthThenValue
  <2> SUFFICES ASSUME InfoInv, answer.call = "GetInfo", answer.type = learned.type,
                      answer.room = learned.length + InfoWchar, NEW text, text = strParams[answer.type]
               PROVE  /\ answer.outcome.result = "SUCCESS"
                      /\ answer.outcome.reslen = learned.length
                      /\ text # "" => answer.outcome.holds = [kind |-> "text", text |-> text]
    BY DEF LengthThenValue
  <2>1. answer.type # "none" BY AskedInfoAssumption DEF InfoInv
  <2>2. answer.type \in DOMAIN strParams /\ learned.length = LengthTold(Len(text)) /\ text \in InfoTexts
    BY <2>1 DEF InfoInv
  <2>3. Len(text) \in Nat /\ SubSeq(text, 1, Len(text)) = text /\ (Len(text) = 0 => text = "")
    BY <2>2, InfoTextsAssumption
  <2> DEFINE n == Len(text)
             room == n * InfoWchar + InfoWchar
  <2>4. answer.room = room BY <2>2 DEF LengthTold
  <2>5. room # 0 /\ (room <= InfoWchar <=> n = 0) /\ room \div InfoWchar - 1 = n
    <3>1. n \in Nat BY <2>3
    <3> HIDE DEF n
    <3>2. CASE InfoWchar = 2 BY <3>1, <3>2
    <3>3. CASE InfoWchar = 4 BY <3>1, <3>3
    <3> QED BY <3>2, <3>3, InfoWcharAssumption
  <2>6. answer.outcome = CopyStringToBuffer(text, room)
    BY <2>2, <2>4, <2>5 DEF InfoInv, GetInfo
  <2> HIDE DEF room
  <2>7. Fits(text, room) = n BY <2>3, <2>5 DEF Fits
  <2>8. /\ answer.outcome.result = "SUCCESS" /\ answer.outcome.reslen = LengthTold(n)
        /\ answer.outcome.holds = IF room <= InfoWchar THEN Untouched
                                  ELSE [kind |-> "text", text |-> SubSeq(text, 1, n)]
    BY <2>6, <2>7 DEF CopyStringToBuffer
  <2> QED BY <2>2, <2>3, <2>5, <2>8
<1> QED BY <1>1, InfoInvInit, InfoInvStep, PTL DEF InfoSpec

\* The names told are those of the last connection, the data source being the
\* one of its string, one an earlier string has left, or the default, and the answers about
\* catalogs, cursors and functions do not contradict each other
\* (ConnectionInfo::ConnectionInfo, Connection::InternalGetFunctions).
THEOREM ClaimsAgreeHolds == InfoSpec => []ClaimsAgree
<1>1. InfoInv => ClaimsAgree
  <2> SUFFICES ASSUME InfoInv PROVE ClaimsAgree OBVIOUS
  <2>1. asSchema \in BOOLEAN /\ NamesOfLastConnection BY DEF InfoInv
  <2>2. intParams = IntParams(asSchema) BY <2>1 DEF intParams, IntParamsBuilt
  <2>3. NamespacesAgree
    <3>1. {"CATALOG_NAME", "CATALOG_TERM", "SCHEMA_TERM"} \subseteq DOMAIN StrParams(asSchema) \ Replaced
      BY <2>1, TextsBuilt DEF Replaced
    <3>2. /\ strParams["CATALOG_NAME"] = IF asSchema THEN "N" ELSE "Y"
          /\ strParams["CATALOG_TERM"] = IF asSchema THEN "" ELSE "database"
          /\ strParams["SCHEMA_TERM"] = IF asSchema THEN "schema" ELSE ""
      BY <2>1, <3>1, TextsBuilt DEF InfoInv
    <3>3. /\ intParams["CATALOG_USAGE"] = NamespaceInfo(asSchema)["CATALOG_USAGE"]
          /\ intParams["CATALOG_LOCATION"] = NamespaceInfo(asSchema)["CATALOG_LOCATION"]
          /\ intParams["SCHEMA_USAGE"] = NamespaceInfo(asSchema)["SCHEMA_USAGE"]
      BY <2>1, <2>2, FlagsBuilt DEF NamespaceKeys
    <3>4. /\ intParams["CATALOG_USAGE"] = {} <=> asSchema
          /\ intParams["CATALOG_LOCATION"] = {} <=> asSchema
          /\ intParams["SCHEMA_USAGE"] = {} <=> ~asSchema
      BY <2>1, <3>3 DEF NamespaceInfo, CatalogUsage
    <3> QED BY <2>1, <3>2, <3>4 DEF NamespacesAgree
  <2>4. CursorClaimsAgree
    <3>1. /\ intParams["SCROLL_OPTIONS"] = {"FORWARD_ONLY", "STATIC"}
          /\ intParams["SCROLL_CONCURRENCY"] = {"SCCO_READ_ONLY"}
          /\ intParams["DYNAMIC_CURSOR_ATTRIBUTES1"] = {} /\ intParams["KEYSET_CURSOR_ATTRIBUTES1"] = {}
      BY <2>1, <2>2, FlagsBuilt DEF ScrollInfo, Odbc2Info
    <3>2. /\ "CA1_NEXT" \in intParams["FORWARD_ONLY_CURSOR_ATTRIBUTES1"]
          /\ "CA2_READ_ONLY_CONCURRENCY" \in intParams["FORWARD_ONLY_CURSOR_ATTRIBUTES2"]
      BY <2>1, <2>2, FlagsBuilt DEF ForwardCursorInfo
    <3>3. /\ "CA1_NEXT" \in intParams["STATIC_CURSOR_ATTRIBUTES1"]
          /\ "CA2_READ_ONLY_CONCURRENCY" \in intParams["STATIC_CURSOR_ATTRIBUTES2"]
      BY <2>1, <2>2, FlagsBuilt DEF StaticCursorInfo
    <3> QED BY <3>1, <3>2, <3>3 DEF CursorClaimsAgree, CursorKinds, CursorKind
  <2>5. FunctionAnswersAgree
    <3> SUFFICES ASSUME answer.call = "GetFunctions", functions.odbc3 # {}, functions.odbc2 # {}
                 PROVE  answer.outcome.holds = Number(2, {"TRUE"})
                        <=> answer.type \in functions.odbc3 \cup functions.odbc2
      BY DEF FunctionAnswersAgree
    <3>1. functions.odbc3 = ODBC3Functions /\ functions.odbc2 = ODBC2Functions BY DEF InfoInv
    <3>2. Untouched # Number(2, {"TRUE"}) BY DEF Untouched, Number
    <3>3. OneByOne \subseteq ODBC3Functions \cup ODBC2Functions
      BY DEF OneByOne, OneByOneFirst, OneByOneNext, OneByOneOdbc2, ODBC3Functions, ODBC2Functions
    <3>4. ODBC3Functions \subseteq OneByOne
      BY DEF OneByOne, OneByOneFirst, OneByOneNext, OneByOneOdbc2, ODBC3Functions
    <3>5. ODBC2Functions \subseteq OneByOne
      BY DEF OneByOne, OneByOneFirst, OneByOneNext, OneByOneOdbc2, ODBC2Functions
    <3> QED BY <3>1, <3>2, <3>3, <3>4, <3>5 DEF InfoInv
  <2> QED BY <2>1, <2>3, <2>4, <2>5 DEF ClaimsAgree
<1> QED BY <1>1, InfoInvInit, InfoInvStep, PTL DEF InfoSpec

=============================================================================
