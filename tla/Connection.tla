------------------------------ MODULE Connection ------------------------------
(***************************************************************************)
(* One connection handle: SQLDriverConnect, SQLConnect, SQLDisconnect and  *)
(* the records they leave for SQLError (connection.cpp, odbc.cpp,          *)
(* config/*.cpp, dsn_config.cpp, authentication/*.cpp, diagnostic/*.cpp).  *)
(*                                                                         *)
(* An attempt to connect takes one step per pair of the connection string  *)
(* and one per request that can fail: to the identity provider, to the     *)
(* token service, to IoT SiteWise.  A handle is used by one thread.        *)
(*                                                                         *)
(* Data.  A connection string is the sequence of its pairs; what has no    *)
(* key is skipped by the parser and left out.  Settings that are treated   *)
(* alike are represented by one: "region" for the free texts that become   *)
(* part of the client, "idparn" for those an identity provider requires,   *)
(* the names for the passwords too, three numbers for the five.  Texts are *)
(* model values.  The values of the connection's attributes are left out.  *)
(***************************************************************************)
EXTENDS Integers, Sequences

CONSTANTS
  Strings,    \* the connection strings: sequences of pairs
  Dsns,       \* the settings of each data source, Unset where it has none
  Users,      \* the user names SQLConnect may be given
  Texts,      \* texts, other than Empty and DefaultText
  Empty,      \* the empty text
  DefaultText,\* the default region
  Unset,      \* no value
  NaN,        \* a number that is empty, too long or not all digits
  IntMax      \* INT32_MAX

NumKeys  == {"requesttimeout", "connectiontimeout", "maxretrycountclient"}
NameKeys == {"uid", "accesskeyid", "idpusername"}
TextKeys == {"region", "profilename", "idparn"} \cup NameKeys
Keys     == {"dsn", "auth"} \cup TextKeys \cup NumKeys

AuthTypes == {"AWS_PROFILE", "IAM", "OKTA", "AAD"}
AllTexts  == Texts \cup {Empty, DefaultText}
Numbers   == (-IntMax - 1) .. IntMax
UintMax   == 2 * IntMax + 1

ASSUME IntMaxAssumption == IntMax \in Nat \ {0}
ASSUME UnsetAssumption ==
  /\ Unset \notin DOMAIN Dsns \cup AuthTypes \cup AllTexts \cup {NaN}
  /\ Unset \notin Int

\* What each setting may be.
Domain(k) ==
  CASE k = "dsn"       -> DOMAIN Dsns
    [] k = "auth"      -> AuthTypes
    [] k \in TextKeys  -> AllTexts
    [] k \in NumKeys   -> Numbers

IsConfig(c) ==
  /\ c = [k \in Keys |-> c[k]]
  /\ \A k \in Keys : c[k] \in Domain(k) \cup {Unset}

\* A pair of a connection string: a key, known or not, and its value.  An auth
\* type that is not known is "other".
Pairs ==
  [key : {"dsn"}, value : DOMAIN Dsns]
  \cup [key : {"auth"}, value : AuthTypes \cup {"other"}]
  \cup [key : TextKeys, value : AllTexts]
  \cup [key : NumKeys, value : Nat \cup {NaN}]
  \cup [key : {"unknown"}, value : AllTexts]

ASSUME InputsAssumption ==
  /\ Strings \subseteq Seq(Pairs)
  /\ \A d \in DOMAIN Dsns : IsConfig(Dsns[d]) /\ Dsns[d]["dsn"] = Unset
  /\ Users \subseteq AllTexts

VARIABLES
  config,     \* Connection::config_
  client,     \* Connection::client_: the settings it was made with, or None
  saml,       \* samlCredProvider_ is set
  records,    \* the status records of the last call
  ret,        \* the result in the header of the records
  pc,         \* where the call is
  todo,       \* the pairs of the connection string not handled yet
  connected,  \* history: an attempt got through and was not released since
  asked,      \* history: the client the attempt under way asks for, or None
  inherited   \* history: it began with settings of earlier attempts

vars == <<config, client, saml, records, ret, pc, todo, connected, asked,
          inherited>>

NoSettings == [k \in Keys |-> Unset]
None == [user |-> Unset]

\* The default timeouts, 3000 and 1000, are two numbers.
Default(k) ==
  CASE k = "auth"                -> "AWS_PROFILE"
    [] k = "region"              -> DefaultText
    [] k = "requesttimeout"      -> IntMax
    [] k = "connectiontimeout"   -> IntMax - 1
    [] k = "maxretrycountclient" -> 0
    [] OTHER                     -> Empty

Value(c, k) == IF c[k] = Unset THEN Default(k) ELSE c[k]

Record(state) == [state |-> state, retrieved |-> FALSE]
States == {"01S00", "01S02", "01000", "08001", "08002", "08003", "HYC00"}

Init ==
  /\ config = NoSettings /\ client = None /\ saml = FALSE
  /\ records = <<>> /\ ret = "SUCCESS" /\ pc = "idle" /\ todo = <<>>
  /\ connected = FALSE /\ asked = None /\ inherited = FALSE

-----------------------------------------------------------------------------
(* The settings *)

\* GetDSNUserName (GetDSNPassword has the same form).
GetDSNUserName(c) ==
  CASE Value(c, "uid") # Empty -> Value(c, "uid")
    [] Value(c, "uid") = Empty /\ Value(c, "auth") = "IAM" ->
         Value(c, "accesskeyid")
    [] Value(c, "uid") = Empty /\ Value(c, "auth") \in {"OKTA", "AAD"} ->
         Value(c, "idpusername")
    [] OTHER -> Empty

\* Validate: each type of authentication needs its settings.
Validate(c) ==
  /\ Value(c, "auth") # "AWS_PROFILE" => GetDSNUserName(c) # Empty
  /\ Value(c, "auth") \in {"OKTA", "AAD"} => Value(c, "idparn") # Empty

\* A uint32_t stored in an int32_t.
AsInt32(n) == IF n <= IntMax THEN n ELSE (n - UintMax) - 1

\* The numbers HandleAttributePair takes; its other branches reject nothing
\* but an auth type it does not know.
Accepts(p) ==
  CASE p.key \in NumKeys ->
         /\ p.value # NaN
         /\ p.value <= UintMax
         /\ p.key # "maxretrycountclient" => p.value > 0
    [] p.key = "auth" -> p.value # "other"
    [] OTHER          -> p.key \in Keys

\* What HandleAttributePair makes of the settings c.
HandleAttributePair(c, p) ==
  CASE ~Accepts(p) -> c
    [] Accepts(p) /\ p.key \in NumKeys ->
         [c EXCEPT ![p.key] = AsInt32(p.value)]
    [] OTHER -> [c EXCEPT ![p.key] = p.value]

\* It warns of a value it does not take and of a name given twice.
Warns(c, p) ==
  \/ ~Accepts(p)
  \/ p.key \in NameKeys /\ Value(c, p.key) # Empty

\* Is<Key>Set: an empty profile name counts as not set.
IsSet(c, k) == c[k] # Unset /\ (k = "profilename" => c[k] # Empty)

\* ReadDsnConfiguration: the settings of the data source d fill those that
\* are not set.  The connection timeout is looked at when the data source has
\* a request timeout, and is 0 when it has none of its own.
ReadDsnConfiguration(d, c) ==
  [k \in Keys |->
     CASE IsSet(c, k) -> c[k]
       [] ~IsSet(c, k) /\ k = "connectiontimeout" ->
            IF d["requesttimeout"] = Unset THEN Unset
            ELSE IF d[k] = Unset THEN 0 ELSE d[k]
       [] OTHER -> IF d[k] = Unset THEN c[k] ELSE d[k]]

\* What a client is made of, by the settings c: credentials, a region, the
\* timeouts and the retries, 0 for those of the SDK's own strategy.
ClientOf(c) ==
  [user |-> IF Value(c, "auth") = "AWS_PROFILE" THEN Value(c, "profilename")
            ELSE GetDSNUserName(c),
   region |-> Value(c, "region"),
   requesttimeout |-> Value(c, "requesttimeout"),
   connectiontimeout |-> Value(c, "connectiontimeout"),
   retries |-> IF Value(c, "maxretrycountclient") > 0
                 THEN Value(c, "maxretrycountclient") ELSE 0]

-----------------------------------------------------------------------------
(* Reference: the client asked for.  The first pair that gives a setting an  *)
(* acceptable value counts, then the data source, then the default.          *)

Given(s, k) == {i \in DOMAIN s : s[i].key = k /\ Accepts(s[i])}

FirstGiven(s, k) ==
  IF Given(s, k) = {} THEN Unset
  ELSE s[CHOOSE i \in Given(s, k) : \A j \in Given(s, k) : i <= j].value

\* The client the string s asks for, Unset where that is not clear: for a
\* number that does not fit, and for the connection timeout of a data source
\* that has one of the timeouts only.  An empty profile name asks for none: the
\* data source's counts.
AskedFor(s) ==
  LET d == FirstGiven(s, "dsn")
      given(k) == \/ FirstGiven(s, k) \notin {Unset, Empty}
                  \/ FirstGiven(s, k) = Empty /\ k # "profilename"
      settings == [k \in Keys |-> IF d # Unset /\ ~given(k) THEN Dsns[d][k]
                                                            ELSE FirstGiven(s, k)]
      c == ClientOf(settings)
      fits(n) == IF n > IntMax THEN Unset ELSE n
  IN  [c EXCEPT
         !.requesttimeout = fits(c.requesttimeout),
         !.connectiontimeout =
           IF /\ FirstGiven(s, "connectiontimeout") = Unset
              /\ d # Unset
              /\ (Dsns[d]["requesttimeout"] = Unset)
                   # (Dsns[d]["connectiontimeout"] = Unset)
             THEN Unset ELSE fits(c.connectiontimeout),
         !.retries = fits(c.retries)]

-----------------------------------------------------------------------------
(* The calls *)

\* The call ends with the records and the result given.
Returns(recs, r) ==
  /\ pc' = "idle" /\ records' = recs /\ ret' = r
  /\ asked' = None /\ inherited' = FALSE

\* Close.
NoClient == client' = None /\ saml' = FALSE

\* Faulty: an attempt that fails keeps what it has built.
FailsUnclosed ==
  /\ Returns(Append(records, Record("08001")), "ERROR")
  /\ UNCHANGED <<config, client, saml, todo, connected>>

\* TryRestoreConnection gives up: closes, and InternalEstablish reports it.
Fails ==
  /\ Returns(Append(records, Record("08001")), "ERROR")
  /\ NoClient
  /\ UNCHANGED <<config, todo, connected>>

\* Faulty: connects again without looking.
EstablishAgain(c, recs, a, inh) ==
  /\ config' = c
  /\ pc' = "auth"
  /\ records' = recs /\ ret' = "ERROR" /\ asked' = a /\ inherited' = inh
  /\ UNCHANGED <<client, saml, connected>>

\* InternalEstablish(cfg), up to the authentication, with the records recs so
\* far.  The settings are taken over before anything is looked at.
InternalEstablish(c, recs, a, inh) ==
  /\ config' = c
  /\ \/ /\ client # None
        /\ Returns(Append(recs, Record("08002")), "ERROR")
     \/ /\ client = None /\ ~Validate(c)
        /\ Returns(Append(recs, Record("01S00")), "ERROR")
     \/ /\ client = None /\ Validate(c)
        /\ pc' = "auth"
        /\ records' = recs /\ ret' = "ERROR" /\ asked' = a /\ inherited' = inh
  /\ UNCHANGED <<client, saml, connected>>

\* SQLDriverConnect begins: the records are reset and the string is parsed
\* into the settings that are there.
DriverConnect ==
  /\ pc = "idle"
  /\ \E s \in Strings : todo' = s /\ asked' = AskedFor(s)
  /\ inherited' = (config # NoSettings)
  /\ pc' = "parse" /\ records' = <<>> /\ ret' = "ERROR"
  /\ UNCHANGED <<config, client, saml, connected>>

\* Faulty: handles the pairs from the first to the last.
ParsePairForward ==
  /\ pc = "parse" /\ todo # <<>>
  /\ config' = HandleAttributePair(config, Head(todo))
  /\ records' = IF Warns(config, Head(todo))
                  THEN Append(records, Record("01S02")) ELSE records
  /\ todo' = Tail(todo)
  /\ UNCHANGED <<client, saml, ret, pc, connected, asked, inherited>>

\* ParseConnectionString handles the pairs from the last to the first.
ParsePair ==
  /\ pc = "parse" /\ todo # <<>>
  /\ LET p == todo[Len(todo)]
     IN  /\ config' = HandleAttributePair(config, p)
         /\ records' = IF Warns(config, p)
                         THEN Append(records, Record("01S02")) ELSE records
  /\ todo' = SubSeq(todo, 1, Len(todo) - 1)
  /\ UNCHANGED <<client, saml, ret, pc, connected, asked, inherited>>

\* InternalEstablish(connectStr), after the parser.
Establish ==
  /\ pc = "parse" /\ todo = <<>>
  /\ InternalEstablish(
       IF config["dsn"] = Unset THEN config
       ELSE ReadDsnConfiguration(Dsns[config["dsn"]], config),
       records, asked, inherited)
  /\ UNCHANGED todo

\* SQLConnect: new settings from the data source, and the user name.  The name
\* of the data source is not kept.
SQLConnect ==
  /\ pc = "idle"
  /\ \E d \in DOMAIN Dsns, user \in Users \cup {Unset} :
       LET c    == ReadDsnConfiguration(Dsns[d], NoSettings)
           name == IF user = Unset THEN <<>>
                   ELSE <<[key |-> "uid", value |-> user]>>
       IN  InternalEstablish(
             IF user = Unset THEN c ELSE [c EXCEPT !["uid"] = user],
             <<>>, AskedFor(<<[key |-> "dsn", value |-> d]>> \o name), FALSE)
  /\ UNCHANGED todo

-----------------------------------------------------------------------------
(* TryRestoreConnection.  Each request succeeds or fails. *)

GoesOn(next) ==
  /\ pc' = next
  /\ UNCHANGED <<config, client, records, ret, todo, connected, asked,
                 inherited>>

Authenticate ==
  /\ pc = "auth" /\ Value(config, "auth") \in {"OKTA", "AAD"}
  /\ saml' = TRUE
  /\ GoesOn(IF Value(config, "auth") = "OKTA" THEN "session" ELSE "token")

\* Okta: a session token, and the SAML assertion with it.
GetSessionToken ==
  /\ pc = "session"
  /\ Fails \/ (GoesOn("assertion") /\ UNCHANGED saml)

GetSAMLAssertion ==
  /\ pc = "assertion"
  /\ Fails \/ (GoesOn("role") /\ UNCHANGED saml)

\* Azure AD: an access token, of which the assertion is made.
GetAccessToken ==
  /\ pc = "token"
  /\ Fails \/ (GoesOn("role") /\ UNCHANGED saml)

\* The client is made with the credentials and the settings.
CreateClient ==
  /\ client' = ClientOf(config)
  /\ pc' = "try"
  /\ UNCHANGED <<config, saml, records, ret, todo, connected, asked, inherited>>

\* The assertion is exchanged for credentials, which may be empty.
FetchCredentialsWithSAMLAssertion == pc = "role" /\ (Fails \/ CreateClient)

\* The credentials of a profile may be empty; those of IAM are not, by
\* Validate.
OtherCredentials ==
  /\ pc = "auth"
  /\ \/ Value(config, "auth") = "AWS_PROFILE" /\ Fails
     \/ Value(config, "auth") \in {"AWS_PROFILE", "IAM"} /\ CreateClient

\* Faulty: a connection with warnings is a success.
TryClientQuietly ==
  /\ pc = "try"
  /\ \/ Fails
     \/ /\ Returns(records, "SUCCESS")
        /\ connected' = TRUE
        /\ UNCHANGED <<config, client, saml, todo>>

\* A query is tried with the client.
TryClient ==
  /\ pc = "try"
  /\ \/ Fails
     \/ /\ Returns(records, IF records = <<>> THEN "SUCCESS"
                                              ELSE "SUCCESS_WITH_INFO")
        /\ connected' = TRUE
        /\ UNCHANGED <<config, client, saml, todo>>

-----------------------------------------------------------------------------
(* Release, the other calls and the records *)

\* SQLDisconnect.
InternalRelease ==
  /\ pc = "idle"
  /\ IF client = None
       THEN Returns(<<Record("08003")>>, "SUCCESS_WITH_INFO")
       ELSE Returns(<<>>, "SUCCESS")
  /\ NoClient
  /\ connected' = FALSE
  /\ UNCHANGED <<config, todo>>

\* SQLFreeHandle destroys the connection; another one takes its place.
Destroy ==
  /\ pc = "idle"
  /\ Returns(<<>>, "SUCCESS")
  /\ config' = NoSettings
  /\ NoClient
  /\ connected' = FALSE
  /\ UNCHANGED todo

\* A call that only answers: it resets the records and leaves one unless it
\* succeeds.
Answers(r, state) ==
  /\ pc = "idle"
  /\ Returns(IF r = "SUCCESS" THEN <<>> ELSE <<Record(state)>>, r)
  /\ UNCHANGED <<config, client, saml, todo, connected>>

InternalGetInfo      == Answers("SUCCESS", "") \/ Answers("ERROR", "HYC00")
InternalGetAttribute == Answers("SUCCESS", "") \/ Answers("ERROR", "HYC00")
InternalSetAttribute == Answers("SUCCESS", "") \/ Answers("ERROR", "HYC00")
InternalSetConnectOption ==
  InternalSetAttribute \/ Answers("SUCCESS_WITH_INFO", "01000")
InternalGetConnectOption ==
  InternalGetAttribute \/ Answers("SUCCESS_WITH_INFO", "01000")

\* SQLError hands out the first record not handed out yet.  SQLGetDiagRec and
\* SQLGetDiagField read a record by its number and change nothing.
SQLError ==
  /\ pc = "idle"
  /\ \E i \in DOMAIN records :
       /\ ~records[i].retrieved
       /\ \A j \in 1 .. (i - 1) : records[j].retrieved
       /\ records' = [records EXCEPT ![i].retrieved = TRUE]
  /\ UNCHANGED <<config, client, saml, ret, pc, todo, connected, asked,
                 inherited>>

Next ==
  \/ DriverConnect \/ ParsePair \/ Establish \/ SQLConnect
  \/ Authenticate \/ GetSessionToken \/ GetSAMLAssertion \/ GetAccessToken
  \/ FetchCredentialsWithSAMLAssertion \/ OtherCredentials \/ TryClient
  \/ InternalRelease \/ Destroy
  \/ InternalGetInfo \/ InternalGetAttribute \/ InternalSetAttribute
  \/ InternalSetConnectOption \/ InternalGetConnectOption
  \/ SQLError

Spec == Init /\ [][Next]_vars

-----------------------------------------------------------------------------
(* Properties *)

PcSet == {"idle", "parse", "auth", "session", "assertion", "token", "role",
          "try"}

ClientType ==
  [user : AllTexts, region : AllTexts, requesttimeout : Numbers,
   connectiontimeout : Numbers, retries : Numbers]

\* Every setting has its type: in particular the numbers of the connection
\* string are stored within the int32_t that holds them
\* (connection_string_parser.cpp:207, configuration.h).
TypeOK ==
  /\ IsConfig(config)
  /\ client = None \/ client \in ClientType
  /\ saml \in BOOLEAN /\ connected \in BOOLEAN /\ inherited \in BOOLEAN
  /\ records \in Seq([state : States, retrieved : BOOLEAN])
  /\ ret \in {"SUCCESS", "SUCCESS_WITH_INFO", "ERROR"}
  /\ pc \in PcSet /\ todo \in Seq(Pairs)

\* Between calls there is a client exactly when an attempt to connect got
\* through and was not released since, and the credentials provider of an
\* attempt is gone unless its client is there: an attempt that fails at any of
\* its steps leaves nothing that makes the next one be refused
\* (connection.cpp:178) or that keeps its credentials.
ClientIffConnected ==
  pc = "idle" => /\ client # None <=> connected
                 /\ saml => connected

\* The client of a connection is never replaced: an attempt on a connection
\* that is connected is refused, and its outcome does not touch the client the
\* statements use; only SQLDisconnect and the end of the connection remove it.
ClientNotReplaced ==
  [][connected => \/ client' = client /\ connected'
                  \/ client' = None /\ ~connected']_vars

\* The client is made with the settings its caller asked for: the first
\* acceptable value in the connection string, or else that of the data source,
\* or else the default.  A profile name of the string that is empty is the one
\* that does not count, unlike any other empty text (configuration.cpp:212): the
\* data source's is used.  An attempt of SQLDriverConnect on a connection that
\* was used before starts from the settings that are there
\* (connection.cpp:143) and is left out.
SettingsAsAsked ==
  pc = "try" /\ ~inherited =>
    \A f \in DOMAIN client : asked[f] \in {Unset, client[f]}

\* Every result but success is explained by a record, and a success has none
\* (diagnosable_adapter.h:27 resets them with each call).
ResultExplained == pc = "idle" => (ret = "SUCCESS" <=> records = <<>>)

\* SQLError hands out each record once, in the order they were added.
RecordsInOrder ==
  \A i, j \in DOMAIN records :
    i < j /\ records[j].retrieved => records[i].retrieved

=============================================================================
