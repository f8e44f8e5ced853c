------------------------------- MODULE DsnSetup -------------------------------
(***************************************************************************)
(* Setting up data sources: ConfigDSN (system_dsn.cpp), the window in      *)
(* which the user edits a configuration (dsn_configuration_window.cpp) and *)
(* the writing of the system's list of data sources (dsn_config.cpp).      *)
(*                                                                         *)
(* ConfigDSN adds, changes or removes a data source.  Every write to the   *)
(* list is an action and may fail.  In the window an action is one message *)
(* the window handles: an edit, a choice, a button.  Of the settings, one  *)
(* stands for those that are enabled and shown together; a text is empty   *)
(* or not.  What a setting of the log does to the Logger is in Logger.     *)
(***************************************************************************)
EXTENDS Integers, Sequences

CONSTANTS Dsns,         \* the valid names of data sources
          Texts,        \* what a text field may hold; "" among them
          MaxRequests,  \* bound: calls of ConfigDSN
          MaxEdits      \* bound: edits and choices in the window, in all calls

ASSUME DsnSetupAssumption == "" \in Texts /\ {"", " "} \cap Dsns = {}

VARIABLES
  ini,      \* the system's list: each name has a section or none
  request,  \* the call of ConfigDSN
  window,   \* DsnConfigurationWindow
  used      \* bounds: calls and edits made

dsnVars == <<ini, request, window, used>>

AuthTypes == {"AWS_PROFILE", "IAM", "AAD", "OKTA"}
AuthFields == {"profileName", "accessKeyId", "roleArn", "idPHost", "aadAppId"}
TextFields == AuthFields \cup {"logPath"}

\* Configuration::ArgumentMap is ordered by name.
KeyOrder == <<"aadAppId", "accessKeyId", "authType", "idPHost", "logPath",
              "maxConnections", "profileName", "roleArn">>
Keys == {KeyOrder[i] : i \in DOMAIN KeyOrder}
Values(key) == CASE key = "authType" -> AuthTypes
                 [] key = "maxConnections" -> {"0", "25"}
                 [] OTHER -> Texts

\* The setting a configuration or a section does not have, and the section a
\* name does not have.
Unset == "unset"
NoSection == [key \in {} |-> Unset]
NothingSet == [key \in Keys |-> Unset]
Default(key) == CASE key = "authType" -> "AWS_PROFILE"
                  [] key = "maxConnections" -> "25"
                  [] OTHER -> ""
Get(config, key) == IF config[key] = Unset THEN Default(key) ELSE config[key]

\* utility::Trim
Trimmed(name) == IF name = " " THEN "" ELSE name

\* OnAuthTypeChanged: the fields an authentication type has.
FieldsOf(authType) ==
  CASE authType = "AWS_PROFILE" -> {"profileName"}
    [] authType = "IAM"         -> {"accessKeyId"}
    [] authType = "OKTA"        -> {"roleArn", "idPHost"}
    [] authType = "AAD"         -> {"roleArn", "aadAppId"}

NoWindow == [open |-> FALSE]
Idle == [at |-> "idle", kind |-> "none", dsn |-> "", name |-> "", config |-> NothingSet,
         left |-> {}, before |-> [d \in Dsns |-> NoSection],
         accepted |-> FALSE, answer |-> FALSE]

DsnInit ==
  /\ ini = [d \in Dsns |-> NoSection]
  /\ request = Idle
  /\ window = NoWindow
  /\ used = [requests |-> 0, edits |-> 0]

Answer(result) ==
  request' = [request EXCEPT !.at = "idle", !.left = {}, !.answer = result]

-----------------------------------------------------------------------------
(* The window *)

\* What the groups of controls show of a configuration.
CreateAuthenticationSettingsGroup(config) ==
  [text |-> [field \in AuthFields |-> Get(config, field)], authType |-> Get(config, "authType")]
CreateAdvancedOptionsGroup(config) == Get(config, "maxConnections")
CreateLogSettingsGroup(config) == Get(config, "logPath")

\* OnCreate.  The log path is always enabled: OnLogLevelChanged looks for "0" in
\* a list that says "Off".
WindowOf(name, config) ==
  LET auth == CreateAuthenticationSettingsGroup(config)
  IN [open |-> TRUE, name |-> name, authType |-> auth.authType,
      text |-> [field \in TextFields |-> IF field = "logPath"
                  THEN CreateLogSettingsGroup(config) ELSE auth.text[field]],
      maxConnections |-> CreateAdvancedOptionsGroup(config),
      enabled |-> FieldsOf(auth.authType) \cup {"logPath"},
      shown |-> {"authType"} \cup FieldsOf(auth.authType),
      tab |-> "AUTHENTICATION", ok |-> name # "",
      nameBalloon |-> FALSE, maxConBalloon |-> FALSE,
      accepted |-> FALSE, closing |-> FALSE]

\* The user acts in the window.
InWindow ==
  /\ request.at = "window" /\ ~window.closing
  /\ UNCHANGED ini
Edited ==
  /\ InWindow /\ used.edits < MaxEdits
  /\ used' = [used EXCEPT !.edits = @ + 1]
  /\ UNCHANGED request

\* By typing, or for the log path by BROWSE_BUTTON.
EditText(field, text) ==
  /\ Edited
  /\ field \in window.shown \cap window.enabled
  /\ window' = [window EXCEPT !.text[field] = text]

\* OnMessage, NAME_EDIT
EditName(name) ==
  /\ Edited
  /\ window' = [window EXCEPT !.name = name, !.ok = name # "",
                              !.nameBalloon = ~@ /\ name = ""]

\* OnMessage, MAX_CONNECTIONS_EDIT
EditMaxConnections(number) ==
  /\ Edited
  /\ "maxConnections" \in window.shown
  /\ window' = [window EXCEPT !.maxConnections = number,
                              !.maxConBalloon = ~@ /\ number = "0"]

OnAuthTypeChanged(authType) ==
  [window EXCEPT !.authType = authType,
                 !.enabled = FieldsOf(authType) \cup {"logPath"},
                 !.shown = {"authType"} \cup FieldsOf(authType)]

ChooseAuthType(authType) ==
  /\ Edited
  /\ "authType" \in window.shown
  /\ window' = OnAuthTypeChanged(authType)

\* What ShowAdvanceAuth, ShowAdvancedOptions and ShowLogSettings show.
ControlsOf(tab) ==
  CASE tab = "AUTHENTICATION"   -> {"authType"} \cup FieldsOf(window.authType)
    [] tab = "ADVANCED_OPTIONS" -> {"maxConnections"}
    [] tab = "LOG_SETTINGS"     -> {"logPath"}

OnSelChanged(tab) ==
  [window EXCEPT !.tab = tab, !.shown = (@ \ ControlsOf(window.tab)) \cup ControlsOf(tab),
                 !.nameBalloon = FALSE, !.maxConBalloon = FALSE]

SelectTab(tab) ==
  /\ InWindow /\ UNCHANGED <<request, used>>
  /\ tab # window.tab
  /\ window' = OnSelChanged(tab)

\* Window::GetText: a control that is not enabled has no text.
GetText(field) == IF field \in window.enabled THEN window.text[field] ELSE ""

\* A log path that is no directory is not set.
RetrieveLogParameters(config) ==
  IF GetText("logPath") = "" THEN config
  ELSE [config EXCEPT !["logPath"] = GetText("logPath")]
RetrieveBasicAuthParameters(config) ==
  [config EXCEPT !["profileName"] = GetText("profileName"),
                 !["accessKeyId"] = GetText("accessKeyId")]
RetrieveAdvanceAuthParameters(config) ==
  [config EXCEPT !["authType"] = window.authType, !["roleArn"] = GetText("roleArn"),
                 !["idPHost"] = GetText("idPHost"), !["aadAppId"] = GetText("aadAppId")]

\* RetrieveConnectionParameters throws.
RetrieveThrows == window.maxConnections = "0"
RetrieveConnectionParameters(config) ==
  IF RetrieveThrows THEN config
  ELSE [config EXCEPT !["maxConnections"] = window.maxConnections]

\* In this order: what is retrieved before the exception stays.
RetrieveParameters(config) ==
  RetrieveConnectionParameters(
    RetrieveAdvanceAuthParameters(RetrieveBasicAuthParameters(RetrieveLogParameters(config))))

\* Faulty: the dialog is accepted before its parameters are retrieved.
OkButtonAcceptsFirst ==
  /\ InWindow /\ window.ok /\ UNCHANGED used
  /\ request' = [request EXCEPT !.name = Trimmed(window.name),
                                !.config = RetrieveParameters(@)]
  /\ window' = [window EXCEPT !.accepted = TRUE, !.closing = ~RetrieveThrows]

\* OnMessage, OK_BUTTON
OkButton ==
  /\ InWindow /\ window.ok /\ UNCHANGED used
  /\ request' = [request EXCEPT !.name = Trimmed(window.name),
                                !.config = RetrieveParameters(@)]
  /\ window' = [window EXCEPT !.accepted = ~RetrieveThrows, !.closing = ~RetrieveThrows]

\* TestConnection retrieves into a configuration of its own, and no handler
\* catches what that throws: the exception leaves the window procedure, which
\* the system may end there or hand on to DisplayConnectionWindow.
TestButton ==
  /\ InWindow /\ UNCHANGED used
  /\ \/ UNCHANGED <<request, window>>
     \/ RetrieveThrows /\ Answer(FALSE) /\ window' = NoWindow

CancelButton ==
  /\ InWindow /\ UNCHANGED <<request, used>>
  /\ window' = [window EXCEPT !.closing = TRUE]

\* Faulty: the old name is removed before the new one is registered.
CloseWindowRemovesFirst ==
  /\ request.at = "window" /\ window.closing
  /\ window' = NoWindow
  /\ IF window.accepted
       THEN /\ request' = [request EXCEPT !.at = "section", !.accepted = TRUE]
            /\ ini' = IF request.name = request.dsn THEN ini
                      ELSE [ini EXCEPT ![request.dsn] = NoSection]
       ELSE Answer(FALSE) /\ UNCHANGED ini
  /\ UNCHANGED used

\* WM_DESTROY and ProcessMessages: the result of DisplayConnectionWindow.
CloseWindow ==
  /\ request.at = "window" /\ window.closing
  /\ window' = NoWindow
  /\ IF window.accepted
       THEN request' = [request EXCEPT !.at = "section", !.accepted = TRUE]
       ELSE Answer(FALSE)
  /\ UNCHANGED <<ini, used>>

-----------------------------------------------------------------------------
(* ConfigDSN *)

\* ReadDsnConfiguration: what the attributes have set is kept.
ReadDsnConfiguration(dsn, config) ==
  [key \in Keys |-> IF config[key] = Unset /\ ini[dsn] # NoSection
                    THEN ini[dsn][key] ELSE config[key]]

\* A name that is not valid, or a request that is not known.
Refused == [Idle EXCEPT !.before = ini]

\* With a parent window the user edits the configuration, and without one it is
\* registered as it is.
ConfigDSN(kind, dsn, attributes, parent) ==
  LET config == IF kind = "ODBC_CONFIG_DSN" /\ dsn \in Dsns
                THEN ReadDsnConfiguration(dsn, attributes) ELSE attributes
      windowed == kind \in {"ODBC_ADD_DSN", "ODBC_CONFIG_DSN"} /\ dsn \in Dsns /\ parent
  IN /\ request.at = "idle" /\ used.requests < MaxRequests
     /\ used' = [used EXCEPT !.requests = @ + 1]
     /\ request' = IF dsn \notin Dsns \/ kind = "other" THEN Refused
          ELSE [Idle EXCEPT !.kind = kind, !.dsn = dsn, !.name = dsn, !.config = config,
                            !.before = ini,
                            !.at = CASE kind = "ODBC_REMOVE_DSN" -> "remove"
                                     [] windowed -> "window"
                                     [] OTHER -> "section"]
     /\ window' = IF windowed THEN WindowOf(dsn, config) ELSE NoWindow
     /\ UNCHANGED ini

\* RegisterDsn: SQLWriteDSNToIni replaces the section by an empty one.
WriteSection ==
  /\ request.at = "section"
  /\ \/ /\ request.name \in Dsns
        /\ ini' = [ini EXCEPT ![request.name] = NothingSet]
        /\ request' = [request EXCEPT !.at = "keys",
                                  !.left = {key \in Keys : request.config[key] # Unset}]
     \/ Answer(FALSE) /\ UNCHANGED ini
  /\ UNCHANGED <<window, used>>

\* The first of the settings left to write, in the order of the map.
FirstLeft(key) ==
  \E i \in DOMAIN KeyOrder : /\ key = KeyOrder[i] /\ key \in request.left
                            /\ \A j \in 1..i - 1 : KeyOrder[j] \notin request.left

\* Faulty: a setting that cannot be written is passed over.
WriteDsnStringOrNot(key) ==
  /\ request.at = "keys" /\ FirstLeft(key)
  /\ request' = [request EXCEPT !.left = @ \ {key}]
  /\ \/ ini' = [ini EXCEPT ![request.name][key] = request.config[key]]
     \/ UNCHANGED ini
  /\ UNCHANGED <<window, used>>

WriteDsnString(key) ==
  /\ request.at = "keys" /\ FirstLeft(key)
  /\ \/ /\ request' = [request EXCEPT !.left = @ \ {key}]
        /\ ini' = [ini EXCEPT ![request.name][key] = request.config[key]]
     \/ Answer(FALSE) /\ UNCHANGED ini
  /\ UNCHANGED <<window, used>>

\* After InternalRegisterDsn: a changed name leaves the old one to be removed.
Registered ==
  /\ request.at = "keys" /\ request.left = {}
  /\ IF request.kind = "ODBC_CONFIG_DSN" /\ request.name # request.dsn
       THEN request' = [request EXCEPT !.at = "remove"]
       ELSE Answer(TRUE)
  /\ UNCHANGED <<ini, window, used>>

\* UnregisterDsn
RemoveDsn ==
  /\ request.at = "remove"
  /\ \/ ini' = [ini EXCEPT ![request.dsn] = NoSection] /\ Answer(TRUE)
     \/ Answer(FALSE) /\ UNCHANGED ini
  /\ UNCHANGED <<window, used>>

-----------------------------------------------------------------------------
\* The attributes of the calls.
AttributeSets ==
  {NothingSet, [NothingSet EXCEPT !["authType"] = "IAM", !["accessKeyId"] = "x"]}

WindowNext ==
  \/ \E field \in TextFields, text \in Texts : EditText(field, text)
  \/ \E name \in Dsns \cup {"", " "} : EditName(name)
  \/ \E number \in Values("maxConnections") : EditMaxConnections(number)
  \/ \E authType \in AuthTypes : ChooseAuthType(authType)
  \/ \E tab \in {"AUTHENTICATION", "ADVANCED_OPTIONS", "LOG_SETTINGS"} : SelectTab(tab)
  \/ OkButton \/ TestButton \/ CancelButton \/ CloseWindow

DsnNext ==
  \/ \E kind \in {"ODBC_ADD_DSN", "ODBC_CONFIG_DSN", "ODBC_REMOVE_DSN", "other"},
        dsn \in Dsns \cup {""}, attributes \in AttributeSets, parent \in BOOLEAN :
          ConfigDSN(kind, dsn, attributes, parent)
  \/ WindowNext
  \/ \E key \in Keys : WriteDsnString(key)
  \/ WriteSection \/ Registered \/ RemoveDsn

DsnSpec == DsnInit /\ [][DsnNext]_dsnVars

-----------------------------------------------------------------------------
(* Properties *)

\* ConfigDSN answers TRUE only when the data source holds every setting of the
\* configuration, under the name it was given, and is not kept under the old
\* name: a failure at any write is answered FALSE (system_dsn.cpp:146-203).
SuccessMeansStored ==
  request.at = "idle" /\ request.answer
    => CASE request.kind = "ODBC_REMOVE_DSN" -> ini[request.dsn] = NoSection
         [] OTHER -> /\ ini[request.name] = request.config
                     /\ request.kind = "ODBC_CONFIG_DSN" /\ request.name # request.dsn
                          => ini[request.dsn] = NoSection

\* Renaming a data source never loses it: at every moment, and whatever write
\* fails, the old name has its old settings or the new name has all of the new
\* ones (system_dsn.cpp:178-184).
RenameLosesNothing ==
  /\ request.kind = "ODBC_CONFIG_DSN" /\ request.name # request.dsn
  /\ request.at # "window"
  => \/ ini[request.dsn] = request.before[request.dsn]
     \/ request.name \in Dsns /\ ini[request.name] = request.config

\* A configuration that was accepted in the window holds the texts of its
\* authentication type and of no other, and a number of connections that is
\* positive: secrets of a type that was given up are not stored
\* (dsn_configuration_window.cpp:407-478 and window.cpp:114).
AcceptedIsWhole ==
  request.accepted
    => /\ request.config["maxConnections"] = "25"
       /\ \A field \in AuthFields \ FieldsOf(request.config["authType"]) :
            request.config[field] = ""

=============================================================================
