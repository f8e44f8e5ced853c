----------------------------- MODULE MCConnection -----------------------------
(* Data sources, connection strings and user names for model checking the    *)
(* connection.  A behaviour either connects and releases, or asks a          *)
(* connection for information; the two share no state.                       *)
EXTENDS Connection, Information, TLC

CONSTANTS d1, d2, a, b

Pair(k, v) == [key |-> k, value |-> v]

\* A data source with everything IAM needs, and one with a profile and
\* a request timeout only.
MCDsns ==
  (d1 :> [NoSettings EXCEPT !["auth"] = "IAM", !["accesskeyid"] = a,
                            !["region"] = a, !["requesttimeout"] = 1,
                            !["connectiontimeout"] = 1])
  @@ (d2 :> [NoSettings EXCEPT !["requesttimeout"] = 1, !["profilename"] = b])

\* Each type of authentication, complete or not; a setting given twice, given
\* and in the data source, given an empty value, a number that is zero, that
\* does not fit or that is none, and a key that is not known.
MCStrings ==
  {<<Pair("dsn", d1), Pair("region", Empty), Pair("connectiontimeout", 2)>>,
   <<Pair("profilename", Empty), Pair("dsn", d2), Pair("profilename", a),
     Pair("unknown", a)>>,
   <<Pair("auth", "IAM"), Pair("uid", a), Pair("uid", b)>>,
   <<Pair("auth", "other"), Pair("auth", "OKTA"), Pair("idpusername", a)>>,
   <<Pair("auth", "OKTA"), Pair("idpusername", a), Pair("idparn", a)>>,
   <<Pair("auth", "AAD"), Pair("uid", b), Pair("idparn", a)>>,
   <<Pair("requesttimeout", NaN), Pair("requesttimeout", 0),
     Pair("requesttimeout", 5), Pair("maxretrycountclient", 9)>>}

MCUsers == {Empty, b}

VARIABLE part      \* "connect" or "information"

ConnectionInit ==
  \/ part = "connect" /\ Init /\ InfoInit /\ asSchema = FALSE
  \/ part = "information" /\ Init /\ InfoInit

ConnectionNext ==
  /\ part' = part
  /\ \/ part = "connect" /\ Next /\ UNCHANGED infoVars
     \/ part = "information" /\ InfoNext /\ UNCHANGED vars

ConnectionSpec ==
  ConnectionInit /\ [][ConnectionNext]_<<part, vars, infoVars>>
=============================================================================
