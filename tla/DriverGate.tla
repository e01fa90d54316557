------------------------------ MODULE DriverGate ------------------------------
(***************************************************************************)
(* How the DuckDB and the openGauss driver take a host: init, once and for *)
(* a host that is new enough, and conn/test and conn/open, which do not look *)
(* whether init came before, with the configuration of the wire, which     *)
(* carries parameters at its top level and under "extra_params", some of   *)
(* them under two names.                                                   *)
(* A parameter that is not given is Absent; Null is the value null.        *)
(* External: the database server and its TLS.                              *)
(***************************************************************************)
EXTENDS Naturals, Sequences, SequencesExt

CONSTANTS Driver,        \* "duckdb" or "opengauss"
          HostVersions,  \* [parses, core, pre]: core counts up, pre is a pre-release
          MinimumHost,   \* MINIMUM_HOST_VERSION as a core
          Configs,       \* wire configurations: [top, extra], functions of Names
          Servers,       \* [tls, certificate]: has TLS, its certificate holds
          MaxOpens

\* What the constants are.
GateAssumption == Driver \in {"duckdb", "opengauss"} /\ MaxOpens \in Nat

VARIABLES initialized,   \* the once flag
          next_conn_id,
          opened,        \* the connections: [id, as], what Connect made
          saved          \* the host's saved connection and its server (external)

vars == <<initialized, next_conn_id, opened, saved>>

Absent == "absent"
Null == "null"
Blank == "blank"
Error == [error |-> TRUE]
Failed(r) == "error" \in DOMAIN r
-----------------------------------------------------------------------------
(* The openGauss configuration *)

\* from_wire_config: extra_params fill in the names that are not there; one
\* that is there with the value null stays.
Merged(config) ==
  [n \in DOMAIN config.top |-> IF config.top[n] # Absent THEN config.top[n] ELSE config.extra[n]]

\* serde: a field under both of its names is an error.
Field(m, name, alias) ==
  IF m[name] = Absent THEN m[alias] ELSE IF m[alias] = Absent THEN m[name] ELSE "duplicate"

\* Mutant: an unknown mode connects without TLS.
ParseSslModeLax(v) == IF v \in {"prefer", "require"} THEN v ELSE "disable"

\* parse_ssl_mode
ParseSslMode(v) ==
  CASE v \in {Absent, Null, "disable"} -> "disable"
    [] v \in {"prefer", "require"} -> v
    [] OTHER -> "unsupported"

\* deserialize_optional_bool, parse_bool_string: blank is FALSE, a word that is
\* no truth value is an error; a flag that is not given is the library's FALSE.
ParseBool(v) ==
  CASE v = "true" -> "true" [] v \in {Absent, Null, Blank} -> "false" [] OTHER -> "unsupported"

\* connect with requires_tls_connector: without TLS the server is asked for none.
\* With it a certificate that does not hold is a failure, of "prefer" too.
Negotiated(mode, acceptsInvalid, server) ==
  CASE mode = "disable" -> "plain"
    [] mode = "prefer" /\ ~server.tls -> "plain"
    [] OTHER -> IF server.tls /\ (server.certificate \/ acceptsInvalid) THEN "tls" ELSE "refused"

\* from_wire_config, to_client_config and OpenGaussSession::connect.
ConnectOpenGauss(config, server) ==
  LET m == Merged(config)
      user == Field(m, "username", "user")
      mode == ParseSslMode(m["ssl_mode"])
      accepts == ParseBool(m["ssl_accept_invalid_certs"])
      link == Negotiated(mode, accepts = "true", server)
  IN IF user \in {"duplicate", Null} \/ accepts = "unsupported" \/ mode = "unsupported" \/ link = "refused"
     THEN Error
     ELSE [user |-> IF user = Absent THEN "gaussdb" ELSE user, link |-> link]

\* database_path and DuckDbSession::connect: the first that is not blank.  A host
\* that is null is not a string.
DatabasePath(config) ==
  LET given == SelectSeq(<<config.top["host"], config.top["database"], config.extra["path"]>>,
                         LAMBDA v : v \notin {Absent, Blank, Null})
  IN IF given = <<>> \/ config.top["host"] = Null THEN Error ELSE [path |-> Head(given)]

Connect(config, server) ==
  IF Driver = "duckdb" THEN DatabasePath(config) ELSE ConnectOpenGauss(config, server)
-----------------------------------------------------------------------------
\* ensure_compatible_host: a pre-release satisfies no requirement without one.
Compatible(v) == v.parses /\ v.core >= MinimumHost /\ ~v.pre

Init == /\ initialized = 0 /\ next_conn_id = 1 /\ opened = <<>>
        /\ saved \in [config : Configs, server : Servers]

\* handle_init: a host that is too old is refused and leaves the flag alone.
HandleInit(v) ==
  /\ initialized' = IF Compatible(v) THEN 1 ELSE initialized
  /\ UNCHANGED <<next_conn_id, opened, saved>>

\* handle_conn_test: a connection of its own, which it drops on every path; it takes
\* no id and leaves nothing behind but its answer.
HandleConnTest == UNCHANGED vars

\* open_connection: an id is taken once the connection is there.
OpenConnection ==
  /\ next_conn_id <= MaxOpens
  /\ LET as == Connect(saved.config, saved.server) IN
     /\ ~Failed(as)
     /\ opened' = Append(opened, [id |-> next_conn_id, as |-> as])
     /\ next_conn_id' = next_conn_id + 1
  /\ UNCHANGED <<initialized, saved>>

\* The same when it fails: no id is lost.
OpenConnectionFails ==
  /\ Failed(Connect(saved.config, saved.server)) /\ UNCHANGED vars

\* DriverConnection::close: the connection is dropped.
Close(i) ==
  /\ opened' = RemoveAt(opened, i)
  /\ UNCHANGED <<initialized, next_conn_id, saved>>

Next == \/ \E v \in HostVersions : HandleInit(v)
        \/ HandleConnTest \/ OpenConnection \/ OpenConnectionFails
        \/ \E i \in DOMAIN opened : Close(i)

Spec == Init /\ [][Next]_vars
-----------------------------------------------------------------------------
\* No two connections the host has open have one id, although others were closed
\* in between.
IdsAreNew == \A i, j \in DOMAIN opened : opened[i].id = opened[j].id => i = j

\* A configuration that says "require" at either level never gets a plain connection,
\* unless its top level says otherwise, where null counts as saying so; TLS comes only
\* to one that names it; and a word that is no mode gets no connection at all.
TlsIsAsAsked ==
  \A i \in DOMAIN opened :
    LET top == saved.config.top["ssl_mode"]  extra == saved.config.extra["ssl_mode"] IN
    /\ "require" \in {top, extra} => opened[i].as.link = "tls" \/ top \in {"disable", "prefer", Null}
    /\ opened[i].as.link = "tls" => {top, extra} \cap {"require", "prefer"} # {}
    /\ {top, extra} \subseteq {"disable", "prefer", "require", Absent, Null} \/ top \in {"disable", "prefer", "require", Null}

\* A connection with a certificate that does not hold is one the configuration
\* accepts, "prefer" included, and is not a plain one in its place.
CertificatesHold ==
  \A i \in DOMAIN opened :
    LET c == saved.config IN
    opened[i].as.link = "tls" /\ ~saved.server.certificate =>
      "true" \in {c.top["ssl_accept_invalid_certs"], c.extra["ssl_accept_invalid_certs"]}

\* A user named at the top level, under either name, is the one that connects.
UserIsAsked ==
  \A i \in DOMAIN opened : \A name \in {"username", "user"} :
    LET c == saved.config IN
    c.top[name] # Absent => opened[i].as.user = c.top[name]

\* The file DuckDB opens is the host, else the database, else the path of
\* extra_params, and never a blank name, which would be a database in memory.
PathIsAsked ==
  \A i \in DOMAIN opened :
    LET c == saved.config  path == opened[i].as.path IN
    /\ path \notin {Blank, Absent, Null}
    /\ c.top["host"] \notin {Blank, Absent} => path = c.top["host"]
    /\ c.top["host"] \in {Blank, Absent} /\ c.top["database"] \notin {Blank, Absent, Null} => path = c.top["database"]

\* A host gets the connection that it asked for, under an id of its own.
GateHolds ==
  /\ IdsAreNew
  /\ IF Driver = "duckdb" THEN PathIsAsked ELSE TlsIsAsAsked /\ CertificatesHold /\ UserIsAsked
=============================================================================
