------------------------------ MODULE MCServices ------------------------------
(***************************************************************************)
(* The drivers of services that are no SQL databases, for TLC: the         *)
(* Elasticsearch provider (jobs, event streams, the wire to the host), the *)
(* Redis driver (calls, streams) and the MongoDB drivers (opening, finds). *)
(* A behaviour is one use of one driver; the others stay at their first    *)
(* state.                                                                  *)
(***************************************************************************)
EXTENDS EsProvider, Redis, Integers

VARIABLES use,
          generation, server, conn, documents, found, last

mongoVars == <<generation, server, conn, documents, found, last>>
allVars == <<use, vars, redisVars, mongoVars>>
-----------------------------------------------------------------------------
(* Elasticsearch: three uses, within the constants of the run *)

Config(auth, ref, type, field, user) ==
  [auth |-> auth, credentialRef |-> ref, authType |-> type, field |-> field, username |-> user, empty |-> FALSE]
SomeConfigs == {Config("none", 0, "none", 0, FALSE), Config("none", 1, "api_key", 0, FALSE), Config("none", 0, "basic", 2, TRUE),
                Config("none", 0, "bearer", 0, FALSE), Config("ref", 3, "basic", 0, FALSE), Config("ref", 0, "basic", 0, FALSE),
                Config("direct", 0, "bearer", 0, FALSE), Config("none", 0, "kerberos", 1, FALSE)}

SomeQueries == {[body |-> "query", indices |-> i] : i \in {"named", "malformed"}} \cup {[body |-> "invalid", indices |-> "all"]}

\* Two jobs at once without streams; one stream of events, of either capacity; and
\* a host that opens resources beside one another.
Work == INSTANCE EsProvider WITH MaxStreams <- 0
Events == INSTANCE EsProvider WITH Queries <- {[body |-> "query", indices |-> "partly"]}, AnswerSizes <- {1}
Wire == INSTANCE EsProvider WITH MaxIds <- 4
-----------------------------------------------------------------------------
(* Redis: reads, writes, both kinds of MEMORY, commands that alter the    *)
(* connection, an argument that cannot be decoded, an empty command and   *)
(* an empty pipeline                                                      *)

SomePipelines == {<<<<"GET", "k">>>>, <<<<"INCR", "k">>>>, <<<<"MEMORY", "USAGE">>>>, <<<<"MEMORY", "PURGE">>>>, <<<<"?">>>>, <<<<>>>>, <<>>, <<<<"SELECT", "1">>>>, <<<<"MULTI">>, <<"INCR", "k">>>>,
                  <<<<"GET", "k">>, <<"INCR", "k">>>>, <<<<"INCR", "k">>, <<"GET", "?">>>>, <<<<"GET", "k">>, <<"TTL", "k">>>>}
-----------------------------------------------------------------------------
(* MongoDB: connection strings and servers; collections and finds *)

M == "mongodb://"
SomeStrings == {<<M, "host">>, <<M, "user@", "host">>, <<M, "user@", "host", "/", "app">>, <<M, "user@", "host", "/", "?", "w=1">>,
                <<M, "user@", "host", "/", "app", "?">>, <<M, "user@", "host", "/", "app", "?", "w=1", "&">>,
                <<M, "user@", "host", "/", "app", "?", "authSource=users">>, <<M, "user@", "host", "/", "app", "?", "tls=true">>,
                <<"mongodb+srv://", "user@", "host", "/", "app">>}

Opening == INSTANCE MongoDb WITH
  Strings <- SomeStrings, UserDatabases <- {"admin", "app", "users"}, Versions <- {<<>>, <<3, 6>>, <<4, 0>>, <<4, 2>>, <<5, 0>>},
  Collections <- {}, Skips <- {}, Limits <- {}, InlineBytes <- 0, Chunks <- {}, MaxBlobs <- 0, blobs <- documents
Finding == INSTANCE MongoDb WITH
  Strings <- {<<M, "host">>}, UserDatabases <- {"admin"}, Versions <- {<<7, 0>>},
  Collections <- {<<2>>, <<1, 3>>, <<2, 1, 2>>}, Skips <- {-1, 0, 1}, Limits <- {-1, 0}, InlineBytes <- 3, Chunks <- {2, 3},
  MaxBlobs <- 2, blobs <- documents
-----------------------------------------------------------------------------
ASSUME UsesAssumption ==
  /\ Work!ProviderAssumption /\ Events!ProviderAssumption /\ Wire!ProviderAssumption
  /\ Opening!MongoAssumption /\ Finding!MongoAssumption

NoMongo == generation = 0 /\ server = 0 /\ conn = 0 /\ documents = 0 /\ found = 0 /\ last = 0

AllInit == /\ use \in {"es jobs", "es events", "es wire", "redis calls", "redis streams", "mongo open", "mongo find"}
           /\ Init /\ RedisInit
           /\ CASE use = "mongo open" -> Opening!Init [] use = "mongo find" -> Finding!Init [] OTHER -> NoMongo

AllNext ==
  /\ UNCHANGED use
  /\ \/ /\ UNCHANGED <<redisVars, mongoVars>>
        /\ \/ use = "es jobs" /\ Work!Next
           \/ use = "es events" /\ Events!Next
           \/ use = "es wire" /\ Wire!WireNext
     \/ /\ UNCHANGED <<vars, mongoVars>>
        /\ \/ use = "redis calls" /\ CallNext
           \/ use = "redis streams" /\ StreamNext
     \/ /\ UNCHANGED <<vars, redisVars>>
        /\ \/ use = "mongo open" /\ Opening!Next
           \/ use = "mongo find" /\ Finding!Next

AllSpec == AllInit /\ [][AllNext]_allVars
-----------------------------------------------------------------------------
\* A connection to MongoDB is authenticated where its string says, the rest of the
\* string unchanged, and an old server is told to use the driver for it.
MongoOpenIsExact == use = "mongo open" => Opening!OpenIsExact

\* A find of MongoDB answers what was asked for, in line or in the parts of a blob.
MongoResultsAreExact == use = "mongo find" => Finding!ResultsAreExact
=============================================================================
