------------------------------- MODULE Server -------------------------------
(***************************************************************************)
(* The process and its HTTP surface: startup (cmd/main.go), the middleware *)
(* of internal/router (CORS, authentication, the response log), the        *)
(* handlers of /api/index and /api/stats up to their queries, /healthz,    *)
(* /readyz and /debug/logs, while PostgreSQL comes and goes.               *)
(*                                                                         *)
(* What a query returns is the matter of Resolver, TailStitch and Filters; *)
(* here it succeeds or fails.  /api/count is /api/stats.                   *)
(***************************************************************************)
EXTENDS LogTail, Jwt

CONSTANTS
    Requests,       \* a goroutine of the HTTP server each
    Calls(_, _),    \* the calls a request may be, by the configuration
    Configs,        \* configurations the process may be started with
    OldLogs,        \* what earlier runs may have left in log/app.log
    MaxLogLimit,    \* lines of the log a call may ask for; 100 in the code
    Widths,         \* cells the JSON text of a response line may take
    MaxNow,         \* bound: seconds that pass
    MaxOutages      \* bound: times the database goes away or falls silent

(* Times in claims, and the skew, are whole seconds; calls go to the routes *)
(* there are, and ask for a number of lines of the log.                    *)
ASSUME CallsAssumption ==
    \A c \in Configs :
        /\ c.auth.enabled => c.auth.skew \in Int
        /\ \A r \in Requests : \A call \in Calls(r, c) :
              /\ call.route \in {"index", "stats", "healthz", "readyz", "logs"}
              /\ call.route = "logs" => call.filters.limit \in Int
              /\ "token" \in DOMAIN call =>
                    \A name \in {"exp", "nbf", "iat"} \cap DOMAIN call.token.claims :
                        call.token.claims[name] \in Int

(* What is left in the log is a sequence, and lines have a width. *)
ASSUME LogAssumption ==
    /\ \A old \in OldLogs : old \in Seq(ToSet(old))
    /\ Widths \subseteq Nat
    /\ MaxLogLimit \in Nat

(* Any request may turn out to be one for the log. *)
ASSUME ReadersAssumption == Requests \subseteq Readers

VARIABLES
    phase,          \* of startup, to "listening" or "exited"
    config,         \* config.LoadConfig(), and what its files hold
    now,            \* the clock, in seconds
    dbUp,           \* the database answers
    silent,         \* it takes calls and does not answer; else, if not up, it refuses
    outages,        \* times it has gone away
    req             \* the requests

vars == <<phase, config, now, dbUp, silent, outages, req, log, unwritten, reader>>
outside == <<phase, config, now, dbUp, silent, outages>>
-----------------------------------------------------------------------------
(* Startup: each step goes on to the next or ends the process.             *)

Init ==
    /\ phase = "postgres"
    /\ config \in Configs
    /\ now = 0
    /\ dbUp \in BOOLEAN /\ silent \in {FALSE, ~dbUp}
    /\ outages = 0
    /\ req = [r \in Requests |-> [stage |-> "idle"]]
    /\ \E old \in OldLogs : LogInit(old)

Startup(step, succeeds, next) ==
    /\ phase = step
    /\ phase' = IF succeeds THEN next ELSE "exited"
    /\ UNCHANGED <<config, now, dbUp, silent, outages, req, logVars>>

(* Ping: without a time limit, so that it waits while nobody answers. *)
InitPostgres == ~silent /\ Startup("postgres", dbUp, "registry")

(* Models load, link and validate (Inheritance and PresetGraph); an empty  *)
(* directory is no error.  Locales are optional, and of no effect here.    *)
InitRegistry == Startup("registry", config.registry # "faulty", "routes")

(* withAuth(nil, ...) lets everything through: the validator is nil only if *)
(* authentication is off.                                                  *)
InitRoutes ==
    Startup("routes", config.auth.enabled => NewJWTValidator(config.auth), "listening")

(* The bind fails. *)
CannotListen == Startup("listening", FALSE, "listening")
                  /\ \A r \in Requests : req[r].stage = "idle"
-----------------------------------------------------------------------------
(* The environment.                                                        *)

InFlight(r) == req[r].stage \notin {"idle", "answered", "logging", "done"}

(* Requests remember, for the properties, what the database was like since *)
(* they arrived.                                                           *)
Witnessed(up) ==
    [r \in Requests |-> IF InFlight(r)
                        THEN [req[r] EXCEPT !.sawUp = @ \/ up, !.sawDown = @ \/ ~up]
                        ELSE req[r]]

(* The database comes and goes at any time; only what a call, or startup,  *)
(* may notice is looked at.                                                *)
NeedsDatabase(r) == InFlight(r) /\ req[r].call.route \in {"index", "stats", "readyz"}
Noticed == phase = "postgres" \/ \E r \in Requests : NeedsDatabase(r)

DatabaseStops ==
    /\ dbUp /\ outages < MaxOutages
    /\ Noticed
    /\ dbUp' = FALSE /\ silent' \in BOOLEAN
    /\ outages' = outages + 1
    /\ req' = Witnessed(FALSE)
    /\ UNCHANGED <<phase, config, now, logVars>>

DatabaseReturns ==
    /\ ~dbUp
    /\ Noticed
    /\ dbUp' = TRUE /\ silent' = FALSE
    /\ req' = Witnessed(TRUE)
    /\ UNCHANGED <<phase, config, now, outages, logVars>>

(* Calls that wait are refused at last, as when its host closes them. *)
DatabaseRefuses ==
    /\ silent
    /\ Noticed
    /\ silent' = FALSE
    /\ UNCHANGED <<phase, config, now, dbUp, outages, req, logVars>>

(* The client leaves while the database is asked, which cancels r.Context().*)
Disconnect(r) ==
    /\ req[r].stage \in {"query", "ping"} /\ ~req[r].gone
    /\ req' = [req EXCEPT ![r].gone = TRUE]
    /\ UNCHANGED <<outside, logVars>>

(* Time matters to tokens only: it passes while one is yet to be judged.   *)
Tick ==
    /\ now < MaxNow
    /\ \E r \in Requests : req[r].stage = "arrived" /\ "token" \in DOMAIN req[r].call
    /\ now' = now + 1
    /\ UNCHANGED <<phase, config, dbUp, silent, outages, req, logVars>>
-----------------------------------------------------------------------------
(* CORS: the value of Access-Control-Allow-Origin, and whether the answer  *)
(* says that it varies with the Origin of the request.                     *)

Allow(value, vary) == [value |-> value, vary |-> vary]

(* Mutant: only an answer that allows the origin says that it varies. *)
VaryIfAllowed(origins, credentials, origin) ==
    IF origins = {} \/ ("*" \in origins /\ ~credentials) THEN Allow("*", FALSE)
    ELSE IF origin \in origins \/ "*" \in origins THEN Allow(origin, TRUE) ELSE Allow("", FALSE)

resolveAllowOrigin(origins, credentials, origin) ==
    IF origins = {} THEN Allow("*", FALSE)
    ELSE IF "*" \in origins
         THEN IF credentials /\ origin # "" THEN Allow(origin, TRUE) ELSE Allow("*", FALSE)
         ELSE Allow(IF origin \in origins THEN origin ELSE "", TRUE)

(* Only the API routes have it. *)
WithCORS(route) == route \in {"index", "stats"}

withCORS(call) ==
    IF WithCORS(call.route)
    THEN resolveAllowOrigin(config.origins, config.credentials, call.origin)
    ELSE Allow("", FALSE)

(* Preflight requests stop there: they carry no token, and are not logged. *)
Preflight(call) == WithCORS(call.route) /\ call.method = "OPTIONS"

(* A header without a token counts as a token that does not decode. *)
withAuth(call) ==
    WithCORS(call.route) /\ config.auth.enabled =>
        "token" \in DOMAIN call /\ ValidateToken(config.auth, call.token, now)
-----------------------------------------------------------------------------
(* The handlers until they wait for the database or the log: an answer, or *)
(* 0 to go on.                                                             *)

(* A metric of /api/stats names a function and a field; the model lists    *)
(* what may be aggregated, and through which relations no row may fan out. *)
MetricResolves(model, metric) ==
    /\ metric.name # ""
    /\ metric.field \in DOMAIN model.aggregatable
    /\ metric.field \notin model.fansOut
    /\ metric.fn \in {"sum", "avg", "min", "max"} \cap model.aggregatable[metric.field]

ValidateAndResolveAggregates(model, metrics) ==
    /\ \A i \in DOMAIN metrics : MetricResolves(model, metrics[i])
    /\ \A i, j \in DOMAIN metrics : metrics[i].name = metrics[j].name => i = j

(* A model and a preset that the registry has. *)
KnownModel(call) == config.registry = "loaded" /\ call.model \in DOMAIN config.models
ModelOf(call) == config.models[call.model]
KnownPreset(call) == call.preset \in ModelOf(call).presets

(* A field that BuildDistinctValuesQuery accepts. *)
Distinct(call) == call.uniqueBy # ""
DistinctField(call) == call.uniqueBy \in ModelOf(call).columns

IndexHandler(call) ==
    IF call.method # "POST" THEN 405
    ELSE IF ~call.parses THEN 400
    ELSE IF ~KnownModel(call) THEN 500
    ELSE IF Distinct(call) THEN (IF DistinctField(call) THEN 0 ELSE 400)
    ELSE IF KnownPreset(call) THEN 0 ELSE 500

(* No method is refused here.  An empty preset is none. *)
StatsHandler(call) ==
    IF ~call.parses THEN 400
    ELSE IF ~KnownModel(call) THEN 404
    ELSE IF Distinct(call)
         THEN IF call.metrics = <<>> /\ DistinctField(call) THEN 0 ELSE 400
    ELSE IF /\ call.preset = "" \/ KnownPreset(call)
            /\ ValidateAndResolveAggregates(ModelOf(call), call.metrics) THEN 0 ELSE 400

parseLogFilters(filters) ==
    /\ filters.limit \in 1..MaxLogLimit
    /\ filters.level \in {"", "debug", "info", "warn", "error"}

(* withDebugToken, then the filters, then the file: it is there since      *)
(* startup unless somebody has removed it.                                 *)
LogsHandler(call) ==
    IF config.debugToken = "" THEN 503
    ELSE IF call.debugToken = "" THEN 401
    ELSE IF call.debugToken # config.debugToken THEN 403
    ELSE IF call.method \notin {"GET", "HEAD"} THEN 405
    ELSE IF ~parseLogFilters(call.filters) THEN 400
    ELSE IF config.logRemoved THEN 404 ELSE 0

ProbeHandler(call) ==
    IF call.method \notin {"GET", "HEAD"} THEN 405
    ELSE IF call.route = "healthz" THEN 200
    ELSE IF config.registry = "loaded" THEN 0 ELSE 503

Handler(call) ==
    CASE call.route = "index" -> IndexHandler(call)
      [] call.route = "stats" -> StatsHandler(call)
      [] call.route = "logs"  -> LogsHandler(call)
      [] OTHER                -> ProbeHandler(call)

(* What the handler waits for, if it goes on, and with how many queries. *)
Waits == [index |-> "query", stats |-> "query", readyz |-> "ping", logs |-> "tail"]
Queries(call) ==
    IF call.route = "index" /\ ~Distinct(call) THEN ModelOf(call).queries[call.preset] ELSE 1
-----------------------------------------------------------------------------
(* Requests.                                                               *)

Arrive(r, call) ==
    /\ phase = "listening"
    /\ req[r].stage = "idle"
    /\ req' = [req EXCEPT ![r] =
            [stage |-> "arrived", call |-> call, entered |-> FALSE, at |-> 0, left |-> 0,
             status |-> 0, allow |-> Allow("", FALSE), sawUp |-> dbUp, sawDown |-> ~dbUp,
             gone |-> FALSE]]
    /\ UNCHANGED <<outside, logVars>>

(* A status of 0 leaves the request where it says. *)
Goes(r, status, stage) ==
    [req[r] EXCEPT !.status = status, !.stage = IF status = 0 THEN stage ELSE "answered"]

(* The middleware and the first part of the handler, in one go. *)
Answer204(r) ==
    /\ req[r].stage = "arrived" /\ Preflight(req[r].call)
    /\ req' = [req EXCEPT ![r] = [@ EXCEPT !.status = 204, !.stage = "done",
                                           !.allow = withCORS(req[r].call)]]
    /\ UNCHANGED <<outside, logVars>>

Refuse(r) ==
    LET call == req[r].call
    IN  /\ req[r].stage = "arrived" /\ ~Preflight(call)
        /\ ~withAuth(call)
        /\ req' = [req EXCEPT ![r] = [Goes(r, 401, "") EXCEPT
                        !.at = now, !.allow = withCORS(call)]]
        /\ UNCHANGED <<outside, logVars>>

Handle(r) ==
    LET call == req[r].call
        status == Handler(call)
    IN  /\ req[r].stage = "arrived" /\ ~Preflight(call)
        /\ withAuth(call)
        /\ req' = [req EXCEPT ![r] = [Goes(r, status, Waits[call.route]) EXCEPT
                        !.entered = TRUE, !.at = now, !.allow = withCORS(call),
                        !.left = IF status = 0 /\ WithCORS(call.route) THEN Queries(call) ELSE 0]]
        /\ UNCHANGED <<outside, logVars>>

(* A query whose table the database lacks fails with a message that says   *)
(* "relation ... does not exist".                                          *)
QueryFails(call) == ~dbUp \/ ModelOf(call).tableMissing

(* Mutant: any failure of a query with metrics is the client's. *)
BlameMetrics(call) == IF call.route = "stats" /\ call.metrics # <<>> THEN 400 ELSE 500

(* isAggregateValidationError looks for "relation" in any message. *)
StatusOfFailure(call) ==
    IF call.route = "stats" /\ call.metrics # <<>> /\ dbUp THEN 400 ELSE 500

(* The next query of /api/index or the only one of /api/stats.  It has no   *)
(* time limit: while the database is silent, the call waits.               *)
Query(r) ==
    LET call == req[r].call
    IN  /\ req[r].stage = "query" /\ ~silent
        /\ req' = [req EXCEPT ![r] =
              IF QueryFails(call) THEN Goes(r, StatusOfFailure(call), "")
              ELSE IF req[r].left > 1 THEN [req[r] EXCEPT !.left = @ - 1]
              ELSE Goes(r, 200, "")]
        /\ UNCHANGED <<outside, logVars>>

(* A query or ping ends with the context of the client that has left. *)
Cancel(r) ==
    /\ req[r].stage \in {"query", "ping"} /\ req[r].gone
    /\ req' = [req EXCEPT ![r] = Goes(r, IF req[r].stage = "query" THEN 500 ELSE 503, "")]
    /\ UNCHANGED <<outside, logVars>>

(* dbReadyFunc: the ping is answered, or refused, or two seconds pass. *)
dbReady == dbUp
Ping(r) ==
    /\ req[r].stage = "ping"
    /\ req' = [req EXCEPT ![r] = Goes(r, IF dbReady THEN 200 ELSE 503, "")]
    /\ UNCHANGED <<outside, logVars>>

(* readLogTail *)
Open(r) ==
    /\ req[r].stage = "tail" /\ reader[r].phase = "idle"
    /\ OpenLog(r, req[r].call.filters)
    /\ UNCHANGED <<outside, req>>

Read(r) ==
    /\ ReadChunk(r)
    /\ UNCHANGED <<outside, req>>

Finish(r) ==
    /\ FinishTail(r)
    /\ req' = [req EXCEPT ![r] = Goes(r, 200, "")]
    /\ UNCHANGED outside

(* withLogging after the handler, by the status that went through it. *)
LevelOf(status) == IF status >= 500 THEN "error" ELSE IF status >= 400 THEN "warn" ELSE "info"

Log(r) ==
    /\ req[r].stage = "answered"
    /\ \E w \in Widths : BeginWrite([of |-> r, level |-> LevelOf(req[r].status), width |-> w])
    /\ req' = [req EXCEPT ![r].stage = "logging"]
    /\ UNCHANGED outside

Logged(r) ==
    /\ req[r].stage = "logging"
    /\ EndWrite
    /\ req' = [req EXCEPT ![r].stage = "done"]
    /\ UNCHANGED outside

Serve(r) ==
    \/ Answer204(r) \/ Refuse(r) \/ Handle(r)
    \/ Query(r) \/ Ping(r) \/ Cancel(r)
    \/ Open(r) \/ Read(r) \/ Finish(r)
    \/ Log(r) \/ Logged(r)

Next ==
    \/ InitPostgres \/ InitRegistry \/ InitRoutes \/ CannotListen
    \/ DatabaseStops \/ DatabaseReturns \/ DatabaseRefuses \/ Tick
    \/ \E r \in Requests :
          (\E call \in Calls(r, config) : Arrive(r, call)) \/ Disconnect(r) \/ Serve(r)

(* Goroutines are scheduled, and a query that is asked of a database that  *)
(* is not silent is answered or refused.  Nothing is promised of clients,  *)
(* of the clock, or of a silent database ever to speak.  Others hold the   *)
(* mutex for the one line they have to write, so that weak fairness is     *)
(* enough to get it.                                                       *)
Fairness == \A r \in Requests : WF_vars(Serve(r))

Spec == Init /\ [][Next]_vars /\ Fairness
-----------------------------------------------------------------------------
Answered(r) == req[r].stage \in {"answered", "logging", "done"}

(* A call reaches its handler exactly if authentication is off or its token *)
(* is the issuer's and current by some clock within the allowed skew of    *)
(* ours.  An unusable setting does not switch authentication off.          *)
(* (withAuth, validateClaims, InitRoutes)                                  *)
TokensJudgedRight ==
    \A r \in Requests : req[r].stage \notin {"idle", "arrived"} =>
        LET call == req[r].call
            auth == config.auth
        IN  /\ WithCORS(call.route) /\ ~Preflight(call) /\ auth.enabled
            /\ "token" \in DOMAIN call /\ Genuine(auth, call.token) => Consistent(call.token.claims)
            =>
              LET good == /\ "token" \in DOMAIN call
                          /\ Genuine(auth, call.token)
                          /\ \E c \in Clocks(auth, req[r].at) : Current(call.token.claims, c)
              IN  req[r].entered = good

(* A call of the API that got 200 found the database up at some moment of   *)
(* its time, and its table there.  One that fails after its checks is told *)
(* so as the server's fault, if the database was away or the client itself,*)
(* and as the client's only if the table is missing.  Readiness is what was*)
(* true at some moment between arrival and answer.                         *)
(* (Resolver's and StatsHandler's error paths, readyzHandler)              *)
AnswersMatchDatabase ==
    \A r \in Requests : Answered(r) /\ req[r].entered =>
        LET call == req[r].call
            status == req[r].status
        IN  /\ call.route \in {"index", "stats"} /\ status = 200 =>
                  req[r].sawUp /\ ~ModelOf(call).tableMissing
            /\ call.route \in {"index", "stats"} /\ Handler(call) = 0 /\ status >= 400 =>
                  \/ (req[r].sawDown \/ req[r].gone) /\ status >= 500
                  \/ ModelOf(call).tableMissing
            /\ call.route = "readyz" /\ status = 200 => req[r].sawUp /\ config.registry = "loaded"
            /\ call.route = "readyz" /\ status = 503 =>
                  req[r].sawDown \/ req[r].gone \/ config.registry # "loaded"

(* Two answers to calls that differ in nothing but their Origin either are *)
(* the same to a cache or both say that they vary: no page is served the   *)
(* permission another one was given.  (resolveAllowOrigin)                 *)
VaryWhenDependent ==
    \A r, s \in Requests :
        /\ req[r].stage \notin {"idle", "arrived"} /\ req[s].stage \notin {"idle", "arrived"}
        /\ WithCORS(req[r].call.route) /\ WithCORS(req[s].call.route)
        /\ req[r].call.origin # "" /\ req[s].call.origin # ""
        /\ req[r].allow.value # req[s].allow.value
        => req[r].allow.vary /\ req[s].allow.vary

(* Every call that arrives is answered and done with, however many others   *)
(* write and read the log, and whatever becomes of the database, but for    *)
(* one thing: nothing ends a query that the database is silent about for    *)
(* ever while the client waits.  Pings, the log and refused calls end even  *)
(* then.  (the loop of readLogTail, the mutex of the logger, the context of *)
(* Resolver's and StatsHandler's queries, dbReadyFunc)                      *)
WaitsForEver(r) == [](req[r].stage = "query" /\ silent /\ ~req[r].gone)
EveryCallEnds ==
    \A r \in Requests : req[r].stage = "arrived" ~> (req[r].stage = "done" \/ WaitsForEver(r))
=============================================================================
