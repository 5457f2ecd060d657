------------------------------ MODULE MCServer ------------------------------
EXTENDS Server

Key == [kind |-> "secret", name |-> "ours"]
OtherKey == [kind |-> "secret", name |-> "another"]
PublicKey == [kind |-> "rsa", name |-> "ours"]

NoAuth == [enabled |-> FALSE]
Auth == [enabled |-> TRUE, alg |-> "HS256", key |-> Key, issuer |-> "us",
         audience |-> {"api"}, skew |-> 1]
WrongKind == [Auth EXCEPT !.key = PublicKey]
NoSkew == [Auth EXCEPT !.alg = "RS256", !.key = PublicKey, !.skew = -1]

Person == [presets |-> {"card"}, columns |-> {"name"}, queries |-> [card |-> 2],
           aggregatable |-> [age |-> {"avg"}, size |-> {"sum"}], fansOut |-> {"size"},
           tableMissing |-> FALSE]
Models == [Person |-> Person, Ghost |-> [Person EXCEPT !.tableMissing = TRUE]]

Base == [auth |-> NoAuth, origins |-> {"a", "b"}, credentials |-> TRUE,
         registry |-> "loaded", models |-> Models, debugToken |-> "secret", logRemoved |-> FALSE]
MCConfigs ==
    {Base, [Base EXCEPT !.registry = "faulty", !.logRemoved = TRUE],
     [Base EXCEPT !.registry = "empty", !.debugToken = "", !.origins = {}],
     [Base EXCEPT !.auth = WrongKind], [Base EXCEPT !.auth = NoSkew, !.origins = {"*"}],
     [Base EXCEPT !.auth = Auth, !.origins = {"*"}, !.credentials = FALSE, !.logRemoved = TRUE]}

Claims == [iss |-> "us", aud |-> {"api", "web"}, nbf |-> 2, iat |-> 1, exp |-> 2]
Signed(claims) == [decodes |-> TRUE, alg |-> "HS256", key |-> Key, claims |-> claims]
Tokens ==
    {Signed([Claims EXCEPT !.nbf = n, !.iat = i, !.exp = e]) : <<n, i, e>> \in
        {<<0, 0, 0>>, <<1, 0, 1>>, <<0, 2, 2>>, <<3, 0, 3>>, <<-2, -3, -1>>}}
    \cup {[Signed(Claims) EXCEPT !.decodes = FALSE], [Signed(Claims) EXCEPT !.key = OtherKey],
          [Signed(Claims) EXCEPT !.alg = "RS256", !.key = PublicKey],
          Signed([iss |-> "us", aud |-> {"api"}, nbf |-> 0, iat |-> 0]),
          Signed([Claims EXCEPT !.aud = {"web"}]), Signed([Claims EXCEPT !.iss = "them"])}

Index == [route |-> "index", method |-> "POST", origin |-> "a", parses |-> TRUE,
          model |-> "Person", preset |-> "card", uniqueBy |-> "",
          token |-> Signed([Claims EXCEPT !.nbf = 0, !.iat = 0])]
Metric(name, fn, field) == [name |-> name, fn |-> fn, field |-> field]
Mean == Metric("mean", "avg", "age")
Stats == [route |-> "stats", method |-> "POST", origin |-> "b", parses |-> TRUE,
          model |-> "Person", preset |-> "", uniqueBy |-> "", metrics |-> <<Mean>>,
          token |-> Index.token]
Probe(route, method) == [route |-> route, method |-> method]
Logs(method, token, level, limit) ==
    [route |-> "logs", method |-> method, debugToken |-> token,
     filters |-> [level |-> level, limit |-> limit]]

WithoutToken(call) == [n \in DOMAIN call \ {"token"} |-> call[n]]
TokenCalls == {[Index EXCEPT !.token = t] : t \in Tokens}
IndexCalls ==
    {[Index EXCEPT !.method = "OPTIONS"], [Index EXCEPT !.method = "GET"],
     [Index EXCEPT !.parses = FALSE], [Index EXCEPT !.model = "Nobody"],
     [Index EXCEPT !.preset = "none"], [Index EXCEPT !.uniqueBy = "name"],
     [Index EXCEPT !.uniqueBy = "none"], [Index EXCEPT !.model = "Ghost"]}
StatsCalls ==
    {Stats, [Stats EXCEPT !.parses = FALSE], [Stats EXCEPT !.model = "Nobody"],
     [Stats EXCEPT !.uniqueBy = "name"], [Stats EXCEPT !.uniqueBy = "name", !.metrics = <<>>],
     [Stats EXCEPT !.preset = "none"], [Stats EXCEPT !.model = "Ghost"],
     [Stats EXCEPT !.metrics = <<Mean, Mean>>], [Stats EXCEPT !.metrics = <<Metric("s", "sum", "size")>>],
     [Stats EXCEPT !.metrics = <<Metric("s", "sum", "age")>>], [Stats EXCEPT !.origin = "evil"]}
LogCalls ==
    {Logs("GET", "secret", "", 1), Logs("GET", "secret", "", 2), Logs("GET", "secret", "warn", 2),
     Logs("POST", "secret", "", 1), Logs("GET", "guess", "", 1), Logs("GET", "", "", 1),
     Logs("GET", "secret", "", 0), Logs("GET", "secret", "", 4), Logs("GET", "secret", "fatal", 1)}
ProbeCalls == {Probe(route, m) : route \in {"healthz", "readyz"}, m \in {"GET", "POST"}}

(* The first request is of every kind, with tokens where they are looked  *)
(* at; the second one reads the log or asks from elsewhere.                *)
MCCalls(r, c) ==
    IF r = "second" THEN {Logs("GET", "secret", "", 2), WithoutToken(Stats)}
    ELSE IF c.auth.enabled
         THEN {Index, Stats, WithoutToken(Index), [Index EXCEPT !.method = "OPTIONS"]} \cup TokenCalls
         ELSE {WithoutToken(call) : call \in {Index, Stats} \cup IndexCalls \cup StatsCalls}
              \cup LogCalls \cup ProbeCalls

Old(id, level, width) == TextOf([of |-> id, level |-> level, width |-> width])
MCOldLogs ==
    {Old("old1", "info", 1) \o <<NL>> \o Old("old2", "warn", 3) \o <<NL>>
     \o SubSeq(Old("old3", "info", 3), 1, 2)}
=============================================================================
