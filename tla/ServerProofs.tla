---------------------------- MODULE ServerProofs ----------------------------
(***************************************************************************)
(* Proofs about Server, its log and Jwt, for any requests, configurations, *)
(* times, and lengths of lines and chunks.                                 *)
(***************************************************************************)
EXTENDS Server, CommonLemmas
-----------------------------------------------------------------------------
(* Tokens.                                                                 *)

NumericClaims(claims) ==
    \A name \in {"exp", "nbf", "iat"} \cap DOMAIN claims : claims[name] \in Int

(* Three comparisons with the clock, each with the skew, come to the same   *)
(* as one clock within the skew by which the claims hold exactly.           *)
LEMMA SomeClock ==
    ASSUME NEW exp \in Int, NEW nbf \in Int, NEW iat \in Int, NEW t \in Int, NEW s \in Nat,
           nbf <= exp, iat <= exp
    PROVE  (~(t > exp + s) /\ ~(t + s < nbf) /\ ~(iat > t + s))
              <=> \E c \in (t - s)..(t + s) : nbf <= c /\ iat <= c /\ c <= exp
  <1> DEFINE Clock == IF nbf >= iat /\ nbf >= t - s THEN nbf
                      ELSE IF iat >= t - s THEN iat ELSE t - s
  <1>1. ASSUME ~(t > exp + s), ~(t + s < nbf), ~(iat > t + s)
        PROVE  /\ Clock \in (t - s)..(t + s)
               /\ nbf <= Clock /\ iat <= Clock /\ Clock <= exp
    BY <1>1
  <1>2. ASSUME NEW c \in (t - s)..(t + s), nbf <= c, iat <= c, c <= exp
        PROVE  ~(t > exp + s) /\ ~(t + s < nbf) /\ ~(iat > t + s)
    BY <1>2
  <1> HIDE DEF Clock
  <1> QED
    BY <1>1, <1>2

(* A token is accepted exactly if it is the issuer's and current by some   *)
(* clock within the allowed skew.  (ValidateToken, validateClaims)          *)
THEOREM TokenAccepted ==
    ASSUME NEW auth, NEW token, NEW t \in Int,
           auth.skew \in Int, NumericClaims(token.claims),
           Genuine(auth, token) => Consistent(token.claims)
    PROVE  ValidateToken(auth, token, t) <=>
              /\ Genuine(auth, token)
              /\ \E c \in Clocks(auth, t) : Current(token.claims, c)
  <1> DEFINE claims == token.claims
             s == Skew(auth)
  <1>1. s \in Nat
    BY DEF Skew
  <1>2. ValidateToken(auth, token, t) <=>
            /\ Genuine(auth, token)
            /\ Unexpired(claims, s, t) /\ AlreadyValid(claims, s, t) /\ IssuedBefore(claims, s, t)
    BY DEF ValidateToken, verifySignature, validateClaims, isAudienceValid, numericClaim, Genuine
  <1>3. ASSUME Genuine(auth, token)
        PROVE  (Unexpired(claims, s, t) /\ AlreadyValid(claims, s, t) /\ IssuedBefore(claims, s, t))
                  <=> \E c \in Clocks(auth, t) : Current(claims, c)
    <2>1. claims.exp \in Int /\ claims.nbf \in Int /\ claims.iat \in Int
      BY <1>3 DEF Genuine, NumericClaims
    <2>2. claims.nbf <= claims.exp /\ claims.iat <= claims.exp
      BY <1>3 DEF Consistent
    <2> HIDE DEF s, claims
    <2>3. (~(t > claims.exp + s) /\ ~(t + s < claims.nbf) /\ ~(claims.iat > t + s))
             <=> \E c \in (t - s)..(t + s) :
                    claims.nbf <= c /\ claims.iat <= c /\ c <= claims.exp
      BY <1>1, <2>1, <2>2, SomeClock
    <2> QED
      BY <2>3 DEF Unexpired, AlreadyValid, IssuedBefore, Clocks, Current, s
  <1> HIDE DEF s, claims
  <1> QED
    BY <1>2, <1>3 DEF claims
-----------------------------------------------------------------------------
(* The inductive invariant.                                                *)

(* What withAuth says of a call at the time t. *)
AuthAt(call, t) ==
    WithCORS(call.route) /\ config.auth.enabled =>
        "token" \in DOMAIN call /\ ValidateToken(config.auth, call.token, t)

Fields == {"stage", "call", "entered", "at", "left", "status", "allow", "sawUp", "sawDown",
           "gone"}

(* What a request waits for is what its handler has found. *)
Waiting(q) ==
    /\ q.stage = "query" => q.call.route \in {"index", "stats"} /\ Handler(q.call) = 0
    /\ q.stage = "ping" => q.call.route = "readyz" /\ Handler(q.call) = 0
    /\ q.stage = "tail" => q.call.route = "logs" /\ Handler(q.call) = 0
    /\ q.stage \in {"query", "ping", "tail"} => q.entered

(* AnswersMatchDatabase of one request. *)
Answers(q) ==
    /\ q.call.route \in {"index", "stats"} /\ q.status = 200 =>
          q.sawUp /\ ~ModelOf(q.call).tableMissing
    /\ q.call.route \in {"index", "stats"} /\ Handler(q.call) = 0 /\ q.status >= 400 =>
          \/ (q.sawDown \/ q.gone) /\ q.status >= 500
          \/ ModelOf(q.call).tableMissing
    /\ q.call.route = "readyz" /\ q.status = 200 => q.sawUp /\ config.registry = "loaded"
    /\ q.call.route = "readyz" /\ q.status = 503 =>
          q.sawDown \/ q.gone \/ config.registry # "loaded"

(* A request that has arrived. *)
RequestInv(r, q) ==
    /\ Fields \subseteq DOMAIN q
    /\ q.stage \in {"arrived", "query", "ping", "tail", "answered", "logging", "done"}
    /\ q.call \in Calls(r, config)
    /\ q.entered \in BOOLEAN /\ q.sawUp \in BOOLEAN /\ q.sawDown \in BOOLEAN /\ q.at \in Int
    /\ q.stage = "arrived" => ~q.entered
    /\ q.stage # "arrived" =>
          /\ q.entered <=> ~Preflight(q.call) /\ AuthAt(q.call, q.at)
          /\ q.allow = withCORS(q.call)
    /\ Waiting(q)
    /\ q.stage \in {"answered", "logging", "done"} /\ q.entered => Answers(q)

(* It has seen the database as it is now. *)
Witness(q, up) ==
    q.stage \in {"arrived", "query", "ping", "tail"} => IF up THEN q.sawUp ELSE q.sawDown

(* Only a request that waits for the log reads it. *)
ReaderInv(q, rd) ==
    /\ "phase" \in DOMAIN rd
    /\ rd.phase = "reading" => q.stage = "tail"

IndInv ==
    /\ config \in Configs /\ now \in Int /\ dbUp \in BOOLEAN
    /\ DOMAIN req = Requests /\ DOMAIN reader = Readers
    /\ \A r \in Requests :
          /\ req[r].stage # "idle" => RequestInv(r, req[r]) /\ Witness(req[r], dbUp)
          /\ ReaderInv(req[r], reader[r])

(* The invariant speaks of a request's record and of the configuration. *)
LEMMA RequestInvStable ==
    ASSUME config' = config, NEW r, NEW q
    PROVE  RequestInv(r, q)' <=> RequestInv(r, q)
  BY DEF RequestInv, Waiting, Answers, AuthAt, ModelOf, withCORS, Preflight, Handler,
         IndexHandler, StatsHandler, LogsHandler, parseLogFilters, ProbeHandler, KnownModel, KnownPreset,
         Distinct, DistinctField

(* A step of one request, which changes nothing outside. *)
LEMMA OneRequest ==
    ASSUME IndInv, UNCHANGED outside, NEW r \in Requests, NEW q,
           req' = [req EXCEPT ![r] = q] \/ (req' = req /\ q = req[r]),
           q.stage # "idle", RequestInv(r, q), Witness(q, dbUp),
           DOMAIN reader' = Readers,
           \A s \in Requests \ {r} : reader'[s] = reader[s],
           ReaderInv(q, reader'[r])
    PROVE  IndInv'
  <1>1. config' = config /\ now' = now /\ dbUp' = dbUp
    BY DEF outside
  <1>2. DOMAIN req' = Requests /\ req'[r] = q
    BY DEF IndInv
  <1>3. ASSUME NEW s \in Requests
        PROVE  /\ req'[s].stage # "idle" => RequestInv(s, req[s])' /\ Witness(req'[s], dbUp')
               /\ ReaderInv(req'[s], reader'[s])
    <2>1. CASE s = r
      <3>1. RequestInv(r, q)'
        BY <1>1, RequestInvStable
      <3> QED
        BY <2>1, <3>1, <1>1, <1>2
    <2>2. CASE s # r
      <3>1. req'[s] = req[s] /\ reader'[s] = reader[s]
        BY <2>2 DEF IndInv
      <3>2. req[s].stage # "idle" => RequestInv(s, req[s]) /\ Witness(req[s], dbUp)
        BY DEF IndInv
      <3>3. PICK p : p = req[s]
        OBVIOUS
      <3>4. RequestInv(s, p)' <=> RequestInv(s, p)
        BY <1>1, RequestInvStable
      <3> QED
        BY <3>1, <3>2, <3>3, <3>4, <1>1 DEF IndInv
    <2> QED
      BY <2>1, <2>2
  <1> QED
    BY <1>1, <1>2, <1>3 DEF IndInv
-----------------------------------------------------------------------------
(* Every step preserves it.                                                *)

(* The steps of the environment and of startup leave requests alone, or     *)
(* only note what the database is like.                                    *)
LEMMA StartupStep ==
    ASSUME IndInv,
           InitPostgres \/ InitRegistry \/ InitRoutes \/ CannotListen \/ DatabaseRefuses
    PROVE  IndInv'
  <1>1. UNCHANGED <<config, now, dbUp, req, reader>>
    BY DEF InitPostgres, InitRegistry, InitRoutes, CannotListen, Startup, DatabaseRefuses, logVars
  <1>2. ASSUME NEW r \in Requests, req[r].stage # "idle"
        PROVE  RequestInv(r, req[r])'
    <2>1. PICK p : p = req[r]
      OBVIOUS
    <2>2. RequestInv(r, p)' <=> RequestInv(r, p)
      BY <1>1, RequestInvStable
    <2> QED
      BY <1>1, <1>2, <2>1, <2>2 DEF IndInv
  <1> QED
    BY <1>1, <1>2 DEF IndInv

LEMMA TickStep ==
    ASSUME IndInv, Tick
    PROVE  IndInv'
  <1>1. UNCHANGED <<config, dbUp, req, reader>> /\ now' = now + 1
    BY DEF Tick, logVars
  <1>2. ASSUME NEW r \in Requests, req[r].stage # "idle"
        PROVE  RequestInv(r, req[r])'
    <2>1. PICK p : p = req[r]
      OBVIOUS
    <2>2. RequestInv(r, p)' <=> RequestInv(r, p)
      BY <1>1, RequestInvStable
    <2> QED
      BY <1>1, <1>2, <2>1, <2>2 DEF IndInv
  <1> QED
    BY <1>1, <1>2 DEF IndInv

LEMMA DatabaseStep ==
    ASSUME IndInv, NEW up \in BOOLEAN,
           UNCHANGED <<config, now, reader>>, dbUp' = up, req' = Witnessed(up)
    PROVE  IndInv'
  <1>1. ASSUME NEW r \in Requests
        PROVE  /\ req'[r].stage # "idle" => RequestInv(r, req[r])' /\ Witness(req'[r], dbUp')
               /\ ReaderInv(req'[r], reader'[r])
    <2>1. PICK p : p = req[r]
      OBVIOUS
    <2>2. PICK q : q = req'[r]
      OBVIOUS
    <2>3. RequestInv(r, q)' <=> RequestInv(r, q)
      BY RequestInvStable
    <2>4. CASE ~InFlight(r)
      <3>1. q = p
        BY <2>1, <2>2, <2>4 DEF Witnessed
      <3>2. p.stage \notin {"arrived", "query", "ping", "tail"} \/ p.stage = "idle"
        BY <2>1, <2>4 DEF InFlight
      <3> QED
        BY <2>1, <2>2, <2>3, <3>1, <3>2 DEF IndInv, Witness
    <2>5. CASE InFlight(r)
      <3>1. p.stage # "idle" /\ p.stage \notin {"answered", "logging", "done"}
        BY <2>1, <2>5 DEF InFlight
      <3>2. RequestInv(r, p) /\ ReaderInv(p, reader[r])
        BY <2>1, <3>1 DEF IndInv
      <3>3. q = [p EXCEPT !.sawUp = @ \/ up, !.sawDown = @ \/ ~up]
        BY <2>1, <2>2, <2>5 DEF Witnessed
      <3>4. /\ DOMAIN q = DOMAIN p /\ q.sawUp = (p.sawUp \/ up) /\ q.sawDown = (p.sawDown \/ ~up)
            /\ \A f \in Fields \ {"sawUp", "sawDown"} : q[f] = p[f]
        BY <3>2, <3>3 DEF RequestInv, Fields
      <3>5. /\ q.stage = p.stage /\ q.call = p.call /\ q.entered = p.entered
            /\ q.at = p.at /\ q.allow = p.allow
        BY <3>4 DEF Fields
      <3>6. q.sawUp \in BOOLEAN /\ q.sawDown \in BOOLEAN
        BY <3>4
      <3>7. Waiting(q)
        BY <3>2, <3>5 DEF RequestInv, Waiting
      <3>8. RequestInv(r, q)
        BY <3>1, <3>2, <3>4, <3>5, <3>6, <3>7 DEF RequestInv
      <3>9. Witness(q, up)
        BY <3>4 DEF Witness
      <3> QED
        BY <2>2, <2>3, <3>2, <3>5, <3>8, <3>9 DEF ReaderInv
    <2> QED
      BY <2>4, <2>5
  <1>2. DOMAIN req' = Requests
    BY DEF Witnessed
  <1> QED
    BY <1>1, <1>2 DEF IndInv

LEMMA ArriveStep ==
    ASSUME IndInv, NEW r \in Requests, NEW call \in Calls(r, config), Arrive(r, call)
    PROVE  IndInv'
  <1>1. PICK q : q = [stage |-> "arrived", call |-> call, entered |-> FALSE, at |-> 0, left |-> 0,
                      status |-> 0, allow |-> Allow("", FALSE), sawUp |-> dbUp, sawDown |-> ~dbUp,
                      gone |-> FALSE]
    OBVIOUS
  <1>2. req' = [req EXCEPT ![r] = q] /\ UNCHANGED outside /\ reader' = reader
    BY <1>1 DEF Arrive, logVars
  <1>3. /\ q.stage = "arrived" /\ q.call = call /\ q.entered = FALSE /\ q.at = 0
        /\ q.sawUp = dbUp /\ q.sawDown = ~dbUp
    BY <1>1
  <1>4. Fields \subseteq DOMAIN q
    BY <1>1 DEF Fields
  <1>5. RequestInv(r, q)
    <2>1. q.entered \in BOOLEAN /\ q.sawUp \in BOOLEAN /\ q.sawDown \in BOOLEAN
      BY <1>3, Zenon DEF IndInv
    <2>4. q.at \in Int
      BY <1>3
    <2>2. Waiting(q)
      BY <1>3 DEF Waiting
    <2>3. ~q.entered
      BY <1>3
    <2> QED
      BY <1>3, <1>4, <2>1, <2>2, <2>3, <2>4 DEF RequestInv
  <1>6. Witness(q, dbUp)
    BY <1>3 DEF Witness
  <1>7. ReaderInv(q, reader'[r])
    BY <1>2 DEF IndInv, ReaderInv, Arrive
  <1> QED
    BY <1>2, <1>3, <1>5, <1>6, <1>7, OneRequest DEF IndInv

LEMMA PreflightStep ==
    ASSUME IndInv, NEW r \in Requests, Answer204(r)
    PROVE  IndInv'
  <1>1. PICK p : p = req[r]
    OBVIOUS
  <1>2. PICK q : q = [p EXCEPT !.status = 204, !.stage = "done", !.allow = withCORS(p.call)]
    OBVIOUS
  <1>3. req' = [req EXCEPT ![r] = q] /\ UNCHANGED outside /\ reader' = reader
    BY <1>1, <1>2 DEF Answer204, logVars
  <1>4. p.stage = "arrived" /\ Preflight(p.call)
    BY <1>1 DEF Answer204
  <1>5. RequestInv(r, p) /\ Witness(p, dbUp) /\ ReaderInv(p, reader[r])
    BY <1>1, <1>4 DEF IndInv
  <1>6. /\ Fields \subseteq DOMAIN q
        /\ q.stage = "done" /\ q.call = p.call /\ q.entered = p.entered /\ q.at = p.at
        /\ q.allow = withCORS(p.call) /\ q.sawUp = p.sawUp /\ q.sawDown = p.sawDown
    BY <1>2, <1>5 DEF RequestInv, Fields
  <1>7. RequestInv(r, q)
    BY <1>4, <1>5, <1>6 DEF RequestInv, Waiting
  <1>8. Witness(q, dbUp) /\ ReaderInv(q, reader'[r])
    BY <1>3, <1>4, <1>5, <1>6 DEF Witness, ReaderInv
  <1> QED
    BY <1>3, <1>6, <1>7, <1>8, OneRequest DEF IndInv

LEMMA RefuseStep ==
    ASSUME IndInv, NEW r \in Requests, Refuse(r)
    PROVE  IndInv'
  <1>1. PICK p : p = req[r]
    OBVIOUS
  <1>2. PICK g : g = Goes(r, 401, "")
    OBVIOUS
  <1>3. PICK q : q = [g EXCEPT !.at = now, !.allow = withCORS(p.call)]
    OBVIOUS
  <1>4. req' = [req EXCEPT ![r] = q] /\ UNCHANGED outside /\ reader' = reader
    BY <1>1, <1>2, <1>3 DEF Refuse, logVars
  <1>5. p.stage = "arrived" /\ ~Preflight(p.call) /\ ~AuthAt(p.call, now)
    BY <1>1 DEF Refuse, withAuth, AuthAt
  <1>6. RequestInv(r, p) /\ Witness(p, dbUp) /\ ReaderInv(p, reader[r])
    BY <1>1, <1>5 DEF IndInv
  <1>7. /\ DOMAIN g = DOMAIN p /\ g.stage = "answered" /\ g.call = p.call
        /\ g.entered = p.entered /\ g.sawUp = p.sawUp /\ g.sawDown = p.sawDown
    <2>1. g = [p EXCEPT !.status = 401, !.stage = IF 401 = 0 THEN "" ELSE "answered"]
      BY <1>1, <1>2 DEF Goes
    <2>2. Fields \subseteq DOMAIN p
      BY <1>6 DEF RequestInv
    <2>3. 401 # 0
      OBVIOUS
    <2>4. g = [p EXCEPT !.status = 401, !.stage = "answered"]
      BY <2>1, <2>3
    <2> QED
      BY <2>2, <2>4 DEF Fields
  <1>8. /\ Fields \subseteq DOMAIN q
        /\ q.stage = "answered" /\ q.call = p.call /\ q.entered = p.entered /\ q.at = now
        /\ q.allow = withCORS(p.call) /\ q.sawUp = p.sawUp /\ q.sawDown = p.sawDown
    BY <1>3, <1>6, <1>7 DEF RequestInv, Fields
  <1>9. RequestInv(r, q)
    BY <1>5, <1>6, <1>8 DEF RequestInv, Waiting, IndInv
  <1>10. Witness(q, dbUp) /\ ReaderInv(q, reader'[r])
    BY <1>4, <1>5, <1>6, <1>8 DEF Witness, ReaderInv
  <1> QED
    BY <1>4, <1>8, <1>9, <1>10, OneRequest DEF IndInv

(* What handlers answer before they wait for anything. *)
LEMMA HandlerAnswers ==
    ASSUME NEW call, call.route \in {"index", "stats", "healthz", "readyz", "logs"}
    PROVE  /\ call.route \in {"index", "stats"} => Handler(call) # 200
           /\ call.route = "readyz" =>
                 /\ Handler(call) # 200
                 /\ Handler(call) = 503 => config.registry # "loaded"
                 /\ Handler(call) = 0 => config.registry = "loaded"
           /\ call.route = "healthz" => Handler(call) # 0
  <1>1. CASE call.route = "index"
    BY <1>1 DEF Handler, IndexHandler
  <1>2. CASE call.route = "stats"
    BY <1>2 DEF Handler, StatsHandler
  <1>3. CASE call.route \in {"healthz", "readyz"}
    BY <1>3 DEF Handler, ProbeHandler
  <1>4. CASE call.route = "logs"
    BY <1>4
  <1> QED
    BY <1>1, <1>2, <1>3, <1>4

LEMMA HandleStep ==
    ASSUME IndInv, NEW r \in Requests, Handle(r)
    PROVE  IndInv'
  <1>1. PICK p : p = req[r]
    OBVIOUS
  <1>2. PICK status : status = Handler(p.call)
    OBVIOUS
  <1>3. PICK stage : stage = Waits[p.call.route]
    OBVIOUS
  <1>4. PICK g : g = [p EXCEPT !.status = status, !.stage = IF status = 0 THEN stage ELSE "answered"]
    OBVIOUS
  <1>5. PICK left : left = IF status = 0 /\ WithCORS(p.call.route) THEN Queries(p.call) ELSE 0
    OBVIOUS
  <1>6. PICK q : q = [g EXCEPT !.entered = TRUE, !.at = now, !.allow = withCORS(p.call), !.left = left]
    OBVIOUS
  <1>7. req' = [req EXCEPT ![r] = q] /\ UNCHANGED outside /\ reader' = reader
    <2>1. Goes(r, status, stage) = g
      BY <1>1, <1>4 DEF Goes
    <2> QED
      BY <1>1, <1>2, <1>3, <1>5, <1>6, <2>1 DEF Handle, logVars
  <1>8. p.stage = "arrived" /\ ~Preflight(p.call) /\ AuthAt(p.call, now)
    BY <1>1 DEF Handle, withAuth, AuthAt
  <1>9. RequestInv(r, p) /\ Witness(p, dbUp) /\ ReaderInv(p, reader[r])
    BY <1>1, <1>8 DEF IndInv
  <1>10. /\ Fields \subseteq DOMAIN q
         /\ q.status = status /\ q.stage = IF status = 0 THEN stage ELSE "answered"
         /\ q.call = p.call /\ q.entered = TRUE /\ q.at = now
         /\ q.allow = withCORS(p.call) /\ q.sawUp = p.sawUp /\ q.sawDown = p.sawDown
    <2>1. Fields \subseteq DOMAIN p
      BY <1>9 DEF RequestInv
    <2>2. /\ DOMAIN g = DOMAIN p
          /\ g.status = status /\ g.stage = IF status = 0 THEN stage ELSE "answered"
          /\ g.call = p.call /\ g.sawUp = p.sawUp /\ g.sawDown = p.sawDown
      BY <1>4, <2>1 DEF Fields
    <2> QED
      BY <1>6, <2>1, <2>2 DEF Fields
  <1>11. p.call.route \in {"index", "stats", "healthz", "readyz", "logs"}
    BY <1>9, CallsAssumption DEF RequestInv, IndInv
  <1>12. status = 0 =>
            \/ q.stage = "query" /\ p.call.route \in {"index", "stats"}
            \/ q.stage = "ping" /\ p.call.route = "readyz"
            \/ q.stage = "tail" /\ p.call.route = "logs"
    <2>1. CASE p.call.route \in {"index", "stats"}
      BY <1>3, <1>10, <2>1 DEF Waits
    <2>2. CASE p.call.route = "readyz"
      BY <1>3, <1>10, <2>2 DEF Waits
    <2>3. CASE p.call.route = "logs"
      BY <1>3, <1>10, <2>3 DEF Waits
    <2>4. CASE p.call.route = "healthz"
      <3>1. Handler(p.call) # 0
        BY <2>4 DEF Handler, ProbeHandler
      <3> QED
        BY <1>2, <3>1
    <2> QED
      BY <1>11, <2>1, <2>2, <2>3, <2>4
  <1>13. Waiting(q)
    BY <1>2, <1>10, <1>12 DEF Waiting
  <1>14. q.stage \in {"answered", "logging", "done"} => Answers(q)
    <2>1. SUFFICES ASSUME status # 0
                   PROVE  Answers(q)
      BY <1>12
    <2> QED
      BY <1>2, <1>10, <1>11, <2>1, HandlerAnswers DEF Answers
  <1>15. q.stage \in {"query", "ping", "tail", "answered"}
    BY <1>10, <1>12
  <1>16. RequestInv(r, q)
    <2>1. q.entered \in BOOLEAN /\ q.entered
      BY <1>10, Zenon
    <2>2. q.sawUp \in BOOLEAN /\ q.sawDown \in BOOLEAN /\ q.at \in Int /\ q.call \in Calls(r, config)
      BY <1>9, <1>10 DEF RequestInv, IndInv
    <2>3. Preflight(q.call) = Preflight(p.call) /\ AuthAt(q.call, q.at) = AuthAt(p.call, now)
      BY <1>10
    <2> QED
      BY <1>8, <1>10, <1>13, <1>14, <1>15, <2>1, <2>2, <2>3 DEF RequestInv
  <1>17. Witness(q, dbUp) /\ ReaderInv(q, reader'[r])
    BY <1>7, <1>8, <1>9, <1>10 DEF Witness, ReaderInv
  <1>18. q.stage # "idle"
    BY <1>15
  <1> QED
    BY <1>7, <1>16, <1>17, <1>18, OneRequest DEF IndInv

LEMMA QueryStep ==
    ASSUME IndInv, NEW r \in Requests, Query(r)
    PROVE  IndInv'
  <1>1. PICK p : p = req[r]
    OBVIOUS
  <1>2. PICK q : q = IF QueryFails(p.call) THEN Goes(r, StatusOfFailure(p.call), "")
                     ELSE IF p.left > 1 THEN [p EXCEPT !.left = @ - 1]
                     ELSE Goes(r, 200, "")
    OBVIOUS
  <1>3. req' = [req EXCEPT ![r] = q] /\ UNCHANGED outside /\ reader' = reader
    <2>1. UNCHANGED outside /\ reader' = reader
      BY DEF Query, logVars
    <2>2. CASE QueryFails(p.call)
      BY <1>1, <1>2, <2>1, <2>2 DEF Query
    <2>3. CASE ~QueryFails(p.call) /\ p.left > 1
      BY <1>1, <1>2, <2>1, <2>3 DEF Query
    <2>4. CASE ~QueryFails(p.call) /\ ~(p.left > 1)
      BY <1>1, <1>2, <2>1, <2>4 DEF Query
    <2> QED
      BY <2>2, <2>3, <2>4
  <1>4. p.stage = "query"
    BY <1>1 DEF Query
  <1>5. RequestInv(r, p) /\ Witness(p, dbUp) /\ ReaderInv(p, reader[r])
    BY <1>1, <1>4 DEF IndInv
  <1>6. /\ p.call.route \in {"index", "stats"} /\ Handler(p.call) = 0 /\ p.entered
        /\ IF dbUp THEN p.sawUp ELSE p.sawDown
    BY <1>4, <1>5 DEF RequestInv, Waiting, Witness
  <1>7. /\ Fields \subseteq DOMAIN q
        /\ q.call = p.call /\ q.entered = p.entered /\ q.at = p.at
        /\ q.allow = p.allow /\ q.sawUp = p.sawUp /\ q.sawDown = p.sawDown
    BY <1>1, <1>2, <1>5 DEF Goes, RequestInv, Fields
  <1>8. \/ /\ QueryFails(p.call)
           /\ q.stage = "answered" /\ q.status = StatusOfFailure(p.call)
        \/ q.stage = "query"
        \/ /\ ~QueryFails(p.call)
           /\ q.stage = "answered" /\ q.status = 200
    <2>1. Fields \subseteq DOMAIN p
      BY <1>5 DEF RequestInv
    <2>2. StatusOfFailure(p.call) # 0
      BY DEF StatusOfFailure
    <2> QED
      BY <1>1, <1>2, <1>4, <2>1, <2>2 DEF Goes, Fields
  <1>9. Waiting(q)
    BY <1>6, <1>7, <1>8 DEF Waiting
  <1>10. q.stage \in {"answered", "logging", "done"} => Answers(q)
    <2>1. CASE QueryFails(p.call) /\ q.status = StatusOfFailure(p.call)
      <3>1. CASE ModelOf(p.call).tableMissing
        <4>1. q.status \in {400, 500}
          BY <2>1 DEF StatusOfFailure
        <4> QED
          BY <1>6, <1>7, <3>1, <4>1 DEF Answers
      <3>2. CASE ~ModelOf(p.call).tableMissing
        <4>1. ~dbUp /\ q.status = 500
          BY <2>1, <3>2 DEF QueryFails, StatusOfFailure
        <4> QED
          BY <1>6, <1>7, <4>1 DEF Answers
      <3> QED
        BY <3>1, <3>2
    <2>2. CASE ~QueryFails(p.call) /\ q.status = 200
      <3>1. dbUp /\ ~ModelOf(p.call).tableMissing
        BY <2>2 DEF QueryFails
      <3> QED
        BY <1>6, <1>7, <2>2, <3>1 DEF Answers
    <2> QED
      BY <1>8, <2>1, <2>2
  <1>11. RequestInv(r, q)
    BY <1>4, <1>5, <1>7, <1>8, <1>9, <1>10 DEF RequestInv
  <1>12. Witness(q, dbUp) /\ ReaderInv(q, reader'[r])
    BY <1>3, <1>4, <1>5, <1>6, <1>7, <1>8 DEF Witness, ReaderInv
  <1> QED
    BY <1>3, <1>8, <1>11, <1>12, OneRequest DEF IndInv

LEMMA PingStep ==
    ASSUME IndInv, NEW r \in Requests, Ping(r)
    PROVE  IndInv'
  <1>1. PICK p : p = req[r]
    OBVIOUS
  <1>2. PICK status : status = IF dbReady THEN 200 ELSE 503
    OBVIOUS
  <1>3. PICK q : q = Goes(r, status, "")
    OBVIOUS
  <1>4. req' = [req EXCEPT ![r] = q] /\ UNCHANGED outside /\ reader' = reader
    BY <1>2, <1>3 DEF Ping, logVars
  <1>5. p.stage = "ping"
    BY <1>1 DEF Ping
  <1>6. RequestInv(r, p) /\ Witness(p, dbUp) /\ ReaderInv(p, reader[r])
    BY <1>1, <1>5 DEF IndInv
  <1>7. p.call.route = "readyz" /\ Handler(p.call) = 0 /\ IF dbUp THEN p.sawUp ELSE p.sawDown
    BY <1>5, <1>6 DEF RequestInv, Waiting, Witness
  <1>8. /\ Fields \subseteq DOMAIN q
        /\ q.call = p.call /\ q.entered = p.entered /\ q.at = p.at
        /\ q.allow = p.allow /\ q.sawUp = p.sawUp /\ q.sawDown = p.sawDown
        /\ q.stage = "answered" /\ q.status = status
    <2>1. status # 0
      BY <1>2
    <2> QED
      BY <1>1, <1>3, <1>6, <2>1 DEF Goes, RequestInv, Fields
  <1>9. Answers(q)
    BY <1>2, <1>7, <1>8, HandlerAnswers DEF Answers, dbReady
  <1>10. RequestInv(r, q)
    BY <1>5, <1>6, <1>8, <1>9 DEF RequestInv, Waiting
  <1>11. Witness(q, dbUp) /\ ReaderInv(q, reader'[r])
    BY <1>4, <1>5, <1>6, <1>8 DEF Witness, ReaderInv
  <1> QED
    BY <1>4, <1>8, <1>10, <1>11, OneRequest DEF IndInv

(* The client leaves, and what it waited for is cancelled. *)
LEMMA DisconnectStep ==
    ASSUME IndInv, NEW r \in Requests, Disconnect(r)
    PROVE  IndInv'
  <1>1. PICK p : p = req[r]
    OBVIOUS
  <1>2. PICK q : q = [p EXCEPT !.gone = TRUE]
    OBVIOUS
  <1>3. req' = [req EXCEPT ![r] = q] /\ UNCHANGED outside /\ reader' = reader
    BY <1>1, <1>2 DEF Disconnect, logVars
  <1>4. p.stage \in {"query", "ping"}
    BY <1>1 DEF Disconnect
  <1>5. RequestInv(r, p) /\ Witness(p, dbUp) /\ ReaderInv(p, reader[r])
    BY <1>1, <1>4 DEF IndInv
  <1>6. /\ Fields \subseteq DOMAIN q
        /\ q.stage = p.stage /\ q.call = p.call /\ q.entered = p.entered /\ q.at = p.at
        /\ q.allow = p.allow /\ q.sawUp = p.sawUp /\ q.sawDown = p.sawDown
    BY <1>2, <1>5 DEF RequestInv, Fields
  <1>7. Waiting(q)
    BY <1>5, <1>6 DEF RequestInv, Waiting
  <1>8. RequestInv(r, q)
    BY <1>4, <1>5, <1>6, <1>7 DEF RequestInv
  <1>9. Witness(q, dbUp) /\ ReaderInv(q, reader'[r])
    BY <1>3, <1>4, <1>5, <1>6 DEF Witness, ReaderInv
  <1> QED
    BY <1>3, <1>4, <1>6, <1>8, <1>9, OneRequest DEF IndInv

LEMMA CancelStep ==
    ASSUME IndInv, NEW r \in Requests, Cancel(r)
    PROVE  IndInv'
  <1>1. PICK p : p = req[r]
    OBVIOUS
  <1>2. PICK status : status = IF p.stage = "query" THEN 500 ELSE 503
    OBVIOUS
  <1>3. PICK q : q = Goes(r, status, "")
    OBVIOUS
  <1>4. req' = [req EXCEPT ![r] = q] /\ UNCHANGED outside /\ reader' = reader
    BY <1>1, <1>2, <1>3 DEF Cancel, logVars
  <1>5. p.stage \in {"query", "ping"} /\ p.gone
    BY <1>1 DEF Cancel
  <1>6. RequestInv(r, p) /\ Witness(p, dbUp) /\ ReaderInv(p, reader[r])
    BY <1>1, <1>5 DEF IndInv
  <1>7. /\ p.stage = "query" => p.call.route \in {"index", "stats"}
        /\ p.stage = "ping" => p.call.route = "readyz"
    BY <1>6 DEF RequestInv, Waiting
  <1>8. /\ Fields \subseteq DOMAIN q
        /\ q.call = p.call /\ q.entered = p.entered /\ q.at = p.at
        /\ q.allow = p.allow /\ q.sawUp = p.sawUp /\ q.sawDown = p.sawDown /\ q.gone
        /\ q.stage = "answered" /\ q.status = status
    <2>1. status # 0
      BY <1>2
    <2>2. Fields \subseteq DOMAIN p
      BY <1>6 DEF RequestInv
    <2>3. q = [p EXCEPT !.status = status, !.stage = "answered"]
      BY <1>1, <1>3, <2>1 DEF Goes
    <2> QED
      BY <1>5, <2>2, <2>3 DEF Fields
  <1>9. Answers(q)
    <2>1. status \in {500, 503} /\ (q.call.route \in {"index", "stats"} => status = 500)
      BY <1>2, <1>5, <1>7, <1>8
    <2> QED
      BY <1>8, <2>1 DEF Answers
  <1>10. RequestInv(r, q)
    BY <1>5, <1>6, <1>8, <1>9 DEF RequestInv, Waiting
  <1>11. Witness(q, dbUp) /\ ReaderInv(q, reader'[r])
    BY <1>4, <1>5, <1>6, <1>8 DEF Witness, ReaderInv
  <1> QED
    BY <1>4, <1>8, <1>10, <1>11, OneRequest DEF IndInv

(* The steps of a reader of the log. *)
LEMMA ReaderStep ==
    ASSUME IndInv, NEW r \in Requests, Open(r) \/ Read(r)
    PROVE  IndInv'
  <1>1. UNCHANGED outside /\ req' = req
    BY DEF Open, Read
  <1>2. req[r].stage = "tail"
    BY DEF Open, Read, ReadChunk, IndInv, ReaderInv
  <1>3. PICK q : q = req[r]
    OBVIOUS
  <1>4. req' = req /\ q = req[r]
    BY <1>1, <1>3
  <1>5. RequestInv(r, q) /\ Witness(q, dbUp) /\ q.stage # "idle"
    BY <1>2, <1>3 DEF IndInv
  <1>6. DOMAIN reader' = Readers /\ \A s \in Requests \ {r} : reader'[s] = reader[s]
    <2>1. CASE Open(r)
      BY <2>1 DEF Open, OpenLog, IndInv
    <2>2. CASE Read(r)
      <3>1. \E rd : reader' = [reader EXCEPT ![r] = rd]
        BY <2>2 DEF Read, ReadChunk
      <3> QED
        BY <3>1 DEF IndInv
    <2> QED
      BY <2>1, <2>2
  <1>7. "phase" \in DOMAIN reader'[r]
    <2>1. r \in DOMAIN reader /\ "phase" \in DOMAIN reader[r]
      BY ReadersAssumption DEF IndInv, ReaderInv
    <2>2. CASE Open(r)
      BY <2>1, <2>2 DEF Open, OpenLog
    <2>3. CASE Read(r)
      BY <2>1, <2>3 DEF Read, ReadChunk
    <2> QED
      BY <2>2, <2>3
  <1>8. ReaderInv(q, reader'[r])
    BY <1>2, <1>3, <1>7 DEF ReaderInv
  <1> QED
    BY <1>1, <1>4, <1>5, <1>6, <1>8, OneRequest

LEMMA FinishStep ==
    ASSUME IndInv, NEW r \in Requests, Finish(r)
    PROVE  IndInv'
  <1>1. PICK p : p = req[r]
    OBVIOUS
  <1>2. PICK q : q = Goes(r, 200, "")
    OBVIOUS
  <1>3. req' = [req EXCEPT ![r] = q] /\ UNCHANGED outside
    BY <1>2 DEF Finish
  <1>4. p.stage = "tail"
    BY <1>1 DEF Finish, FinishTail, IndInv, ReaderInv
  <1>5. RequestInv(r, p) /\ Witness(p, dbUp)
    BY <1>1, <1>4 DEF IndInv
  <1>6. /\ Fields \subseteq DOMAIN q
        /\ q.call = p.call /\ q.entered = p.entered /\ q.at = p.at
        /\ q.allow = p.allow /\ q.sawUp = p.sawUp /\ q.sawDown = p.sawDown
        /\ q.stage = "answered"
    BY <1>1, <1>2, <1>5 DEF Goes, RequestInv, Fields
  <1>7. Answers(q)
    BY <1>4, <1>5, <1>6 DEF Answers, RequestInv, Waiting
  <1>8. RequestInv(r, q)
    BY <1>4, <1>5, <1>6, <1>7 DEF RequestInv, Waiting
  <1>9. Witness(q, dbUp)
    BY <1>6 DEF Witness
  <1>10. /\ DOMAIN reader' = Readers /\ \A s \in Requests \ {r} : reader'[s] = reader[s]
         /\ ReaderInv(q, reader'[r])
    <2>1. r \in DOMAIN reader /\ "phase" \in DOMAIN reader[r]
      BY ReadersAssumption DEF IndInv, ReaderInv
    <2>2. \E entries : reader' = [reader EXCEPT ![r] = [reader[r] EXCEPT !.phase = "done",
                                                                        !.entries = entries]]
      BY DEF Finish, FinishTail
    <2>3. "phase" \in DOMAIN reader'[r] /\ reader'[r].phase = "done"
      BY <2>1, <2>2
    <2>4. DOMAIN reader' = Readers /\ \A s \in Requests \ {r} : reader'[s] = reader[s]
      BY <2>2 DEF IndInv
    <2> QED
      BY <2>3, <2>4 DEF ReaderInv
  <1> QED
    BY <1>3, <1>6, <1>8, <1>9, <1>10, OneRequest

(* The line in the log, before and after its second part. *)
LEMMA LogStep ==
    ASSUME IndInv, NEW r \in Requests, Log(r) \/ Logged(r)
    PROVE  IndInv'
  <1>1. PICK p : p = req[r]
    OBVIOUS
  <1>2. PICK stage \in {"logging", "done"} : req' = [req EXCEPT ![r].stage = stage]
    BY DEF Log, Logged
  <1>3. PICK q : q = [p EXCEPT !.stage = stage]
    OBVIOUS
  <1>4. req' = [req EXCEPT ![r] = q] /\ UNCHANGED outside /\ reader' = reader
    BY <1>1, <1>2, <1>3 DEF Log, Logged, BeginWrite, EndWrite
  <1>5. p.stage \in {"answered", "logging"}
    BY <1>1 DEF Log, Logged
  <1>6. RequestInv(r, p) /\ ReaderInv(p, reader[r])
    BY <1>1, <1>5 DEF IndInv
  <1>7. /\ Fields \subseteq DOMAIN q
        /\ q.call = p.call /\ q.entered = p.entered /\ q.at = p.at /\ q.status = p.status
        /\ q.allow = p.allow /\ q.sawUp = p.sawUp /\ q.sawDown = p.sawDown /\ q.gone = p.gone
        /\ q.stage = stage
    BY <1>3, <1>6 DEF RequestInv, Fields
  <1>8. RequestInv(r, q)
    BY <1>2, <1>5, <1>6, <1>7 DEF RequestInv, Waiting, Answers
  <1>9. Witness(q, dbUp) /\ ReaderInv(q, reader'[r])
    BY <1>2, <1>4, <1>5, <1>6, <1>7 DEF Witness, ReaderInv
  <1> QED
    BY <1>2, <1>4, <1>7, <1>8, <1>9, OneRequest DEF IndInv

LEMMA Inductive ==
    Spec => []IndInv
  <1>1. Init => IndInv
    <2> SUFFICES ASSUME Init
                 PROVE  IndInv
      OBVIOUS
    <2>1. reader = [r \in Readers |-> Idle] /\ req = [r \in Requests |-> [stage |-> "idle"]]
      BY DEF Init, LogInit
    <2>2. ASSUME NEW r \in Requests
          PROVE  req[r].stage = "idle" /\ ReaderInv(req[r], reader[r])
      BY <2>1, ReadersAssumption DEF ReaderInv, Idle
    <2> QED
      BY <2>1, <2>2 DEF Init, IndInv
  <1>2. IndInv /\ [Next]_vars => IndInv'
    <2> SUFFICES ASSUME IndInv, [Next]_vars
                 PROVE  IndInv'
      OBVIOUS
    <2>1. CASE InitPostgres \/ InitRegistry \/ InitRoutes \/ CannotListen \/ DatabaseRefuses
      BY <2>1, StartupStep
    <2>2. CASE DatabaseStops
      BY <2>2, DatabaseStep DEF DatabaseStops, logVars
    <2>3. CASE DatabaseReturns
      BY <2>3, DatabaseStep DEF DatabaseReturns, logVars
    <2>4. CASE Tick
      BY <2>4, TickStep
    <2>5. CASE \E r \in Requests : \E call \in Calls(r, config) : Arrive(r, call)
      BY <2>5, ArriveStep
    <2>6. CASE \E r \in Requests : Disconnect(r) \/ Serve(r)
      <3>1. PICK r \in Requests : Disconnect(r) \/ Serve(r)
        BY <2>6
      <3> QED
        BY <3>1, PreflightStep, RefuseStep, HandleStep, QueryStep, PingStep,
           DisconnectStep, CancelStep, ReaderStep, FinishStep, LogStep DEF Serve
    <2>7. CASE UNCHANGED vars
      <3>1. UNCHANGED <<config, now, dbUp, req, reader>>
        BY <2>7 DEF vars, logVars
      <3>2. ASSUME NEW r \in Requests, req[r].stage # "idle"
            PROVE  RequestInv(r, req[r])'
        <4>1. PICK p : p = req[r]
          OBVIOUS
        <4>2. RequestInv(r, p)' <=> RequestInv(r, p)
          BY <3>1, RequestInvStable
        <4> QED
          BY <3>1, <3>2, <4>1, <4>2 DEF IndInv
      <3> QED
        BY <3>1, <3>2 DEF IndInv
    <2> QED
      BY <2>1, <2>2, <2>3, <2>4, <2>5, <2>6, <2>7 DEF Next
  <1> QED
    BY <1>1, <1>2, PTL DEF Spec
-----------------------------------------------------------------------------
(* Sequences from their end.                                               *)

(* The elements from the last to the first. *)
LEMMA ReverseIs ==
    ASSUME NEW E, NEW s \in Seq(E)
    PROVE  /\ Reverse(s) \in Seq(E)
           /\ Len(Reverse(s)) = Len(s)
           /\ \A i \in 1..Len(s) : Reverse(s)[i] = s[(Len(s) - i) + 1]
  <1>1. \A i \in 1..Len(s) : (Len(s) - i) + 1 \in 1..Len(s)
    OBVIOUS
  <1>2. Reverse(s) \in [1..Len(s) -> E] /\ Len(s) \in Nat
    BY <1>1 DEF Reverse
  <1> QED
    BY <1>2, SeqDef DEF Reverse

(* The second of two sequences comes first. *)
LEMMA ReverseConcat ==
    ASSUME NEW E, NEW s \in Seq(E), NEW t \in Seq(E)
    PROVE  Reverse(s \o t) = Reverse(t) \o Reverse(s)
  <1> DEFINE st == s \o t
             a == Reverse(t)
             b == Reverse(s)
             c == Reverse(st)
             ab == a \o b
             l == Len(s)
             m == Len(t)
  <1>1. a \in Seq(E) /\ Len(a) = m /\ \A i \in 1..m : a[i] = t[(m - i) + 1]
    BY ReverseIs
  <1>2. b \in Seq(E) /\ Len(b) = l /\ \A i \in 1..l : b[i] = s[(l - i) + 1]
    BY ReverseIs
  <1>3. st \in Seq(E) /\ Len(st) = l + m
        /\ \A i \in 1..(l + m) : st[i] = IF i <= l THEN s[i] ELSE t[i - l]
    BY ConcatProperties
  <1> HIDE DEF a, b, st
  <1>4. c \in Seq(E) /\ Len(c) = l + m /\ \A i \in 1..(l + m) : c[i] = st[((l + m) - i) + 1]
    <2>1. c \in Seq(E) /\ Len(c) = Len(st) /\ \A i \in 1..Len(st) : c[i] = st[(Len(st) - i) + 1]
      BY <1>3, ReverseIs
    <2> HIDE DEF c, l, m
    <2> QED
      BY <1>3, <2>1
  <1>5. ab \in Seq(E) /\ Len(ab) = m + l
        /\ \A i \in 1..(m + l) : ab[i] = IF i <= m THEN a[i] ELSE b[i - m]
    BY <1>1, <1>2, ConcatProperties
  <1>6. l \in Nat /\ m \in Nat
    OBVIOUS
  <1> HIDE DEF c, ab, l, m
  <1>7. ASSUME NEW i \in 1..(l + m)
        PROVE  c[i] = ab[i]
    <2> DEFINE j == ((l + m) - i) + 1
    <2>1. j \in 1..(l + m) /\ c[i] = st[j] /\ j = ((l + m) - i) + 1
      BY <1>4, <1>6
    <2>2. i \in 1..(m + l)
      BY <1>6
    <2> HIDE DEF j
    <2>3. CASE i <= m
      <3>1. ~(j <= l) /\ j - l = (m - i) + 1 /\ i \in 1..m
        <4>1. i \in Int /\ 1 <= i /\ l \in Int /\ m \in Int /\ j = ((l + m) - i) + 1
          BY <1>6, <2>1
        <4>2. j - l = (m - i) + 1 /\ i \in 1..m
          BY <2>3, <4>1
        <4>3. ~(j <= l)
          BY <2>3, <4>1
        <4> QED
          BY <4>2, <4>3
      <3> QED
        BY <1>1, <1>3, <1>5, <2>1, <2>2, <2>3, <3>1
    <2>4. CASE ~(i <= m)
      <3>1. j <= l /\ j = (l - (i - m)) + 1 /\ i - m \in 1..l
        BY <1>6, <2>1, <2>4
      <3> QED
        BY <1>2, <1>3, <1>5, <2>1, <2>2, <2>4, <3>1
    <2> QED
      BY <2>3, <2>4
  <1>8. c = ab
    <2>1. Len(c) = Len(ab)
      BY <1>4, <1>5, <1>6
    <2> QED
      BY <1>4, <1>5, <1>7, <2>1, SeqEqual
  <1> QED
    BY <1>8 DEF c, ab, a, b, st

(* Selecting goes either way. *)
LEMMA KeepReverse ==
    ASSUME NEW E, NEW S
    PROVE  \A s \in Seq(E) : Keep(Reverse(s), S) = Reverse(Keep(s, S))
  <1> DEFINE P == {s \in Seq(E) : Keep(Reverse(s), S) = Reverse(Keep(s, S))}
  <1>0. Reverse(<<>>) = <<>>
    BY DEF Reverse
  <1>1. <<>> \in P
    <2>1. Keep(<<>>, S) = <<>> /\ <<>> \in Seq(E)
      BY KeepEmpty
    <2> QED
      BY <1>0, <2>1
  <1>2. ASSUME NEW s \in Seq(E), s \in P, NEW e \in E
        PROVE  Append(s, e) \in P
    <2>1. Append(s, e) = s \o <<e>> /\ <<e>> \in Seq(E)
      OBVIOUS
    <2>2. Reverse(<<e>>) = <<e>>
      BY DEF Reverse
    <2>3. Reverse(s \o <<e>>) = <<e>> \o Reverse(s)
      BY <2>1, <2>2, ReverseConcat
    <2>4. Reverse(s) \in Seq(E)
      BY ReverseIs
    <2>5. Keep(<<e>> \o Reverse(s), S) = Keep(<<e>>, S) \o Keep(Reverse(s), S)
      <3> DEFINE one == <<e>>
                 t == Reverse(s)
      <3>1. one \in Seq(E) /\ t \in Seq(E)
        BY <2>1, <2>4
      <3> HIDE DEF one, t
      <3>2. Keep(one \o t, S) = Keep(one, S) \o Keep(t, S)
        BY <3>1, KeepBeginning
      <3> QED
        BY <3>2 DEF one, t
    <2>6. Keep(<<e>>, S) = IF e \in S THEN <<e>> ELSE <<>>
      BY KeepOne
    <2>7. Keep(Append(s, e), S) = IF e \in S THEN Append(Keep(s, S), e) ELSE Keep(s, S)
      BY KeepAppend
    <2>8. Keep(Reverse(s), S) = Reverse(Keep(s, S))
      BY <1>2
    <2> DEFINE kept == Keep(s, S)
    <2>9. kept \in Seq(E)
      <3>1. Keep(s, S) \in Seq(E \cap S)
        BY KeepInSeq
      <3> HIDE DEF kept
      <3>2. kept \in Seq(E \cap S)
        BY <3>1 DEF kept
      <3> QED
        BY <3>2
    <2> HIDE DEF kept
    <2>10. Reverse(kept) \in Seq(E)
      BY <2>9, ReverseIs
    <2>11. Append(kept, e) = kept \o <<e>> /\ Reverse(kept \o <<e>>) = <<e>> \o Reverse(kept)
      <3> DEFINE one == <<e>>
      <3>1. Append(kept, e) = kept \o <<e>>
        BY <2>9
      <3>2. one \in Seq(E) /\ Reverse(one) = one
        BY <2>1, <2>2
      <3> HIDE DEF one
      <3>3. Reverse(kept \o one) = Reverse(one) \o Reverse(kept)
        BY <2>9, <3>2, ReverseConcat
      <3> QED
        BY <3>1, <3>2, <3>3 DEF one
    <2>12. Keep(Reverse(Append(s, e)), S) = Reverse(Keep(Append(s, e), S))
      <3>1. CASE e \in S
        BY <2>1, <2>3, <2>5, <2>6, <2>7, <2>8, <2>11, <3>1 DEF kept
      <3>2. CASE e \notin S
        <4>1. <<>> \o Reverse(kept) = Reverse(kept)
          BY <2>10
        <4> QED
          BY <2>1, <2>3, <2>5, <2>6, <2>7, <2>8, <3>2, <4>1 DEF kept
      <3> QED
        BY <3>1, <3>2
    <2> QED
      BY <2>12
  <1> HIDE DEF P
  <1>3. \A s \in Seq(E) : s \in P
    BY <1>1, <1>2, InductionOnSeqs
  <1> QED
    BY <1>3 DEF P

(* The last n elements, in their order. *)
LEMMA LastElements ==
    ASSUME NEW E, NEW s \in Seq(E), NEW n \in Nat
    PROVE  Reverse(Beginning(Reverse(s), n))
              = SubSeq(s, IF Len(s) - n > 0 THEN (Len(s) - n) + 1 ELSE 1, Len(s))
  <1> DEFINE l == Len(s)
             a == Reverse(s)
             b == Beginning(a, n)
             c == Reverse(b)
             m == IF l < n THEN l ELSE n
             from == IF l - n > 0 THEN (l - n) + 1 ELSE 1
             d == SubSeq(s, from, l)
  <1>1. l \in Nat
    OBVIOUS
  <1>2. a \in Seq(E) /\ Len(a) = l /\ \A i \in 1..l : a[i] = s[(l - i) + 1]
    BY ReverseIs
  <1> HIDE DEF a
  <1>3. b \in Seq(E) /\ Len(b) = m /\ \A i \in 1..m : b[i] = a[i]
    BY <1>2, BeginningIs
  <1> HIDE DEF b
  <1>4. c \in Seq(E) /\ Len(c) = m /\ \A i \in 1..m : c[i] = b[(m - i) + 1]
    <2> HIDE DEF m
    <2>1. Reverse(b) \in Seq(E) /\ Len(Reverse(b)) = Len(b)
          /\ \A i \in 1..Len(b) : Reverse(b)[i] = b[(Len(b) - i) + 1]
      BY <1>3, ReverseIs
    <2> QED
      BY <1>3, <2>1
  <1> HIDE DEF c
  <1>5. from \in 1..(l + 1) /\ (l - from) + 1 = m /\ from = (l - m) + 1 /\ m \in 0..l
    <2> HIDE DEF l
    <2> QED
      BY <1>1
  <1> HIDE DEF l, m, from
  <1>6. d \in Seq(E) /\ Len(d) = m /\ \A i \in 1..m : d[i] = s[(from + i) - 1]
    <2>1. \A i \in from..l : s[i] \in E
      BY <1>1, <1>5 DEF l
    <2>2. from \in Int /\ l \in Int
      BY <1>1, <1>5
    <2>3. d \in Seq(E) /\ Len(d) = (IF from <= l THEN (l - from) + 1 ELSE 0)
          /\ \A i \in 1..((l - from) + 1) : d[i] = s[(from + i) - 1]
      BY <2>1, <2>2, SubSeqProperties
    <2> HIDE DEF d
    <2> QED
      BY <1>1, <1>5, <2>3
  <1> HIDE DEF d
  <1>7. ASSUME NEW i \in 1..m
        PROVE  c[i] = d[i]
    <2> DEFINE j == (m - i) + 1
    <2>1. j \in 1..m /\ j \in 1..l /\ (l - j) + 1 = (from + i) - 1
      BY <1>1, <1>5
    <2>2. c[i] = b[j] /\ d[i] = s[(from + i) - 1]
      BY <1>4, <1>6
    <2> HIDE DEF j
    <2>3. b[j] = a[j] /\ a[j] = s[(l - j) + 1]
      BY <1>2, <1>3, <2>1
    <2> QED
      BY <2>1, <2>2, <2>3
  <1>8. c = d
    BY <1>4, <1>6, <1>7, SeqEqual
  <1> QED
    BY <1>8 DEF c, d, b, a, l, from

(* Having found some among the last elements, looking at those before them.*)
LEMMA LookOn ==
    ASSUME NEW S, NEW T, NEW a \in Seq(S), NEW b \in Seq(S), NEW n \in Nat
    PROVE  LET found == Beginning(Keep(Reverse(a), T), n)
           IN  Chained(found, Beginning(Keep(Reverse(b), T), n - Len(found)))
                  = Beginning(Keep(Reverse(Chained(b, a)), T), n)
  <1>1. PICK ra \in Seq(S), rb \in Seq(S) : ra = Reverse(a) /\ rb = Reverse(b)
    BY ReverseIs
  <1>2. Reverse(b \o a) = ra \o rb
    BY <1>1, ReverseConcat
  <1>3. PICK ka, kb : ka = Keep(ra, T) /\ kb = Keep(rb, T)
    OBVIOUS
  <1>4. Keep(ra \o rb, T) = ka \o kb
    BY <1>3, KeepBeginning
  <1>5. ka \in Seq(S \cap T) /\ kb \in Seq(S \cap T)
    BY <1>3, KeepInSeq
  <1>6. PICK D : D = S \cap T
    OBVIOUS
  <1>7. Beginning(ka \o kb, n) = Beginning(ka, n) \o Beginning(kb, n - Len(Beginning(ka, n)))
    BY <1>5, <1>6, BeginningOfTwo
  <1> QED
    BY <1>1, <1>2, <1>3, <1>4, <1>7 DEF Chained

(* Having found the last of a selection, they are put in its order.        *)
LEMMA NewestInOrder ==
    ASSUME NEW S, NEW T, NEW a \in Seq(S), NEW n \in Nat
    PROVE  LET kept == Keep(a, T)
               surplus == Len(kept) - n
           IN  Reverse(Beginning(Keep(Reverse(a), T), n))
                  = SubSeq(kept, IF surplus > 0 THEN surplus + 1 ELSE 1, Len(kept))
  <1>1. PICK kept : kept = Keep(a, T)
    OBVIOUS
  <1>2. kept \in Seq(S \cap T)
    BY <1>1, KeepInSeq
  <1>3. Keep(Reverse(a), T) = Reverse(kept)
    BY <1>1, KeepReverse
  <1>4. Reverse(Beginning(Reverse(kept), n))
           = SubSeq(kept, IF Len(kept) - n > 0 THEN (Len(kept) - n) + 1 ELSE 1, Len(kept))
    <2>1. PICK D : D = S \cap T
      OBVIOUS
    <2>2. kept \in Seq(D)
      BY <1>2, <2>1
    <2> QED
      BY <2>2, LastElements
  <1> QED
    BY <1>1, <1>3, <1>4
-----------------------------------------------------------------------------
(* How a text falls into lines, one cell more at a time.                   *)

Counted(n) == [i \in 1..n |-> i]

Breaks(text) == Keep(Counted(Len(text)), {i \in 1..Len(text) : text[i] = NL})

(* The places of a text, one more. *)
LEMMA CountedIs ==
    ASSUME NEW n \in Nat
    PROVE  Counted(n) \in Seq(1..n) /\ Counted(n + 1) = Append(Counted(n), n + 1)
  <1>1. Counted(n) \in Seq(1..n) /\ Len(Counted(n)) = n
    BY DEF Counted
  <1>2. Counted(n + 1) \in Seq(1..(n + 1)) /\ Len(Counted(n + 1)) = n + 1
    BY DEF Counted
  <1>3. \A i \in 1..(n + 1) : Counted(n + 1)[i] = Append(Counted(n), n + 1)[i]
    BY <1>1 DEF Counted
  <1>4. Append(Counted(n), n + 1) \in Seq(1..(n + 1)) /\ Len(Append(Counted(n), n + 1)) = n + 1
    BY <1>1
  <1> QED
    BY <1>1, <1>2, <1>3, <1>4, SeqEqual

(* The newlines are in the text. *)
LEMMA BreaksInText ==
    ASSUME NEW E, NEW text \in Seq(E)
    PROVE  Breaks(text) \in Seq(1..Len(text))
  <1> DEFINE n == Len(text)
             c == Counted(n)
             S == {i \in 1..n : text[i] = NL}
  <1>1. n \in Nat
    OBVIOUS
  <1>2. c \in Seq(1..n)
    BY <1>1, CountedIs
  <1> HIDE DEF n, c, S
  <1>3. PICK D : D = 1..n
    OBVIOUS
  <1>4. PICK kept : kept = Keep(c, S)
    OBVIOUS
  <1>5. kept \in Seq(D \cap S)
    BY <1>2, <1>3, <1>4, KeepInSeq
  <1>6. kept \in Seq(D)
    BY <1>5
  <1> QED
    BY <1>3, <1>4, <1>6 DEF Breaks, n, c, S

(* A newline that is appended is one more. *)
LEMMA BreaksAppend ==
    ASSUME NEW E, NEW text \in Seq(E), NEW cell \in E
    PROVE  Breaks(Append(text, cell))
              = IF cell = NL THEN Append(Breaks(text), Len(text) + 1) ELSE Breaks(text)
  <1> DEFINE n == Len(text)
             c == Counted(n)
             longer == Append(text, cell)
             S == {i \in 1..n : text[i] = NL}
             T == {i \in 1..(n + 1) : longer[i] = NL}
             last == n + 1
             D == 1..n
             W == 1..last
  <1>1. n \in Nat /\ Len(longer) = last /\ \A i \in 1..n : longer[i] = text[i]
    OBVIOUS
  <1>2. longer[last] = cell
    OBVIOUS
  <1>3. c \in Seq(D) /\ Counted(last) = Append(c, last)
    BY <1>1, CountedIs
  <1>4. Breaks(longer) = Keep(Append(c, last), T) /\ Breaks(text) = Keep(c, S)
    BY <1>1, <1>3 DEF Breaks
  <1>5. D \cap T = D \cap S /\ (last \in T <=> cell = NL) /\ last \in W /\ D \subseteq W
    BY <1>1, <1>2
  <1> HIDE DEF c, longer, S, T, last, D, W
  <1>6. Keep(c, T) = Keep(c, S)
    BY <1>3, <1>5, KeepSame
  <1>7. c \in Seq(W)
    BY <1>3, <1>5
  <1>8. Keep(Append(c, last), T) = IF last \in T THEN Append(Keep(c, T), last) ELSE Keep(c, T)
    BY <1>5, <1>7, KeepAppend
  <1> QED
    BY <1>4, <1>5, <1>6, <1>8 DEF longer, last, n

(* The lines are what is between the newlines, before the first one and    *)
(* after the last.                                                         *)
LEMMA LinesAre ==
    ASSUME NEW E, NEW text \in Seq(E)
    PROVE  LET b == Breaks(text)
           IN  Lines(text) = [k \in 1..(Len(b) + 1) |->
                   SubSeq(text, IF k = 1 THEN 1 ELSE b[k - 1] + 1,
                                IF k <= Len(b) THEN b[k] - 1 ELSE Len(text))]
  <1> DEFINE n == Len(text)
             places == 1..(n + 1)
             c == Counted(n)
             S == {i \in 1..n : text[i] = NL}
             T == {i \in places : i > n \/ text[i] = NL}
             last == n + 1
             D == 1..n
             ends == Keep([i \in places |-> i], T)
             b == Breaks(text)
  <1>1. n \in Nat
    OBVIOUS
  <1>2. Lines(text) = [k \in DOMAIN ends |->
                          SubSeq(text, IF k = 1 THEN 1 ELSE ends[k - 1] + 1, ends[k] - 1)]
    BY DEF Lines
  <1>3. c \in Seq(D) /\ [i \in places |-> i] = Append(c, last)
    BY <1>1, CountedIs DEF Counted
  <1>4. b = Keep(c, S) /\ b \in Seq(D)
    BY BreaksInText DEF Breaks
  <1>5. D \cap T = D \cap S /\ last \in T /\ last \in places /\ D \subseteq places
    BY <1>1
  <1>6. ends = Keep(Append(c, last), T)
    BY <1>3
  <1> HIDE DEF c, S, T, D, b, ends
  <1>7. Keep(c, T) = Keep(c, S)
    BY <1>3, <1>5, KeepSame
  <1>8. ends = Append(b, last)
    <2> HIDE DEF places, last
    <2>1. c \in Seq(places)
      BY <1>3, <1>5
    <2>2. Keep(Append(c, last), T) = IF last \in T THEN Append(Keep(c, T), last) ELSE Keep(c, T)
      BY <1>5, <2>1, KeepAppend
    <2> QED
      BY <1>4, <1>5, <1>6, <1>7, <2>2
  <1>9. /\ DOMAIN ends = 1..(Len(b) + 1) /\ Len(b) \in Nat
        /\ \A k \in 1..Len(b) : ends[k] = b[k] /\ b[k] \in Int
        /\ ends[Len(b) + 1] = last
    BY <1>4, <1>8 DEF D
  <1> DEFINE F(k) == SubSeq(text, IF k = 1 THEN 1 ELSE ends[k - 1] + 1, ends[k] - 1)
             G(k) == SubSeq(text, IF k = 1 THEN 1 ELSE b[k - 1] + 1,
                                  IF k <= Len(b) THEN b[k] - 1 ELSE n)
  <1>10. ASSUME NEW k \in 1..(Len(b) + 1)
         PROVE  F(k) = G(k)
    <2>1. k # 1 => k - 1 \in 1..Len(b)
      BY <1>9
    <2>2. k # 1 => ends[k - 1] = b[k - 1]
      BY <1>9, <2>1
    <2>3. ends[k] - 1 = IF k <= Len(b) THEN b[k] - 1 ELSE n
      <3>1. CASE k <= Len(b)
        BY <1>9, <3>1
      <3>2. CASE ~(k <= Len(b))
        <4>1. k = Len(b) + 1 /\ (n + 1) - 1 = n
          BY <1>1, <1>9, <3>2
        <4> QED
          BY <1>9, <3>2, <4>1
      <3> QED
        BY <3>1, <3>2
    <2> QED
      BY <2>2, <2>3
  <1> HIDE DEF F, G
  <1>11. [k \in DOMAIN ends |-> F(k)] = [k \in 1..(Len(b) + 1) |-> G(k)]
    BY <1>9, <1>10
  <1> QED
    BY <1>2, <1>11 DEF F, G, b, n

(* No text is one line, with nothing in it. *)
LEMMA LinesOfNothing ==
    Lines(<<>>) = <<<<>>>>
  <1>1. PICK E : E = Nat
    OBVIOUS
  <1>2. PICK none \in Seq(E) : none = <<>>
    <2>1. <<>> \in Seq(E)
      OBVIOUS
    <2> QED
      BY <2>1
  <1>3. Breaks(none) = <<>>
    BY <1>2, KeepEmpty DEF Breaks, Counted
  <1>4. Lines(none) = [k \in 1..1 |-> SubSeq(none, 1, 0)]
    <2>1. PICK b : b = Breaks(none) /\ b = <<>>
      BY <1>3
    <2>2. Lines(none) = [k \in 1..(Len(b) + 1) |->
                   SubSeq(none, IF k = 1 THEN 1 ELSE b[k - 1] + 1,
                                IF k <= Len(b) THEN b[k] - 1 ELSE Len(none))]
      BY <2>1, LinesAre
    <2>3. Len(b) = 0 /\ Len(none) = 0
      BY <1>2, <2>1
    <2>4. \A k \in 1..1 : k = 1 /\ ~(k <= 0)
      OBVIOUS
    <2> QED
      BY <2>2, <2>3, <2>4
  <1>5. SubSeq(none, 1, 0) = <<>>
    BY <1>2
  <1> QED
    BY <1>2, <1>4, <1>5

(* The texts of these cells.  By a name, sequences of such texts are easier*)
(* to reason about.                                                        *)
Texts(E) == Seq(E)

(* Texts grow by cells. *)
LEMMA TextsAre ==
    ASSUME NEW E
    PROVE  <<>> \in Texts(E) /\ \A text \in Texts(E) : \A cell \in E : Append(text, cell) \in Texts(E)
  <1>1. <<>> \in Seq(E) /\ \A text \in Seq(E) : \A cell \in E : Append(text, cell) \in Seq(E)
    OBVIOUS
  <1> QED
    BY <1>1 DEF Texts

(* A newline ends the last line and begins another. *)
LEMMA LinesBreak ==
    ASSUME NEW E, NEW text \in Texts(E), NL \in E
    PROVE  Lines(Append(text, NL)) = Append(Lines(text), <<>>)
  <1> DEFINE n == Len(text)
             longer == Append(text, NL)
             b == Breaks(text)
             m == Len(b)
             bb == Breaks(longer)
             L(k) == SubSeq(text, IF k = 1 THEN 1 ELSE b[k - 1] + 1, IF k <= m THEN b[k] - 1 ELSE n)
             LL(k) == SubSeq(longer, IF k = 1 THEN 1 ELSE bb[k - 1] + 1,
                                     IF k <= m + 1 THEN bb[k] - 1 ELSE n + 1)
  <1>0. text \in Seq(E)
    BY DEF Texts
  <1>1. /\ n \in Nat /\ longer \in Seq(E) /\ Len(longer) = n + 1
        /\ \A i \in 1..n : longer[i] = text[i] /\ text[i] \in E
    BY <1>0
  <1>2. b \in Seq(1..n) /\ bb = Append(b, n + 1)
    BY <1>0, BreaksInText, BreaksAppend
  <1>3. m \in Nat /\ Len(bb) = m + 1 /\ \A k \in 1..m : b[k] \in 1..n /\ bb[k] = b[k]
    BY <1>2
  <1>4. bb[m + 1] = n + 1
    BY <1>2
  <1>5. Lines(text) = [k \in 1..(m + 1) |-> L(k)]
    BY <1>0, LinesAre
  <1> HIDE DEF L
  <1>6. Lines(longer) = [k \in 1..((m + 1) + 1) |-> LL(k)]
    <2> HIDE DEF longer
    <2>1. Lines(longer) = [k \in 1..(Len(bb) + 1) |->
              SubSeq(longer, IF k = 1 THEN 1 ELSE bb[k - 1] + 1,
                             IF k <= Len(bb) THEN bb[k] - 1 ELSE Len(longer))]
      BY <1>1, LinesAre
    <2> HIDE DEF bb, m, n
    <2> QED
      BY <1>1, <1>3, <2>1
  <1> HIDE DEF LL, n, longer, b, bb, m
  <1>7. ASSUME NEW k \in 1..(m + 1)
        PROVE  LL(k) = L(k) /\ L(k) \in Seq(E)
    <2> DEFINE from == IF k = 1 THEN 1 ELSE b[k - 1] + 1
               upto == IF k <= m THEN b[k] - 1 ELSE n
    <2>1. k # 1 => k - 1 \in 1..m
      BY <1>3
    <2>2. k <= m => k \in 1..m
      BY <1>3
    <2>3. (k # 1 => bb[k - 1] = b[k - 1]) /\ (k <= m => bb[k] = b[k])
      BY <1>3, <2>1, <2>2
    <2>4. ASSUME ~(k <= m)
          PROVE  bb[k] - 1 = n
      <3>1. k = m + 1
        BY <1>3, <2>4
      <3>2. bb[k] = n + 1
        BY <1>4, <3>1
      <3> QED
        BY <1>1, <3>2
    <2>5. LL(k) = SubSeq(longer, from, upto)
      <3>1. k <= m + 1
        BY <1>3
      <3>2. bb[k] - 1 = upto
        BY <2>3, <2>4
      <3>3. k # 1 => bb[k - 1] + 1 = b[k - 1] + 1
        BY <2>3
      <3> QED
        BY <3>1, <3>2, <3>3 DEF LL
    <2>6. from \in 1..(n + 1) /\ upto \in 0..n
      BY <1>1, <1>3, <2>1, <2>2
    <2> HIDE DEF from, upto
    <2>7. SubSeq(longer, from, upto) = SubSeq(text, from, upto)
          /\ SubSeq(text, from, upto) \in Seq(E)
      <3>1. \A i \in from..upto : longer[i] = text[i] /\ i \in 1..n
        BY <1>1, <2>6
      <3> QED
        BY <1>1, <2>6, <3>1, SubSeqAgree
    <2> QED
      BY <2>5, <2>7 DEF L, from, upto
  <1>8. LL(m + 2) = <<>>
    <2>1. m + 2 # 1 /\ ~(m + 2 <= m + 1) /\ (m + 2) - 1 = m + 1
      BY <1>3
    <2>2. LL(m + 2) = SubSeq(longer, (n + 1) + 1, n + 1)
      BY <1>4, <2>1 DEF LL
    <2> QED
      BY <1>1, <2>2, SubSeqEmpty
  <1>9. Lines(longer) = Append(Lines(text), <<>>)
    <2> DEFINE f == Lines(text)
               g == Lines(longer)
    <2>1. PICK u : u = m + 1
      OBVIOUS
    <2>2. u \in Nat /\ u + 1 = m + 2
      BY <1>3, <2>1
    <2>3. PICK S : S = Seq(E)
      OBVIOUS
    <2>4. f \in [1..u -> S]
      BY <1>5, <1>7, <2>1, <2>3
    <2>5. \A k \in 1..(u + 1) : LL(k) \in S
      <3>1. <<>> \in S
        BY <2>3
      <3>2. \A k \in 1..(u + 1) : k \in 1..u \/ k = m + 2
        BY <2>2
      <3> QED
        BY <1>7, <1>8, <2>1, <2>3, <3>1, <3>2
    <2>6. g \in [1..(u + 1) -> S] /\ \A k \in 1..u : g[k] = f[k]
      <3>1. g = [k \in 1..(u + 1) |-> LL(k)] /\ f = [k \in 1..u |-> L(k)]
        BY <1>5, <1>6, <2>1
      <3> HIDE DEF f, g
      <3>2. \A k \in 1..u : k \in 1..(u + 1)
        BY <2>2
      <3> QED
        BY <1>7, <2>1, <2>5, <3>1, <3>2
    <2>7. g[u + 1] = <<>>
      <3>1. u + 1 \in 1..(u + 1)
        BY <2>2
      <3> QED
        BY <1>6, <1>8, <2>1, <2>2, <3>1
    <2> HIDE DEF f, g
    <2>8. g = Append(f, g[u + 1])
      BY <2>2, <2>4, <2>6, AppendedFunction
    <2> QED
      BY <2>7, <2>8 DEF f, g
  <1> QED
    BY <1>9 DEF longer

(* Any other cell goes to the last line. *)
LastGrows(E, cell, lines, longer) ==
    \E rest \in Seq(Texts(E)), last \in Texts(E) :
       lines = Append(rest, last) /\ longer = Append(rest, Append(last, cell))

LEMMA LinesGrow ==
    ASSUME NEW E, NEW text \in Texts(E), NEW cell \in E, cell # NL
    PROVE  LastGrows(E, cell, Lines(text), Lines(Append(text, cell)))
  <1> DEFINE n == Len(text)
             longer == Append(text, cell)
             b == Breaks(text)
             m == Len(b)
             L(k) == SubSeq(text, IF k = 1 THEN 1 ELSE b[k - 1] + 1, IF k <= m THEN b[k] - 1 ELSE n)
             LL(k) == SubSeq(longer, IF k = 1 THEN 1 ELSE b[k - 1] + 1,
                                     IF k <= m THEN b[k] - 1 ELSE n + 1)
  <1>0. text \in Seq(E)
    BY DEF Texts
  <1>1. /\ n \in Nat /\ longer \in Seq(E) /\ Len(longer) = n + 1
        /\ \A i \in 1..n : longer[i] = text[i] /\ text[i] \in E
        /\ longer[n + 1] = cell
    BY <1>0
  <1>2. b \in Seq(1..n) /\ Breaks(longer) = b
    BY <1>0, BreaksInText, BreaksAppend
  <1>3. m \in Nat /\ \A k \in 1..m : b[k] \in 1..n
    BY <1>2
  <1>4. Lines(text) = [k \in 1..(m + 1) |-> L(k)]
    BY <1>0, LinesAre
  <1> HIDE DEF L
  <1>5. Lines(longer) = [k \in 1..(m + 1) |-> LL(k)]
    <2> HIDE DEF longer
    <2>1. PICK bb : bb = Breaks(longer)
      OBVIOUS
    <2>2. Lines(longer) = [k \in 1..(Len(bb) + 1) |->
              SubSeq(longer, IF k = 1 THEN 1 ELSE bb[k - 1] + 1,
                             IF k <= Len(bb) THEN bb[k] - 1 ELSE Len(longer))]
      BY <1>1, <2>1, LinesAre
    <2>3. bb = b
      BY <1>2, <2>1
    <2> HIDE DEF b, m, n
    <2> QED
      BY <1>1, <2>2, <2>3 DEF m
  <1> HIDE DEF LL, n, longer, b, m
  <1>6. ASSUME NEW k \in 1..m
        PROVE  LL(k) = L(k) /\ L(k) \in Seq(E)
    <2> DEFINE from == IF k = 1 THEN 1 ELSE b[k - 1] + 1
               upto == b[k] - 1
    <2>1. k # 1 => k - 1 \in 1..m
      BY <1>3
    <2>2. k <= m
      BY <1>3
    <2>3. from \in 1..(n + 1) /\ upto \in 0..n
      BY <1>1, <1>3, <2>1
    <2>4. LL(k) = SubSeq(longer, from, upto) /\ L(k) = SubSeq(text, from, upto)
      BY <2>2 DEF LL, L
    <2> HIDE DEF from, upto
    <2>5. \A i \in from..upto : longer[i] = text[i] /\ text[i] \in E
      <3>1. \A i \in from..upto : i \in 1..n
        BY <1>1, <2>3
      <3> QED
        BY <1>1, <3>1
    <2> QED
      BY <2>3, <2>4, <2>5, SubSeqAgree
  <1>7. LL(m + 1) = Append(L(m + 1), cell) /\ L(m + 1) \in Seq(E) /\ LL(m + 1) \in Seq(E)
    <2> DEFINE from == IF m + 1 = 1 THEN 1 ELSE b[(m + 1) - 1] + 1
    <2>1. from \in 1..(n + 1)
      <3>1. m + 1 # 1 => (m + 1) - 1 \in 1..m
        BY <1>3
      <3> QED
        BY <1>1, <1>3, <3>1
    <2>2. ~(m + 1 <= m)
      BY <1>3
    <2>3. LL(m + 1) = SubSeq(longer, from, n + 1) /\ L(m + 1) = SubSeq(text, from, n)
      BY <2>2 DEF LL, L
    <2> HIDE DEF from
    <2>4. SubSeq(longer, from, n + 1) = Append(SubSeq(longer, from, n), cell)
      <3> DEFINE x == SubSeq(longer, from, n)
      <3>1. from \in 1..Len(longer) /\ n + 1 \in from..Len(longer) /\ (n + 1) - 1 = n
        BY <1>1, <2>1
      <3>2. PICK u : u = n + 1
        OBVIOUS
      <3>3. SubSeq(longer, from, u) = SubSeq(longer, from, u - 1) \o <<longer[u]>>
        BY <1>1, <3>1, <3>2, SubSeqRecursiveSecond
      <3>4. x \in Seq(E)
        <4>1. \A i \in from..n : longer[i] \in E
          BY <1>1, <2>1
        <4> QED
          BY <1>1, <2>1, <4>1, SubSeqProperties
      <3> HIDE DEF x
      <3>5. SubSeq(longer, from, n + 1) = x \o <<cell>>
        BY <1>1, <3>1, <3>2, <3>3 DEF x
      <3>6. x \o <<cell>> = Append(x, cell)
        BY <3>4
      <3> QED
        BY <3>5, <3>6 DEF x
    <2>5. SubSeq(longer, from, n) = SubSeq(text, from, n) /\ SubSeq(text, from, n) \in Seq(E)
      <3>1. \A i \in from..n : i \in 1..n
        BY <1>1, <2>1
      <3>2. \A i \in from..n : longer[i] = text[i] /\ text[i] \in E
        BY <1>1, <3>1
      <3>3. from \in Int /\ n \in Int
        BY <1>1, <2>1
      <3> QED
        BY <3>2, <3>3, SubSeqAgree
    <2> DEFINE x == SubSeq(text, from, n)
    <2>6. LL(m + 1) = Append(x, cell) /\ L(m + 1) = x /\ x \in Seq(E)
      BY <2>3, <2>4, <2>5
    <2> HIDE DEF x
    <2> QED
      BY <2>6
  <1> DEFINE S == Seq(E)
             rest == [k \in 1..m |-> L(k)]
             f == Lines(text)
             g == Lines(longer)
  <1>8. /\ rest \in [1..m -> S]
        /\ \A k \in 1..m : rest[k] = L(k)
    BY <1>6
  <1>9. /\ f \in [1..(m + 1) -> S] /\ g \in [1..(m + 1) -> S]
        /\ f[m + 1] = L(m + 1) /\ g[m + 1] = LL(m + 1)
        /\ \A k \in 1..m : f[k] = L(k) /\ g[k] = LL(k)
    <2>1. \A k \in 1..(m + 1) : k \in 1..m \/ k = m + 1
      BY <1>3
    <2>2. \A k \in 1..(m + 1) : L(k) \in S /\ LL(k) \in S
      BY <1>6, <1>7, <2>1
    <2>3. m + 1 \in 1..(m + 1) /\ \A k \in 1..m : k \in 1..(m + 1)
      BY <1>3
    <2> HIDE DEF S
    <2> QED
      BY <1>4, <1>5, <2>2, <2>3
  <1> HIDE DEF S, rest, f, g
  <1>10. f = Append(rest, f[m + 1]) /\ rest \in Seq(S)
    BY <1>3, <1>8, <1>9, AppendedFunction
  <1>11. g = Append(rest, g[m + 1])
    BY <1>3, <1>6, <1>8, <1>9, AppendedFunction
  <1>12. f = Append(rest, L(m + 1)) /\ g = Append(rest, Append(L(m + 1), cell))
    BY <1>7, <1>9, <1>10, <1>11
  <1> QED
    BY <1>7, <1>10, <1>12 DEF LastGrows, S, Texts, f, g, longer

(* There is one way to do so. *)
LEMMA GrowsToOne ==
    ASSUME NEW E, NEW cell, NEW lines, NEW a, NEW b,
           LastGrows(E, cell, lines, a), LastGrows(E, cell, lines, b)
    PROVE  a = b
  <1>1. PICK r \in Seq(Texts(E)), l \in Texts(E) : lines = Append(r, l) /\ a = Append(r, Append(l, cell))
    BY DEF LastGrows
  <1>2. PICK q \in Seq(Texts(E)), k \in Texts(E) : lines = Append(q, k) /\ b = Append(q, Append(k, cell))
    BY DEF LastGrows
  <1>3. r = q /\ l = k
    <2>1. Append(r, l) = Append(q, k)
      BY <1>1, <1>2
    <2> QED
      BY <2>1, AppendInjective
  <1> QED
    BY <1>1, <1>2, <1>3

(* A text has lines, and those are texts. *)
LEMMA LinesInSeq ==
    ASSUME NEW E
    PROVE  \A text \in Texts(E) : Lines(text) \in Seq(Texts(E)) /\ Lines(text) # <<>>
  <1> DEFINE P == {text \in Texts(E) : Lines(text) \in Seq(Texts(E)) /\ Lines(text) # <<>>}
  <1>0. <<>> \in Texts(E)
    BY TextsAre
  <1>1. <<>> \in P
    <2>1. PICK none \in Texts(E) : none = <<>>
      BY <1>0
    <2>2. <<none>> \in Seq(Texts(E)) /\ <<none>> # <<>>
      OBVIOUS
    <2> QED
      BY <2>1, <2>2, LinesOfNothing
  <1>2. ASSUME NEW text \in Texts(E), text \in P, NEW cell \in E
        PROVE  Append(text, cell) \in P
    <2>1. PICK longer \in Texts(E) : longer = Append(text, cell)
      BY TextsAre
    <2>2. Lines(text) \in Seq(Texts(E))
      BY <1>2
    <2> HIDE DEF P
    <2>3. PICK rest \in Seq(Texts(E)), last \in Texts(E) : Lines(longer) = Append(rest, last)
      <3>1. CASE cell = NL
        BY <1>0, <2>1, <2>2, <3>1, LinesBreak
      <3>2. CASE cell # NL
        <4>1. LastGrows(E, cell, Lines(text), Lines(longer))
          BY <2>1, <3>2, LinesGrow
        <4>2. PICK rest \in Seq(Texts(E)), last \in Texts(E) :
                 Lines(longer) = Append(rest, Append(last, cell))
          BY <4>1 DEF LastGrows
        <4>3. Append(last, cell) \in Texts(E)
          BY TextsAre
        <4> QED
          BY <4>2, <4>3
      <3> QED
        BY <3>1, <3>2
    <2>4. Append(rest, last) \in Seq(Texts(E)) /\ Append(rest, last) # <<>>
      BY OneMore
    <2> QED
      BY <2>1, <2>3, <2>4 DEF P
  <1> HIDE DEF P
  <1>3. \A text \in Seq(E) : text \in P
    BY <1>1, <1>2, InductionOnSeqs DEF Texts
  <1> QED
    BY <1>3 DEF P, Texts

(* The first line has no other in it. *)
LEMMA FirstLineAlone ==
    ASSUME NEW E
    PROVE  \A text \in Texts(E) : Lines(Lines(text)[1]) = <<Lines(text)[1]>>
  <1> DEFINE P == {text \in Texts(E) : Lines(Lines(text)[1]) = <<Lines(text)[1]>>}
  <1>1. <<>> \in P
    <2>1. <<<<>>>>[1] = <<>>
      OBVIOUS
    <2> QED
      BY <2>1, TextsAre, LinesOfNothing
  <1>2. ASSUME NEW text \in Texts(E), text \in P, NEW cell \in E
        PROVE  Append(text, cell) \in P
    <2>1. PICK longer \in Texts(E) : longer = Append(text, cell)
      BY TextsAre
    <2>2. PICK lines : lines = Lines(text)
      OBVIOUS
    <2>3. lines \in Seq(Texts(E)) /\ lines # <<>> /\ <<>> \in Texts(E)
      BY <2>2, LinesInSeq, TextsAre
    <2>4. Lines(lines[1]) = <<lines[1]>>
      BY <1>2, <2>2
    <2> SUFFICES Lines(Lines(longer)[1]) = <<Lines(longer)[1]>>
      BY <2>1
    <2> HIDE DEF P
    <2>5. CASE cell = NL
      <3>1. Lines(longer) = Append(lines, <<>>)
        BY <2>1, <2>2, <2>5, LinesBreak
      <3>2. Lines(longer)[1] = lines[1]
        BY <2>3, <3>1, FirstAndTailOfAppend
      <3> QED
        BY <2>4, <3>2
    <2>6. CASE cell # NL
      <3>1. PICK rest \in Seq(Texts(E)), last \in Texts(E) :
               Lines(text) = Append(rest, last) /\ Lines(longer) = Append(rest, Append(last, cell))
        <4>1. LastGrows(E, cell, Lines(text), Lines(longer))
          BY <2>1, <2>6, LinesGrow
        <4> QED
          BY <4>1 DEF LastGrows
      <3>2. PICK more \in Texts(E) : more = Append(last, cell)
        BY TextsAre
      <3>3. lines = Append(rest, last) /\ Lines(longer) = Append(rest, more)
        BY <2>2, <3>1, <3>2
      <3>4. CASE rest = <<>>
        <4>1. lines[1] = last /\ Lines(longer)[1] = more
          BY <3>3, <3>4, FirstAndTailOfAppend
        <4>2. Lines(last) = <<last>>
          BY <2>4, <4>1
        <4>3. PICK before \in Seq(Texts(E)), end \in Texts(E) :
                 Lines(last) = Append(before, end) /\ Lines(more) = Append(before, Append(end, cell))
          <5>1. LastGrows(E, cell, Lines(last), Lines(more))
            BY <2>6, <3>2, LinesGrow
          <5> QED
            BY <5>1 DEF LastGrows
        <4>4. before = <<>> /\ end = last
          <5>1. PICK a : a = Lines(last)
            OBVIOUS
          <5>2. Len(a) = 1 /\ a[1] = last
            BY <4>2, <5>1
          <5> QED
            BY <4>3, <5>1, <5>2, AppendIsOne
        <4>5. Lines(more) = <<more>>
          BY <3>2, <4>3, <4>4, OneMore
        <4> QED
          BY <4>1, <4>5
      <3>5. CASE rest # <<>>
        <4>1. lines[1] = rest[1] /\ Lines(longer)[1] = rest[1]
          BY <3>3, <3>5, FirstAndTailOfAppend
        <4> QED
          BY <2>4, <4>1
      <3> QED
        BY <3>4, <3>5
    <2> QED
      BY <2>5, <2>6
  <1> HIDE DEF P
  <1>3. \A text \in Seq(E) : text \in P
    BY <1>1, <1>2, InductionOnSeqs DEF Texts
  <1> QED
    BY <1>3 DEF P, Texts

(* The lines of two texts: the first line of the second one completes the  *)
(* last line of the first, and the others are as they were.                *)
LEMMA LinesOfTwo ==
    ASSUME NEW E, NEW s \in Texts(E)
    PROVE  \A t \in Texts(E) : Lines(s \o t) = Lines(s \o Lines(t)[1]) \o Tail(Lines(t))
  <1> DEFINE P == {t \in Texts(E) : Lines(s \o t) = Lines(s \o Lines(t)[1]) \o Tail(Lines(t))}
  <1>0. \A t \in Texts(E) : s \o t \in Texts(E)
    BY DEF Texts
  <1>1. <<>> \in P
    <2>1. PICK none \in Texts(E) : none = <<>>
      BY TextsAre
    <2>2. <<none>>[1] = none /\ Tail(<<none>>) = <<>>
      OBVIOUS
    <2>3. Lines(s \o none) \in Seq(Texts(E))
      BY <1>0, LinesInSeq
    <2>4. Lines(s \o none) \o <<>> = Lines(s \o none)
      BY <2>3, ConcatEmptySeq
    <2> QED
      BY <2>1, <2>2, <2>4, LinesOfNothing
  <1>2. ASSUME NEW t \in Texts(E), t \in P, NEW cell \in E
        PROVE  Append(t, cell) \in P
    <2>1. PICK longer \in Texts(E) : longer = Append(t, cell)
      BY TextsAre
    <2>2. PICK lines : lines = Lines(t)
      OBVIOUS
    <2>3. lines \in Seq(Texts(E)) /\ lines # <<>> /\ <<>> \in Texts(E)
          /\ lines[1] \in Texts(E) /\ Tail(lines) \in Seq(Texts(E))
      <3>1. lines \in Seq(Texts(E)) /\ lines # <<>>
        BY <2>2, LinesInSeq
      <3> QED
        BY <3>1, TextsAre, HeadTailProperties
    <2>4. PICK x \in Texts(E) : x = s \o t
      BY <1>0
    <2>5. PICK first \in Texts(E) : first = s \o lines[1]
      BY <1>0, <2>3
    <2>6. PICK f \in Seq(Texts(E)) : f = Lines(first)
      BY LinesInSeq
    <2>7. Lines(x) = f \o Tail(lines)
      BY <1>2, <2>2, <2>4, <2>5, <2>6
    <2>8. s \o longer = Append(x, cell)
      BY <2>1, <2>4, ConcatAppend DEF Texts
    <2> SUFFICES Lines(s \o longer) = Lines(s \o Lines(longer)[1]) \o Tail(Lines(longer))
      BY <2>1
    <2> HIDE DEF P
    <2>9. CASE cell = NL
      <3>1. PICK none \in Texts(E) : none = <<>>
        BY <2>3
      <3>2. Lines(longer) = Append(lines, none) /\ Lines(s \o longer) = Append(Lines(x), none)
        BY <2>1, <2>2, <2>8, <2>9, <3>1, LinesBreak
      <3>3. Lines(longer)[1] = lines[1] /\ Tail(Lines(longer)) = Append(Tail(lines), none)
        BY <2>3, <3>2, FirstAndTailOfAppend
      <3>4. f \o Append(Tail(lines), none) = Append(f \o Tail(lines), none)
        BY <2>3, ConcatAppend
      <3> QED
        BY <2>5, <2>6, <2>7, <3>2, <3>3, <3>4
    <2>10. CASE cell # NL
      <3>1. PICK rest \in Seq(Texts(E)), last \in Texts(E) :
               lines = Append(rest, last) /\ Lines(longer) = Append(rest, Append(last, cell))
        <4>1. LastGrows(E, cell, Lines(t), Lines(longer))
          BY <2>1, <2>10, LinesGrow
        <4> QED
          BY <2>2, <4>1 DEF LastGrows
      <3>2. PICK more \in Texts(E) : more = Append(last, cell)
        BY TextsAre
      <3>3. Lines(longer) = Append(rest, more)
        BY <3>1, <3>2
      <3>4. LastGrows(E, cell, Lines(x), Lines(s \o longer))
        BY <2>8, <2>10, LinesGrow
      <3>5. CASE rest = <<>>
        <4>1. lines[1] = last /\ Tail(lines) = <<>> /\ Lines(longer)[1] = more /\ Tail(Lines(longer)) = <<>>
          BY <3>1, <3>3, <3>5, FirstAndTailOfAppend
        <4>2. s \o more = Append(first, cell)
          <5>1. s \o Append(last, cell) = Append(s \o last, cell)
            <6>1. s \in Seq(E) /\ last \in Seq(E)
              BY DEF Texts
            <6> QED
              BY <6>1, ConcatAppend
          <5> QED
            BY <2>5, <3>2, <4>1, <5>1
        <4>3. LastGrows(E, cell, f, Lines(s \o more))
          BY <2>6, <2>10, <4>2, LinesGrow
        <4>4. Lines(x) = f
          BY <2>7, <4>1, ConcatEmptySeq
        <4>5. Lines(s \o longer) = Lines(s \o more)
          BY <3>4, <4>3, <4>4, GrowsToOne
        <4>6. Lines(s \o more) \in Seq(Texts(E))
          BY <1>0, LinesInSeq
        <4>7. Lines(s \o more) \o <<>> = Lines(s \o more)
          BY <4>6, ConcatEmptySeq
        <4> QED
          BY <4>1, <4>5, <4>7
      <3>6. CASE rest # <<>>
        <4>1. lines[1] = rest[1] /\ Tail(lines) = Append(Tail(rest), last)
              /\ Lines(longer)[1] = rest[1] /\ Tail(Lines(longer)) = Append(Tail(rest), more)
              /\ Tail(rest) \in Seq(Texts(E))
          BY <3>1, <3>3, <3>6, FirstAndTailOfAppend
        <4>2. PICK before \in Seq(Texts(E)) : before = f \o Tail(rest)
          BY <4>1, ConcatAppend
        <4>3. Lines(x) = Append(before, last) /\ f \o Append(Tail(rest), more) = Append(before, more)
          <5>1. PICK tail \in Seq(Texts(E)) : tail = Tail(rest)
            BY <4>1
          <5>2. f \o Append(tail, last) = Append(f \o tail, last)
            BY ConcatAppend
          <5>3. f \o Append(tail, more) = Append(f \o tail, more)
            BY ConcatAppend
          <5> QED
            BY <2>7, <4>1, <4>2, <5>1, <5>2, <5>3
        <4>4. LastGrows(E, cell, Lines(x), Append(before, more))
          BY <3>2, <4>3 DEF LastGrows
        <4>5. Lines(s \o longer) = Append(before, more)
          BY <3>4, <4>4, GrowsToOne
        <4> QED
          BY <2>5, <2>6, <4>1, <4>3, <4>5
      <3> QED
        BY <3>5, <3>6
    <2> QED
      BY <2>9, <2>10
  <1> HIDE DEF P
  <1>3. \A t \in Seq(E) : t \in P
    BY <1>1, <1>2, InductionOnSeqs DEF Texts
  <1> QED
    BY <1>3 DEF P, Texts
-----------------------------------------------------------------------------
(* What passes, from the newest line to the oldest.                        *)

(* The texts that pass, from any set of them. *)
Good(S, filters) == {text \in S : parseLogLine(text, filters)}

(* Which of these lines pass does not depend on the others. *)
LEMMA PassingIsKept ==
    ASSUME NEW S, NEW lines \in Seq(S), NEW filters, NEW n
    PROVE  /\ Passing(lines, filters) = Keep(lines, Good(S, filters))
           /\ FirstFound(lines, filters, n) = Beginning(Keep(lines, Good(S, filters)), n)
  <1> DEFINE D == ToSet(lines)
             P == {text \in D : parseLogLine(text, filters)}
             T == Good(S, filters)
  <1>1. D \subseteq S /\ lines \in Seq(D)
    <2>1. DOMAIN lines = 1..Len(lines) /\ \A i \in 1..Len(lines) : lines[i] \in S
      OBVIOUS
    <2> QED
      BY <2>1 DEF ToSet
  <1>2. Passing(lines, filters) = Keep(lines, P)
    BY DEF Passing
  <1> HIDE DEF D
  <1>3. D \cap P = D \cap T
    BY <1>1 DEF Good
  <1> HIDE DEF P, T
  <1>4. Keep(lines, P) = Keep(lines, T)
    BY <1>1, <1>3, KeepSame
  <1> QED
    BY <1>2, <1>4 DEF FirstFound, Beginning, T

(* Having looked at the newest lines, looking at those before them finds   *)
(* what one look at all of them would.                                     *)
FindsOn(done, others, filters, n) ==
    LET entries == FirstFound(Reverse(done), filters, n)
    IN  entries \o FirstFound(Reverse(others), filters, n - Len(entries))
           = FirstFound(Reverse(others \o done), filters, n)

LEMMA FoundOn ==
    ASSUME NEW S, NEW done \in Seq(S), NEW others \in Seq(S), NEW filters, NEW n \in Nat
    PROVE  FindsOn(done, others, filters, n)
  <1> DEFINE T == Good(S, filters)
             ro == Reverse(others)
             rd == Reverse(done)
             whole == Chained(others, done)
             rw == Reverse(whole)
  <1>1. Chained(others, done) \in Seq(S)
    BY ConcatProperties DEF Chained
  <1> HIDE DEF T, whole
  <1>2. ro \in Seq(S) /\ rd \in Seq(S) /\ rw \in Seq(S)
    BY <1>1, ReverseIs DEF whole
  <1> HIDE DEF ro, rd, rw
  <1> DEFINE entries == FirstFound(rd, filters, n)
  <1>3. entries = Beginning(Keep(rd, T), n)
    BY <1>2, PassingIsKept DEF T, rd
  <1> HIDE DEF entries
  <1>4. FirstFound(ro, filters, n - Len(entries)) = Beginning(Keep(ro, T), n - Len(entries))
    BY <1>2, PassingIsKept DEF T
  <1>5. FirstFound(rw, filters, n) = Beginning(Keep(rw, T), n)
    BY <1>2, PassingIsKept DEF T
  <1>6. LET found == Beginning(Keep(Reverse(done), T), n)
        IN  Chained(found, Beginning(Keep(Reverse(others), T), n - Len(found)))
               = Beginning(Keep(Reverse(Chained(others, done)), T), n)
    BY LookOn
  <1>7. Chained(entries, FirstFound(ro, filters, n - Len(entries))) = FirstFound(rw, filters, n)
    BY <1>3, <1>4, <1>5, <1>6 DEF ro, rd, rw, whole
  <1> QED
    BY <1>7 DEF FindsOn, Chained, entries, ro, rd, rw, whole

(* What is found, in the order of the file, is the end of what passes.     *)
InOrder(lines, filters, n) ==
    LET passing == Passing(lines, filters)
        surplus == Len(passing) - n
    IN  Reverse(FirstFound(Reverse(lines), filters, n))
           = SubSeq(passing, IF surplus > 0 THEN surplus + 1 ELSE 1, Len(passing))

LEMMA FoundInOrder ==
    ASSUME NEW S, NEW lines \in Seq(S), NEW filters, NEW n \in Nat
    PROVE  InOrder(lines, filters, n)
  <1> DEFINE T == Good(S, filters)
             r == Reverse(lines)
             kept == Keep(lines, T)
             surplus == Len(kept) - n
  <1>1. r \in Seq(S)
    BY ReverseIs
  <1> HIDE DEF T, r
  <1>2. FirstFound(r, filters, n) = Beginning(Keep(r, T), n) /\ Passing(lines, filters) = kept
    BY <1>1, PassingIsKept DEF T
  <1>3. Reverse(Beginning(Keep(Reverse(lines), T), n))
           = SubSeq(kept, IF surplus > 0 THEN surplus + 1 ELSE 1, Len(kept))
    BY NewestInOrder
  <1> QED
    BY <1>2, <1>3 DEF InOrder, r

(* Who wants no more finds no more. *)
LEMMA FoundNone ==
    ASSUME NEW S, NEW lines \in Seq(S), NEW filters
    PROVE  FirstFound(lines, filters, 0) = <<>>
  <1>1. PICK T, D : T = Good(S, filters) /\ D = S \cap T
    OBVIOUS
  <1>2. PICK kept : kept = Keep(lines, T)
    OBVIOUS
  <1>3. kept \in Seq(D)
    BY <1>1, <1>2, KeepInSeq
  <1>4. PICK b : b = Beginning(kept, 0)
    OBVIOUS
  <1>5. b \in Seq(D) /\ Len(b) = 0
    <2>1. b \in Seq(D) /\ Len(b) = IF Len(kept) < 0 THEN Len(kept) ELSE 0
      BY <1>3, <1>4, BeginningIs
    <2>2. Len(kept) \in Nat
      BY <1>3
    <2> QED
      BY <2>1, <2>2
  <1>6. b = <<>>
    BY <1>5
  <1>7. FirstFound(lines, filters, 0) = Beginning(Keep(lines, T), 0)
    BY <1>1, PassingIsKept
  <1> QED
    BY <1>2, <1>4, <1>6, <1>7

(* No more are found than are wanted. *)
LEMMA FoundIsFew ==
    ASSUME NEW S, NEW lines \in Seq(S), NEW filters, NEW n \in Nat
    PROVE  Len(FirstFound(lines, filters, n)) \in Nat /\ Len(FirstFound(lines, filters, n)) <= n
  <1>1. PICK T, D : T = Good(S, filters) /\ D = S \cap T
    OBVIOUS
  <1>2. PICK kept : kept = Keep(lines, T)
    OBVIOUS
  <1>3. kept \in Seq(D)
    BY <1>1, <1>2, KeepInSeq
  <1>4. PICK b : b = Beginning(kept, n)
    OBVIOUS
  <1>5. Len(b) \in Nat /\ Len(b) <= n
    <2>1. Len(b) \in Nat /\ Len(b) = IF Len(kept) < n THEN Len(kept) ELSE n
      BY <1>3, <1>4, BeginningIs
    <2>2. Len(kept) \in Nat
      BY <1>3
    <2> QED
      BY <2>1, <2>2
  <1>6. FirstFound(lines, filters, n) = Beginning(Keep(lines, T), n)
    BY <1>1, PassingIsKept
  <1> QED
    BY <1>2, <1>4, <1>5, <1>6
-----------------------------------------------------------------------------
(* Readers.                                                                *)

(* While it reads: the file it has opened is what is left to read, the     *)
(* remainder and the lines it is done with; it has what it wants of these. *)
Looks(E, cells, rd) ==
    \E size \in Nat, offset \in Nat, remainder \in Texts(E), done \in Seq(Texts(E)) :
       /\ rd = [phase |-> "reading", filters |-> rd.filters, size |-> size, offset |-> offset,
                remainder |-> remainder,
                entries |-> FirstFound(Reverse(done), rd.filters, rd.filters.limit)]
       /\ rd.filters.limit \in Nat
       /\ offset <= size /\ size <= Len(cells)
       /\ Lines(remainder) = <<remainder>>
       /\ Lines(SubSeq(cells, 1, size)) = Lines(SubSeq(cells, 1, offset) \o remainder) \o done

(* When it is done: TailExact. *)
Exact(cells, rd) ==
    /\ rd.size \in Nat /\ rd.size <= Len(cells)
    /\ LET passing == Passing(Lines(SubSeq(cells, 1, rd.size)), rd.filters)
           surplus == Len(passing) - rd.filters.limit
       IN  rd.entries = SubSeq(passing, IF surplus > 0 THEN surplus + 1 ELSE 1, Len(passing))

(* A reader of these cells. *)
ReaderRight(E, cells, rd) ==
    /\ rd.phase \in {"idle", "reading", "done"}
    /\ rd.phase = "reading" => Looks(E, cells, rd)
    /\ rd.phase = "done" => Exact(cells, rd)

(* What was in the log when it was opened. *)
LEMMA BeginningOfLog ==
    ASSUME NEW E, NEW cells \in Texts(E), NEW n \in Nat, n <= Len(cells)
    PROVE  SubSeq(cells, 1, n) \in Texts(E)
  <1>1. cells \in Seq(E)
    BY DEF Texts
  <1>2. \A i \in 1..n : cells[i] \in E
    BY <1>1
  <1> QED
    BY <1>2, SubSeqProperties DEF Texts

(* What is appended to the log is nothing to those who have opened it.     *)
LEMMA LogGrows ==
    ASSUME NEW E, NEW cells \in Texts(E), NEW more \in Texts(E), NEW rd, ReaderRight(E, cells, rd)
    PROVE  ReaderRight(E, cells \o more, rd)
  <1> DEFINE longer == cells \o more
  <1>1. cells \in Seq(E) /\ more \in Seq(E)
    BY DEF Texts
  <1>2. Len(longer) = Len(cells) + Len(more) /\ \A i \in 1..Len(cells) : longer[i] = cells[i] /\ cells[i] \in E
    BY <1>1
  <1>3. Len(cells) \in Nat /\ Len(more) \in Nat
    BY <1>1
  <1> HIDE DEF longer
  <1>4. ASSUME NEW n \in Nat, n <= Len(cells)
        PROVE  SubSeq(longer, 1, n) = SubSeq(cells, 1, n) /\ n <= Len(longer)
    <2>1. \A i \in 1..n : longer[i] = cells[i] /\ cells[i] \in E
      BY <1>2, <1>3, <1>4
    <2>2. SubSeq(longer, 1, n) = SubSeq(cells, 1, n)
      BY <2>1, SubSeqAgree
    <2> QED
      BY <1>2, <1>3, <1>4, <2>2
  <1>5. ASSUME rd.phase = "reading"
        PROVE  Looks(E, longer, rd)
    <2>1. PICK size \in Nat, offset \in Nat, remainder \in Texts(E), done \in Seq(Texts(E)) :
             /\ rd = [phase |-> "reading", filters |-> rd.filters, size |-> size, offset |-> offset,
                      remainder |-> remainder,
                      entries |-> FirstFound(Reverse(done), rd.filters, rd.filters.limit)]
             /\ rd.filters.limit \in Nat
             /\ offset <= size /\ size <= Len(cells)
             /\ Lines(remainder) = <<remainder>>
             /\ Lines(SubSeq(cells, 1, size)) = Lines(SubSeq(cells, 1, offset) \o remainder) \o done
      BY <1>5 DEF ReaderRight, Looks
    <2>2. offset <= Len(cells)
      BY <1>3, <2>1
    <2>3. SubSeq(longer, 1, size) = SubSeq(cells, 1, size) /\ size <= Len(longer)
          /\ SubSeq(longer, 1, offset) = SubSeq(cells, 1, offset)
      BY <1>4, <2>1, <2>2
    <2> QED
      BY <2>1, <2>3 DEF Looks
  <1>6. ASSUME rd.phase = "done"
        PROVE  Exact(longer, rd)
    BY <1>4, <1>6 DEF ReaderRight, Exact
  <1> QED
    BY <1>5, <1>6 DEF ReaderRight, longer

(* The whole of the log is left to read.  (OpenLog) *)
LEMMA OpenedRight ==
    ASSUME NEW E, NEW cells \in Texts(E), NEW filters, filters.limit \in Nat
    PROVE  Looks(E, cells, [phase |-> "reading", filters |-> filters, size |-> Len(cells),
                            offset |-> Len(cells), remainder |-> <<>>, entries |-> <<>>])
  <1>1. cells \in Seq(E) /\ Len(cells) \in Nat /\ Len(cells) <= Len(cells)
    BY DEF Texts
  <1>2. PICK none \in Texts(E) : none = <<>>
    BY TextsAre
  <1>3. PICK noLines \in Seq(Texts(E)) : noLines = <<>>
    <2>1. <<>> \in Seq(Texts(E))
      OBVIOUS
    <2> QED
      BY <2>1
  <1>4. FirstFound(Reverse(noLines), filters, filters.limit) = <<>>
    <2>1. Reverse(noLines) = noLines
      BY <1>3 DEF Reverse
    <2>2. FirstFound(noLines, filters, filters.limit)
             = Beginning(Keep(noLines, Good(Texts(E), filters)), filters.limit)
      BY PassingIsKept
    <2>3. Keep(noLines, Good(Texts(E), filters)) = <<>>
      BY <1>3, KeepEmpty
    <2>4. Beginning(<<>>, filters.limit) = <<>>
      <3>1. <<>> \in Seq(E)
        OBVIOUS
      <3>2. Beginning(<<>>, filters.limit) \in Seq(E) /\ Len(Beginning(<<>>, filters.limit)) = 0
        <4>1. PICK s \in Seq(E) : s = <<>>
          BY <3>1
        <4>2. Len(s) = 0
          BY <4>1
        <4>3. PICK b : b = Beginning(s, filters.limit)
          OBVIOUS
        <4>4. b \in Seq(E) /\ Len(b) = IF Len(s) < filters.limit THEN Len(s) ELSE filters.limit
          BY <4>3, BeginningIs
        <4>5. Len(b) = 0
          BY <4>2, <4>4
        <4> QED
          BY <4>1, <4>3, <4>4, <4>5
      <3> QED
        BY <3>2
    <2> QED
      BY <2>1, <2>2, <2>3, <2>4
  <1>5. Lines(none) = <<none>>
    BY <1>2, LinesOfNothing
  <1>6. SubSeq(cells, 1, Len(cells)) \o none = SubSeq(cells, 1, Len(cells))
    BY <1>1, <1>2, ConcatEmptySeq, SubSeqFull
  <1>7. Lines(SubSeq(cells, 1, Len(cells)) \o none) \o noLines = Lines(SubSeq(cells, 1, Len(cells)))
    <2>1. SubSeq(cells, 1, Len(cells)) \in Texts(E)
      BY <1>1, BeginningOfLog
    <2>2. Lines(SubSeq(cells, 1, Len(cells))) \in Seq(Texts(E))
      BY <2>1, LinesInSeq
    <2> QED
      BY <1>3, <1>6, <2>2, ConcatEmptySeq
  <1>8. PICK rd : rd = [phase |-> "reading", filters |-> filters, size |-> Len(cells),
                        offset |-> Len(cells), remainder |-> <<>>, entries |-> <<>>]
    OBVIOUS
  <1>9. PICK size \in Nat, offset \in Nat : size = Len(cells) /\ offset = Len(cells)
    BY <1>1
  <1>10. /\ rd = [phase |-> "reading", filters |-> rd.filters, size |-> size, offset |-> offset,
                  remainder |-> none,
                  entries |-> FirstFound(Reverse(noLines), rd.filters, rd.filters.limit)]
         /\ rd.filters.limit \in Nat
    BY <1>2, <1>4, <1>8, <1>9
  <1>11. /\ offset <= size /\ size <= Len(cells)
         /\ Lines(none) = <<none>>
         /\ Lines(SubSeq(cells, 1, size)) = Lines(SubSeq(cells, 1, offset) \o none) \o noLines
    BY <1>1, <1>5, <1>7, <1>9
  <1>12. Looks(E, cells, rd)
    BY <1>10, <1>11 DEF Looks
  <1> QED
    BY <1>8, <1>12

(* A chunk is looked at, up to the beginning of its first line.  (ReadChunk)*)
LEMMA ChunkRead ==
    ASSUME NEW E, NEW cells \in Texts(E), NEW rd, Looks(E, cells, rd), WantsMore(rd),
           NEW start, start = ChunkStart(rd.offset), NEW text, NEW lines,
           text = Glued(SubSeq(cells, start + 1, rd.offset), rd.remainder), lines = Lines(text)
    PROVE  Looks(E, cells, [rd EXCEPT
                    !.offset = start,
                    !.remainder = lines[1],
                    !.entries = @ \o FirstFound(Reverse(Tail(lines)), rd.filters,
                                                rd.filters.limit - Len(@))])
  <1>1. PICK size \in Nat, offset \in Nat, remainder \in Texts(E), done \in Seq(Texts(E)) :
           /\ rd = [phase |-> "reading", filters |-> rd.filters, size |-> size, offset |-> offset,
                    remainder |-> remainder,
                    entries |-> FirstFound(Reverse(done), rd.filters, rd.filters.limit)]
           /\ rd.filters.limit \in Nat
           /\ offset <= size /\ size <= Len(cells)
           /\ Lines(remainder) = <<remainder>>
           /\ Lines(SubSeq(cells, 1, size)) = Lines(SubSeq(cells, 1, offset) \o remainder) \o done
    BY DEF Looks
  <1>2. PICK filters : filters = rd.filters
    OBVIOUS
  <1>3. PICK n \in Nat : n = filters.limit
    BY <1>1, <1>2
  <1>4. PICK entries : entries = FirstFound(Reverse(done), filters, n)
    OBVIOUS
  <1>5. rd = [phase |-> "reading", filters |-> filters, size |-> size, offset |-> offset,
              remainder |-> remainder, entries |-> entries]
    BY <1>1, <1>2, <1>3, <1>4
  <1>6. rd.offset = offset /\ rd.remainder = remainder
    BY <1>5
  <1>7. start \in Nat /\ start <= offset
    BY <1>6, LogTailAssumption DEF ChunkStart
  <1>8. cells \in Seq(E) /\ Len(cells) \in Nat
    BY DEF Texts
  <1>9. PICK before \in Texts(E), chunk \in Texts(E) :
           /\ before = SubSeq(cells, 1, start) /\ chunk = SubSeq(cells, start + 1, offset)
           /\ SubSeq(cells, 1, offset) = before \o chunk
    <2>1. SubSeq(cells, 1, start) \in Texts(E)
      <3>1. start <= Len(cells)
        BY <1>1, <1>7, <1>8
      <3> QED
        BY <1>7, <3>1, BeginningOfLog
    <2>2. SubSeq(cells, start + 1, offset) \in Texts(E)
      <3>1. \A i \in (start + 1)..offset : i \in 1..Len(cells)
        BY <1>1, <1>7, <1>8
      <3>2. \A i \in (start + 1)..offset : cells[i] \in E
        BY <1>8, <3>1
      <3>3. start + 1 \in Int /\ offset \in Int
        BY <1>7
      <3> QED
        BY <3>2, <3>3, SubSeqProperties DEF Texts
    <2>3. SubSeq(cells, 1, start) \o SubSeq(cells, start + 1, offset) = SubSeq(cells, 1, offset)
      <3>1. 1 \in 1..(Len(cells) + 1) /\ start \in (1 - 1)..Len(cells) /\ offset \in start..Len(cells)
        BY <1>1, <1>7, <1>8
      <3> QED
        BY <1>8, <3>1, ConcatAdjacentSubSeq
    <2> QED
      BY <2>1, <2>2, <2>3
  <1>10. text = chunk \o remainder /\ text \in Texts(E)
    <2>1. text = chunk \o remainder
      BY <1>6, <1>9 DEF Glued
    <2>2. chunk \o remainder \in Texts(E)
      BY DEF Texts
    <2> QED
      BY <2>1, <2>2
  <1>11. lines \in Seq(Texts(E)) /\ lines # <<>>
    BY <1>10, LinesInSeq
  <1>12. PICK first \in Texts(E), others \in Seq(Texts(E)) : first = lines[1] /\ others = Tail(lines)
    <2>1. Tail(lines) \in Seq(Texts(E))
      BY <1>11, HeadTailProperties
    <2>2. lines[1] \in Texts(E)
      BY <1>11
    <2> QED
      BY <2>1, <2>2
  <1>13. (before \o chunk) \o remainder = before \o (chunk \o remainder)
    <2>1. before \in Seq(E) /\ chunk \in Seq(E) /\ remainder \in Seq(E)
      BY DEF Texts
    <2> QED
      BY <2>1, ConcatAssociative
  <1>14. Lines(before \o text) = Lines(before \o first) \o others
    BY <1>10, <1>12, LinesOfTwo
  <1>15. others \o done \in Seq(Texts(E))
         /\ Lines(SubSeq(cells, 1, size)) = Lines(before \o first) \o (others \o done)
    <2>1. PICK head \in Seq(Texts(E)) : head = Lines(before \o first)
      <3>1. before \o first \in Texts(E)
        BY DEF Texts
      <3> QED
        BY <3>1, LinesInSeq
    <2>2. (head \o others) \o done = head \o (others \o done)
      BY ConcatAssociative
    <2>3. others \o done \in Seq(Texts(E))
      OBVIOUS
    <2> QED
      BY <1>1, <1>9, <1>10, <1>13, <1>14, <2>1, <2>2, <2>3
  <1>16. Lines(first) = <<first>>
    BY <1>10, <1>12, FirstLineAlone
  <1>17. entries \o FirstFound(Reverse(others), filters, n - Len(entries))
            = FirstFound(Reverse(others \o done), filters, n)
    <2>1. FindsOn(done, others, filters, n)
      BY FoundOn
    <2> QED
      BY <1>4, <2>1 DEF FindsOn
  <1>18. PICK q : q = [rd EXCEPT
                         !.offset = start,
                         !.remainder = lines[1],
                         !.entries = @ \o FirstFound(Reverse(Tail(lines)), rd.filters,
                                                     rd.filters.limit - Len(@))]
    OBVIOUS
  <1>19. PICK more : more = entries \o FirstFound(Reverse(others), filters, n - Len(entries))
    OBVIOUS
  <1>20. rd.entries = entries /\ rd.filters = filters /\ rd.filters.limit = n
    BY <1>2, <1>3, <1>5
  <1>21. q = [rd EXCEPT !.offset = start, !.remainder = first, !.entries = more]
    BY <1>12, <1>18, <1>19, <1>20
  <1>22. q = [phase |-> "reading", filters |-> filters, size |-> size, offset |-> start,
              remainder |-> first, entries |-> more]
    BY <1>5, <1>21
  <1>23. q.filters = filters
    BY <1>22
  <1>24. PICK whole \in Seq(Texts(E)) : whole = others \o done
    BY <1>15
  <1>25. q = [phase |-> "reading", filters |-> q.filters, size |-> size, offset |-> start,
              remainder |-> first,
              entries |-> FirstFound(Reverse(whole), q.filters, q.filters.limit)]
    BY <1>3, <1>17, <1>19, <1>22, <1>23, <1>24
  <1>26. q.filters.limit \in Nat
    BY <1>3, <1>23
  <1>27. start <= size
    BY <1>1, <1>7
  <1>28. Lines(SubSeq(cells, 1, size)) = Lines(SubSeq(cells, 1, start) \o first) \o whole
    BY <1>9, <1>15, <1>24
  <1>29. Looks(E, cells, q)
    BY <1>1, <1>7, <1>16, <1>25, <1>26, <1>27, <1>28 DEF Looks
  <1> QED
    BY <1>18, <1>29

(* The remainder is the first line of the file, or nothing more was wanted.*)
(* (FinishTail)                                                            *)
LEMMA TailFinished ==
    ASSUME NEW E, NEW cells \in Texts(E), NEW rd, Looks(E, cells, rd), ~WantsMore(rd), NEW first,
           first = FirstFound(<<rd.remainder>>, rd.filters, rd.filters.limit - Len(rd.entries))
    PROVE  Exact(cells, [rd EXCEPT !.phase = "done", !.entries = Reverse(@ \o first)])
  <1>1. PICK size \in Nat, offset \in Nat, remainder \in Texts(E), done \in Seq(Texts(E)) :
           /\ rd = [phase |-> "reading", filters |-> rd.filters, size |-> size, offset |-> offset,
                    remainder |-> remainder,
                    entries |-> FirstFound(Reverse(done), rd.filters, rd.filters.limit)]
           /\ rd.filters.limit \in Nat
           /\ offset <= size /\ size <= Len(cells)
           /\ Lines(remainder) = <<remainder>>
           /\ Lines(SubSeq(cells, 1, size)) = Lines(SubSeq(cells, 1, offset) \o remainder) \o done
    BY DEF Looks
  <1>2. PICK filters : filters = rd.filters
    OBVIOUS
  <1>3. PICK n \in Nat : n = filters.limit
    BY <1>1, <1>2
  <1>4. PICK entries : entries = FirstFound(Reverse(done), filters, n)
    OBVIOUS
  <1>5. rd = [phase |-> "reading", filters |-> filters, size |-> size, offset |-> offset,
              remainder |-> remainder, entries |-> entries]
    BY <1>1, <1>2, <1>3, <1>4
  <1>6. first = FirstFound(<<remainder>>, filters, n - Len(entries)) /\ (offset = 0 \/ ~(Len(entries) < n))
    BY <1>3, <1>5 DEF WantsMore
  <1>7. PICK before \in Texts(E) : before = SubSeq(cells, 1, offset)
    <2>1. cells \in Seq(E) /\ Len(cells) \in Nat
      BY DEF Texts
    <2>2. offset <= Len(cells)
      BY <1>1, <2>1
    <2> QED
      BY <2>2, BeginningOfLog
  <1>8. PICK last \in Seq(Texts(E)) : last = Lines(before \o remainder)
    <2>1. before \o remainder \in Texts(E)
      BY DEF Texts
    <2> QED
      BY <2>1, LinesInSeq
  <1>9. PICK whole \in Seq(Texts(E)) : whole = last \o done
    <2>1. last \o done \in Seq(Texts(E))
      BY ConcatProperties
    <2> QED
      BY <2>1
  <1>10. Lines(SubSeq(cells, 1, size)) = whole
    BY <1>1, <1>7, <1>8, <1>9
  <1>11. entries \o FirstFound(Reverse(last), filters, n - Len(entries))
            = FirstFound(Reverse(whole), filters, n)
    <2>1. FindsOn(done, last, filters, n)
      BY FoundOn
    <2> QED
      BY <1>4, <1>9, <2>1 DEF FindsOn
  <1>12. first = FirstFound(Reverse(last), filters, n - Len(entries))
    <2>1. CASE offset = 0
      <3>1. before = <<>>
        <4>1. SubSeq(cells, 1, 0) = <<>>
          BY SubSeqEmpty
        <4> QED
          BY <1>7, <2>1, <4>1
      <3>2. <<>> \o remainder = remainder
        <4>1. remainder \in Seq(E)
          BY DEF Texts
        <4> QED
          BY <4>1, ConcatEmptySeq
      <3>3. last = <<remainder>>
        BY <1>1, <1>8, <3>1, <3>2
      <3>4. Reverse(<<remainder>>) = <<remainder>>
        BY DEF Reverse
      <3> QED
        BY <1>6, <3>3, <3>4
    <2>2. CASE ~(Len(entries) < n)
      <3>1. Len(entries) \in Nat /\ Len(entries) <= n
        <4>1. PICK r \in Seq(Texts(E)) : r = Reverse(done)
          BY ReverseIs
        <4> QED
          BY <1>4, <4>1, FoundIsFew
      <3>2. n - Len(entries) = 0
        BY <2>2, <3>1
      <3>3. FirstFound(<<remainder>>, filters, 0) = <<>>
        <4>1. <<remainder>> \in Seq(Texts(E))
          OBVIOUS
        <4> QED
          BY <4>1, FoundNone
      <3>4. FirstFound(Reverse(last), filters, 0) = <<>>
        <4>1. Reverse(last) \in Seq(Texts(E))
          BY ReverseIs
        <4> QED
          BY <4>1, FoundNone
      <3> QED
        BY <1>6, <3>2, <3>3, <3>4
    <2> QED
      BY <1>6, <2>1, <2>2
  <1>13. InOrder(whole, filters, n)
    BY FoundInOrder
  <1>14. PICK result : result = Reverse(FirstFound(Reverse(whole), filters, n))
    OBVIOUS
  <1>15. Reverse(entries \o first) = result
    BY <1>11, <1>12, <1>14
  <1>16. PICK q : q = [rd EXCEPT !.phase = "done", !.entries = Reverse(@ \o first)]
    OBVIOUS
  <1>17. q = [rd EXCEPT !.phase = "done", !.entries = result]
    <2>1. rd.entries = entries
      BY <1>5
    <2> QED
      BY <1>15, <1>16, <2>1
  <1>18. q.filters = filters /\ q.size = size /\ q.entries = result
    BY <1>5, <1>17
  <1>19. Exact(cells, q)
    BY <1>1, <1>3, <1>10, <1>13, <1>14, <1>18 DEF Exact, InOrder
  <1> QED
    BY <1>16, <1>19
-----------------------------------------------------------------------------
(* Readers of the log.                                                     *)

(* What cells there may be. *)
Cells ==
    (UNION {ToSet(old) : old \in OldLogs}) \cup {NL}
        \cup [line : [of : Requests, level : {"error", "warn", "info"}, width : Widths], at : Nat]

(* Every reader is right about the log as it is now. *)
LogInv ==
    /\ log \in Texts(Cells) /\ unwritten \in Texts(Cells)
    /\ \A r \in Readers : ReaderRight(Cells, log, reader[r])

LEMMA ReadersStart ==
    Init => LogInv
  <1> SUFFICES ASSUME Init
               PROVE  LogInv
    OBVIOUS
  <1>1. PICK old \in OldLogs : log = old /\ unwritten = <<>> /\ reader = [r \in Readers |-> Idle]
    BY DEF Init, LogInit
  <1>2. old \in Seq(ToSet(old)) /\ ToSet(old) \subseteq Cells
    BY LogAssumption DEF Cells
  <1>3. log \in Texts(Cells) /\ unwritten \in Texts(Cells)
    <2> HIDE DEF Cells
    <2>1. old \in Seq(Cells)
      BY <1>2
    <2> QED
      BY <1>1, <2>1 DEF Texts
  <1>4. ASSUME NEW r \in Readers
        PROVE  ReaderRight(Cells, log, reader[r])
    <2>1. reader[r].phase = "idle"
      BY <1>1 DEF Idle
    <2> QED
      BY <2>1 DEF ReaderRight
  <1> QED
    BY <1>3, <1>4 DEF LogInv

(* A step of one reader, or of none. *)
LEMMA OneReader ==
    ASSUME LogInv, DOMAIN reader = Readers, log' = log, unwritten' = unwritten,
           NEW r \in Readers, NEW rd, reader' = [reader EXCEPT ![r] = rd],
           ReaderRight(Cells, log, rd)
    PROVE  LogInv'
  <1>1. ASSUME NEW s \in Readers
        PROVE  ReaderRight(Cells, log, reader'[s])
    <2>1. CASE s = r
      BY <2>1
    <2>2. CASE s # r
      BY <2>2 DEF LogInv
    <2> QED
      BY <2>1, <2>2
  <1>2. ASSUME NEW s \in Readers
        PROVE  ReaderRight(Cells, log, reader[s])'
    <2>1. PICK q : q = reader'[s]
      OBVIOUS
    <2>2. ReaderRight(Cells, log', q)
      BY <1>1, <2>1
    <2> QED
      BY <2>1, <2>2
  <1> QED
    BY <1>2 DEF LogInv

(* Lines are appended; what readers have seen stays where it is. *)
LEMMA LogIsWritten ==
    ASSUME LogInv, reader' = reader, NEW more \in Texts(Cells), log' = log \o more,
           unwritten' \in Texts(Cells)
    PROVE  LogInv'
  <1>1. log' \in Texts(Cells)
    BY DEF LogInv, Texts
  <1>2. ASSUME NEW s \in Readers
        PROVE  ReaderRight(Cells, log, reader[s])'
    <2>1. PICK q : q = reader[s]
      OBVIOUS
    <2>2. PICK cells \in Texts(Cells) : cells = log
      BY DEF LogInv
    <2>3. ReaderRight(Cells, cells \o more, q)
      BY <2>1, <2>2, LogGrows DEF LogInv
    <2>4. log' = cells \o more
      BY <2>2
    <2>5. ReaderRight(Cells, log', q)
      BY <2>3, <2>4
    <2> QED
      BY <2>1, <2>5
  <1> QED
    BY <1>1, <1>2 DEF LogInv

(* The text of a line is made of cells. *)
LEMMA TextOfLine ==
    ASSUME NEW r \in Requests, NEW status, NEW w \in Widths
    PROVE  TextOf([of |-> r, level |-> LevelOf(status), width |-> w]) \o <<NL>> \in Texts(Cells)
  <1>1. PICK line \in [of : Requests, level : {"error", "warn", "info"}, width : Widths] :
           line = [of |-> r, level |-> LevelOf(status), width |-> w]
    <2>1. LevelOf(status) \in {"error", "warn", "info"}
      BY DEF LevelOf
    <2> QED
      BY <2>1
  <1>2. line.width \in Nat
    BY LogAssumption
  <1>3. \A k \in 1..line.width : [line |-> line, at |-> k] \in Cells
    <2>1. \A k \in Nat : [line |-> line, at |-> k] \in
             [line : [of : Requests, level : {"error", "warn", "info"}, width : Widths], at : Nat]
      OBVIOUS
    <2>2. \A k \in 1..line.width : k \in Nat
      BY <1>2
    <2> QED
      BY <2>1, <2>2, Zenon DEF Cells
  <1>4. NL \in Cells
    BY Zenon DEF Cells
  <1> HIDE DEF Cells
  <1>5. TextOf(line) \in Seq(Cells)
    BY <1>2, <1>3 DEF TextOf
  <1> QED
    BY <1>1, <1>4, <1>5 DEF Texts

LEMMA WriteStep ==
    ASSUME IndInv, LogInv, NEW r \in Requests, Log(r) \/ Logged(r)
    PROVE  LogInv'
  <1>1. CASE Log(r)
    <2>1. PICK w \in Widths :
             BeginWrite([of |-> r, level |-> LevelOf(req[r].status), width |-> w])
      BY <1>1 DEF Log
    <2>2. PICK text \in Texts(Cells) :
             text = TextOf([of |-> r, level |-> LevelOf(req[r].status), width |-> w]) \o <<NL>>
      BY TextOfLine
    <2>3. PICK n \in 1..(Len(text) - 1) :
             /\ log' = log \o SubSeq(text, 1, n)
             /\ unwritten' = SubSeq(text, n + 1, Len(text))
      BY <2>1, <2>2 DEF BeginWrite
    <2>4. reader' = reader
      BY <2>1 DEF BeginWrite
    <2>5. text \in Seq(Cells) /\ Len(text) \in Nat
      BY DEF Texts
    <2>6. SubSeq(text, 1, n) \in Seq(Cells) /\ SubSeq(text, n + 1, Len(text)) \in Seq(Cells)
      <3> HIDE DEF Cells
      <3> QED
        BY <2>5
    <2> QED
      BY <2>3, <2>4, <2>6, LogIsWritten DEF Texts
  <1>2. CASE Logged(r)
    <2>1. log' = log \o unwritten /\ unwritten' = <<>> /\ reader' = reader
      BY <1>2 DEF Logged, EndWrite
    <2>2. <<>> \in Texts(Cells)
      BY TextsAre
    <2> QED
      BY <2>1, <2>2, LogIsWritten DEF LogInv
  <1> QED
    BY <1>1, <1>2

(* A log is read for some lines of it. *)
LEMMA LogAnswers ==
    ASSUME NEW call, NEW limit \in Int, limit = call.filters.limit, LogsHandler(call) = 0
    PROVE  limit > 0
  <1>1. CASE config.debugToken = "" \/ call.debugToken = "" \/ call.debugToken # config.debugToken
             \/ call.method \notin {"GET", "HEAD"}
    <2>1. CASE config.debugToken = ""
      <3>1. LogsHandler(call) = 503
        BY <2>1, Zenon DEF LogsHandler
      <3> QED
        BY <3>1
    <2>2. CASE config.debugToken # "" /\ call.debugToken = ""
      <3>1. LogsHandler(call) = 401
        BY <2>2, Zenon DEF LogsHandler
      <3> QED
        BY <3>1
    <2>3. CASE config.debugToken # "" /\ call.debugToken # "" /\ call.debugToken # config.debugToken
      <3>1. LogsHandler(call) = 403
        BY <2>3, Zenon DEF LogsHandler
      <3> QED
        BY <3>1
    <2>4. CASE /\ config.debugToken # "" /\ call.debugToken # "" /\ call.debugToken = config.debugToken
               /\ call.method \notin {"GET", "HEAD"}
      <3>1. LogsHandler(call) = 405
        BY <2>4, Zenon DEF LogsHandler
      <3> QED
        BY <3>1
    <2> QED
      BY <1>1, <2>1, <2>2, <2>3, <2>4
  <1>2. CASE ~(config.debugToken = "" \/ call.debugToken = "" \/ call.debugToken # config.debugToken
             \/ call.method \notin {"GET", "HEAD"})
    <2>1. LogsHandler(call) = IF ~parseLogFilters(call.filters) THEN 400
                              ELSE IF config.logRemoved THEN 404 ELSE 0
      BY <1>2, Zenon DEF LogsHandler
    <2>2. parseLogFilters(call.filters)
      BY <2>1
    <2>3. limit \in 1..MaxLogLimit
      BY <2>2 DEF parseLogFilters
    <2> QED
      BY <2>3, LogAssumption
  <1> QED
    BY <1>1, <1>2

(* readLogTail opens the file. *)
LEMMA OpenStep ==
    ASSUME IndInv, LogInv, NEW r \in Requests, Open(r)
    PROVE  LogInv'
  <1>1. req[r].stage = "tail"
    BY DEF Open
  <1>2. RequestInv(r, req[r])
    BY <1>1 DEF IndInv
  <1>3. PICK call : call = req[r].call
    OBVIOUS
  <1>4. PICK filters : filters = call.filters
    OBVIOUS
  <1>5. call.route = "logs" /\ Handler(call) = 0 /\ call \in Calls(r, config)
    BY <1>1, <1>2, <1>3 DEF RequestInv, Waiting
  <1>6. filters.limit \in Nat
    <2>1. filters.limit \in Int
      BY <1>4, <1>5, CallsAssumption DEF IndInv
    <2>2. LogsHandler(call) = 0
      BY <1>5 DEF Handler
    <2>3. PICK limit \in Int : limit = filters.limit
      BY <2>1
    <2>4. limit > 0
      BY <1>4, <2>2, <2>3, LogAnswers
    <2> QED
      BY <2>3, <2>4
  <1>7. PICK cells \in Texts(Cells) : cells = log
    BY DEF LogInv
  <1>8. PICK rd : rd = [phase |-> "reading", filters |-> filters, size |-> Len(cells),
                        offset |-> Len(cells), remainder |-> <<>>, entries |-> <<>>]
    OBVIOUS
  <1>9. Looks(Cells, cells, rd)
    BY <1>6, <1>8, OpenedRight
  <1>10. rd.phase = "reading"
    BY <1>8
  <1>11. ReaderRight(Cells, log, rd)
    BY <1>7, <1>9, <1>10 DEF ReaderRight
  <1>12. reader' = [reader EXCEPT ![r] = rd] /\ log' = log /\ unwritten' = unwritten
    BY <1>3, <1>4, <1>7, <1>8 DEF Open, OpenLog
  <1>13. r \in Readers /\ DOMAIN reader = Readers
    BY ReadersAssumption DEF IndInv
  <1> QED
    BY <1>11, <1>12, <1>13, OneReader

(* It reads a chunk. *)
LEMMA ReadStep ==
    ASSUME IndInv, LogInv, NEW r \in Requests, Read(r)
    PROVE  LogInv'
  <1>1. PICK rd : rd = reader[r]
    OBVIOUS
  <1>2. rd.phase = "reading" /\ WantsMore(rd) /\ log' = log /\ unwritten' = unwritten
    BY <1>1 DEF Read, ReadChunk
  <1>3. r \in Readers /\ DOMAIN reader = Readers
    BY ReadersAssumption DEF IndInv
  <1>4. PICK cells \in Texts(Cells) : cells = log
    BY DEF LogInv
  <1>5. Looks(Cells, cells, rd)
    BY <1>1, <1>2, <1>3, <1>4 DEF LogInv, ReaderRight
  <1>6. PICK start : start = ChunkStart(rd.offset)
    OBVIOUS
  <1>7. PICK text : text = Glued(SubSeq(cells, start + 1, rd.offset), rd.remainder)
    OBVIOUS
  <1>8. PICK lines : lines = Lines(text)
    OBVIOUS
  <1>9. PICK q : q = [rd EXCEPT
                    !.offset = start,
                    !.remainder = lines[1],
                    !.entries = @ \o FirstFound(Reverse(Tail(lines)), rd.filters,
                                                rd.filters.limit - Len(@))]
    OBVIOUS
  <1>10. reader' = [reader EXCEPT ![r] = q]
    BY <1>1, <1>4, <1>6, <1>7, <1>8, <1>9 DEF Read, ReadChunk
  <1>11. Looks(Cells, cells, q)
    BY <1>2, <1>5, <1>6, <1>7, <1>8, <1>9, ChunkRead
  <1>12. q.phase = "reading"
    BY <1>11 DEF Looks
  <1>13. ReaderRight(Cells, log, q)
    BY <1>4, <1>11, <1>12 DEF ReaderRight
  <1> QED
    BY <1>2, <1>3, <1>10, <1>13, OneReader

(* It has enough, or nothing is left to read. *)
LEMMA FinishedStep ==
    ASSUME IndInv, LogInv, NEW r \in Requests, Finish(r)
    PROVE  LogInv'
  <1>1. PICK rd : rd = reader[r]
    OBVIOUS
  <1>2. rd.phase = "reading" /\ ~WantsMore(rd) /\ log' = log /\ unwritten' = unwritten
    BY <1>1 DEF Finish, FinishTail
  <1>3. r \in Readers /\ DOMAIN reader = Readers
    BY ReadersAssumption DEF IndInv
  <1>4. PICK cells \in Texts(Cells) : cells = log
    BY DEF LogInv
  <1>5. Looks(Cells, cells, rd)
    BY <1>1, <1>2, <1>3, <1>4 DEF LogInv, ReaderRight
  <1>6. PICK first : first = FirstFound(<<rd.remainder>>, rd.filters,
                                        rd.filters.limit - Len(rd.entries))
    OBVIOUS
  <1>7. PICK q : q = [rd EXCEPT !.phase = "done", !.entries = Reverse(@ \o first)]
    OBVIOUS
  <1>8. reader' = [reader EXCEPT ![r] = q]
    BY <1>1, <1>6, <1>7 DEF Finish, FinishTail
  <1>9. Exact(cells, q)
    BY <1>2, <1>5, <1>6, <1>7, TailFinished
  <1>10. q.phase = "done"
    <2>1. "phase" \in DOMAIN rd
      BY <1>5 DEF Looks
    <2> QED
      BY <1>7, <2>1
  <1>11. ReaderRight(Cells, log, q)
    BY <1>4, <1>9, <1>10 DEF ReaderRight
  <1> QED
    BY <1>2, <1>3, <1>8, <1>11, OneReader

LEMMA ReadersInductive ==
    Spec => []LogInv
  <1>1. IndInv /\ LogInv /\ [Next]_vars => LogInv'
    <2> SUFFICES ASSUME IndInv, LogInv, [Next]_vars
                 PROVE  LogInv'
      OBVIOUS
    <2>1. CASE UNCHANGED logVars
      <3>1. log' = log /\ unwritten' = unwritten /\ reader' = reader
        BY <2>1 DEF logVars
      <3> QED
        BY <3>1 DEF LogInv
    <2>2. CASE \/ InitPostgres \/ InitRegistry \/ InitRoutes \/ CannotListen
               \/ DatabaseStops \/ DatabaseReturns \/ DatabaseRefuses \/ Tick
               \/ \E r \in Requests : \E call \in Calls(r, config) : Arrive(r, call)
               \/ \E r \in Requests : Answer204(r) \/ Refuse(r) \/ Handle(r)
               \/ \E r \in Requests : Query(r) \/ Ping(r) \/ Cancel(r) \/ Disconnect(r)
      BY <2>1, <2>2 DEF InitPostgres, InitRegistry, InitRoutes, CannotListen, Startup,
         DatabaseStops, DatabaseReturns, DatabaseRefuses, Tick, Arrive, Answer204, Refuse, Handle,
         Query, Ping, Cancel, Disconnect
    <2>3. CASE \E r \in Requests : Open(r) \/ Read(r) \/ Finish(r) \/ Log(r) \/ Logged(r)
      BY <2>3, OpenStep, ReadStep, FinishedStep, WriteStep
    <2>4. CASE UNCHANGED vars
      BY <2>1, <2>4 DEF vars, logVars
    <2> QED
      BY <2>2, <2>3, <2>4 DEF Next, Serve
  <1> QED
    BY <1>1, ReadersStart, Inductive, PTL DEF Spec
-----------------------------------------------------------------------------
(* The properties.                                                         *)

(* A call reaches its handler exactly if authentication is off or its token *)
(* is the issuer's and current within the skew, at whatever moments calls   *)
(* arrive, the clock ticks and the answer is given.  (withAuth)             *)
THEOREM TokensAlwaysJudgedRight ==
    Spec => []TokensJudgedRight
  <1>1. IndInv => TokensJudgedRight
    <2> SUFFICES ASSUME IndInv, NEW r \in Requests, req[r].stage \notin {"idle", "arrived"},
                        WithCORS(req[r].call.route), ~Preflight(req[r].call), config.auth.enabled,
                        "token" \in DOMAIN req[r].call /\ Genuine(config.auth, req[r].call.token)
                            => Consistent(req[r].call.token.claims)
                 PROVE  req[r].entered =
                           (/\ "token" \in DOMAIN req[r].call
                            /\ Genuine(config.auth, req[r].call.token)
                            /\ \E c \in Clocks(config.auth, req[r].at) : Current(req[r].call.token.claims, c))
      BY DEF TokensJudgedRight
    <2>1. RequestInv(r, req[r])
      BY DEF IndInv
    <2>2. /\ req[r].entered \in BOOLEAN /\ req[r].at \in Int /\ req[r].call \in Calls(r, config)
          /\ req[r].entered <=> ~Preflight(req[r].call) /\ AuthAt(req[r].call, req[r].at)
      BY <2>1 DEF RequestInv
    <2>3. req[r].entered <=>
             "token" \in DOMAIN req[r].call /\ ValidateToken(config.auth, req[r].call.token, req[r].at)
      BY <2>2 DEF AuthAt
    <2>4. CASE "token" \in DOMAIN req[r].call
      <3>1. config.auth.skew \in Int /\ NumericClaims(req[r].call.token.claims)
        BY <2>2, <2>4, CallsAssumption DEF IndInv, NumericClaims
      <3>2. ValidateToken(config.auth, req[r].call.token, req[r].at) <=>
               /\ Genuine(config.auth, req[r].call.token)
               /\ \E c \in Clocks(config.auth, req[r].at) : Current(req[r].call.token.claims, c)
        BY <2>2, <2>4, <3>1, TokenAccepted
      <3> QED
        BY <2>2, <2>3, <2>4, <3>2
    <2>5. CASE "token" \notin DOMAIN req[r].call
      BY <2>2, <2>3, <2>5
    <2> QED
      BY <2>4, <2>5
  <1> QED
    BY <1>1, Inductive, PTL

(* Whenever the database goes, falls silent and returns, and clients leave: *)
(* 200 of the API means that it was up at some moment of the call, with its *)
(* table; a failure after the checks is blamed on the client only if the    *)
(* table is missing; and readyz tells what was true at some moment of the   *)
(* call.                                                                   *)
THEOREM AnswersAlwaysMatchDatabase ==
    Spec => []AnswersMatchDatabase
  <1>1. IndInv => AnswersMatchDatabase
    <2> SUFFICES ASSUME IndInv, NEW r \in Requests, Answered(r), req[r].entered
                 PROVE  Answers(req[r])
      BY DEF AnswersMatchDatabase, Answers
    <2> QED
      BY DEF IndInv, RequestInv, Answered
  <1> QED
    BY <1>1, Inductive, PTL

(* The value of Access-Control-Allow-Origin depends on the origin only      *)
(* where the answer says so.                                               *)
LEMMA AllowedOrigin ==
    ASSUME NEW origins, NEW credentials, NEW origin, origin # ""
    PROVE  LET allow == resolveAllowOrigin(origins, credentials, origin)
               any == origins = {} \/ ("*" \in origins /\ ~credentials)
           IN  /\ any => allow.value = "*"
               /\ ~any => allow.vary = TRUE
  <1>1. CASE origins = {}
    BY <1>1 DEF resolveAllowOrigin, Allow
  <1>2. CASE origins # {} /\ "*" \in origins /\ credentials
    BY <1>2 DEF resolveAllowOrigin, Allow
  <1>3. CASE origins # {} /\ "*" \in origins /\ ~credentials
    BY <1>3 DEF resolveAllowOrigin, Allow
  <1>4. CASE origins # {} /\ "*" \notin origins
    BY <1>4 DEF resolveAllowOrigin, Allow
  <1> QED
    BY <1>1, <1>2, <1>3, <1>4

(* Two answers that differ in whom they allow both say that they vary, for  *)
(* every setting of the origins.                                            *)
THEOREM AlwaysVaryWhenDependent ==
    Spec => []VaryWhenDependent
  <1>1. IndInv => VaryWhenDependent
    <2> SUFFICES ASSUME IndInv, NEW r \in Requests, NEW s \in Requests,
                        req[r].stage \notin {"idle", "arrived"}, req[s].stage \notin {"idle", "arrived"},
                        WithCORS(req[r].call.route), WithCORS(req[s].call.route),
                        req[r].call.origin # "", req[s].call.origin # "",
                        req[r].allow.value # req[s].allow.value
                 PROVE  req[r].allow.vary /\ req[s].allow.vary
      BY DEF VaryWhenDependent
    <2>1. req[r].allow = withCORS(req[r].call) /\ req[s].allow = withCORS(req[s].call)
      BY DEF IndInv, RequestInv
    <2>2. PICK origins, credentials, o1, o2 :
              /\ origins = config.origins /\ credentials = config.credentials
              /\ o1 = req[r].call.origin /\ o2 = req[s].call.origin
      OBVIOUS
    <2>3. /\ req[r].allow = resolveAllowOrigin(origins, credentials, o1)
          /\ req[s].allow = resolveAllowOrigin(origins, credentials, o2)
      BY <2>1, <2>2 DEF withCORS
    <2>4. o1 # "" /\ o2 # ""
      BY <2>2
    <2> DEFINE any == origins = {} \/ ("*" \in origins /\ ~credentials)
    <2>5. /\ any => req[r].allow.value = "*" /\ req[s].allow.value = "*"
          /\ ~any => req[r].allow.vary = TRUE /\ req[s].allow.vary = TRUE
      <3>1. /\ any => resolveAllowOrigin(origins, credentials, o1).value = "*"
            /\ ~any => resolveAllowOrigin(origins, credentials, o1).vary = TRUE
        BY <2>4, AllowedOrigin
      <3>2. /\ any => resolveAllowOrigin(origins, credentials, o2).value = "*"
            /\ ~any => resolveAllowOrigin(origins, credentials, o2).vary = TRUE
        BY <2>4, AllowedOrigin
      <3> QED
        BY <2>3, <3>1, <3>2
    <2> HIDE DEF any
    <2>6. ~any
      BY <2>5
    <2> QED
      BY <2>5, <2>6
  <1> QED
    BY <1>1, Inductive, PTL

(* Whatever the size of the chunks, the lines and the limit, and however    *)
(* many requests read while others write: the lines of /debug/logs are the  *)
(* last that pass of the file as it was when it was opened, in its order.   *)
(* (readLogTail, the remainder it carries from chunk to chunk)              *)
THEOREM TailAlwaysExact ==
    Spec => []TailExact
  <1>1. LogInv => TailExact
    BY DEF LogInv, ReaderRight, Exact, TailExact
  <1> QED
    BY <1>1, ReadersInductive, PTL
=============================================================================
