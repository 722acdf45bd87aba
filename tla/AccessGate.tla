----------------------------- MODULE AccessGate -----------------------------
(***************************************************************************)
(* From a request to the rows it may see: Cloudflare Access signs a token  *)
(* (external), cloudflare_access.py verifies it against the cached key set *)
(* of the team, user_service.py resolves the e-mail address, and           *)
(* user_context.py binds the connection of the request to that user for    *)
(* the row-level security of PostgreSQL.  The REST routes (auth.py) and    *)
(* the MCP server (mcp/middleware.py) share these steps.                   *)
(***************************************************************************)
EXTENDS TimedCache, FiniteSets

CONSTANTS
    Keys,           \* signing keys of the Access team, in time
    Tokens,         \* [key, audience, email, expires] the team may have signed
    NoToken, NoEmail,
    Configurations, \* [production, DEV_AUTH_EMAIL, configured]
    InitialUsers,   \* [UserIds -> [username, email, admin] or Absent]
    UserIds, Absent,
    Arrivals,       \* [Callers -> SUBSET [kind, token, account]], the requests
    FirstKey,
    MaxRequests,    \* [Callers -> Nat], bound on the requests of a caller
    MaxTime

ASSUME TokensAssumption ==
    /\ Values = SUBSET Keys /\ FirstKey \in Keys
    /\ NoToken \notin Tokens
    /\ \A token \in Tokens : token.key \in Keys /\ token.expires \in Nat

\* Both columns of an account are unique in the table of users.
ASSUME UsersAssumption ==
    /\ InitialUsers = [u \in UserIds |-> InitialUsers[u]]
    /\ \A u \in UserIds :
        InitialUsers[u] # Absent => InitialUsers[u].admin \in BOOLEAN
    /\ \A u, v \in {w \in UserIds : InitialUsers[w] # Absent} :
        InitialUsers[u].email = InitialUsers[v].email => u = v

ASSUME RequestsAssumption ==
    /\ MaxTime \in Nat /\ MaxRequests \in [Callers -> Nat]
    /\ \A r \in Callers : \A a \in Arrivals[r] :
        /\ a.kind \in {"read", "tool", "create", "notify"}
        /\ a.token \in Tokens \union {NoToken}

VARIABLES
    settings,       \* of the process, read when it starts
    keys,           \* per key: when it was published and when retired
    users,          \* the table of users
    request         \* per caller: the request it is serving

gateVars == <<settings, keys, users, request>>
vars == <<now, entry, call, settings, keys, users, request>>

Unset == 0          \* app.current_user_id of a new connection
Waiting == [pc |-> "none", served |-> 0]

\* Settings.validate_auth_settings: what a process starts with.
Unvalidated(s) == TRUE
validate_auth_settings(s) ==
    s.production => s.DEV_AUTH_EMAIL = NoEmail /\ s.configured

Init ==
    /\ CacheInit
    /\ settings \in {s \in Configurations : validate_auth_settings(s)}
    /\ keys = [k \in Keys |->
                [state |-> IF k = FirstKey THEN "published" ELSE "new",
                 from |-> 0, until |-> 0]]
    /\ users = InitialUsers
    /\ request = [r \in Callers |-> Waiting]

-----------------------------------------------------------------------------
(* External: the keys of the team, which its service publishes.            *)

Published == {k \in Keys : keys[k].state = "published"}

PublishKey(k) ==
    /\ keys[k].state = "new"
    /\ keys' = [keys EXCEPT ![k].state = "published", ![k].from = now]
    /\ UNCHANGED <<cacheVars, settings, users, request>>

\* The team retires a key when a later one is there.
RetireKey(k) ==
    /\ keys[k].state = "published"
    /\ \E other \in Published \ {k} : keys[other].from >= keys[k].from
    /\ keys' = [keys EXCEPT ![k].state = "retired", ![k].until = now]
    /\ UNCHANGED <<cacheVars, settings, users, request>>

-----------------------------------------------------------------------------
(* Verification of the token: cloudflare_access.py.                        *)

WithStatus(q, status) == [q EXCEPT !.pc = "answered", !.status = status]

Answered(r, status) ==
    request' = [request EXCEPT ![r] = WithStatus(@, status)]

\* The identity is established.
Identified(r, email) ==
    request' = [request EXCEPT ![r].pc = "resolve", ![r].email = email]

NewRequest(r, a) ==
    [pc |-> "verify", served |-> request[r].served + 1, kind |-> a.kind,
     token |-> a.token, account |-> a.account, asked |-> now, fetched |-> FALSE,
     email |-> NoEmail, user |-> Absent, connection |-> Unset, rows |-> {},
     status |-> 0]

\* Requests whose token, if they have one, has been signed.
MayArrive(a) == a.token # NoToken => keys[a.token.key].state # "new"

\* authenticate_access_request up to the await of fetch_jwks: the identity of a
\* development process, a refusal, or a lookup of the keys.
authenticate_access_request(r, new) ==
    \/ /\ settings.DEV_AUTH_EMAIL # NoEmail
       /\ request' = [request EXCEPT ![r] =
            [new EXCEPT !.pc = "resolve", !.email = settings.DEV_AUTH_EMAIL]]
       /\ UNCHANGED cacheVars
    \/ /\ settings.DEV_AUTH_EMAIL = NoEmail
       /\ new.token = NoToken \/ ~settings.configured
       /\ request' = [request EXCEPT ![r] = WithStatus(new, 401)]
       /\ UNCHANGED cacheVars
    \/ /\ settings.DEV_AUTH_EMAIL = NoEmail
       /\ new.token # NoToken /\ settings.configured
       /\ request' = [request EXCEPT ![r] = new]
       /\ Lookup(r)

\* get_access_identity on a request.
Arrive(r) ==
    /\ request[r].pc = "none"
    /\ request[r].served < MaxRequests[r]
    /\ \E a \in {b \in Arrivals[r] : MayArrive(b)} :
        authenticate_access_request(r, NewRequest(r, a))
    /\ UNCHANGED <<settings, keys, users>>

\* The call of the certificate service, which may also fail.
JwksTraffic(r) ==
    /\ ServiceReads(r, Published) \/ CallFails(r) \/ Store(r)
    /\ UNCHANGED gateVars

\* jwt.decode: a known key signed the token, for this application, and it has
\* not expired.
Decodes(token, jwks) ==
    token.key \in jwks /\ token.audience /\ token.expires >= now

KeyRefused(q) == [WithStatus(q, 401) EXCEPT !.fetched = TRUE]

\* verify_access_token after its await.  A key service that answers with an
\* error is a refusal, one that does not answer in JSON an error of the server.
Verify(r) ==
    /\ request[r].pc = "verify"
    /\ Return(r)
    /\ LET token == request[r].token
       IN  \/ /\ call[r].pc = "failed"
              /\ \E status \in {401, 500} : Answered(r, status)
           \/ /\ call[r].pc = "answered"
              /\ Decodes(token, call[r].value) /\ token.email # NoEmail
              /\ Identified(r, token.email)
           \/ /\ call[r].pc = "answered"
              /\ ~(Decodes(token, call[r].value) /\ token.email # NoEmail)
              /\ request' = [request EXCEPT ![r] = KeyRefused(@)]
    /\ UNCHANGED <<settings, keys, users>>

-----------------------------------------------------------------------------
(* The user and the connection: user_context.py, database.py.              *)

UsersWith(email) ==
    {u \in UserIds : users[u] # Absent /\ users[u].email = email}

\* create_user_context without its set_rls_user_id.
ResolveOnly(r) ==
    /\ request[r].pc = "resolve"
    /\ \/ /\ UsersWith(request[r].email) = {}
          /\ Answered(r, 403)
       \/ \E u \in UsersWith(request[r].email) :
            request' = [request EXCEPT ![r].pc = "handle", ![r].user = u]
    /\ UNCHANGED <<cacheVars, settings, keys, users>>

\* get_user_context / the middleware: create_user_context.
Resolve(r) ==
    /\ request[r].pc = "resolve"
    /\ \/ /\ UsersWith(request[r].email) = {}
          /\ Answered(r, 403)
       \/ \E u \in UsersWith(request[r].email) :
            request' = [request EXCEPT ![r].pc = "handle", ![r].user = u,
                                       ![r].connection = u]
    /\ UNCHANGED <<cacheVars, settings, keys, users>>

\* The owners of the rows a query of the user returns on a connection.
Rows(user, connection) == {user} \intersect {connection}

Shown(q) ==
    [WithStatus(q, 200) EXCEPT !.rows = Rows(q.user, q.connection)]

\* A reading route or a tool of the MCP server, whose queries name the user.
Read(r) ==
    /\ request[r].pc = "handle" /\ request[r].kind \in {"read", "tool"}
    /\ request' = [request EXCEPT ![r] = Shown(@)]
    /\ UNCHANGED <<cacheVars, settings, keys, users>>

\* POST /portfolio/update-and-notify up to the commit of update_and_notify,
\* which gives the connection back ...
CommitReport(r) ==
    /\ request[r].pc = "handle" /\ request[r].kind = "notify"
    /\ request' = [request EXCEPT ![r].pc = "summary", ![r].connection = Unset]
    /\ UNCHANGED <<cacheVars, settings, keys, users>>

\* ... and the summary it answers with, on the connection NullPool opens anew.
Summarise(r) ==
    /\ request[r].pc = "summary"
    /\ request' = [request EXCEPT ![r] = Shown(@)]
    /\ UNCHANGED <<cacheVars, settings, keys, users>>

-----------------------------------------------------------------------------
(* Registration of a user: UserService.create_user.                        *)

\* Rows with the user name or the e-mail address of an account.
Clashing(account) ==
    {u \in UserIds : /\ users[u] # Absent
                     /\ \/ users[u].username = account.username
                        \/ users[u].email = account.email}

\* scalar_one_or_none: two rows are an error of the server, one is a refusal.
CheckAccount(r) ==
    /\ request[r].pc = "handle" /\ request[r].kind = "create"
    /\ LET clashes == Cardinality(Clashing(request[r].account))
       IN  \/ ~users[request[r].user].admin /\ Answered(r, 403)
           \/ /\ users[request[r].user].admin
              /\ \/ clashes = 0 /\ request' = [request EXCEPT ![r].pc = "insert"]
                 \/ clashes = 1 /\ Answered(r, 400)
                 \/ clashes > 1 /\ Answered(r, 500)
    /\ UNCHANGED <<cacheVars, settings, keys, users>>

\* Without is_admin the column would be NULL.
NewUserUnset(account) ==
    [username |-> account.username, email |-> account.email, admin |-> Absent]
NewUser(account) ==
    [username |-> account.username, email |-> account.email, admin |-> FALSE]

\* The flush and the commit.  Both columns are unique in the database: a row
\* committed since the check makes the insert fail.
InsertUser(r) ==
    /\ request[r].pc = "insert"
    /\ \/ /\ Clashing(request[r].account) # {}
          /\ Answered(r, 500)
          /\ UNCHANGED users
       \/ /\ Clashing(request[r].account) = {}
          /\ \E u \in {u \in UserIds : users[u] = Absent} :
                users' = [users EXCEPT ![u] = NewUser(request[r].account)]
          /\ Answered(r, 200)
    /\ UNCHANGED <<cacheVars, settings, keys>>

\* The answer is sent and the session of the request is closed.
Finish(r) ==
    /\ request[r].pc = "answered"
    /\ request' = [request EXCEPT ![r] =
                       [Waiting EXCEPT !.served = request[r].served]]
    /\ UNCHANGED <<cacheVars, settings, keys, users>>

-----------------------------------------------------------------------------

\* A tick is long against the statements of a handler: only the certificate
\* service takes as long.
TimePasses ==
    /\ now < MaxTime
    /\ \A r \in Callers : request[r].pc \in {"none", "verify"}
    /\ Tick
    /\ UNCHANGED gateVars

Next ==
    \/ TimePasses
    \/ \E k \in Keys : PublishKey(k) \/ RetireKey(k)
    \/ \E r \in Callers :
        \/ Arrive(r) \/ JwksTraffic(r) \/ Verify(r)
        \/ Resolve(r) \/ Read(r) \/ CommitReport(r) \/ Summarise(r)
        \/ CheckAccount(r) \/ InsertUser(r) \/ Finish(r)

Spec == Init /\ [][Next]_vars

-----------------------------------------------------------------------------
(* Properties *)

Statuses == {0, 200, 400, 401, 403, 500}

TypeOK ==
    /\ now \in 0..MaxTime
    /\ entry \in Entries
    /\ call \in [Callers -> Calls]
    /\ settings \in Configurations
    /\ \A k \in Keys : keys[k].state \in {"new", "published", "retired"}
    /\ \A u \in UserIds :
        users[u] = Absent \/ users[u].admin \in BOOLEAN
    /\ \A r \in Callers :
        /\ request[r].served \in 0..MaxRequests[r]
        /\ request[r].pc \in {"none", "verify", "resolve",
                              "handle", "summary", "insert", "answered"}
        /\ request[r].pc # "none" =>
            /\ request[r].status \in Statuses
            /\ request[r].rows \subseteq UserIds

\* In production nobody is identified but by a token for this application whose
\* key the team had not yet retired Seconds before the request asked for the
\* keys: the cache (cloudflare_access.py:45, cache.py:49-60) prolongs the life
\* of a withdrawn key by less than Seconds, however calls overlap.
WithdrawnKeysExpire ==
    \A r \in Callers :
        (/\ settings.production
         /\ request[r].pc # "none" /\ request[r].email # NoEmail) =>
            LET token == request[r].token
            IN  /\ token # NoToken /\ token.audience
                /\ keys[token.key].state = "retired" =>
                    keys[token.key].until > request[r].asked - Seconds

\* A good token is refused for its key only while that key is younger than
\* Seconds: a rotation locks nobody out for longer (the refusal does not make
\* verify_access_token, cloudflare_access.py:65-75, ask for the keys again).
RefusedKeysAreNew ==
    \A r \in Callers :
        (/\ request[r].pc = "answered" /\ request[r].status = 401
         /\ request[r].fetched) =>
            LET token == request[r].token
            IN  (/\ token.audience /\ token.expires >= now
                 /\ token.email # NoEmail
                 /\ keys[token.key].state = "published") =>
                    keys[token.key].from > request[r].asked - Seconds

\* A reading request shows exactly the rows of the user registered with the
\* address of its token: the queries name that user and the policies see the
\* same user on the connection (user_context.py:29-36), whatever other requests
\* left on other connections.
OwnRowsShown ==
    \A r \in Callers :
        (/\ request[r].pc = "answered" /\ request[r].status = 200
         /\ request[r].kind \in {"read", "tool"}) =>
            /\ request[r].rows = UsersWith(request[r].email)
            /\ request[r].rows # {}

\* routes/portfolio.py:82 promises "the latest portfolio summary" of the user;
\* the summary is read after the commit of portfolio_service.py:201, on a
\* connection whose user was never set.
SummaryShowsOwnRows ==
    \A r \in Callers :
        (/\ request[r].pc = "answered" /\ request[r].status = 200
         /\ request[r].kind = "notify") => request[r].rows = {request[r].user}

=============================================================================
