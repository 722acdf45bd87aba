-------------------------- MODULE AccessGateProofs --------------------------
(***************************************************************************)
(* What AccessGate promises for every number of requests, keys and users,  *)
(* however long the certificate service takes.                             *)
(***************************************************************************)
EXTENDS AccessGate, TLAPS

-----------------------------------------------------------------------------
(* The cache alone.                                                        *)

\* A call knows when it began, and no answer is read in the future.
CallsInOrder ==
    \A c \in Callers :
        /\ call[c].pc # "idle" => call[c].start <= now
        /\ call[c].pc \in {"received", "answered"} => call[c].read <= now
        /\ call[c].pc = "received" => call[c].start <= call[c].read

CacheInv ==
    CacheTypeOK /\ EntryOlderThanItsValue /\ CallsInOrder /\ AnswersFresh

LEMMA CacheInvInit == CacheInit => CacheInv
BY DEF CacheInit, CacheInv, CacheTypeOK, EntryOlderThanItsValue, CallsInOrder,
       AnswersFresh, Entries, Calls, Empty, Idle

\* The times and values that calls and the entry carry.
LEMMA CacheFields ==
    ASSUME CacheTypeOK
    PROVE  /\ entry.full => /\ entry.value \in Values
                            /\ entry.stamp \in Nat /\ entry.read \in Nat
           /\ \A c \in Callers :
                /\ call[c].pc # "idle" => call[c].start \in Nat
                /\ call[c].pc \in {"received", "answered"} =>
                        call[c].value \in Values /\ call[c].read \in Nat
<1>1. ASSUME entry.full
      PROVE  entry.value \in Values /\ entry.stamp \in Nat /\ entry.read \in Nat
    <2>1. entry # Empty
        BY <1>1 DEF Empty
    <2>2. entry \in [full : {TRUE}, value : Values, stamp : Nat, read : Nat]
        BY <2>1 DEF CacheTypeOK, Entries
    <2> QED BY <2>2
<1>2. ASSUME NEW c \in Callers
      PROVE  /\ call[c].pc # "idle" => call[c].start \in Nat
             /\ call[c].pc \in {"received", "answered"} =>
                    call[c].value \in Values /\ call[c].read \in Nat
    <2>1. call[c] \in Calls
        BY DEF CacheTypeOK
    <2> QED BY <2>1 DEF Calls, Idle
<1> QED BY <1>1, <1>2

LEMMA LookupKeepsInv ==
    ASSUME CacheInv, NEW c \in Callers, Lookup(c)
    PROVE  CacheInv'
<1> USE SecondsAssumption
<1>1. CASE Usable(entry, now)
    <2> DEFINE answer == [pc |-> "answered", start |-> now,
                          value |-> entry.value, read |-> entry.read]
    <2>1. call' = [call EXCEPT ![c] = answer] /\ UNCHANGED <<now, entry>>
        BY <1>1 DEF Lookup
    <2>2. /\ now \in Nat /\ entry.stamp \in Nat /\ entry.read \in Nat
          /\ now - entry.stamp < Seconds /\ entry.stamp <= entry.read
          /\ entry.read <= now /\ entry.value \in Values
        BY <1>1, CacheFields DEF CacheInv, CacheTypeOK, EntryOlderThanItsValue, Usable
    <2>3. answer.read > answer.start - Seconds
        BY <2>2
    <2>4. answer \in Calls
        BY <2>2 DEF Calls
    <2>5. call'[c] = answer /\ \A d \in Callers \ {c} : call'[d] = call[d]
        BY <2>1 DEF CacheInv, CacheTypeOK
    <2>6. CacheTypeOK'
        BY <2>1, <2>4 DEF CacheInv, CacheTypeOK
    <2>7. (CallsInOrder /\ AnswersFresh)'
        BY <2>1, <2>2, <2>3, <2>5 DEF CacheInv, CallsInOrder, AnswersFresh
    <2> QED BY <2>1, <2>6, <2>7 DEF CacheInv, EntryOlderThanItsValue
<1>2. CASE ~Usable(entry, now)
    BY <1>2 DEF CacheInv, CacheTypeOK, EntryOlderThanItsValue, CallsInOrder,
       AnswersFresh, Calls, Idle, Lookup
<1> QED BY <1>1, <1>2

LEMMA ReadKeepsInv ==
    ASSUME CacheInv, NEW c \in Callers, NEW value \in Values, ServiceReads(c, value)
    PROVE  CacheInv'
BY DEF CacheInv, CacheTypeOK, EntryOlderThanItsValue, CallsInOrder,
       AnswersFresh, Calls, Idle, ServiceReads

LEMMA StoreKeepsInv ==
    ASSUME CacheInv, NEW c \in Callers, Store(c)
    PROVE  CacheInv'
<1> USE SecondsAssumption
<1>1. call[c] \in [pc : {"received", "answered"}, start : Nat, value : Values, read : Nat]
    BY DEF CacheInv, CacheTypeOK, Calls, Idle, Store
<1>2. call'[c] = [call[c] EXCEPT !.pc = "answered"]
    BY DEF CacheInv, CacheTypeOK, Store
<1>3. /\ entry' = [full |-> TRUE, value |-> call[c].value, stamp |-> call[c].start,
                   read |-> call[c].read]
      /\ now' = now
    BY DEF Store, Stamped
<1>4. CacheTypeOK'
    BY <1>1, <1>2, <1>3 DEF CacheInv, CacheTypeOK, Entries, Calls, Store
<1>5. EntryOlderThanItsValue'
    BY <1>1, <1>3 DEF CacheInv, EntryOlderThanItsValue, CallsInOrder, Store
<1>6. \A d \in Callers \ {c} : call'[d] = call[d]
    BY DEF CacheInv, CacheTypeOK, Store
<1>7. CallsInOrder' /\ AnswersFresh'
    BY <1>1, <1>2, <1>3, <1>6 DEF CacheInv, CacheTypeOK, CallsInOrder, AnswersFresh, Store
<1> QED BY <1>4, <1>5, <1>7 DEF CacheInv

LEMMA CacheInvStep == CacheInv /\ [CacheNext]_cacheVars => CacheInv'
<1> SUFFICES ASSUME CacheInv, [CacheNext]_cacheVars PROVE CacheInv'
    OBVIOUS
<1>1. CASE UNCHANGED cacheVars
    BY <1>1 DEF cacheVars, CacheInv, CacheTypeOK, EntryOlderThanItsValue,
       CallsInOrder, AnswersFresh
<1>2. CASE Tick
    <2>1. now \in Nat /\ now' = now + 1 /\ UNCHANGED <<entry, call>>
        BY <1>2 DEF Tick, CacheInv, CacheTypeOK
    <2> QED BY <2>1, CacheFields DEF CacheInv, CacheTypeOK,
        EntryOlderThanItsValue, CallsInOrder, AnswersFresh
<1>3. ASSUME NEW c \in Callers, Lookup(c) PROVE CacheInv'
    BY <1>3, LookupKeepsInv
<1>4. ASSUME NEW c \in Callers, CallFails(c) PROVE CacheInv'
    BY <1>4 DEF CallFails, CacheInv, CacheTypeOK, EntryOlderThanItsValue,
       CallsInOrder, AnswersFresh, Calls, Idle
<1>5. ASSUME NEW c \in Callers, Store(c) PROVE CacheInv'
    BY <1>5, StoreKeepsInv
<1>6. ASSUME NEW c \in Callers, Return(c) PROVE CacheInv'
    BY <1>6 DEF Return, CacheInv, CacheTypeOK, EntryOlderThanItsValue,
       CallsInOrder, AnswersFresh, Calls, Idle
<1>7. ASSUME NEW c \in Callers, NEW value \in Values, ServiceReads(c, value)
      PROVE  CacheInv'
    BY <1>7, ReadKeepsInv
<1> QED BY <1>1, <1>2, <1>3, <1>4, <1>5, <1>6, <1>7 DEF CacheNext

-----------------------------------------------------------------------------
(* Every step of the gate is one of the cache, or leaves it alone.         *)

LEMMA GateStepsCache == Next => [CacheNext]_cacheVars
<1> USE TokensAssumption
<1> SUFFICES ASSUME Next PROVE [CacheNext]_cacheVars
    OBVIOUS
<1>1. CASE TimePasses
    BY <1>1 DEF TimePasses, CacheNext
<1>2. CASE \E k \in Keys : PublishKey(k) \/ RetireKey(k)
    BY <1>2 DEF PublishKey, RetireKey
<1>3. ASSUME NEW r \in Callers, JwksTraffic(r) PROVE CacheNext
    <2>1. Published \in Values
        BY DEF Published
    <2> QED BY <1>3, <2>1 DEF JwksTraffic, CacheNext
<1>4. ASSUME NEW r \in Callers, Arrive(r) PROVE [CacheNext]_cacheVars
    BY <1>4 DEF Arrive, authenticate_access_request, CacheNext
<1>5. ASSUME NEW r \in Callers, Verify(r) PROVE CacheNext
    BY <1>5 DEF Verify, CacheNext
<1>6. ASSUME NEW r \in Callers,
             \/ Resolve(r) \/ Read(r) \/ CommitReport(r) \/ Summarise(r)
             \/ CheckAccount(r) \/ InsertUser(r) \/ Finish(r)
      PROVE  UNCHANGED cacheVars
    BY <1>6 DEF Resolve, Read, CommitReport, Summarise, CheckAccount, InsertUser, Finish
<1> QED BY <1>1, <1>2, <1>3, <1>4, <1>5, <1>6 DEF Next

\* Among the requests of the gate the cache behaves as it does by itself: the
\* properties of TimedCache hold of the key set.
THEOREM GateRunsCache == Spec => CacheSpec
<1>1. Init => CacheInit
    BY DEF Init
<1>2. [Next]_vars => [CacheNext]_cacheVars
    BY GateStepsCache DEF vars, cacheVars
<1> QED BY <1>1, <1>2, PTL DEF Spec, CacheSpec

\* An answer of the cache was read at the service less than Seconds before its
\* call began, or after: for every number of overlapping calls.
THEOREM CachedAnswersFresh == CacheSpec => []AnswersFresh
<1>1. CacheInv => AnswersFresh
    BY DEF CacheInv
<1> QED BY <1>1, CacheInvInit, CacheInvStep, PTL DEF CacheSpec

\* The same of the key sets the requests are verified with.
THEOREM GateAnswersFresh == Spec => []AnswersFresh
BY GateRunsCache, CachedAnswersFresh, PTL

-----------------------------------------------------------------------------
(* The shape of requests.                                                  *)

Accounts == UNION {{a.account : a \in Arrivals[r]} : r \in Callers}
Emails ==
    {token.email : token \in Tokens} \union {NoEmail}
    \union {s.DEV_AUTH_EMAIL : s \in Configurations}

Serving ==
    [pc : {"verify", "resolve", "handle", "summary", "insert", "answered"},
     served : Nat, kind : {"read", "tool", "create", "notify"},
     token : Tokens \union {NoToken}, account : Accounts, asked : Nat,
     fetched : BOOLEAN, email : Emails, user : UserIds \union {Absent},
     connection : UserIds \union {Unset}, rows : SUBSET UserIds,
     status : Statuses]

KeyStates == [state : {"new", "published", "retired"}, from : Nat, until : Nat]

\* A request that waits for keys has a token, and a handler that runs for a user
\* runs for one that is registered.
StagesPrepared ==
    \A r \in Callers :
        /\ request[r].pc = "verify" => request[r].token \in Tokens
        /\ request[r].pc \in {"handle", "summary", "insert"} =>
            /\ request[r].user \in UserIds
            /\ users[request[r].user] # Absent
            /\ users[request[r].user].email = request[r].email

GateTypes ==
    /\ now \in 0..MaxTime
    /\ settings \in Configurations
    /\ keys \in [Keys -> KeyStates]
    /\ users = [u \in UserIds |-> users[u]]
    /\ \A u \in UserIds : users[u] # Absent => users[u].admin \in BOOLEAN
    /\ request \in [Callers -> [pc : {"none"}, served : Nat] \union Serving]
    /\ \A r \in Callers : request[r].served <= MaxRequests[r]

TypeInv == CacheInv /\ GateTypes /\ StagesPrepared

LEMMA TypeInvInit == Init => TypeInv
<1> USE TokensAssumption, UsersAssumption, RequestsAssumption
<1> SUFFICES ASSUME Init PROVE TypeInv
    OBVIOUS
<1>1. CacheInv
    BY CacheInvInit DEF Init
<1>2. GateTypes
    <2>1. now = 0 /\ settings \in Configurations
        BY DEF Init, CacheInit
    <2>2. keys \in [Keys -> KeyStates]
        BY DEF Init, KeyStates
    <2>3. /\ users = [u \in UserIds |-> users[u]]
          /\ \A u \in UserIds : users[u] # Absent => users[u].admin \in BOOLEAN
        BY DEF Init
    <2>4. /\ request \in [Callers -> [pc : {"none"}, served : Nat] \union Serving]
          /\ \A r \in Callers : request[r].served <= MaxRequests[r]
        BY DEF Init, Waiting
    <2> QED BY <2>1, <2>2, <2>3, <2>4 DEF GateTypes
<1>3. StagesPrepared
    BY DEF Init, Waiting, StagesPrepared
<1> QED BY <1>1, <1>2, <1>3 DEF TypeInv

\* A step that leaves all but the request of r alone, and keeps that one in shape.
LEMMA RequestTypes ==
    ASSUME TypeInv, CacheInv', NEW r \in Callers, NEW new \in Serving,
           request' = [request EXCEPT ![r] = new],
           now' = now, UNCHANGED <<settings, keys, users>>,
           new.served <= MaxRequests[r],
           new.pc = "verify" => new.token \in Tokens,
           new.pc \in {"handle", "summary", "insert"} =>
                /\ new.user \in UserIds /\ users[new.user] # Absent
                /\ users[new.user].email = new.email
    PROVE  TypeInv'
<1>1. /\ request \in [Callers -> [pc : {"none"}, served : Nat] \union Serving]
      /\ request'[r] = new /\ \A q \in Callers \ {r} : request'[q] = request[q]
    BY DEF TypeInv, GateTypes
<1>2. GateTypes'
    BY <1>1 DEF TypeInv, GateTypes
<1>3. StagesPrepared'
    BY <1>1 DEF TypeInv, StagesPrepared
<1> QED BY <1>2, <1>3 DEF TypeInv

\* A request that is being served has all its fields.
LEMMA ServingRequest ==
    ASSUME TypeInv, NEW r \in Callers, request[r].pc # "none"
    PROVE  /\ request[r] \in Serving
           /\ request[r].served <= MaxRequests[r]
           /\ request[r].pc = "verify" => request[r].token \in Tokens
           /\ request[r].pc \in {"handle", "summary", "insert"} =>
                /\ request[r].user \in UserIds /\ users[request[r].user] # Absent
                /\ users[request[r].user].email = request[r].email
<1>1. request[r] \in [pc : {"none"}, served : Nat] \union Serving
    BY DEF TypeInv, GateTypes
<1> QED BY <1>1 DEF TypeInv, GateTypes, StagesPrepared

\* A request that is answered keeps its shape and all its other fields, also
\* when it notes that its key was refused, or the rows it shows.
LEMMA WithStatusShape ==
    ASSUME NEW q \in Serving, NEW status \in Statuses
    PROVE  /\ WithStatus(q, status) \in Serving
           /\ WithStatus(q, status).pc = "answered"
           /\ WithStatus(q, status).status = status
           /\ WithStatus(q, status).served = q.served
           /\ WithStatus(q, status).kind = q.kind
           /\ WithStatus(q, status).user = q.user
           /\ WithStatus(q, status).email = q.email
           /\ WithStatus(q, status).asked = q.asked
           /\ WithStatus(q, status).token = q.token
           /\ WithStatus(q, status).fetched = q.fetched
BY Zenon DEF WithStatus, Serving

Fetched(q) == [q EXCEPT !.fetched = TRUE]
WithRows(q, rows) == [q EXCEPT !.rows = rows]

LEMMA FetchedShape ==
    ASSUME NEW q \in Serving
    PROVE  /\ Fetched(q) \in Serving /\ Fetched(q).pc = q.pc
           /\ Fetched(q).status = q.status /\ Fetched(q).served = q.served
           /\ Fetched(q).email = q.email /\ Fetched(q).asked = q.asked
           /\ Fetched(q).token = q.token
BY Zenon DEF Fetched, Serving

LEMMA KeyRefusedShape ==
    ASSUME NEW q \in Serving
    PROVE  /\ KeyRefused(q) \in Serving
           /\ KeyRefused(q).pc = "answered"
           /\ KeyRefused(q).status = 401
           /\ KeyRefused(q).served = q.served
           /\ KeyRefused(q).email = q.email
           /\ KeyRefused(q).asked = q.asked
           /\ KeyRefused(q).token = q.token
<1>1. 401 \in Statuses
    BY DEF Statuses
<1>2. KeyRefused(q) = Fetched(WithStatus(q, 401))
    BY DEF KeyRefused, Fetched
<1> QED BY <1>1, <1>2, WithStatusShape, FetchedShape

LEMMA RowsShape ==
    ASSUME NEW q \in Serving, NEW rows \in SUBSET UserIds
    PROVE  /\ WithRows(q, rows) \in Serving /\ WithRows(q, rows).pc = q.pc
           /\ WithRows(q, rows).status = q.status /\ WithRows(q, rows).rows = rows
           /\ WithRows(q, rows).served = q.served /\ WithRows(q, rows).kind = q.kind
           /\ WithRows(q, rows).user = q.user /\ WithRows(q, rows).email = q.email
           /\ WithRows(q, rows).asked = q.asked /\ WithRows(q, rows).token = q.token
           /\ WithRows(q, rows).fetched = q.fetched
BY Zenon DEF WithRows, Serving

LEMMA ShownShape ==
    ASSUME NEW q \in Serving, q.user \in UserIds
    PROVE  /\ Shown(q) \in Serving
           /\ Shown(q).pc = "answered"
           /\ Shown(q).status = 200
           /\ Shown(q).rows = Rows(q.user, q.connection)
           /\ Shown(q).served = q.served
           /\ Shown(q).kind = q.kind
           /\ Shown(q).user = q.user
           /\ Shown(q).email = q.email
           /\ Shown(q).asked = q.asked
           /\ Shown(q).token = q.token
           /\ Shown(q).fetched = q.fetched
<1>1. 200 \in Statuses
    BY DEF Statuses
<1>2. Rows(q.user, q.connection) \in SUBSET UserIds
    BY DEF Rows
<1>3. Shown(q) = WithRows(WithStatus(q, 200), Rows(q.user, q.connection))
    BY DEF Shown, WithRows
<1> QED BY <1>1, <1>2, <1>3, WithStatusShape, RowsShape

LEMMA AnsweredStep ==
    ASSUME NEW r \in Callers, request[r] \in Serving,
           request = [q \in Callers |-> request[q]],
           NEW status \in Statuses, Answered(r, status)
    PROVE  /\ request'[r].pc = "answered" /\ request'[r].status = status
           /\ request'[r].kind = request[r].kind
           /\ request'[r].email = request[r].email
           /\ request'[r].asked = request[r].asked
           /\ request'[r].token = request[r].token
           /\ request'[r].fetched = request[r].fetched
<1>1. request'[r] = WithStatus(request[r], status)
    BY DEF Answered
<1> QED BY <1>1, WithStatusShape

\* A step of r that replaces its request leaves those of the others alone.
LEMMA OneRequest ==
    ASSUME request = [q \in Callers |-> request[q]], NEW r \in Callers,
           NEW new, request' = [request EXCEPT ![r] = new]
    PROVE  /\ request'[r] = new
           /\ \A q \in Callers \ {r} : request'[q] = request[q]
OBVIOUS

\* A step of a caller leaves the requests of the others alone.
LEMMA OthersUnchanged ==
    ASSUME NEW r \in Callers, request = [q \in Callers |-> request[q]],
           \/ Arrive(r) \/ Verify(r) \/ Resolve(r) \/ Read(r) \/ CommitReport(r)
           \/ Summarise(r) \/ CheckAccount(r) \/ InsertUser(r) \/ Finish(r)
    PROVE  \A q \in Callers \ {r} : request'[q] = request[q]
<1>1. CASE Arrive(r)
    <2>1. PICK a \in Arrivals[r] : authenticate_access_request(r, NewRequest(r, a))
        BY <1>1 DEF Arrive
    <2> QED BY <2>1, OneRequest DEF authenticate_access_request
<1>2. CASE Verify(r)
    BY <1>2 DEF Verify, Answered, Identified
<1>3. CASE Resolve(r)
    BY <1>3 DEF Resolve, Answered
<1>4. CASE Read(r)
    BY <1>4 DEF Read
<1>5. CASE CommitReport(r)
    BY <1>5 DEF CommitReport
<1>6. CASE Summarise(r)
    BY <1>6 DEF Summarise
<1>7. CASE CheckAccount(r)
    BY <1>7 DEF CheckAccount, Answered
<1>8. CASE InsertUser(r)
    BY <1>8 DEF InsertUser, Answered
<1>9. CASE Finish(r)
    BY <1>9 DEF Finish
<1> QED BY <1>1, <1>2, <1>3, <1>4, <1>5, <1>6, <1>7, <1>8, <1>9

LEMMA ArriveTypes ==
    ASSUME TypeInv, CacheInv', NEW r \in Callers, Arrive(r)
    PROVE  TypeInv'
<1> USE RequestsAssumption
<1>1. PICK a \in Arrivals[r] : authenticate_access_request(r, NewRequest(r, a))
    BY DEF Arrive
<1> DEFINE new == NewRequest(r, a)
<1>2. /\ request[r].served \in Nat /\ request[r].served + 1 <= MaxRequests[r]
      /\ now \in Nat
    <2>1. request[r] \in [pc : {"none"}, served : Nat] \union Serving
        BY DEF TypeInv, GateTypes
    <2> QED BY <2>1 DEF Arrive, TypeInv, GateTypes, Serving
<1>3. a.account \in Accounts
    BY DEF Accounts
<1>4. /\ new \in Serving /\ new.served = request[r].served + 1
      /\ new.pc = "verify"
    BY <1>2, <1>3 DEF NewRequest, Serving, Emails, Statuses, Unset
<1>5. UNCHANGED <<now, settings, keys, users>>
    BY <1>1 DEF authenticate_access_request, Arrive, Lookup, cacheVars
<1> HIDE DEF new
<1>6. ASSUME request' = [request EXCEPT ![r] =
                [new EXCEPT !.pc = "resolve", !.email = settings.DEV_AUTH_EMAIL]]
      PROVE  TypeInv'
    <2>1. settings.DEV_AUTH_EMAIL \in Emails
        BY DEF TypeInv, GateTypes, Emails
    <2> DEFINE q == [new EXCEPT !.pc = "resolve", !.email = settings.DEV_AUTH_EMAIL]
    <2>2. q \in Serving /\ q.served = new.served /\ q.pc = "resolve"
        BY <1>4, <2>1 DEF Serving
    <2> HIDE DEF q
    <2>3. request' = [request EXCEPT ![r] = q]
        BY <1>6 DEF q
    <2> QED BY <1>2, <1>4, <1>5, <2>2, <2>3, RequestTypes
<1>7. ASSUME request' = [request EXCEPT ![r] = WithStatus(new, 401)]
      PROVE  TypeInv'
    <2>1. 401 \in Statuses
        BY DEF Statuses
    <2> DEFINE q == WithStatus(new, 401)
    <2>2. q \in Serving /\ q.pc = "answered" /\ q.served = new.served
        BY <1>4, <2>1, WithStatusShape
    <2>3. request' = [request EXCEPT ![r] = q]
        BY <1>7
    <2> HIDE DEF q
    <2> QED BY <1>2, <1>4, <1>5, <2>2, <2>3, RequestTypes
<1>8. ASSUME request' = [request EXCEPT ![r] = new], new.token # NoToken
      PROVE  TypeInv'
    <2>1. new.token \in Tokens
        BY <1>8 DEF new, NewRequest
    <2> QED BY <1>2, <1>4, <1>5, <1>8, <2>1, RequestTypes
<1> QED BY <1>1, <1>6, <1>7, <1>8 DEF authenticate_access_request, new

\* The handler of r ends with a status.
LEMMA AnsweredTypes ==
    ASSUME TypeInv, CacheInv', NEW r \in Callers, request[r].pc # "none",
           NEW status \in Statuses, Answered(r, status),
           now' = now, UNCHANGED <<settings, keys, users>>
    PROVE  TypeInv'
<1> DEFINE q == WithStatus(request[r], status)
<1>1. request[r] \in Serving /\ request[r].served <= MaxRequests[r]
    BY ServingRequest
<1>2. q \in Serving /\ q.served = request[r].served /\ q.pc = "answered"
    BY <1>1, WithStatusShape
<1>3. request' = [request EXCEPT ![r] = q]
    BY DEF Answered
<1> HIDE DEF q
<1> QED BY <1>1, <1>2, <1>3, RequestTypes

LEMMA VerifyTypes ==
    ASSUME TypeInv, CacheInv', NEW r \in Callers, Verify(r)
    PROVE  TypeInv'
<1>1. request[r].pc = "verify" /\ UNCHANGED <<now, settings, keys, users>>
    BY DEF Verify, Return
<1>2. CASE \E status \in {401, 500} : Answered(r, status)
    BY <1>1, <1>2, AnsweredTypes DEF Statuses
<1>3. CASE request[r].token.email # NoEmail /\ Identified(r, request[r].token.email)
    <2>1. request[r] \in Serving /\ request[r].served <= MaxRequests[r]
        BY <1>1, ServingRequest
    <2> DEFINE q == [request[r] EXCEPT !.pc = "resolve", !.email = request[r].token.email]
    <2>2. request[r].token.email \in Emails
        BY <1>1 DEF TypeInv, StagesPrepared, Emails
    <2>3. q \in Serving /\ q.served = request[r].served /\ q.pc = "resolve"
        BY <2>1, <2>2 DEF Serving
    <2>4. request' = [request EXCEPT ![r] = q]
        BY <1>3 DEF Identified
    <2> HIDE DEF q
    <2> QED BY <1>1, <2>1, <2>3, <2>4, RequestTypes
<1>4. CASE request' = [request EXCEPT ![r] = KeyRefused(request[r])]
    <2>1. request[r] \in Serving /\ request[r].served <= MaxRequests[r]
        BY <1>1, ServingRequest
    <2>2. /\ KeyRefused(request[r]) \in Serving
          /\ KeyRefused(request[r]).served = request[r].served
          /\ KeyRefused(request[r]).pc = "answered"
        BY <2>1, KeyRefusedShape
    <2> QED BY <1>1, <1>4, <2>1, <2>2, RequestTypes
<1> QED BY <1>2, <1>3, <1>4 DEF Verify

LEMMA ResolveTypes ==
    ASSUME TypeInv, CacheInv', NEW r \in Callers, Resolve(r)
    PROVE  TypeInv'
<1>1. request[r].pc = "resolve" /\ UNCHANGED <<now, settings, keys, users>>
    BY DEF Resolve, cacheVars
<1>2. CASE Answered(r, 403)
    BY <1>1, <1>2, AnsweredTypes DEF Statuses
<1>3. ASSUME NEW u \in UsersWith(request[r].email),
             request' = [request EXCEPT ![r].pc = "handle", ![r].user = u,
                                        ![r].connection = u]
      PROVE  TypeInv'
    <2>1. request[r] \in Serving /\ request[r].served <= MaxRequests[r]
        BY <1>1, ServingRequest
    <2>2. u \in UserIds /\ users[u] # Absent /\ users[u].email = request[r].email
        BY DEF UsersWith
    <2> DEFINE q == [request[r] EXCEPT !.pc = "handle", !.user = u, !.connection = u]
    <2>3. /\ q \in Serving /\ q.served = request[r].served /\ q.pc = "handle"
          /\ q.user = u /\ q.email = request[r].email
        BY <2>1, <2>2 DEF Serving
    <2>4. request' = [request EXCEPT ![r] = q]
        BY <1>3
    <2> HIDE DEF q
    <2> QED BY <1>1, <2>1, <2>2, <2>3, <2>4, RequestTypes
<1> QED BY <1>2, <1>3 DEF Resolve

\* The rows a user sees are the user's.
LEMMA AnswerTypes ==
    ASSUME TypeInv, CacheInv', NEW r \in Callers,
           request[r].pc \in {"handle", "summary"},
           request' = [request EXCEPT ![r] = Shown(request[r])],
           now' = now, UNCHANGED <<settings, keys, users>>
    PROVE  TypeInv'
<1>1. /\ request[r] \in Serving /\ request[r].served <= MaxRequests[r]
      /\ request[r].user \in UserIds
    BY ServingRequest
<1>2. /\ Shown(request[r]) \in Serving
      /\ Shown(request[r]).served = request[r].served
      /\ Shown(request[r]).pc = "answered"
    BY <1>1, ShownShape
<1> QED BY <1>1, <1>2, RequestTypes

LEMMA CommitReportTypes ==
    ASSUME TypeInv, CacheInv', NEW r \in Callers, CommitReport(r)
    PROVE  TypeInv'
<1>1. request[r].pc = "handle" /\ UNCHANGED <<now, settings, keys, users>>
    BY DEF CommitReport, cacheVars
<1>2. /\ request[r] \in Serving /\ request[r].served <= MaxRequests[r]
      /\ request[r].user \in UserIds /\ users[request[r].user] # Absent
      /\ users[request[r].user].email = request[r].email
    BY <1>1, ServingRequest
<1> DEFINE q == [request[r] EXCEPT !.pc = "summary", !.connection = Unset]
<1>3. /\ q \in Serving /\ q.served = request[r].served /\ q.pc = "summary"
      /\ q.user = request[r].user /\ q.email = request[r].email
    BY <1>2 DEF Serving
<1>4. request' = [request EXCEPT ![r] = q]
    BY DEF CommitReport
<1> HIDE DEF q
<1> QED BY <1>1, <1>2, <1>3, <1>4, RequestTypes

LEMMA CheckAccountTypes ==
    ASSUME TypeInv, CacheInv', NEW r \in Callers, CheckAccount(r)
    PROVE  TypeInv'
<1>1. request[r].pc = "handle" /\ UNCHANGED <<now, settings, keys, users>>
    BY DEF CheckAccount, cacheVars
<1>2. CASE \E status \in {400, 403, 500} : Answered(r, status)
    BY <1>1, <1>2, AnsweredTypes DEF Statuses
<1>3. CASE request' = [request EXCEPT ![r].pc = "insert"]
    <2>1. /\ request[r] \in Serving /\ request[r].served <= MaxRequests[r]
          /\ request[r].user \in UserIds /\ users[request[r].user] # Absent
          /\ users[request[r].user].email = request[r].email
        BY <1>1, ServingRequest
    <2> DEFINE q == [request[r] EXCEPT !.pc = "insert"]
    <2>2. /\ q \in Serving /\ q.served = request[r].served /\ q.pc = "insert"
          /\ q.user = request[r].user /\ q.email = request[r].email
        BY <2>1 DEF Serving
    <2>3. request' = [request EXCEPT ![r] = q]
        BY <1>3
    <2> HIDE DEF q
    <2> QED BY <1>1, <2>1, <2>2, <2>3, RequestTypes
<1> QED BY <1>2, <1>3 DEF CheckAccount

LEMMA InsertUserTypes ==
    ASSUME TypeInv, CacheInv', NEW r \in Callers, InsertUser(r)
    PROVE  TypeInv'
<1>1. request[r].pc = "insert" /\ UNCHANGED <<now, settings, keys>>
    BY DEF InsertUser, cacheVars
<1>2. CASE Answered(r, 500) /\ UNCHANGED users
    BY <1>1, <1>2, AnsweredTypes DEF Statuses
<1>3. ASSUME NEW u \in UserIds, users[u] = Absent, Answered(r, 200),
             users' = [users EXCEPT ![u] = NewUser(request[r].account)]
      PROVE  TypeInv'
    <2>1. request[r] \in Serving /\ request[r].served <= MaxRequests[r]
        BY <1>1, ServingRequest
    <2> DEFINE q == WithStatus(request[r], 200)
    <2> 200 \in Statuses
        BY DEF Statuses
    <2>2. q \in Serving /\ q.served = request[r].served /\ q.pc = "answered"
        BY <2>1, WithStatusShape
    <2>3. /\ request' = [request EXCEPT ![r] = q]
          /\ request \in [Callers -> [pc : {"none"}, served : Nat] \union Serving]
        BY <1>3 DEF Answered, TypeInv, GateTypes
    <2> HIDE DEF q
    <2>4. users = [v \in UserIds |-> users[v]]
        BY DEF TypeInv, GateTypes
    <2>5. /\ users' = [v \in UserIds |-> users'[v]]
          /\ users'[u].admin \in BOOLEAN
          /\ \A v \in UserIds \ {u} : users'[v] = users[v]
        BY <1>3, <2>4 DEF NewUser
    <2>6. \A v \in UserIds : users'[v] # Absent => users'[v].admin \in BOOLEAN
        BY <2>5 DEF TypeInv, GateTypes
    <2>7. GateTypes'
        BY <1>1, <2>1, <2>2, <2>3, <2>5, <2>6 DEF TypeInv, GateTypes
    <2>8. StagesPrepared'
        BY <1>3, <2>2, <2>3, <2>5 DEF TypeInv, StagesPrepared
    <2> QED BY <2>7, <2>8 DEF TypeInv
<1> QED BY <1>2, <1>3 DEF InsertUser

LEMMA FinishTypes ==
    ASSUME TypeInv, CacheInv', NEW r \in Callers, Finish(r)
    PROVE  TypeInv'
<1> DEFINE q == [pc |-> "none", served |-> request[r].served]
<1>0. [Waiting EXCEPT !.served = request[r].served] = q
    BY DEF Waiting
<1>1. /\ request' = [request EXCEPT ![r] = q]
      /\ UNCHANGED <<now, settings, keys, users>>
    BY <1>0 DEF Finish, cacheVars
<1>2. q.served \in Nat /\ q.served <= MaxRequests[r]
    <2>1. request[r].pc # "none"
        BY DEF Finish
    <2> QED BY <2>1, ServingRequest DEF Serving
<1>3. q \in [pc : {"none"}, served : Nat] /\ q.pc = "none"
    BY <1>2
<1> HIDE DEF q
<1>4. request \in [Callers -> [pc : {"none"}, served : Nat] \union Serving]
    BY DEF TypeInv, GateTypes
<1>5. GateTypes'
    BY <1>1, <1>2, <1>3, <1>4 DEF TypeInv, GateTypes
<1>6. StagesPrepared'
    BY <1>1, <1>3, <1>4 DEF TypeInv, StagesPrepared
<1> QED BY <1>5, <1>6 DEF TypeInv

LEMMA KeysTypes ==
    ASSUME TypeInv, CacheInv', NEW k \in Keys, PublishKey(k) \/ RetireKey(k)
    PROVE  TypeInv'
<1>1. UNCHANGED <<now, settings, users, request>>
    BY DEF PublishKey, RetireKey, cacheVars
<1>2. now \in Nat /\ keys \in [Keys -> KeyStates]
    BY DEF TypeInv, GateTypes
<1>3. keys' \in [Keys -> KeyStates]
    BY <1>2 DEF PublishKey, RetireKey, KeyStates
<1> QED BY <1>1, <1>3 DEF TypeInv, GateTypes, StagesPrepared

LEMMA TypeInvStep == TypeInv /\ [Next]_vars => TypeInv'
<1> SUFFICES ASSUME TypeInv, [Next]_vars PROVE TypeInv'
    OBVIOUS
<1>0. CacheInv'
    BY GateStepsCache, CacheInvStep DEF TypeInv, vars, cacheVars
<1>1. CASE UNCHANGED vars
    BY <1>0, <1>1 DEF vars, TypeInv, GateTypes, StagesPrepared
<1>2. CASE TimePasses
    <2>1. now' = now + 1 /\ now < MaxTime /\ UNCHANGED gateVars
        BY <1>2 DEF TimePasses, Tick
    <2> QED BY <1>0, <2>1, RequestsAssumption DEF gateVars, TypeInv, GateTypes, StagesPrepared
<1>3. ASSUME NEW k \in Keys, PublishKey(k) \/ RetireKey(k) PROVE TypeInv'
    BY <1>0, <1>3, KeysTypes
<1>4. ASSUME NEW r \in Callers, JwksTraffic(r) PROVE TypeInv'
    BY <1>0, <1>4 DEF JwksTraffic, ServiceReads, CallFails, Store, gateVars,
       TypeInv, GateTypes, StagesPrepared
<1>5. ASSUME NEW r \in Callers, Read(r) PROVE TypeInv'
    BY <1>0, <1>5, AnswerTypes DEF Read, cacheVars
<1>6. ASSUME NEW r \in Callers, Summarise(r) PROVE TypeInv'
    BY <1>0, <1>6, AnswerTypes DEF Summarise, cacheVars
<1> QED BY <1>0, <1>1, <1>2, <1>3, <1>4, <1>5, <1>6, ArriveTypes, VerifyTypes,
           ResolveTypes, CommitReportTypes, CheckAccountTypes, InsertUserTypes,
           FinishTypes DEF Next

\* The type invariant of AccessGate, for all its constants.
THEOREM GateTypeCorrect == Spec => []TypeOK
<1>1. TypeInv => TypeOK
    <2> SUFFICES ASSUME TypeInv PROVE TypeOK
        OBVIOUS
    <2>1. \A k \in Keys : keys[k].state \in {"new", "published", "retired"}
        BY DEF TypeInv, GateTypes, KeyStates
    <2>2. \A u \in UserIds : users[u] = Absent \/ users[u].admin \in BOOLEAN
        BY DEF TypeInv, GateTypes
    <2>3. ASSUME NEW r \in Callers
          PROVE  /\ request[r].served \in 0..MaxRequests[r]
                 /\ request[r].pc \in {"none", "verify", "resolve",
                                       "handle", "summary", "insert", "answered"}
                 /\ request[r].pc # "none" =>
                        /\ request[r].status \in Statuses
                        /\ request[r].rows \subseteq UserIds
        <3>1. /\ request[r] \in [pc : {"none"}, served : Nat] \union Serving
              /\ request[r].served <= MaxRequests[r]
            BY DEF TypeInv, GateTypes
        <3> QED BY <3>1, RequestsAssumption DEF Serving
    <2> QED BY <2>1, <2>2, <2>3 DEF TypeInv, CacheInv, CacheTypeOK, GateTypes, TypeOK
<1> QED BY <1>1, TypeInvInit, TypeInvStep, PTL DEF Spec

-----------------------------------------------------------------------------
(* The keys.                                                               *)

\* What a set of keys read at time t says of the keys of the team now.
KeysReadAt(jwks, t) ==
    \A k \in Keys :
        IF k \in jwks
        THEN /\ keys[k].state # "new"
             /\ keys[k].state = "retired" => keys[k].until >= t
        ELSE keys[k].state = "published" => keys[k].from >= t

KeysKnown ==
    /\ entry.full => KeysReadAt(entry.value, entry.read)
    /\ \A c \in Callers :
        call[c].pc \in {"received", "answered"} =>
            KeysReadAt(call[c].value, call[c].read)

SettingsValid == settings.production => settings.DEV_AUTH_EMAIL = NoEmail

\* A request that waits for the keys has asked for them when its call began, and
\* is identified by nothing else; only a refused token is noted as such.
KeysAwaited(r) ==
    /\ request[r].pc # "none" => request[r].asked <= now
    /\ request[r].pc \notin {"none", "answered"} => ~request[r].fetched
    /\ request[r].pc # "none" /\ request[r].fetched => request[r].token \in Tokens
    /\ request[r].pc = "verify" =>
        /\ request[r].email = NoEmail
        /\ call[r].pc # "idle" /\ call[r].start = request[r].asked

\* WithdrawnKeysExpire and RefusedKeysAreNew of one request.
AcceptedKey(r) ==
    (/\ settings.production
     /\ request[r].pc # "none" /\ request[r].email # NoEmail) =>
        LET token == request[r].token
        IN  /\ token # NoToken /\ token.audience
            /\ keys[token.key].state = "retired" =>
                keys[token.key].until > request[r].asked - Seconds
RefusedKey(r) ==
    (/\ request[r].pc = "answered" /\ request[r].status = 401
     /\ request[r].fetched) =>
        LET token == request[r].token
        IN  (/\ token.audience /\ token.expires >= now
             /\ token.email # NoEmail
             /\ keys[token.key].state = "published") =>
                keys[token.key].from > request[r].asked - Seconds

KeyInv ==
    /\ TypeInv /\ KeysKnown /\ SettingsValid
    /\ \A r \in Callers : KeysAwaited(r) /\ AcceptedKey(r) /\ RefusedKey(r)

LEMMA KeyInvInit == Init => KeyInv
<1> SUFFICES ASSUME Init PROVE KeyInv
    OBVIOUS
<1>1. KeysKnown
    BY DEF Init, CacheInit, Empty, Idle, KeysKnown
<1>2. SettingsValid
    BY DEF Init, validate_auth_settings, SettingsValid
<1>3. \A r \in Callers : request[r].pc = "none"
    BY DEF Init, Waiting
<1> QED BY <1>1, <1>2, <1>3, TypeInvInit DEF KeyInv, KeysAwaited, AcceptedKey, RefusedKey

\* The steps of the cache alone.
LEMMA KeysKnownCache ==
    ASSUME TypeInv, KeysKnown, UNCHANGED keys, NEW r \in Callers,
           Lookup(r) \/ ServiceReads(r, Published) \/ CallFails(r) \/ Store(r) \/ Return(r)
    PROVE  KeysKnown'
<1>0. /\ call = [c \in Callers |-> call[c]] /\ now \in Nat
      /\ keys \in [Keys -> KeyStates]
    BY DEF TypeInv, CacheInv, CacheTypeOK, GateTypes
<1>1. CASE Lookup(r) /\ Usable(entry, now)
    BY <1>0, <1>1 DEF Lookup, Usable, KeysKnown, KeysReadAt
<1>2. CASE Lookup(r) /\ ~Usable(entry, now)
    BY <1>0, <1>2 DEF Lookup, KeysKnown, KeysReadAt
<1>3. CASE ServiceReads(r, Published)
    <2>1. KeysReadAt(Published, now)
        BY <1>0 DEF KeysReadAt, Published, KeyStates
    <2> QED BY <1>0, <1>3, <2>1 DEF ServiceReads, KeysKnown, KeysReadAt
<1>4. CASE CallFails(r)
    BY <1>0, <1>4 DEF CallFails, KeysKnown, KeysReadAt
<1>5. CASE Store(r)
    BY <1>0, <1>5 DEF Store, Stamped, KeysKnown, KeysReadAt
<1>6. CASE Return(r)
    BY <1>0, <1>6 DEF Return, Idle, KeysKnown, KeysReadAt
<1> QED BY <1>1, <1>2, <1>3, <1>4, <1>5, <1>6

\* A key is published, or retired, at a time no earlier than any read.
LEMMA KeysKnownTeam ==
    ASSUME TypeInv, KeysKnown, NEW k \in Keys, PublishKey(k) \/ RetireKey(k)
    PROVE  KeysKnown'
<1>0. /\ now \in Nat /\ keys \in [Keys -> KeyStates]
      /\ UNCHANGED <<now, entry, call>>
    BY DEF TypeInv, GateTypes, PublishKey, RetireKey, cacheVars
<1>1. \A jwks, t : t \in Nat /\ t <= now /\ KeysReadAt(jwks, t) => KeysReadAt(jwks, t)'
    BY <1>0 DEF KeysReadAt, PublishKey, RetireKey, KeyStates
<1>2. /\ entry.full => entry.read \in Nat /\ entry.read <= now
      /\ \A c \in Callers : call[c].pc \in {"received", "answered"} =>
            call[c].read \in Nat /\ call[c].read <= now
    BY CacheFields DEF TypeInv, CacheInv, CallsInOrder, EntryOlderThanItsValue
<1>3. entry.full => KeysReadAt(entry.value, entry.read)'
    BY <1>0, <1>1, <1>2 DEF KeysKnown, KeysReadAt
<1>4. ASSUME NEW c \in Callers, call[c].pc \in {"received", "answered"}
      PROVE  KeysReadAt(call[c].value, call[c].read)'
    <2>1. KeysReadAt(call[c].value, call[c].read)
        BY <1>4 DEF KeysKnown
    <2> QED BY <1>0, <1>1, <1>2, <1>4, <2>1 DEF KeysReadAt
<1> QED BY <1>0, <1>3, <1>4 DEF KeysKnown

Bounded(r) == KeysAwaited(r) /\ AcceptedKey(r) /\ RefusedKey(r)

LEMMA BoundedStays ==
    ASSUME NEW q \in Callers, Bounded(q), request'[q] = request[q],
           call'[q] = call[q], UNCHANGED <<now, settings, keys>>
    PROVE  Bounded(q)'
BY DEF Bounded, KeysAwaited, AcceptedKey, RefusedKey

LEMMA ArriveBounded ==
    ASSUME KeyInv, NEW r \in Callers, Arrive(r)
    PROVE  Bounded(r)'
<1>1. PICK a \in Arrivals[r] : authenticate_access_request(r, NewRequest(r, a))
    BY DEF Arrive
<1>2. /\ UNCHANGED <<now, settings, keys>> /\ now \in Nat
      /\ request = [q \in Callers |-> request[q]]
      /\ call = [q \in Callers |-> call[q]]
    <2>1. UNCHANGED <<now, settings, keys>>
        BY <1>1 DEF authenticate_access_request, Arrive, Lookup, cacheVars
    <2> QED BY <2>1 DEF KeyInv, TypeInv, CacheInv, CacheTypeOK, GateTypes
<1>3. CASE /\ settings.DEV_AUTH_EMAIL # NoEmail
           /\ request' = [request EXCEPT ![r] = [NewRequest(r, a)
                            EXCEPT !.pc = "resolve", !.email = settings.DEV_AUTH_EMAIL]]
    <2>1. /\ request'[r].pc = "resolve" /\ ~request'[r].fetched
          /\ request'[r].asked = now
        BY <1>2, <1>3 DEF NewRequest
    <2>2. ~settings'.production
        BY <1>2, <1>3 DEF KeyInv, SettingsValid
    <2> QED BY <1>2, <2>1, <2>2 DEF Bounded, KeysAwaited, AcceptedKey, RefusedKey
<1>4. CASE request' = [request EXCEPT ![r] = WithStatus(NewRequest(r, a), 401)]
    <2>1. /\ request'[r].pc = "answered" /\ ~request'[r].fetched
          /\ request'[r].asked = now /\ request'[r].email = NoEmail
        BY <1>2, <1>4 DEF NewRequest, WithStatus
    <2> QED BY <1>2, <2>1 DEF Bounded, KeysAwaited, AcceptedKey, RefusedKey
<1>5. CASE request' = [request EXCEPT ![r] = NewRequest(r, a)] /\ Lookup(r)
    <2>1. /\ request'[r].pc = "verify" /\ ~request'[r].fetched
          /\ request'[r].asked = now /\ request'[r].email = NoEmail
        BY <1>2, <1>5 DEF NewRequest
    <2>2. call'[r].pc \in {"answered", "waiting"} /\ call'[r].start = now
        BY <1>2, <1>5 DEF Lookup
    <2> QED BY <1>2, <2>1, <2>2 DEF Bounded, KeysAwaited, AcceptedKey, RefusedKey
<1> QED BY <1>1, <1>3, <1>4, <1>5 DEF authenticate_access_request

LEMMA VerifyBounded ==
    ASSUME KeyInv, NEW r \in Callers, Verify(r)
    PROVE  Bounded(r)'
<1> USE TokensAssumption
<1> DEFINE token == request[r].token
<1>1. /\ request[r].pc = "verify" /\ UNCHANGED <<now, settings, keys>>
      /\ request = [q \in Callers |-> request[q]]
    BY DEF Verify, Return, KeyInv, TypeInv, GateTypes
<1>2. /\ request[r] \in Serving /\ token \in Tokens /\ token # NoToken
      /\ token.key \in Keys
    BY <1>1, ServingRequest DEF KeyInv
<1>3. /\ request[r].asked \in Nat /\ request[r].asked <= now /\ now \in Nat
      /\ ~request[r].fetched /\ request[r].email = NoEmail
      /\ call[r].pc # "idle" /\ call[r].start = request[r].asked
    BY <1>1, <1>2 DEF KeyInv, KeysAwaited, TypeInv, GateTypes, Serving
<1>4. keys[token.key] \in KeyStates
    BY <1>2 DEF KeyInv, TypeInv, GateTypes
<1>5. ASSUME call[r].pc = "answered"
      PROVE  /\ call[r].read \in Nat /\ call[r].read > request[r].asked - Seconds
             /\ KeysReadAt(call[r].value, call[r].read)
    BY <1>3, <1>5, CacheFields DEF KeyInv, KeysKnown, TypeInv, CacheInv, AnswersFresh
<1>6. CASE \E status \in {401, 500} : Answered(r, status)
    <2>1. /\ request'[r].pc = "answered" /\ ~request'[r].fetched
          /\ request'[r].asked = request[r].asked /\ request'[r].email = NoEmail
        BY <1>1, <1>2, <1>3, <1>6, AnsweredStep DEF Statuses
    <2> QED BY <1>1, <1>3, <2>1 DEF Bounded, KeysAwaited, AcceptedKey, RefusedKey
<1>7. CASE /\ call[r].pc = "answered" /\ Decodes(token, call[r].value)
           /\ Identified(r, token.email)
    <2>1. /\ request'[r].pc = "resolve" /\ ~request'[r].fetched
          /\ request'[r].asked = request[r].asked /\ request'[r].token = token
        BY <1>1, <1>2, <1>3, <1>7 DEF Identified, Serving
    <2>2. token.audience /\ token.key \in call[r].value
        BY <1>7 DEF Decodes
    <2>3. keys[token.key].state = "retired" =>
            keys[token.key].until > request[r].asked - Seconds
        BY <1>2, <1>3, <1>4, <1>5, <1>7, <2>2, SecondsAssumption DEF KeysReadAt, KeyStates
    <2>4. AcceptedKey(r)'
        BY <1>1, <1>2, <2>1, <2>2, <2>3 DEF AcceptedKey
    <2> QED BY <1>1, <1>3, <2>1, <2>4 DEF Bounded, KeysAwaited, RefusedKey
<1>8. CASE /\ call[r].pc = "answered"
           /\ ~(Decodes(token, call[r].value) /\ token.email # NoEmail)
           /\ request' = [request EXCEPT ![r] = KeyRefused(request[r])]
    <2>1. /\ request'[r].pc = "answered" /\ request'[r].email = NoEmail
          /\ request'[r].asked = request[r].asked /\ request'[r].token = token
        BY <1>1, <1>2, <1>3, <1>8, KeyRefusedShape
    <2>2. (/\ token.audience /\ token.expires >= now /\ token.email # NoEmail
           /\ keys[token.key].state = "published") =>
                keys[token.key].from > request[r].asked - Seconds
        BY <1>2, <1>3, <1>4, <1>5, <1>8, SecondsAssumption DEF Decodes, KeysReadAt, KeyStates
    <2>3. RefusedKey(r)'
        BY <1>1, <2>1, <2>2 DEF RefusedKey
    <2> QED BY <1>1, <1>2, <1>3, <2>1, <2>3 DEF Bounded, KeysAwaited, AcceptedKey
<1> QED BY <1>6, <1>7, <1>8 DEF Verify

\* What happens after the identification changes nothing the keys are about.
LEMMA HandlerBounded ==
    ASSUME KeyInv, NEW r \in Callers,
           \/ Resolve(r) \/ Read(r) \/ CommitReport(r) \/ Summarise(r)
           \/ CheckAccount(r) \/ InsertUser(r)
    PROVE  Bounded(r)'
<1>1. /\ request[r].pc \notin {"none", "verify", "answered"}
      /\ UNCHANGED <<now, settings, keys, call>>
    BY DEF Resolve, Read, CommitReport, Summarise, CheckAccount, InsertUser, cacheVars
<1>2. request[r] \in Serving /\ request = [q \in Callers |-> request[q]]
    BY <1>1, ServingRequest DEF KeyInv, TypeInv, GateTypes
<1>3. /\ request'[r].pc \notin {"none", "verify"}
      /\ request'[r].fetched = request[r].fetched
      /\ request'[r].email = request[r].email
      /\ request'[r].asked = request[r].asked
      /\ request'[r].token = request[r].token
    <2>1. CASE Resolve(r)
        <3>1. CASE Answered(r, 403)
            BY <1>2, <3>1, AnsweredStep DEF Statuses
        <3>2. ASSUME NEW u \in UsersWith(request[r].email),
                     request' = [request EXCEPT ![r].pc = "handle", ![r].user = u,
                                                ![r].connection = u]
              PROVE  /\ request'[r].pc = "handle"
                     /\ request'[r].fetched = request[r].fetched
                     /\ request'[r].email = request[r].email
                     /\ request'[r].asked = request[r].asked
                     /\ request'[r].token = request[r].token
            <4> DEFINE bound == [request[r] EXCEPT !.pc = "handle", !.user = u,
                                                   !.connection = u]
            <4>1. request'[r] = bound
                BY <1>2, <3>2
            <4>2. /\ bound.pc = "handle"
                  /\ bound.fetched = request[r].fetched
                  /\ bound.email = request[r].email
                  /\ bound.asked = request[r].asked
                  /\ bound.token = request[r].token
                BY <1>2 DEF Serving
            <4> HIDE DEF bound
            <4> QED BY <4>1, <4>2
        <3> QED BY <2>1, <3>1, <3>2 DEF Resolve
    <2>2. CASE Read(r) \/ Summarise(r)
        <3>1. request[r].user \in UserIds
            BY <2>2, ServingRequest DEF Read, Summarise, KeyInv
        <3>2. request'[r] = Shown(request[r])
            BY <1>2, <2>2 DEF Read, Summarise
        <3> QED BY <1>2, <3>1, <3>2, ShownShape
    <2>3. CASE CommitReport(r)
        BY <1>2, <2>3 DEF CommitReport, Serving
    <2>4. CASE \E status \in {200, 400, 403, 500} : Answered(r, status)
        BY <1>2, <2>4, AnsweredStep DEF Statuses
    <2>5. CASE request' = [request EXCEPT ![r].pc = "insert"]
        BY <1>2, <2>5 DEF Serving
    <2>6. CASE CheckAccount(r) \/ InsertUser(r)
        BY <2>4, <2>5, <2>6 DEF CheckAccount, InsertUser
    <2> QED BY <2>1, <2>2, <2>3, <2>6
<1>4. KeysAwaited(r) /\ AcceptedKey(r)
    BY DEF KeyInv
<1> QED BY <1>1, <1>3, <1>4 DEF Bounded, KeysAwaited, AcceptedKey, RefusedKey

LEMMA CacheBounded ==
    ASSUME KeyInv, NEW r \in Callers, NEW q \in Callers, JwksTraffic(r)
    PROVE  Bounded(q)'
<1>1. /\ UNCHANGED <<now, settings, keys, request>>
      /\ call = [c \in Callers |-> call[c]]
    BY DEF JwksTraffic, ServiceReads, CallFails, Store, gateVars,
       KeyInv, TypeInv, CacheInv, CacheTypeOK
<1>2. call[q].pc # "idle" => call'[q].pc # "idle" /\ call'[q].start = call[q].start
    <2>1. CASE q # r
        BY <1>1, <2>1 DEF JwksTraffic, ServiceReads, CallFails, Store
    <2>2. CASE q = r /\ (ServiceReads(r, Published) \/ CallFails(r))
        BY <1>1, <2>2 DEF ServiceReads, CallFails
    <2>3. CASE q = r /\ Store(r)
        <3>1. call[r] \in [pc : {"received", "answered"}, start : Nat,
                           value : Values, read : Nat]
            BY <2>3 DEF KeyInv, TypeInv, CacheInv, CacheTypeOK, Calls, Idle, Store
        <3> QED BY <1>1, <2>3, <3>1 DEF Store
    <2> QED BY <2>1, <2>2, <2>3 DEF JwksTraffic
<1> QED BY <1>1, <1>2 DEF KeyInv, Bounded, KeysAwaited, AcceptedKey, RefusedKey

\* A key retired, or published, at this moment is within the bounds of every
\* request that has asked.
LEMMA TeamBounded ==
    ASSUME KeyInv, NEW k \in Keys, NEW q \in Callers, PublishKey(k) \/ RetireKey(k)
    PROVE  Bounded(q)'
<1> USE TokensAssumption
<1>1. UNCHANGED <<now, entry, call, settings, request>>
    BY DEF PublishKey, RetireKey, cacheVars
<1>2. KeysAwaited(q)'
    BY <1>1 DEF KeyInv, KeysAwaited
<1>3. ASSUME request[q].pc # "none"
      PROVE  /\ request[q].asked \in Nat /\ now \in Nat /\ request[q].asked <= now
             /\ now > request[q].asked - Seconds
    BY <1>3, ServingRequest, SecondsAssumption
       DEF KeyInv, KeysAwaited, Serving, TypeInv, GateTypes
<1>4. \A j \in Keys :
        \/ keys'[j] = keys[j]
        \/ keys'[j].state = "published" /\ keys'[j].from = now
        \/ keys'[j].state = "retired" /\ keys'[j].until = now
    BY DEF PublishKey, RetireKey, KeyInv, TypeInv, GateTypes, KeyStates
<1>5. ASSUME request[q].pc # "none", request[q].token # NoToken
      PROVE  request[q].token.key \in Keys
    BY <1>5, ServingRequest DEF KeyInv, Serving
<1>6. AcceptedKey(q)'
    BY <1>1, <1>3, <1>4, <1>5 DEF KeyInv, AcceptedKey
<1>7. RefusedKey(q)'
    BY <1>1, <1>3, <1>4 DEF KeyInv, KeysAwaited, RefusedKey
<1> QED BY <1>2, <1>6, <1>7 DEF Bounded

LEMMA KeyInvStep == KeyInv /\ [Next]_vars => KeyInv'
<1> SUFFICES ASSUME KeyInv, [Next]_vars PROVE KeyInv'
    OBVIOUS
<1>0. TypeInv' /\ \A q \in Callers : Bounded(q)
    BY TypeInvStep DEF KeyInv, Bounded
<1> SUFFICES KeysKnown' /\ SettingsValid' /\ \A q \in Callers : Bounded(q)'
    BY <1>0 DEF KeyInv, Bounded
<1>1. CASE UNCHANGED vars
    BY <1>0, <1>1 DEF vars, KeyInv, KeysKnown, KeysReadAt, SettingsValid,
       Bounded, KeysAwaited, AcceptedKey, RefusedKey
<1>2. CASE TimePasses
    <2>1. /\ now \in Nat /\ now' = now + 1 /\ UNCHANGED <<entry, call>>
          /\ UNCHANGED gateVars
          /\ \A q \in Callers : request[q].pc \in {"none", "verify"}
        BY <1>2 DEF TimePasses, Tick, KeyInv, TypeInv, GateTypes
    <2>2. ASSUME NEW q \in Callers PROVE request[q].pc # "none" => request[q].asked \in Nat
        BY ServingRequest DEF KeyInv, Serving
    <2> QED BY <1>0, <2>1, <2>2 DEF gateVars, KeyInv, KeysKnown, KeysReadAt,
            SettingsValid, Bounded, KeysAwaited, AcceptedKey, RefusedKey
<1>3. ASSUME NEW k \in Keys, PublishKey(k) \/ RetireKey(k)
      PROVE  KeysKnown' /\ SettingsValid' /\ \A q \in Callers : Bounded(q)'
    BY <1>3, KeysKnownTeam, TeamBounded
       DEF PublishKey, RetireKey, KeyInv, SettingsValid
<1>4. ASSUME NEW r \in Callers, JwksTraffic(r)
      PROVE  KeysKnown' /\ SettingsValid' /\ \A q \in Callers : Bounded(q)'
    <2>1. KeysKnown'
        <3>1. TypeInv /\ KeysKnown /\ UNCHANGED keys
            BY <1>4 DEF JwksTraffic, gateVars, KeyInv
        <3>2. ServiceReads(r, Published) \/ CallFails(r) \/ Store(r)
            BY <1>4 DEF JwksTraffic
        <3> QED BY <3>1, <3>2, KeysKnownCache
    <2> QED BY <1>4, <2>1, CacheBounded DEF JwksTraffic, gateVars, KeyInv, SettingsValid
<1>5. ASSUME NEW r \in Callers, Arrive(r) \/ Verify(r)
      PROVE  KeysKnown' /\ SettingsValid' /\ \A q \in Callers : Bounded(q)'
    <2>0. UNCHANGED <<now, settings, keys>>
        BY <1>5 DEF Arrive, authenticate_access_request, Verify, Lookup, Return, cacheVars
    <2>1. /\ UNCHANGED <<now, settings, keys>>
          /\ request = [q \in Callers |-> request[q]]
          /\ call = [q \in Callers |-> call[q]]
        BY <2>0 DEF KeyInv, TypeInv, CacheInv, CacheTypeOK, GateTypes
    <2>2. KeysKnown'
        <3>1. CASE Lookup(r) \/ Return(r)
            <4>1. TypeInv /\ KeysKnown
                BY DEF KeyInv
            <4> QED BY <2>1, <3>1, <4>1, KeysKnownCache
        <3>2. CASE UNCHANGED cacheVars
            BY <2>1, <3>2 DEF cacheVars, KeyInv, KeysKnown, KeysReadAt
        <3> QED BY <1>5, <3>1, <3>2 DEF Arrive, authenticate_access_request, Verify
    <2>3. Bounded(r)'
        BY <1>5, ArriveBounded, VerifyBounded
    <2>4. \A q \in Callers \ {r} : request'[q] = request[q] /\ call'[q] = call[q]
        <3>1. \A q \in Callers \ {r} : call'[q] = call[q]
            <4>1. Lookup(r) \/ Return(r) \/ UNCHANGED call
                BY <1>5 DEF Arrive, authenticate_access_request, Verify, cacheVars
            <4> QED BY <2>1, <4>1 DEF Lookup, Return
        <3>2. \A q \in Callers \ {r} : request'[q] = request[q]
            BY <1>5, <2>1, OthersUnchanged
        <3> QED BY <3>1, <3>2
    <2> QED BY <1>0, <2>1, <2>2, <2>3, <2>4, BoundedStays DEF KeyInv, SettingsValid
<1>6. ASSUME NEW r \in Callers,
             \/ Resolve(r) \/ Read(r) \/ CommitReport(r) \/ Summarise(r)
             \/ CheckAccount(r) \/ InsertUser(r) \/ Finish(r)
      PROVE  KeysKnown' /\ SettingsValid' /\ \A q \in Callers : Bounded(q)'
    <2>1. /\ UNCHANGED <<now, entry, call, settings, keys>>
          /\ request = [q \in Callers |-> request[q]]
        BY <1>6 DEF Resolve, Read, CommitReport, Summarise, CheckAccount,
           InsertUser, Finish, cacheVars, KeyInv, TypeInv, GateTypes
    <2>2. Bounded(r)'
        <3>1. CASE Finish(r)
            <4>1. request'[r].pc = "none"
                BY <2>1, <3>1 DEF Finish, Waiting
            <4> QED BY <4>1 DEF Bounded, KeysAwaited, AcceptedKey, RefusedKey
        <3> QED BY <1>6, <3>1, HandlerBounded
    <2>3. \A q \in Callers \ {r} : request'[q] = request[q]
        BY <1>6, <2>1, OthersUnchanged
    <2> QED BY <1>0, <2>1, <2>2, <2>3, BoundedStays
            DEF KeyInv, KeysKnown, KeysReadAt, SettingsValid
<1> QED BY <1>1, <1>2, <1>3, <1>4, <1>5, <1>6 DEF Next

\* The life of a withdrawn key is prolonged by less than Seconds, for every
\* number of keys and overlapping requests.
THEOREM WithdrawnExpire == Spec => []WithdrawnKeysExpire
<1>1. KeyInv => WithdrawnKeysExpire
    BY DEF KeyInv, AcceptedKey, WithdrawnKeysExpire
<1> QED BY <1>1, KeyInvInit, KeyInvStep, PTL DEF Spec

\* A good token is refused for its key only while the key is younger than Seconds.
THEOREM RefusedAreNew == Spec => []RefusedKeysAreNew
<1>1. KeyInv => RefusedKeysAreNew
    BY DEF KeyInv, RefusedKey, RefusedKeysAreNew
<1> QED BY <1>1, KeyInvInit, KeyInvStep, PTL DEF Spec

-----------------------------------------------------------------------------
(* The rows.                                                               *)

EmailsUnique ==
    \A u, v \in UserIds :
        (users[u] # Absent /\ users[v] # Absent /\ users[u].email = users[v].email)
            => u = v

\* A handler reads on a connection of its user, and what a reading request has
\* answered are the rows of a user registered with its address.
OwnRequest(r) ==
    /\ request[r].pc = "handle" => request[r].connection = request[r].user
    /\ request[r].pc = "summary" => request[r].kind = "notify"
    /\ request[r].pc = "insert" => request[r].kind = "create"
    /\ (/\ request[r].pc = "answered" /\ request[r].status = 200
        /\ request[r].kind \in {"read", "tool"}) =>
            /\ request[r].user \in UserIds
            /\ users[request[r].user] # Absent
            /\ users[request[r].user].email = request[r].email
            /\ request[r].rows = {request[r].user}

OwnInv == TypeInv /\ EmailsUnique /\ \A r \in Callers : OwnRequest(r)

LEMMA OwnInvInit == Init => OwnInv
BY TypeInvInit, UsersAssumption DEF Init, Waiting, OwnInv, EmailsUnique, OwnRequest

LEMMA OwnStays ==
    ASSUME NEW q \in Callers, OwnRequest(q), request'[q] = request[q],
           \A u \in UserIds : users[u] # Absent => users'[u] = users[u]
    PROVE  OwnRequest(q)'
BY DEF OwnRequest

LEMMA ArriveOwn ==
    ASSUME OwnInv, NEW r \in Callers, Arrive(r)
    PROVE  OwnRequest(r)'
<1>1. PICK a \in Arrivals[r] : authenticate_access_request(r, NewRequest(r, a))
    BY DEF Arrive
<1> DEFINE new == NewRequest(r, a)
<1>2. request = [q \in Callers |-> request[q]]
    BY DEF OwnInv, TypeInv, GateTypes
<1>3. \/ request'[r].pc \in {"resolve", "verify"}
      \/ request'[r].pc = "answered" /\ request'[r].status = 401
    <2> DEFINE resolved == [new EXCEPT !.pc = "resolve", !.email = settings.DEV_AUTH_EMAIL]
               refused == WithStatus(new, 401)
    <2>1. "pc" \in DOMAIN new /\ "status" \in DOMAIN new /\ new.pc = "verify"
        BY DEF NewRequest
    <2> HIDE DEF new
    <2>2. resolved.pc = "resolve" /\ refused.pc = "answered" /\ refused.status = 401
        BY <2>1 DEF WithStatus
    <2>3. request'[r] = resolved \/ request'[r] = refused \/ request'[r] = new
        BY <1>1, <1>2 DEF new, authenticate_access_request
    <2> HIDE DEF resolved, refused
    <2> QED BY <2>1, <2>2, <2>3
<1> QED BY <1>3 DEF OwnRequest

LEMMA VerifyOwn ==
    ASSUME OwnInv, NEW r \in Callers, Verify(r)
    PROVE  OwnRequest(r)'
<1>1. /\ request[r] \in Serving /\ request = [q \in Callers |-> request[q]]
    BY ServingRequest DEF Verify, OwnInv, TypeInv, GateTypes
<1>2. CASE \E status \in {401, 500} : Answered(r, status)
    <2>1. request'[r].pc = "answered" /\ request'[r].status # 200
        BY <1>1, <1>2, AnsweredStep DEF Statuses
    <2> QED BY <2>1 DEF OwnRequest
<1>3. CASE Identified(r, request[r].token.email)
    BY <1>1, <1>3 DEF Identified, OwnRequest, Serving
<1>4. CASE request' = [request EXCEPT ![r] = KeyRefused(request[r])]
    <2>1. request'[r].pc = "answered" /\ request'[r].status = 401
        BY <1>1, <1>4, KeyRefusedShape
    <2> QED BY <2>1 DEF OwnRequest
<1> QED BY <1>2, <1>3, <1>4 DEF Verify

LEMMA ReadOwn ==
    ASSUME OwnInv, NEW r \in Callers, Read(r)
    PROVE  OwnRequest(r)'
<1>1. /\ request[r] \in Serving /\ request = [q \in Callers |-> request[q]]
      /\ request[r].connection = request[r].user /\ users' = users
      /\ request[r].user \in UserIds /\ users[request[r].user] # Absent
      /\ users[request[r].user].email = request[r].email
    BY ServingRequest DEF Read, OwnInv, TypeInv, GateTypes, OwnRequest
<1>2. Rows(request[r].user, request[r].connection) = {request[r].user}
    BY <1>1 DEF Rows
<1>3. request'[r] = Shown(request[r])
    BY <1>1 DEF Read
<1>4. /\ request'[r].pc = "answered" /\ request'[r].user = request[r].user
      /\ request'[r].rows = {request[r].user} /\ request'[r].email = request[r].email
    BY <1>1, <1>2, <1>3, ShownShape
<1> QED BY <1>1, <1>4 DEF OwnRequest

LEMMA ResolveOwn ==
    ASSUME OwnInv, NEW r \in Callers, Resolve(r)
    PROVE  OwnRequest(r)'
<1>1. /\ request[r] \in Serving /\ request = [q \in Callers |-> request[q]]
    BY ServingRequest DEF Resolve, OwnInv, TypeInv, GateTypes
<1>2. CASE Answered(r, 403)
    <2>1. request'[r].pc = "answered" /\ request'[r].status # 200
        BY <1>1, <1>2, AnsweredStep DEF Statuses
    <2> QED BY <2>1 DEF OwnRequest
<1>3. ASSUME NEW u \in UsersWith(request[r].email),
             request' = [request EXCEPT ![r].pc = "handle", ![r].user = u,
                                        ![r].connection = u]
      PROVE  OwnRequest(r)'
    <2>1. request'[r] = [request[r] EXCEPT !.pc = "handle", !.user = u, !.connection = u]
        BY <1>1, <1>3
    <2>2. request'[r].pc = "handle" /\ request'[r].connection = u /\ request'[r].user = u
        BY <1>1, <2>1 DEF Serving
    <2> QED BY <2>2 DEF OwnRequest
<1> QED BY <1>2, <1>3 DEF Resolve

LEMMA HandlerOwn ==
    ASSUME OwnInv, NEW r \in Callers,
           CommitReport(r) \/ Summarise(r) \/ CheckAccount(r) \/ InsertUser(r)
    PROVE  OwnRequest(r)'
<1>1. /\ request[r] \in Serving /\ request = [q \in Callers |-> request[q]]
      /\ request[r].kind \in {"notify", "create"}
    BY ServingRequest DEF CommitReport, Summarise, CheckAccount, InsertUser,
       OwnInv, TypeInv, GateTypes, OwnRequest
<1>2. /\ request'[r].kind = request[r].kind
      /\ \/ request'[r].pc = "answered"
         \/ request'[r].pc = "summary" /\ request[r].kind = "notify"
         \/ request'[r].pc = "insert" /\ request[r].kind = "create"
    <2>1. CASE CommitReport(r)
        BY <1>1, <2>1 DEF CommitReport, Serving
    <2>2. CASE Summarise(r)
        <3>1. request[r].user \in UserIds
            BY <2>2, ServingRequest DEF Summarise, OwnInv
        <3>2. request'[r] = Shown(request[r])
            BY <1>1, <2>2 DEF Summarise
        <3> QED BY <1>1, <3>1, <3>2, ShownShape
    <2>3. CASE \E status \in {200, 400, 403, 500} : Answered(r, status)
        BY <1>1, <2>3, AnsweredStep DEF Statuses
    <2>4. CASE CheckAccount(r) /\ request' = [request EXCEPT ![r].pc = "insert"]
        BY <1>1, <2>4 DEF CheckAccount, Serving
    <2>5. CASE CheckAccount(r) \/ InsertUser(r)
        BY <2>3, <2>4, <2>5 DEF CheckAccount, InsertUser
    <2> QED BY <2>1, <2>2, <2>5
<1> QED BY <1>1, <1>2 DEF OwnRequest

LEMMA OwnInvStep == OwnInv /\ [Next]_vars => OwnInv'
<1> SUFFICES ASSUME OwnInv, [Next]_vars PROVE OwnInv'
    OBVIOUS
<1>0. TypeInv'
    BY TypeInvStep DEF OwnInv
<1> SUFFICES EmailsUnique' /\ \A q \in Callers : OwnRequest(q)'
    BY <1>0 DEF OwnInv
<1>1. CASE UNCHANGED vars
    BY <1>1 DEF vars, OwnInv, EmailsUnique, OwnRequest
<1>2. CASE UNCHANGED <<users, request>>
    BY <1>2 DEF OwnInv, EmailsUnique, OwnRequest
<1>3. ASSUME NEW r \in Callers,
             \/ Arrive(r) \/ Verify(r) \/ Resolve(r) \/ Read(r) \/ CommitReport(r)
             \/ Summarise(r) \/ CheckAccount(r) \/ Finish(r)
      PROVE  EmailsUnique' /\ \A q \in Callers : OwnRequest(q)'
    <2>1. users' = users
        BY <1>3 DEF Arrive, Verify, Resolve, Read, CommitReport, Summarise,
           CheckAccount, Finish
    <2>2. OwnRequest(r)'
        <3>1. CASE Finish(r)
            <4>1. request'[r].pc = "none"
                BY <3>1 DEF Finish, Waiting, OwnInv, TypeInv, GateTypes
            <4> QED BY <4>1 DEF OwnRequest
        <3> QED BY <1>3, <3>1, ArriveOwn, VerifyOwn, ResolveOwn, ReadOwn, HandlerOwn
    <2>3. \A q \in Callers \ {r} : request'[q] = request[q]
        <3>1. request = [q \in Callers |-> request[q]]
            BY DEF OwnInv, TypeInv, GateTypes
        <3> QED BY <1>3, <3>1, OthersUnchanged
    <2> QED BY <2>1, <2>2, <2>3, OwnStays DEF OwnInv, EmailsUnique
<1>4. ASSUME NEW r \in Callers, InsertUser(r)
      PROVE  EmailsUnique' /\ \A q \in Callers : OwnRequest(q)'
    <2>1. users = [u \in UserIds |-> users[u]]
        BY DEF OwnInv, TypeInv, GateTypes
    <2>2. \A u \in UserIds : users[u] # Absent => users'[u] = users[u]
        BY <1>4, <2>1 DEF InsertUser
    <2>3. EmailsUnique'
        <3>1. CASE UNCHANGED users
            BY <3>1 DEF OwnInv, EmailsUnique
        <3>2. ASSUME NEW u \in UserIds, users[u] = Absent,
                     Clashing(request[r].account) = {},
                     users' = [users EXCEPT ![u] = NewUser(request[r].account)]
              PROVE  EmailsUnique'
            <4>1. /\ users'[u].email = request[r].account.email
                  /\ \A v \in UserIds \ {u} : users'[v] = users[v]
                BY <2>1, <3>2 DEF NewUser
            <4>2. \A v \in UserIds : users[v] # Absent =>
                        users[v].email # request[r].account.email
                BY <3>2 DEF Clashing
            <4> QED BY <4>1, <4>2 DEF OwnInv, EmailsUnique
        <3> QED BY <1>4, <3>1, <3>2 DEF InsertUser
    <2>4. OwnRequest(r)'
        BY <1>4, HandlerOwn
    <2>5. \A q \in Callers \ {r} : request'[q] = request[q]
        BY <1>4 DEF InsertUser, Answered, OwnInv, TypeInv, GateTypes
    <2> QED BY <2>2, <2>3, <2>4, <2>5, OwnStays DEF OwnInv
<1> QED BY <1>1, <1>2, <1>3, <1>4
    DEF Next, TimePasses, PublishKey, RetireKey, JwksTraffic, gateVars

\* A reading request shows the rows of the user registered with its address and
\* no others, for every number of users and overlapping requests.
THEOREM OwnRows == Spec => []OwnRowsShown
<1>1. OwnInv => OwnRowsShown
    BY DEF OwnInv, OwnRequest, EmailsUnique, UsersWith, OwnRowsShown
<1> QED BY <1>1, OwnInvInit, OwnInvStep, PTL DEF Spec

=============================================================================
