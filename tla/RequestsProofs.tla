--------------------------- MODULE RequestsProofs ---------------------------
(***************************************************************************)
(* Proofs about Requests, for any tokens, addresses, agents and slots, any *)
(* configuration and any statements that fail.                             *)
(*                                                                         *)
(* The argument: a request got past a middleware only with what that       *)
(* middleware asked for (Credentials), and what was asked for stays true   *)
(* of the tables: a row that was deleted never comes back.                 *)
(***************************************************************************)
EXTENDS Requests, DataLemmas

RequestFields == {"pc", "kind", "token", "ip", "role", "body", "late", "answer"}
Places == {"idle", "auth", "gate", "handle", "store", "announce"} \cup Counting
Codes  == {0, 200, 201, 204, 400, 401, 403, 404, 429, 500}

(* As much of the types as the arguments below need.                       *)
ConnShape ==
    /\ DOMAIN conn = Slots
    /\ conn = [r \in Slots |-> conn[r]]
    /\ \A r \in Slots : DOMAIN conn[r] = RequestFields
    /\ row \in [Tokens -> {"new", "valid", "lapsed", "deleted"}]
    /\ role \in [Tokens -> Roles]
    /\ issued \cup touching \subseteq {t \in Tokens : row[t] # "new"}
    /\ env \in Environments

(* What is known of request q when these are the rows of tokens and the    *)
(* secrets handed out, and of what it was let in for.                      *)
Known(q, rows, secrets) ==
    /\ q.pc \in Places /\ q.role \in Roles \cup {"none"} /\ q.answer \in Codes
    /\ q.token \in secrets \cup {NoToken} /\ q.late \in BOOLEAN
    /\ q.pc # "idle" => q.ip \in Addresses /\ q.answer = 0
    /\ q.pc # "idle" /\ q.kind = "createToken" => q.body \in RequestedRoles
    /\ q.late = TRUE => q.token \in Tokens /\ rows[q.token] = "deleted"
Credentials(q, samples) ==
    /\ q.pc \in {"handle", "store", "announce", "loop", "classify"} =>
        RequireRole(q.role, q.kind)
    /\ env.auth /\ q.late = TRUE /\ q.kind \notin Public => q.pc = "auth"
    /\ q.pc = "announce" => q.body \in samples

RequestInv ==
    /\ ConnShape
    /\ \A r \in Slots : 
        Known(conn[r], row, issued) /\ Credentials(conn[r], stored)
    /\ announced \subseteq stored

----------------------------------------------------------------------------
(* How the rows change.                                                    *)
RowsGoOn ==
    /\ row' \in [Tokens -> {"new", "valid", "lapsed", "deleted"}]
    /\ role' \in [Tokens -> Roles]
    /\ issued \subseteq issued'
    /\ issued' \cup touching' \subseteq {t \in Tokens : row'[t] # "new"}
    /\ \A t \in Tokens : row[t] = "deleted" => row'[t] = "deleted"

(* A request that is only moved on, or answered.                           *)
Moves(r, q) ==
    /\ r \in Slots
    /\ conn' = [conn EXCEPT ![r] = q]
    /\ DOMAIN q = RequestFields
    /\ env' = env

(* It is enough to look at the request that moves.                         *)
LEMMA MoveKeeps ==
    ASSUME RequestInv, RowsGoOn, stored \subseteq stored', announced' \subseteq stored',
           NEW r, NEW q, Moves(r, q), Known(q, row', issued'), Credentials(q, stored')
    PROVE  RequestInv'
<1>1. /\ \A s \in Slots : conn'[s] = IF s = r THEN q ELSE conn[s]
      /\ DOMAIN conn' = Slots /\ conn' = [s \in Slots |-> conn'[s]]
  BY DEF Moves, RequestInv, ConnShape
<1>2. ConnShape'
  BY <1>1 DEF Moves, RequestInv, ConnShape, RowsGoOn
<1>3. ASSUME NEW s \in Slots, s # r PROVE Known(conn'[s], row', issued') /\ Credentials(conn'[s], stored')
  <2>1. conn'[s] = conn[s]
    BY <1>1, <1>3
  <2>2. Known(conn[s], row, issued) /\ Credentials(conn[s], stored)
    BY DEF RequestInv
  <2>3. Known(conn'[s], row', issued')
    BY <2>1, <2>2 DEF Known, RowsGoOn
  <2>4. Credentials(conn'[s], stored')
    BY <2>1, <2>2 DEF Credentials, Moves
  <2> QED BY <2>3, <2>4
<1>4. Known(conn'[r], row', issued') /\ Credentials(conn'[r], stored')
  <2>1. conn'[r] = q
    BY <1>1 DEF Moves
  <2> QED BY <2>1 DEF Known, Credentials
<1>5. env' = env
  BY DEF Moves
<1> QED BY <1>2, <1>3, <1>4, <1>5 DEF RequestInv, Credentials

(* Steps that leave the requests alone.                                    *)
LEMMA QuietKeeps ==
    ASSUME RequestInv, RowsGoOn, stored' = stored, announced' = announced,
           UNCHANGED <<conn, env>>
    PROVE  RequestInv'
<1>1. ConnShape'
  BY DEF RequestInv, ConnShape, RowsGoOn
<1>2. ASSUME NEW s \in Slots PROVE Known(conn'[s], row', issued') /\ Credentials(conn'[s], stored')
  <2>1. Known(conn[s], row, issued) /\ Credentials(conn[s], stored)
    BY DEF RequestInv
  <2> QED BY <2>1 DEF Known, Credentials, RowsGoOn
<1> QED BY <1>1, <1>2 DEF RequestInv, Credentials

(* Without a statement on the tokens, their rows go on as they were.       *)
LEMMA RowsStay ==
    ASSUME RequestInv, UNCHANGED <<row, role, issued>>,
           touching' \subseteq touching \cup {t \in Tokens : Authentic(t)}
    PROVE  RowsGoOn
BY DEF Authentic, RequestInv, ConnShape, RowsGoOn

(* A request that was answered holds nothing any more.                     *)
LEMMA ReplyKeeps ==
    ASSUME RequestInv, RowsGoOn, stored \subseteq stored', announced' \subseteq stored',
           env' = env, NEW r \in Slots, NEW code \in Codes, Reply(r, code)
    PROVE  RequestInv'
<1> DEFINE q == [NoRequest EXCEPT !.answer = code]
<1>1. /\ DOMAIN q = RequestFields
      /\ q.pc = "idle" /\ q.late = FALSE /\ q.token = NoToken
      /\ q.role = "none" /\ q.answer = code
  BY DEF NoRequest, RequestFields
<1>2. Moves(r, q)
  BY <1>1 DEF Reply, Moves
<1> HIDE DEF q
<1>3. Known(q, row', issued') /\ Credentials(q, stored')
  BY <1>1 DEF Known, Credentials, Places, Counting
<1> QED BY <1>2, <1>3, MoveKeeps

(* A request that has its role goes on from one place to the next.         *)
LEMMA GotoKeeps ==
    ASSUME RequestInv, RowsGoOn, stored \subseteq stored', announced' \subseteq stored',
           env' = env, NEW r \in Slots, conn[r].pc \notin {"idle", "auth"},
           RequireRole(conn[r].role, conn[r].kind),
           NEW l \in {"handle", "store", "announce", "loop", "classify"}, Goto(r, l),
           l = "announce" => conn[r].body \in stored'
    PROVE  RequestInv'
<1> DEFINE q == [conn[r] EXCEPT !.pc = l]
<1>1. DOMAIN conn[r] = RequestFields /\ Known(conn[r], row, issued) /\ Credentials(conn[r], stored)
  BY DEF RequestInv, ConnShape
<1>2. /\ DOMAIN q = RequestFields /\ q.pc = l
      /\ q.token = conn[r].token /\ q.late = conn[r].late
      /\ q.kind = conn[r].kind /\ q.role = conn[r].role /\ q.body = conn[r].body
      /\ q.ip = conn[r].ip /\ q.answer = conn[r].answer
  BY <1>1 DEF RequestFields
<1>3. Moves(r, q)
  BY <1>2 DEF Goto, Moves, RequestInv, ConnShape
<1> HIDE DEF q
<1>4. Known(q, row', issued')
  BY <1>1, <1>2 DEF Known, RowsGoOn, Places, Counting
<1>5. Credentials(q, stored')
  BY <1>1, <1>2 DEF Credentials, RequireRole
<1> QED BY <1>3, <1>4, <1>5, MoveKeeps

----------------------------------------------------------------------------
(* The middlewares.                                                        *)
Arrived(kind, t, ip, body) ==
    [NoRequest EXCEPT !.pc = "auth", !.kind = kind, !.token = t, !.ip = ip,
                      !.body = body,
                      !.late = t \in Tokens /\ row[t] = "deleted"]

(* A request arrives with a token that was handed out, or with none.       *)
LEMMA ArrivesWith ==
    ASSUME NEW r \in Slots, Arrive(r)
    PROVE  \E kind \in env.kinds[r], t \in issued \cup {NoToken}, ip \in env.from :
             \E body \in Bodies(kind) :
                conn' = [conn EXCEPT ![r] = Arrived(kind, t, ip, body)]
BY Zenon DEF Arrive, Arrived

(* It is late if its token is deleted already.                             *)
LEMMA ArriveKeeps ==
    ASSUME RequestInv, NEW r \in Slots, Arrive(r)
    PROVE  RequestInv'
<1>1. PICK kind \in env.kinds[r], t \in issued \cup {NoToken}, ip \in env.from :
        \E body \in Bodies(kind) :
            conn' = [conn EXCEPT ![r] = Arrived(kind, t, ip, body)]
  BY ArrivesWith
<1> PICK body \in Bodies(kind) : conn' = [conn EXCEPT ![r] = Arrived(kind, t, ip, body)]
  BY <1>1
<1> DEFINE q == Arrived(kind, t, ip, body)
<1>2. /\ DOMAIN q = RequestFields
      /\ q.pc = "auth" /\ q.token = t /\ q.kind = kind /\ q.body = body
      /\ q.ip = ip /\ q.role = "none" /\ q.answer = 0
      /\ q.late = (t \in Tokens /\ row[t] = "deleted")
  BY DEF Arrived, NoRequest, RequestFields
<1> body \in RequestedRoles \/ kind # "createToken"
  BY DEF Bodies
<1>3. UNCHANGED <<env, row, role, issued, touching, stored, announced>>
  BY DEF Arrive, worldVars, tokenVars, samplesVars
<1>4. Moves(r, q)
  BY <1>1, <1>2, <1>3 DEF Moves
<1> HIDE DEF q
<1>5. Known(q, row', issued') /\ Credentials(q, stored')
  <2>1. ip \in Addresses
    BY RequestsAssumption DEF RequestInv, ConnShape
  <2> QED BY <1>2, <1>3, <2>1 DEF Known, Credentials, Places, Counting, Codes
<1>6. announced' \subseteq stored'
  BY <1>3 DEF RequestInv
<1> QED BY <1>3, <1>4, <1>5, <1>6, RowsStay, MoveKeeps

(* The role a request gets is that of its row, which is not deleted.       *)
LEMMA AuthenticateKeeps ==
    ASSUME RequestInv, NEW r \in Slots, Authenticate(r)
    PROVE  RequestInv'
<1>1. /\ UNCHANGED <<env, row, role, issued, stored, announced>>
      /\ conn[r].pc = "auth"
      /\ touching' \subseteq touching \cup {t \in Tokens : Authentic(t)}
  BY DEF Authenticate, Authentic, worldVars, samplesVars
<1>2. RowsGoOn /\ stored \subseteq stored' /\ announced' \subseteq stored'
  BY <1>1, RowsStay DEF RequestInv
<1>3. /\ DOMAIN conn[r] = RequestFields
      /\ Known(conn[r], row, issued) /\ Credentials(conn[r], stored)
  BY DEF RequestInv, ConnShape
<1>4. ASSUME NEW code \in Codes, Reply(r, code) PROVE RequestInv'
  BY <1>1, <1>2, <1>4, ReplyKeeps
<1>5. ASSUME NEW given \in Roles \cup {"none"}, Let(r, given),
             env.auth /\ conn[r].kind \notin Public => conn[r].late # TRUE
      PROVE  RequestInv'
  <2> DEFINE q == [conn[r] EXCEPT !.pc = "gate", !.role = given]
  <2>1. /\ DOMAIN q = RequestFields /\ q.pc = "gate" /\ q.token = conn[r].token
        /\ q.late = conn[r].late /\ q.kind = conn[r].kind
        /\ q.body = conn[r].body /\ q.role = given /\ q.ip = conn[r].ip
        /\ q.answer = conn[r].answer
    BY <1>3 DEF RequestFields
  <2>2. conn' = [conn EXCEPT ![r] = q]
    BY <1>5 DEF Let, RequestInv, ConnShape
  <2>3. Moves(r, q)
    BY <1>1, <2>1, <2>2 DEF Moves
  <2> HIDE DEF q
  <2>4. Known(q, row', issued')
    BY <1>1, <1>3, <2>1 DEF Known, Places, Counting
  <2>5. Credentials(q, stored')
    BY <1>5, <2>1 DEF Credentials
  <2> QED BY <1>2, <2>3, <2>4, <2>5, MoveKeeps
<1>6. Authentic(conn[r].token) => conn[r].late # TRUE
  BY <1>3 DEF Authentic, Known
<1>7. Authentic(conn[r].token) => role[conn[r].token] \in Roles
  BY DEF Authentic, RequestInv, ConnShape
<1>8. {401, 500} \subseteq Codes /\ {"admin", "none"} \subseteq Roles \cup {"none"}
  BY DEF Codes, Roles
<1>9. \/ Reply(r, 401) \/ Reply(r, 500)
      \/ \E given \in Roles \cup {"none"} :
            Let(r, given) /\ (env.auth /\ conn[r].kind \notin Public => conn[r].late # TRUE)
  BY <1>6, <1>7, <1>8 DEF Authenticate
<1> QED BY <1>4, <1>5, <1>8, <1>9

(* Only the role that the handler requires passes the gate.                *)
LEMMA GateKeeps ==
    ASSUME RequestInv, NEW r \in Slots, Gate(r)
    PROVE  RequestInv'
<1>1. /\ UNCHANGED <<env, row, role, issued, touching, stored, announced>>
      /\ conn[r].pc = "gate"
  BY DEF Gate, worldVars, tokenVars, samplesVars
<1>2. RowsGoOn /\ stored \subseteq stored' /\ announced' \subseteq stored'
  BY <1>1, RowsStay DEF RequestInv
<1>3. ASSUME NEW code \in Codes, Reply(r, code) PROVE RequestInv'
  BY <1>1, <1>2, <1>3, ReplyKeeps
<1>4. CASE Enter(r)
  <2>1. CASE RequireRole(conn[r].role, conn[r].kind)
    <3>1. Goto(r, "handle")
      BY <1>4, <2>1 DEF Enter
    <3> QED BY <1>1, <1>2, <2>1, <3>1, GotoKeeps
  <2>2. CASE ~RequireRole(conn[r].role, conn[r].kind)
    BY <1>3, <1>4, <2>2 DEF Enter, Codes
  <2> QED BY <2>1, <2>2
<1> QED BY <1>3, <1>4 DEF Gate, Codes

----------------------------------------------------------------------------
(* The handlers.                                                           *)
LEMMA TokenHandlersKeep ==
    ASSUME RequestInv, NEW r \in Slots, CreateToken(r) \/ DeleteToken(r)
    PROVE  RequestInv'
<1>1. UNCHANGED <<env, touching, stored, announced>> /\ \E code \in Codes : Reply(r, code)
  BY DEF CreateToken, DeleteToken, worldVars, samplesVars, Codes
<1>2. /\ row \in [Tokens -> {"new", "valid", "lapsed", "deleted"}]
      /\ role \in [Tokens -> Roles] 
      /\ issued \cup touching \subseteq {t \in Tokens : row[t] # "new"}
      /\ announced \subseteq stored
  BY DEF RequestInv, ConnShape
<1>3. CASE CreateToken(r)
  <2>1. ASSUME NEW t \in Tokens, NEW given \in Roles, InsertToken(t, given),
               issued' \in {issued, issued \cup {t}}
        PROVE  RowsGoOn
    BY <1>1, <1>2, <2>1 DEF InsertToken, RowsGoOn
  <2>2. conn[r].body \in RequestedRoles
    <3>1. Known(conn[r], row, issued)
      BY DEF RequestInv
    <3> QED BY <1>3, <3>1 DEF CreateToken, Handles, Known
  <2>3. conn[r].body # "invalid" => RoleOf(conn[r].body) \in Roles
    BY <2>2 DEF RoleOf, RequestedRoles, Roles
  <2>4. UNCHANGED <<row, role, issued>> => RowsGoOn
    BY <1>1, RowsStay
  <2>5. ASSUME NEW t \in Tokens, InsertToken(t, RoleOf(conn[r].body)),
               issued' \in {issued, issued \cup {t}}, conn[r].body # "invalid"
        PROVE  RowsGoOn
    <3>1. RoleOf(conn[r].body) \in Roles
      BY <2>3, <2>5
    <3> QED BY <2>1, <2>5, <3>1
  <2>6. RowsGoOn
    BY <1>3, <2>4, <2>5 DEF CreateToken
  <2> QED BY <1>1, <1>2, <2>6, ReplyKeeps
<1>4. CASE DeleteToken(r)
  <2>1. RowsGoOn
    BY <1>1, <1>2, <1>4 DEF DeleteToken, DeleteRow, RowsGoOn
  <2> QED BY <1>1, <1>2, <2>1, ReplyKeeps
<1> QED BY <1>3, <1>4

(* The handlers that leave the table of tokens and announce nothing.       *)
LEMMA FleetHandlersKeep ==
    ASSUME RequestInv, NEW r \in Slots,
           Serve(r) \/ Register(r) \/ CheckAgent(r) \/ Store(r)
             \/ ListAgents(r) \/ QueryAgent(r) \/ CountAgent(r) \/ ShowOverview(r)
    PROVE  RequestInv'
<1>1. /\ UNCHANGED <<env, row, role, issued, touching, announced>> /\ stored \subseteq stored'
  BY DEF Serve, Register, CheckAgent, Store, ListAgents, QueryAgent, CountAgent,
         ShowOverview, worldVars, tokenVars, samplesVars
<1>2. RowsGoOn /\ announced' \subseteq stored'
  BY <1>1, RowsStay DEF RequestInv
<1>3. ASSUME NEW code \in Codes, Reply(r, code) PROVE RequestInv'
  BY <1>1, <1>2, <1>3, ReplyKeeps
<1>4. conn[r].pc \in {"handle", "store", "announce", "loop", "classify"} =>
        RequireRole(conn[r].role, conn[r].kind)
  BY DEF RequestInv, Credentials
<1>5. CASE Serve(r)
  BY <1>3, <1>5 DEF Serve, Codes
<1>6. CASE Register(r)
  BY <1>3, <1>6 DEF Register, Codes
<1>7. CASE CheckAgent(r)
  <2>1. CASE Goto(r, "store")
    BY <1>1, <1>2, <1>4, <1>7, <2>1, GotoKeeps DEF CheckAgent, Handles
  <2> QED BY <1>3, <1>7, <2>1 DEF CheckAgent, Codes
<1>8. CASE Store(r)
  <2>1. CASE Goto(r, "announce") /\ conn[r].body \in stored'
    BY <1>1, <1>2, <1>4, <1>8, <2>1, GotoKeeps DEF Store
  <2>2. \/ \E code \in Codes : Reply(r, code)
        \/ Goto(r, "announce") /\ conn[r].body \in stored'
    BY <1>8 DEF Store, Codes
  <2> QED BY <1>3, <2>1, <2>2
<1>9. CASE ListAgents(r)
  <2>1. CASE Goto(r, "loop")
    BY <1>1, <1>2, <1>4, <1>9, <2>1, GotoKeeps DEF ListAgents, Handles
  <2> QED BY <1>3, <1>9, <2>1 DEF ListAgents, Codes
<1>10. CASE CountAgent(r)
  BY <1>1, <1>2, <1>4, <1>10, GotoKeeps DEF CountAgent
<1>12. CASE QueryAgent(r)
  <2>1. CASE Goto(r, "classify")
    BY <1>1, <1>2, <1>4, <1>12, <2>1, GotoKeeps DEF QueryAgent
  <2> QED BY <1>3, <1>12, <2>1 DEF QueryAgent, Found, Codes
<1>11. CASE ShowOverview(r)
  BY <1>3, <1>11 DEF ShowOverview, Codes
<1> QED BY <1>5, <1>6, <1>7, <1>8, <1>9, <1>10, <1>11, <1>12

(* Every step of a handler answers its request or moves it on.             *)
LEMMA HandlersAnswer ==
    ASSUME NEW r \in Slots, Handle(r)
    PROVE  (\E code : Reply(r, code)) \/ \E l : Goto(r, l)
<1>1. CASE CreateToken(r) \/ DeleteToken(r) \/ Serve(r) \/ Register(r)
  BY <1>1 DEF CreateToken, DeleteToken, Serve, Register
<1>2. CASE CheckAgent(r) \/ Store(r) \/ Announce(r) \/ ListAgents(r)
  BY <1>2 DEF CheckAgent, Store, Announce, ListAgents
<1>3. CASE QueryAgent(r) \/ CountAgent(r) \/ ShowOverview(r)
  BY <1>3 DEF QueryAgent, Found, CountAgent, ShowOverview
<1> QED BY <1>1, <1>2, <1>3 DEF Handle

(* What is announced was carried from its insert.                          *)
LEMMA AnnounceKeeps ==
    ASSUME RequestInv, NEW r \in Slots, Announce(r)
    PROVE  RequestInv'
<1>1. /\ UNCHANGED <<env, row, role, issued, touching, stored>>
      /\ announced' = announced \cup {conn[r].body} /\ Reply(r, 201)
  BY DEF Announce, worldVars, tokenVars
<1>2. conn[r].body \in stored /\ announced \subseteq stored
  BY DEF Announce, RequestInv, Credentials
<1> QED BY <1>1, <1>2, RowsStay, ReplyKeeps DEF Codes

----------------------------------------------------------------------------
(* The invariant, and what it shows.                                       *)
LEMMA RequestInit == Init => RequestInv
<1> SUFFICES ASSUME Init PROVE RequestInv
  OBVIOUS
<1>1. ConnShape
  <2>1. env \in Environments /\ DOMAIN env.tokens \subseteq Tokens
        /\ \A t \in DOMAIN env.tokens : env.tokens[t] \in Roles
    BY RequestsAssumption DEF Init
  <2>2. /\ row \in [Tokens -> {"new", "valid", "lapsed", "deleted"}]
        /\ role \in [Tokens -> Roles]
        /\ issued \cup touching \subseteq {t \in Tokens : row[t] # "new"}
    BY <2>1 DEF Init, TokenTable, Roles
  <2>3. conn = [r \in Slots |-> NoRequest] /\ DOMAIN NoRequest = RequestFields
    BY DEF Init, NoRequest, RequestFields
  <2> QED BY <2>1, <2>2, <2>3 DEF ConnShape
<1>2. \A r \in Slots : Known(conn[r], row, issued) /\ Credentials(conn[r], stored)
  BY DEF Init, Known, Credentials, NoRequest, Places, Counting, Codes
<1> QED BY <1>1, <1>2 DEF RequestInv, Init

(* Every step keeps what requests know.                                    *)
LEMMA RequestStep == RequestInv /\ [Next]_vars => RequestInv'
<1> SUFFICES ASSUME RequestInv, [Next]_vars PROVE RequestInv'
  OBVIOUS
<1>1. ASSUME NEW r \in Slots, Arrive(r) \/ Authenticate(r) \/ Gate(r) \/ Handle(r)
      PROVE  RequestInv'
  BY <1>1, ArriveKeeps, AuthenticateKeeps, GateKeeps, TokenHandlersKeep,
     FleetHandlersKeep, AnnounceKeeps DEF Handle
<1>2. ASSUME UNCHANGED <<conn, env, stored, announced>>, RowsGoOn PROVE RequestInv'
  BY <1>2, QuietKeeps
<1>3. CASE Tick \/ PurgeTelemetry \/ UNCHANGED vars
  <2>1. UNCHANGED <<conn, env, stored, announced, row, role, issued, touching>>
    BY <1>3 DEF Tick, PurgeTelemetry, vars, worldVars, tokenVars, samplesVars
  <2> QED BY <1>2, <2>1, RowsStay
<1>4. ASSUME NEW t \in Tokens, TokenStep(t) PROVE RequestInv'
  <2>1. UNCHANGED <<conn, env, stored, announced>>
    BY <1>4 DEF TokenStep, worldVars, samplesVars
  <2>2. RowsGoOn
    BY <1>4 DEF TokenStep, Touch, Lapse, RowsGoOn, RequestInv, ConnShape
  <2> QED BY <1>2, <2>1, <2>2
<1> QED BY <1>1, <1>3, <1>4 DEF Next

(* What requests know always holds.                                        *)
LEMMA RequestInvariant == Spec => []RequestInv
BY RequestInit, RequestStep, PTL DEF Spec

(* No request that arrives after its token was deleted gets past the       *)
(* authentication.                                                         *)
THEOREM DeletedTokensAreDead == Spec => []RevokedIsRefused
<1>1. RequestInv => RevokedIsRefused
  BY DEF RequestInv, Credentials, RevokedIsRefused
<1> QED BY <1>1, RequestInvariant, PTL

(* The streams and the alert engine hear only of samples that were         *)
(* committed.                                                              *)
THEOREM OnlyStoredIsAnnounced == Spec => []AnnouncedIsStored
<1>1. RequestInv => AnnouncedIsStored
  BY DEF RequestInv, AnnouncedIsStored
<1> QED BY <1>1, RequestInvariant, PTL

----------------------------------------------------------------------------
(* Locked out, no request can create a token, and none rises to            *)
(* administrator.                                                          *)
LEMMA LockoutHolds ==
    ASSUME RequestInv, RequestInv', [Next]_vars, LockedOut
    PROVE  LockedOut'
<1>1. env' = env
  BY DEF Next, Arrive, Authenticate, Gate, Handle, CreateToken, DeleteToken, Serve,
         Register, CheckAgent, Store, Announce, ListAgents, QueryAgent, CountAgent, ShowOverview,
         Tick, PurgeTelemetry, TokenStep, vars, worldVars
<1>2. ASSUME NEW r \in Slots, CreateToken(r) PROVE FALSE
  <2>1. RequireRole(conn[r].role, "createToken")
    BY <1>2 DEF RequestInv, Credentials, CreateToken, Handles
  <2>2. conn[r].role = "admin"
    BY <2>1 DEF RequireRole, RequiredRole, HasPermission
  <2> QED BY <2>2 DEF LockedOut
<1>3. UNCHANGED <<role, issued>> /\ \A t \in Tokens : row'[t] = "valid" => row[t] = "valid"
  <2>1. CASE UNCHANGED <<row, role, issued>>
    BY <2>1
  <2>2. ASSUME NEW r \in Slots, DeleteToken(r)
        PROVE  UNCHANGED <<role, issued>>
               /\ \A t \in Tokens : row'[t] = "valid" => row[t] = "valid"
    BY <2>2 DEF DeleteToken, DeleteRow, RequestInv, ConnShape
  <2>3. ASSUME NEW t \in Tokens, TokenStep(t)
        PROVE  UNCHANGED <<role, issued>>
               /\ \A s \in Tokens : row'[s] = "valid" => row[s] = "valid"
    BY <2>3 DEF TokenStep, Touch, Lapse, RequestInv, ConnShape
  <2>4. \/ UNCHANGED <<row, role, issued>>
        \/ \E r \in Slots : CreateToken(r) \/ DeleteToken(r)
        \/ \E t \in Tokens : TokenStep(t)
    <3>1. ASSUME NEW r \in Slots, Handle(r), ~CreateToken(r), ~DeleteToken(r)
          PROVE  UNCHANGED <<row, role, issued>>
      BY <3>1 DEF Handle, Serve, Register, CheckAgent, Store, Announce, ListAgents,
         QueryAgent, CountAgent, ShowOverview, tokenVars
    <3>2. ASSUME NEW r \in Slots, Arrive(r) \/ Authenticate(r) \/ Gate(r)
          PROVE  UNCHANGED <<row, role, issued>>
      BY <3>2 DEF Arrive, Authenticate, Gate, tokenVars
    <3>3. CASE Tick \/ PurgeTelemetry \/ UNCHANGED vars
      BY <3>3 DEF Tick, PurgeTelemetry, vars, tokenVars
    <3> QED BY <3>1, <3>2, <3>3 DEF Next
  <2> QED BY <1>2, <2>1, <2>2, <2>3, <2>4
<1>4. \A t \in issued' : ~(role'[t] = "admin" /\ Authentic(t)')
  BY <1>3 DEF LockedOut, Authentic
<1>5. ASSUME NEW r \in Slots PROVE conn'[r].role # "admin"
  <2>1. conn[r].role # "admin"
    BY DEF LockedOut
  <2>2. CASE conn'[r] = conn[r]
    BY <2>1, <2>2
  <2>3. ASSUME NEW code, NEW s \in Slots, Reply(s, code) PROVE conn'[r].role # "admin"
    BY <2>1, <2>3 DEF Reply, NoRequest, RequestInv, ConnShape
  <2>4. ASSUME NEW l, NEW s \in Slots, Goto(s, l) PROVE conn'[r].role # "admin"
    BY <2>1, <2>4 DEF Goto, RequestInv, ConnShape, RequestFields
  <2>5. ASSUME NEW s \in Slots, Arrive(s) PROVE conn'[r].role # "admin"
    <3>1. PICK kind, t, ip, body : conn' = [conn EXCEPT ![s] = Arrived(kind, t, ip, body)]
      BY <2>5, ArrivesWith
    <3>2. Arrived(kind, t, ip, body).role = "none"
      BY DEF Arrived, NoRequest
    <3> QED BY <2>1, <3>1, <3>2 DEF RequestInv, ConnShape
  <2>6. ASSUME NEW s \in Slots, Authenticate(s) PROVE conn'[r].role # "admin"
    <3>1. Known(conn[s], row, issued) /\ conn[s].pc = "auth"
      BY <2>6 DEF RequestInv, Authenticate
    <3>2. Authentic(conn[s].token) => role[conn[s].token] # "admin"
      BY <3>1, RequestsAssumption DEF Known, Authentic, LockedOut
    <3>3. ASSUME NEW given, Let(s, given), given # "admin" PROVE conn'[r].role # "admin"
      BY <2>1, <3>3 DEF Let, RequestInv, ConnShape, RequestFields
    <3>4. env.auth
      BY DEF LockedOut
    <3> QED BY <2>3, <2>6, <3>2, <3>3, <3>4 DEF Authenticate
  <2>7. ASSUME NEW s \in Slots, Gate(s) PROVE conn'[r].role # "admin"
    BY <2>3, <2>4, <2>7 DEF Gate, Enter
  <2>8. ASSUME NEW s \in Slots, Handle(s) PROVE conn'[r].role # "admin"
    <3>1. (\E code : Reply(s, code)) \/ \E l : Goto(s, l)
      BY <2>8, HandlersAnswer
    <3> QED BY <2>3, <2>4, <3>1
  <2>9. CASE Tick \/ PurgeTelemetry \/ (\E t \in Tokens : TokenStep(t)) \/ UNCHANGED vars
    BY <2>2, <2>9 DEF Tick, PurgeTelemetry, TokenStep, vars
  <2> QED BY <2>5, <2>6, <2>7, <2>8, <2>9 DEF Next
<1> QED BY <1>1, <1>4, <1>5 DEF LockedOut

(* When the last administrator is gone none is ever made again.            *)
THEOREM NobodyRises == Spec => LockoutLasts
<1>1. RequestInv /\ RequestInv' /\ [Next]_vars => [LockedOut => LockedOut']_vars
  BY LockoutHolds
<1> QED BY <1>1, RequestInvariant, PTL DEF Spec, LockoutLasts

----------------------------------------------------------------------------
(* The rate limiter.  Recent is the window the limiter looks at; what it   *)
(* remembers of an address is, there, what it admitted, although it        *)
(* forgets the rest and the refused are not remembered.                    *)
Recent(t) == {u \in Int : u > t - Window}
Tallies(q, h, t, max) ==
    /\ q \in Seq(0 .. t) /\ h \in Seq(0 .. t)
    /\ Kept(q, Recent(t)) = Kept(h, Recent(t))
    /\ max > 0 => /\ Len(q) <= max
                  /\ \A from \in 0 .. t : Len(Kept(h, from .. (from + Window - 1))) <= max

LimiterInv ==
    /\ now \in Nat /\ limit \in Int
    /\ requests = [ip \in Addresses |-> requests[ip]]
    /\ admitted = [ip \in Addresses |-> admitted[ip]]
    /\ \A ip \in Addresses : Tallies(requests[ip], admitted[ip], now, limit)

(* An admission is appended to both lists.                                 *)
LEMMA TalliesOfAdmit ==
    ASSUME NEW t \in Nat, NEW max \in Int, max > 0, NEW q, NEW h, Tallies(q, h, t, max),
           Len(Kept(q, Recent(t))) < max
    PROVE  Tallies(Append(Kept(q, Recent(t)), t), Append(h, t), t, max)
<1> DEFINE R == Recent(t)
           k == Kept(q, R)
           T == 0 .. t
<1>1. q \in Seq(T) /\ h \in Seq(T) /\ t \in T /\ Kept(h, R) = k
  BY DEF Tallies
<1> HIDE DEF T
<1>2. k \in Seq(T) /\ Len(k) \in Nat /\ Len(k) < max /\ Kept(k, R) = k
  BY <1>1, KeptType, KeptTwice
<1>3. Append(k, t) \in Seq(T) /\ Append(h, t) \in Seq(T) /\ Len(Append(k, t)) <= max
  <2> HIDE DEF k
  <2> QED BY <1>1, <1>2
<1>4. Kept(Append(k, t), R) = Kept(Append(h, t), R)
  <2> HIDE DEF k, R
  <2>1. Kept(Append(k, t), R) = IF t \in R THEN Append(Kept(k, R), t) ELSE Kept(k, R)
    BY <1>1, <1>2, KeptOfAppend
  <2>2. Kept(Append(h, t), R) = IF t \in R THEN Append(Kept(h, R), t) ELSE Kept(h, R)
    BY <1>1, KeptOfAppend
  <2> QED BY <1>1, <1>2, <2>1, <2>2
<1>5. ASSUME NEW from \in 0 .. t
      PROVE  Len(Kept(Append(h, t), from .. (from + Window - 1))) <= max
  <2> DEFINE S == from .. (from + Window - 1)
  <2>1. Kept(Append(h, t), S) = IF t \in S THEN Append(Kept(h, S), t) ELSE Kept(h, S)
    <3> HIDE DEF S, R, k
    <3> QED BY <1>1, KeptOfAppend
  <2>2. Kept(h, S) \in Seq(T) /\ Len(Kept(h, S)) <= max
    BY <1>1, KeptType DEF Tallies
  <2>3. t \in S => S \subseteq R
    BY LimiterAssumption DEF Recent
  <2>4. S \subseteq R => Kept(k, S) = Kept(h, S) /\ Len(Kept(k, S)) <= Len(k)
    <3> HIDE DEF S, R
    <3> SUFFICES ASSUME S \subseteq R
                 PROVE  Kept(k, S) = Kept(h, S) /\ Len(Kept(k, S)) <= Len(k)
      OBVIOUS
    <3>1. Kept(Kept(h, R), S) = Kept(h, S)
      BY <1>1, KeptTwice
    <3> HIDE DEF k
    <3>2. Len(Kept(k, S)) <= Len(k)
      BY <1>2, KeptType
    <3> QED BY <1>1, <3>1, <3>2
  <2> HIDE DEF S, R, k
  <2>5. t \in S => Len(Kept(h, S)) <= Len(k) /\ Len(Append(Kept(h, S), t)) = Len(Kept(h, S)) + 1
    BY <2>2, <2>3, <2>4
  <2>6. Len(Kept(h, S)) \in Nat
    BY <2>2
  <2>7. Len(Kept(Append(h, t), S)) <= max
    BY <1>2, <2>1, <2>2, <2>5, <2>6
  <2> QED BY <2>7 DEF S
<1> HIDE DEF k, R
<1> QED BY <1>3, <1>4, <1>5 DEF Tallies, T, k, R

(* A refusal drops the times that left the window, and only those.         *)
LEMMA TalliesOfRefuse ==
    ASSUME NEW t \in Nat, NEW max \in Int, NEW q, NEW h, Tallies(q, h, t, max)
    PROVE  Tallies(Kept(q, Recent(t)), h, t, max)
<1>1. q \in Seq(0 .. t)
  BY DEF Tallies
<1>2. Kept(q, Recent(t)) \in Seq(0 .. t) /\ Len(Kept(q, Recent(t))) <= Len(q)
      /\ Len(Kept(q, Recent(t))) \in Nat
  BY <1>1, KeptType
<1>3. Kept(Kept(q, Recent(t)), Recent(t)) = Kept(q, Recent(t))
  BY <1>1, KeptTwice
<1>4. Len(q) \in Nat
  BY <1>1
<1> QED BY <1>2, <1>3, <1>4 DEF Tallies

(* A window that slides on drops times from both lists.                    *)
LEMMA TalliesOfTick ==
    ASSUME NEW t \in Nat, NEW max \in Int, NEW q, NEW h, Tallies(q, h, t, max)
    PROVE  Tallies(q, h, t + 1, max)
<1>1. q \in Seq(0 .. t) /\ h \in Seq(0 .. t)
  BY DEF Tallies
<1>2. q \in Seq(0 .. (t + 1)) /\ h \in Seq(0 .. (t + 1))
  BY <1>1
<1>3. Kept(q, Recent(t + 1)) = Kept(h, Recent(t + 1))
  <2>1. Recent(t + 1) \subseteq Recent(t)
    BY LimiterAssumption DEF Recent
  <2>2. /\ Kept(Kept(q, Recent(t)), Recent(t + 1)) = Kept(q, Recent(t + 1))
        /\ Kept(Kept(h, Recent(t)), Recent(t + 1)) = Kept(h, Recent(t + 1))
    BY <1>1, <2>1, KeptTwice
  <2> QED BY <2>2 DEF Tallies
<1>4. ASSUME max > 0, NEW from \in 0 .. (t + 1)
      PROVE  Len(Kept(h, from .. (from + Window - 1))) <= max
  <2>1. CASE from \in 0 .. t
    BY <1>4, <2>1 DEF Tallies
  <2>2. CASE from = t + 1
    <3> DEFINE S == from .. (from + Window - 1)
               k == Kept(h, S)
    <3>1. /\ Len(k) \in Nat /\ \A n \in 1 .. Len(k) : k[n] \in S
          /\ \A n \in 1 .. Len(k) : \E m \in 1 .. Len(h) : k[n] = h[m]
      <4> DEFINE T == 0 .. t
      <4>1. h \in Seq(T)
        BY <1>1
      <4> HIDE DEF S, T
      <4> QED BY <4>1, KeptType
    <3>2. \A m \in 1 .. Len(h) : h[m] \in 0 .. t
      BY <1>1
    <3> HIDE DEF k
    <3>3. Len(k) = 0
      <4> SUFFICES ASSUME 1 \in 1 .. Len(k) PROVE FALSE
        BY <3>1
      <4>1. k[1] \in from .. (from + Window - 1) /\ k[1] \in 0 .. t
        BY <3>1, <3>2
      <4> QED BY <2>2, <4>1
    <3> QED BY <1>4, <3>3 DEF k
  <2> QED BY <2>1, <2>2
<1> QED BY <1>2, <1>3, <1>4 DEF Tallies

(* The steps of the limiter.                                               *)
LEMMA GateTallies ==
    ASSUME LimiterInv, NEW ip \in Addresses, Admit(ip) \/ Refuse(ip),
           UNCHANGED <<now, limit>>
    PROVE  LimiterInv'
<1>1. /\ now \in Nat /\ limit \in Int /\ limit > 0
      /\ Tallies(requests[ip], admitted[ip], now, limit)
      /\ InWindow = Recent(now)
  BY DEF LimiterInv, InWindow, Recent, Admit, Refuse
<1>2. /\ requests' = [a \in Addresses |-> requests'[a]]
      /\ admitted' = [a \in Addresses |-> admitted'[a]]
      /\ \A a \in Addresses : a # ip => requests'[a] = requests[a] /\ admitted'[a] = admitted[a]
  BY DEF Admit, Admits, Refuse, LimiterInv
<1>3. Tallies(requests'[ip], admitted'[ip], now, limit)
  <2>1. CASE Admit(ip)
    <3>1. /\ requests'[ip] = Append(Kept(requests[ip], Recent(now)), now)
          /\ admitted'[ip] = Append(admitted[ip], now)
          /\ Len(Kept(requests[ip], Recent(now))) < limit
      BY <1>1, <2>1 DEF Admit, Admits, Valid, LimiterInv
    <3> QED BY <1>1, <3>1, TalliesOfAdmit
  <2>2. CASE Refuse(ip)
    <3>1. requests'[ip] = Kept(requests[ip], Recent(now)) /\ admitted' = admitted
      BY <1>1, <2>2 DEF Refuse, Valid, LimiterInv
    <3> QED BY <1>1, <3>1, TalliesOfRefuse
  <2> QED BY <2>1, <2>2
<1>4. ASSUME NEW a \in Addresses PROVE Tallies(requests'[a], admitted'[a], now', limit')
  <2>1. Tallies(requests[a], admitted[a], now, limit)
    BY DEF LimiterInv
  <2> QED BY <1>2, <1>3, <2>1
<1> QED BY <1>1, <1>2, <1>4 DEF LimiterInv

(* Every step keeps the lists of the limiter true.                         *)
LEMMA LimiterStep ==
    ASSUME RequestInv, LimiterInv, [Next]_vars
    PROVE  LimiterInv'
<1>1. CASE UNCHANGED <<now, limit, limiterVars>>
  BY <1>1 DEF LimiterInv, limiterVars
<1>2. ASSUME NEW r \in Slots, Gate(r) PROVE LimiterInv'
  <2>1. conn[r].ip \in Addresses /\ UNCHANGED <<now, limit>>
    BY <1>2 DEF Gate, RequestInv, Known, worldVars
  <2> QED BY <1>1, <1>2, <2>1, GateTallies DEF Gate
<1>3. CASE Tick
  <2>1. now' = now + 1 /\ UNCHANGED <<limit, requests, admitted>>
    BY <1>3 DEF Tick, limiterVars
  <2>2. ASSUME NEW a \in Addresses PROVE Tallies(requests'[a], admitted'[a], now', limit')
    <3>1. now \in Nat /\ limit \in Int /\ Tallies(requests[a], admitted[a], now, limit)
      BY DEF LimiterInv
    <3> QED BY <2>1, <3>1, TalliesOfTick
  <2>3. now \in Nat /\ limit \in Int
        /\ requests = [ip \in Addresses |-> requests[ip]]
        /\ admitted = [ip \in Addresses |-> admitted[ip]]
    BY DEF LimiterInv
  <2>4. now' \in Nat /\ limit' \in Int
        /\ requests' = [ip \in Addresses |-> requests'[ip]]
        /\ admitted' = [ip \in Addresses |-> admitted'[ip]]
    BY <2>1, <2>3
  <2> QED BY <2>2, <2>4 DEF LimiterInv
<1>4. \/ UNCHANGED <<now, limit, limiterVars>> \/ Tick \/ \E r \in Slots : Gate(r)
  <2>1. ASSUME NEW r \in Slots, Arrive(r) \/ Authenticate(r) \/ Handle(r)
        PROVE  UNCHANGED <<worldVars, limiterVars>>
    BY <2>1 DEF Arrive, Authenticate, Handle, CreateToken, DeleteToken, Serve, Register,
       CheckAgent, Store, Announce, ListAgents, QueryAgent, CountAgent, ShowOverview
  <2>2. CASE PurgeTelemetry \/ (\E t \in Tokens : TokenStep(t)) \/ UNCHANGED vars
    BY <2>2 DEF PurgeTelemetry, TokenStep, vars, worldVars
  <2> QED BY <2>1, <2>2 DEF Next, worldVars
<1> QED BY <1>1, <1>2, <1>3, <1>4

(* At the start nobody was admitted.                                       *)
LEMMA LimiterInit == Init => LimiterInv
<1> SUFFICES ASSUME Init PROVE LimiterInv
  OBVIOUS
<1>1. now = 0 /\ limit \in Int
  <2>1. env.limit \in Int /\ DefaultLimit \in Int
    BY RequestsAssumption DEF Init
  <2> QED BY <2>1 DEF Init, LoadInt
<1>2. /\ requests = [ip \in Addresses |-> <<>>] /\ admitted = [ip \in Addresses |-> <<>>]
  BY DEF Init, NewRateLimiter
<1>3. Tallies(<<>>, <<>>, 0, limit)
  <2>1. \A S : Len(Kept(<<>>, S)) = 0
    BY KeptOfNothing
  <2> QED BY <1>1, <2>1 DEF Tallies
<1> QED BY <1>1, <1>2, <1>3 DEF LimiterInv

(* The lists of the limiter are always true.                               *)
LEMMA LimiterInvariant == Spec => []LimiterInv
BY LimiterInit, LimiterStep, RequestInvariant, PTL DEF Spec

(* No window holds more admitted requests of an address than the limit.    *)
THEOREM WindowsHoldTheLimit == Spec => []AtMostLimit
<1>1. LimiterInv => AtMostLimit
  BY DEF LimiterInv, Tallies, AtMostLimit
<1> QED BY <1>1, LimiterInvariant, PTL

(* Who is refused for the limit finds limit admitted requests before it.   *)
LEMMA RefusedRightly ==
    ASSUME RequestInv, LimiterInv, [Next]_vars, NEW r \in Slots,
           conn[r].pc = "gate", conn'[r].answer = 429
    PROVE  Len(Kept(admitted[conn[r].ip], (now - Window + 1) .. now)) >= limit
<1> DEFINE ip == conn[r].ip
<1>1. /\ ip \in Addresses /\ conn[r].answer = 0
      /\ conn = [s \in Slots |-> conn[s]] /\ DOMAIN conn[r] = RequestFields
      /\ now \in Nat /\ limit \in Int /\ Tallies(requests[ip], admitted[ip], now, limit)
  BY DEF RequestInv, ConnShape, Known, LimiterInv
<1>2. ASSUME NEW s \in Slots, NEW code, Reply(s, code) PROVE s = r /\ code = 429
  BY <1>1, <1>2 DEF Reply, NoRequest
<1>3. ASSUME NEW s \in Slots, NEW l, Goto(s, l) PROVE FALSE
  BY <1>1, <1>3 DEF Goto, RequestFields
<1>4. conn' # conn
  BY <1>1
<1>5. Gate(r)
  <2>1. ASSUME NEW s \in Slots, Arrive(s) PROVE FALSE
    <3>1. PICK kind, t, address, body : conn' = [conn EXCEPT ![s] = Arrived(kind, t, address, body)]
      BY <2>1, ArrivesWith
    <3>2. Arrived(kind, t, address, body).answer = 0
      BY DEF Arrived, NoRequest
    <3> QED BY <1>1, <3>1, <3>2
  <2>2. ASSUME NEW s \in Slots, Authenticate(s) PROVE FALSE
    <3>1. s # r
      BY <2>2 DEF Authenticate
    <3>2. ASSUME NEW given, Let(s, given) PROVE FALSE
      BY <1>1, <3>1, <3>2 DEF Let
    <3> QED BY <1>2, <2>2, <3>1, <3>2 DEF Authenticate
  <2>3. ASSUME NEW s \in Slots, Handle(s) PROVE FALSE
    <3>1. s # r
      BY <2>3 DEF Handle, CreateToken, DeleteToken, Serve, Register, CheckAgent, Store,
         Announce, ListAgents, QueryAgent, CountAgent, ShowOverview, Handles
    <3>2. (\E code : Reply(s, code)) \/ \E l : Goto(s, l)
      BY <2>3, HandlersAnswer
    <3> QED BY <1>2, <1>3, <3>1, <3>2
  <2>4. ASSUME NEW s \in Slots, Gate(s) PROVE s = r
    BY <1>2, <1>3, <2>4 DEF Gate, Enter
  <2>5. \E s \in Slots : Arrive(s) \/ Authenticate(s) \/ Gate(s) \/ Handle(s)
    BY <1>4 DEF Next, Tick, PurgeTelemetry, TokenStep, vars
  <2> QED BY <2>1, <2>2, <2>3, <2>4, <2>5
<1>6. Refuse(ip)
  <2>1. ~Enter(r)
    BY <1>2, <1>3 DEF Enter
  <2> QED BY <1>5, <2>1 DEF Gate
<1>7. InWindow = Recent(now)
  BY DEF InWindow, Recent
<1>8. Len(Kept(admitted[ip], Recent(now))) >= limit
  BY <1>1, <1>6, <1>7 DEF Refuse, Valid, Tallies
<1>9. Kept(admitted[ip], Recent(now)) = Kept(admitted[ip], (now - Window + 1) .. now)
  <2> DEFINE h == admitted[ip]
             T == 0 .. now
             S == (now - Window + 1) .. now
             R == Recent(now)
  <2>1. h \in Seq(T)
    BY <1>1 DEF Tallies
  <2> HIDE DEF h
  <2>2. \A u \in T : u \in R <=> u \in S
    BY <1>1, LimiterAssumption DEF Recent
  <2> HIDE DEF T, R, S
  <2>3. \A n \in 1 .. Len(h) : h[n] \in R <=> h[n] \in S
    BY <2>1, <2>2
  <2>4. Kept(h, R) = Kept(h, S)
    BY <2>1, <2>3, KeptAlike
  <2> QED BY <2>4 DEF h, R, S
<1> QED BY <1>8, <1>9

(* A request is refused for the limit only if that many requests of its    *)
(* address were admitted in the window.                                    *)
THEOREM RefusalsAreJustified == Spec => RefusedOnlyAtLimit
<1>1. RequestInv /\ LimiterInv /\ [Next]_vars =>
        [\A r \in Slots : conn[r].pc = "gate" /\ conn'[r].answer = 429 =>
            Len(Kept(admitted[conn[r].ip], (now - Window + 1) .. now)) >= limit]_vars
  BY RefusedRightly
<1> QED BY <1>1, RequestInvariant, LimiterInvariant, PTL DEF Spec, RefusedOnlyAtLimit
=============================================================================
