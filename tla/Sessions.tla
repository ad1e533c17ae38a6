------------------------------- MODULE Sessions -------------------------------
(***************************************************************************)
(* What a token says against what the database says: login and             *)
(* create_access_token (app/api/auth.py, app/core/security.py),            *)
(* get_current_user of the API (app/core/deps.py) and the identity of the  *)
(* MCP server (mcp_server/server.py).  Users hold the role that a catalog  *)
(* query, the list of actions and a decision ask for, or do not.  The      *)
(* clock is coarse: a request is handled within one of its steps.          *)
(***************************************************************************)
EXTENDS Integers

CONSTANTS
  Users,
  TTL,          \* settings.jwt_ttl_minutes
  Initially,    \* the users and roles there may be at first
  MaxEvents     \* bound: how often users are edited or time passes

ASSUME SessionsAssumption ==
  /\ TTL \in Nat /\ MaxEvents \in Nat
  /\ Initially \subseteq [active : SUBSET Users, members : SUBSET Users]

VARIABLES
  now,          \* the time
  active,       \* users.is_active
  members,      \* user_roles: who holds the role
  lost,         \* history: when a user last ceased to be active with the role
  events,       \* how often users were edited and time has passed
  issued        \* the tokens that exist, in a browser or in the environment of an MCP server

sessionVars == <<now, active, members, lost, events, issued>>

Token == [user : Users, member : BOOLEAN, exp : 0..(MaxEvents + TTL)]

Entitled(u) == u \in active \cap members

\* create_access_token: roles as they are at login, and the time at which they lapse.
CreateAccessToken(u) == [user |-> u, member |-> u \in members, exp |-> now + TTL]

\* Mutant of Decodes: the time of expiry is not verified.
DecodesAnyTime(t) == t \in issued

\* decode_access_token: the token was signed here and has not expired.
Decodes(t) == t \in issued /\ now < t.exp

\* get_current_user: the token names the user, the database says the rest.
CurrentUser(t) == Decodes(t) /\ t.user \in active
Authorized(t) == CurrentUser(t) /\ t.user \in members

\* run_catalog_query of the MCP server: the token says everything.
CatalogAnswers(t) == Decodes(t) /\ t.member

SessionInit ==
  /\ now = 0
  /\ \E users \in Initially : active = users.active /\ members = users.members
  /\ lost = [u \in Users |-> -1 - TTL]
  /\ events = 0
  /\ issued = {}

\* POST /api/auth/login with the right password.
Issue(u) ==
  /\ u \in active
  /\ issued' = issued \cup {CreateAccessToken(u)}
  /\ UNCHANGED <<now, active, members, lost, events>>

Event == events < MaxEvents /\ events' = events + 1

\* An operator grants or revokes the role, activates or deactivates a user.
EditUser ==
  /\ Event
  /\ \E u \in Users :
       /\ \/ members' \in {members \cup {u}, members \ {u}} \ {members} /\ active' = active
          \/ active' \in {active \cup {u}, active \ {u}} \ {active} /\ members' = members
       /\ lost' = IF Entitled(u) THEN [lost EXCEPT ![u] = now] ELSE lost
  /\ UNCHANGED <<now, issued>>

Tick ==
  /\ Event
  /\ now' = now + 1
  /\ UNCHANGED <<active, members, lost, issued>>

\* What else is counted, of a module that extends this one.
Otherwise == Event /\ UNCHANGED <<now, active, members, lost, issued>>

SessionNext == EditUser \/ Tick \/ Otherwise \/ \E u \in active : Issue(u)

SessionSpec == SessionInit /\ [][SessionNext]_sessionVars

SessionTypeOK ==
  /\ now \in 0..events
  /\ active \subseteq Users /\ members \subseteq Users
  /\ lost \in [Users -> Int] /\ \A u \in Users : lost[u] <= now
  /\ events \in 0..MaxEvents
  /\ issued \subseteq Token

\* ADR 0002: role changes take effect within the life of a token.  The MCP server answers a
\* catalog query only to someone who is active with the role, or was so less than TTL ago,
\* although it never looks at either.
RightsEndWithTheToken ==
  \A t \in issued : CatalogAnswers(t) => Entitled(t.user) \/ now - lost[t.user] < TTL

\* README.md: "MCP derives identity from the token and calculates permissions from the
\* database, using the same path as the API."
McpAnswersAsTheApi == \A t \in issued : CatalogAnswers(t) => Authorized(t)
===============================================================================
