-------------------------------- MODULE Client --------------------------------
(***************************************************************************)
(* One tab of the Angular client: the session (auth.service.ts,            *)
(* auth.interceptor.ts, auth.guard.ts), the login page and the approvals   *)
(* page (approvals.component.ts), with the requests under way between them *)
(* and the server of Sessions.  Answers come in any order, late, or never  *)
(* (the browser then reports a failure).  Of an action of the server only  *)
(* its being pending matters here (Approvals has the rest).                *)
(***************************************************************************)
EXTENDS Sessions, Sequences, FiniteSets

CONSTANTS
  Filters, Amounts,   \* choices in the list's filter and in the form
  MaxWaiting          \* bound: the requests under way when the user does it

\* What the filter and the form show at first is among the choices.
ASSUME ClientAssumption == "all" \in Filters /\ 1 \in Amounts

VARIABLES
  pending, count,     \* agent_actions: ids in pending_approval, and how many there are
  net,                \* the requests sent, in order
  token, me,          \* AuthService: _token (and localStorage), _me
  signingIn,          \* AuthService: _loading
  page, going,        \* the router: the page shown, and where a navigation leads
  view,               \* the ApprovalsComponent of the page
  hasty               \* history: the user did not wait for the end of a login

tables == <<now, active, members, lost, issued, pending, count>>
server == <<tables, events>>
clientVars == <<token, me, signingIn, page, going, view, hasty>>
vars == <<server, net, clientVars>>

-----------------------------------------------------------------------------
(* Requests                                                                *)

Nobody == "none"
NoToken == [user |-> Nobody, member |-> FALSE, exp |-> -1]
Nowhere == "nowhere"
Pages == {"start", "login", "approvals", "other"}

\* `by` is who listens: a view, AuthService, or after a reload nobody.
Request(kind, t, by, arg) ==
  [kind |-> kind, token |-> t, by |-> by, arg |-> arg, status |-> "sent", body |-> <<>>]
Over == [kind |-> "over"]
TheService == -1
Unheard == 0

InFlight == {i \in DOMAIN net : net[i] # Over}
Answered(i) == i \in InFlight /\ net[i].status # "sent"

Answer(i, status, body) == net' = [net EXCEPT ![i].status = status, ![i].body = body]

-----------------------------------------------------------------------------
(* The server, and the way to it                                           *)

\* The answer carries the token last issued.
Login(i) ==
  LET u == net[i].arg IN
    IF u \in active
    THEN Issue(u) /\ Answer(i, "ok", <<CreateAccessToken(u)>>)
    ELSE UNCHANGED sessionVars /\ Answer(i, "401", <<>>)

\* get_current_user, and then the endpoint.  A decision may be refused for more reasons than
\* the role, and an action created need not be pending (Approvals).
Refuse(i) ==
  /\ ~CurrentUser(net[i].token)
  /\ Answer(i, "401", <<>>)
  /\ UNCHANGED <<pending, count>>

Serve(i) ==
  LET m == net[i]
      asked == m.token.user \in members
  IN  /\ CurrentUser(m.token)
      /\ \/ m.kind = "me" /\ Answer(i, "ok", <<m.token.user>>) /\ UNCHANGED <<pending, count>>
         \/ m.kind = "preview" /\ Answer(i, "ok", <<m.arg>>) /\ UNCHANGED <<pending, count>>
         \/ /\ m.kind = "list" /\ asked
            /\ Answer(i, "ok", <<[filter |-> m.arg, pending |-> pending]>>)
            /\ UNCHANGED <<pending, count>>
         \/ m.kind = "list" /\ ~asked /\ Answer(i, "403", <<>>) /\ UNCHANGED <<pending, count>>
         \/ /\ m.kind = "decide" /\ asked /\ m.arg \in pending
            /\ Answer(i, "ok", <<>>) /\ pending' = pending \ {m.arg} /\ count' = count
         \/ m.kind = "decide" /\ Answer(i, "403", <<>>) /\ UNCHANGED <<pending, count>>
         \/ /\ m.kind = "create" /\ Answer(i, "ok", <<>>) /\ count' = count + 1
            /\ pending' \in {pending, pending \cup {count'}}

\* A request is one transaction, committed before it is answered.
Handle(i) ==
  /\ i \in InFlight /\ net[i].status = "sent"
  /\ IF net[i].kind = "login" THEN Login(i) /\ UNCHANGED <<pending, count>>
     ELSE (Refuse(i) \/ Serve(i)) /\ UNCHANGED sessionVars
  /\ UNCHANGED clientVars

\* A request or its answer is lost.
Lose(i) ==
  /\ Event
  /\ i \in InFlight /\ net[i].status # "failed"
  /\ Answer(i, "failed", <<>>)
  /\ UNCHANGED <<tables, clientVars>>

SomeoneDecides ==
  /\ Event
  /\ \E a \in pending : pending' = pending \ {a}
  /\ UNCHANGED <<now, active, members, lost, issued, count, net, clientVars>>

-----------------------------------------------------------------------------
(* The session and the router                                              *)

NoView == [id |-> 0]

\* load(): the request goes out with the token of the moment.
Load(v, t) == Request("list", t, v.id, v.filter)
Loading(v) == [v EXCEPT !.loading = TRUE]

\* A navigation to where one already is, is none.
GoTo(p) == going' = IF p = page THEN Nowhere ELSE p

Logout == token' = NoToken /\ me' = Nobody /\ GoTo("login")

NewView(id) ==
  [id |-> id, filter |-> "all", loading |-> TRUE, creating |-> FALSE, amount |-> 1, tier |-> 0,
   rows |-> <<>>, confirmed |-> {}, missed |-> FALSE]

\* The navigation ends: the guard looks for a token, the page before is destroyed, the
\* constructor of the approvals page loads the list.
Arrive ==
  /\ going # Nowhere
  /\ LET to == IF going # "login" /\ token = NoToken THEN "login" ELSE going
         v == NewView(Len(net) + 1)
     IN  /\ page' = to
         /\ CASE to = page -> view' = view /\ net' = net
              [] to = "approvals" /\ to # page -> view' = v /\ net' = Append(net, Load(v, token))
              [] OTHER -> view' = NoView /\ net' = net
  /\ going' = Nowhere
  /\ UNCHANGED <<server, token, me, signingIn, hasty>>

\* The constructor of AppComponent: refreshMe with the token of the storage.
Start(t) ==
  /\ token' = t /\ me' = Nobody
  /\ net' = [i \in DOMAIN net |-> IF net[i] = Over THEN Over ELSE [net[i] EXCEPT !.by = Unheard]]
            \o IF t = NoToken THEN <<>> ELSE <<Request("me", t, TheService, "start")>>
  /\ signingIn' = FALSE /\ page' = "start" /\ view' = NoView

-----------------------------------------------------------------------------
(* What the user does                                                      *)

\* MaxEvents bounds these too.
Click ==
  /\ Event /\ Cardinality(InFlight) < MaxWaiting
  /\ hasty' = (hasty \/ signingIn \/ (page = "login" /\ going # Nowhere))

Send(m) == net' = Append(net, m)

\* The button is disabled while a login is under way; the Enter key is not.  A wrong password
\* stands for no user.
Submit ==
  /\ Click /\ page = "login"
  /\ \E u \in Users \cup {Nobody} : Send(Request("login", token, TheService, u))
  /\ signingIn' = TRUE
  /\ UNCHANGED <<tables, token, me, page, going, view>>

ClickLogout ==
  /\ Click /\ token # NoToken
  /\ Logout
  /\ UNCHANGED <<tables, net, signingIn, page, view>>

Follow ==
  /\ Click /\ token # NoToken
  /\ \E p \in {"approvals", "other"} : GoTo(p)
  /\ UNCHANGED <<tables, net, token, me, signingIn, page, view>>

\* Storage may have been blocked: then the token is gone.
Reload ==
  /\ Click
  /\ \E t \in {token, NoToken} : Start(t)
  /\ going' = IF page = "start" THEN going ELSE page
  /\ UNCHANGED tables

OnPage ==
  /\ Click /\ page = "approvals"
  /\ UNCHANGED <<tables, token, me, signingIn, page, going>>

SetFilter ==
  /\ OnPage
  /\ \E f \in Filters :
       LET v == [view EXCEPT !.filter = f]
       IN  view' = Loading(v) /\ Send(Load(v, token))

OnAmount ==
  /\ OnPage
  /\ \E a \in Amounts \ {view.amount} : view' = [view EXCEPT !.amount = a, !.tier = 0]
  /\ UNCHANGED net

Preview ==
  /\ OnPage
  /\ Send(Request("preview", token, view.id, view.amount))
  /\ UNCHANGED view

Create ==
  /\ OnPage /\ ~view.creating
  /\ view' = [view EXCEPT !.creating = TRUE]
  /\ Send(Request("create", token, view.id, view.amount))

\* The table is hidden while the list is loading.
Decide ==
  /\ OnPage /\ ~view.loading /\ view.rows # <<>>
  /\ \E a \in view.rows[1].pending : Send(Request("decide", token, view.id, a))
  /\ UNCHANGED view

UserActs ==
  \/ Submit \/ ClickLogout \/ Follow \/ Reload
  \/ SetFilter \/ OnAmount \/ Preview \/ Create \/ Decide

-----------------------------------------------------------------------------
(* Answers                                                                 *)

\* The answer has been dealt with, and perhaps another request sent.
Done(i, more) == net' = [net EXCEPT ![i] = Over] \o more

\* Mutant of Listens: one list for all views, as a service would keep it.
ListensAnyway(i) == page = "approvals" /\ net[i].by # Unheard

\* The component that sent the request is still there.
Listens(i) == page = "approvals" /\ net[i].by = view.id

LoginAnswered(i) ==
  /\ net[i].kind = "login"
  /\ IF net[i].status = "ok"
     THEN LET t == net[i].body[1] IN
            /\ token' = t
            /\ Done(i, <<Request("me", t, TheService, "login")>>)
            /\ UNCHANGED <<me, signingIn>>
     ELSE /\ token' = NoToken /\ me' = Nobody /\ signingIn' = FALSE
          /\ Done(i, <<>>)
  /\ UNCHANGED <<going, view>>

\* The login page goes on to its target whether refreshMe has logged out or not.
MeAnswered(i) ==
  /\ net[i].kind = "me"
  /\ IF net[i].status = "ok" THEN me' = net[i].body[1] /\ UNCHANGED token
     ELSE token' = NoToken /\ me' = Nobody
  /\ IF net[i].arg = "login"
     THEN signingIn' = FALSE /\ \E p \in {"approvals", "other"} : GoTo(p)
     ELSE /\ signingIn' = signingIn
          /\ IF net[i].status = "ok" THEN UNCHANGED going ELSE GoTo("login")
  /\ Done(i, <<>>)
  /\ UNCHANGED view

\* The interceptor: any 401 ends the session that there is now.
Intercept(i) == IF net[i].status = "401" THEN Logout ELSE UNCHANGED <<token, me, going>>

\* Lists sent after this one have been answered: this one comes out of order.
Overtaken(i) == view.rows # <<>> /\ view.rows[1].sent > i

ListAnswered(i) ==
  /\ net[i].kind = "list"
  /\ Intercept(i)
  /\ view' =
       IF ~Listens(i) THEN view
       ELSE IF net[i].status = "ok"
       THEN [view EXCEPT !.loading = FALSE, !.missed = @ \/ Overtaken(i),
               !.rows = <<[sent |-> i, user |-> net[i].token.user,
                           filter |-> net[i].body[1].filter, pending |-> net[i].body[1].pending]>>]
       ELSE [view EXCEPT !.loading = FALSE, !.missed = TRUE]
  /\ Done(i, <<>>)
  /\ UNCHANGED signingIn

PreviewAnswered(i) ==
  /\ net[i].kind = "preview"
  /\ Intercept(i)
  /\ view' = IF Listens(i) /\ net[i].status = "ok" THEN [view EXCEPT !.tier = net[i].body[1]]
             ELSE view
  /\ Done(i, <<>>)
  /\ UNCHANGED signingIn

\* Mutant of AndLoad: the list is left as it is.
ButNoLoad(i, v) == view' = (IF Listens(i) THEN v ELSE view) /\ Done(i, <<>>)

\* A component that is gone loads its list all the same.
AndLoad(i, v) ==
  IF Listens(i) THEN view' = Loading(v) /\ Done(i, <<Load(view, token)>>)
  ELSE view' = view /\ Done(i, <<Request("list", token, net[i].by, "all")>>)

\* Mutant of Created: only a success ends it.
CreatedOnly(v, status) == [v EXCEPT !.creating = status # "ok"]

Created(v, status) == [v EXCEPT !.creating = FALSE]

CreateAnswered(i) ==
  /\ net[i].kind = "create"
  /\ Intercept(i)
  /\ IF net[i].status = "ok" THEN AndLoad(i, Created(view, "ok"))
     ELSE /\ view' = IF Listens(i) THEN Created(view, net[i].status) ELSE view
          /\ Done(i, <<>>)
  /\ UNCHANGED signingIn

DecideAnswered(i) ==
  /\ net[i].kind = "decide"
  /\ Intercept(i)
  /\ IF net[i].status = "ok" THEN AndLoad(i, [view EXCEPT !.confirmed = @ \cup {net[i].arg}])
     ELSE view' = view /\ Done(i, <<>>)
  /\ UNCHANGED signingIn

\* After a reload nobody hears the answer.
Unheeded(i) ==
  /\ net[i].by = Unheard
  /\ Done(i, <<>>)
  /\ UNCHANGED <<token, me, signingIn, going, view>>

Deliver(i) ==
  /\ Answered(i)
  /\ IF net[i].by = Unheard THEN Unheeded(i)
     ELSE \/ LoginAnswered(i) \/ MeAnswered(i) \/ ListAnswered(i)
          \/ PreviewAnswered(i) \/ CreateAnswered(i) \/ DecideAnswered(i)
  /\ UNCHANGED <<server, page, hasty>>

-----------------------------------------------------------------------------
(* The specification                                                       *)

\* The application opens at a page, with a token that a session before has stored, or none.
Init ==
  /\ now = 0 /\ events = 0
  /\ \E users \in Initially : active = users.active /\ members = users.members
  /\ lost = [u \in Users |-> -1 - TTL]
  /\ pending = {1} /\ count = 1
  /\ \E t \in {NoToken} \cup {CreateAccessToken(u) : u \in active} :
       /\ token = t /\ issued = {t} \ {NoToken}
       /\ net = IF t = NoToken THEN <<>> ELSE <<Request("me", t, TheService, "start")>>
  /\ me = Nobody /\ signingIn = FALSE
  /\ page = "start" /\ going = "approvals" /\ view = NoView
  /\ hasty = FALSE

ServerActs ==
  \/ (EditUser \/ Tick) /\ UNCHANGED <<pending, count, net, clientVars>>
  \/ SomeoneDecides

Requests == 1..(4 * (MaxEvents + 1))

Next ==
  \/ UserActs \/ Arrive
  \/ \E i \in DOMAIN net : Handle(i) \/ Lose(i) \/ Deliver(i)
  \/ ServerActs

Spec == Init /\ [][Next]_vars

-----------------------------------------------------------------------------
(* Properties                                                              *)

Sent(kind) == {i \in InFlight : net[i].kind = kind /\ net[i].by # Unheard}
SentBy(v, kind) == {i \in Sent(kind) : net[i].by = v.id}

Row == [sent : Requests, user : Users, filter : Filters, pending : SUBSET (1..count)]
View == [id : Requests, filter : Filters, loading : BOOLEAN, creating : BOOLEAN,
         amount : Amounts, tier : Amounts \cup {0}, rows : Seq(Row),
         confirmed : SUBSET (1..count), missed : BOOLEAN]

\* Types; and no spinner without the request that it waits for, which alone can end it.
TypeOK ==
  /\ SessionTypeOK
  /\ pending \subseteq 1..count
  /\ token \in Token \cup {NoToken} /\ me \in Users \cup {Nobody}
  /\ page \in Pages /\ going \in Pages \cup {Nowhere}
  /\ hasty \in BOOLEAN
  /\ Len(net) \in {0} \cup Requests
  /\ IF page # "approvals" THEN view = NoView
     ELSE /\ view \in View /\ Len(view.rows) <= 1
          /\ view.loading => SentBy(view, "list") # {}
          /\ view.creating => Cardinality(SentBy(view, "create")) = 1
  /\ signingIn => Sent("login") # {} \/ \E i \in Sent("me") : net[i].arg = "login"

\* The list that a page shows was read by the user in whose name its buttons act, late answers
\* to a former user notwithstanding: as long as the user waits for a login to end.
ListIsOfTheSession ==
  page = "approvals" /\ view.rows # <<>> /\ token # NoToken /\ ~hasty =>
    view.rows[1].user = token.user

\* With all lists answered, in order, the page shows what its filter asks for, and no decision
\* of its own that was confirmed is open again.
QuietListIsRight ==
  page = "approvals" /\ view.rows # <<>> /\ ~view.missed /\ SentBy(view, "list") = {} =>
    /\ view.rows[1].filter = view.filter
    /\ view.rows[1].pending \cap view.confirmed = {}

-----------------------------------------------------------------------------
(* What comments say and the code does not do                              *)

\* approvals.component.ts: "Clear the preview when the amount changes so it cannot become
\* stale."
PreviewIsOfTheAmount == page = "approvals" => view.tier \in {0, view.amount}

\* app.component.ts: "the interceptor logs out expired tokens" - and with the late answer to
\* one of these the session begun since.
OnlyExpiredTokensLogOut ==
  [][\A i \in InFlight :
       net'[i] = Over /\ net[i].token # token /\ net[i].kind # "login" => token' = token]_vars

\* auth.service.ts: roles on the client are what the user sees - perhaps those of another.
IdentityIsOfTheSession == token # NoToken /\ me # Nobody /\ ~hasty => me = token.user
===============================================================================
