---------------------------- MODULE Client_proofs ----------------------------
(***************************************************************************)
(* Proofs about Sessions and Client: a token grants what its user held at  *)
(* most TTL ago, whatever the client, the network and the operators do;    *)
(* and what the approvals page shows, whatever is clicked and whenever it  *)
(* is answered, by the inductive invariant Inv below.                      *)
(***************************************************************************)
EXTENDS Client, SequenceTheorems, FiniteSetTheorems, TLAPS

\* What a token says was so when it was issued, and has been so since or was lost later.
TokenInv ==
  \A t \in issued :
    t.member => \/ Entitled(t.user) /\ t.exp <= now + TTL
                \/ t.exp <= lost[t.user] + TTL

SessionInv == SessionTypeOK /\ TokenInv

\* A token is issued to someone active, with the role if they hold it.
LEMMA CreatedTokenOK ==
  ASSUME NEW u \in Users, now \in 0..MaxEvents
  PROVE  CreateAccessToken(u) \in Token
<1>1. now + TTL \in 0..(MaxEvents + TTL)
  BY SessionsAssumption
<1>2. (u \in members) \in BOOLEAN
  OBVIOUS
<1> HIDE DEF Token
<1>3. \A m \in BOOLEAN : [user |-> u, member |-> m, exp |-> now + TTL] \in Token
  BY <1>1 DEF Token
<1>4. [user |-> u, member |-> u \in members, exp |-> now + TTL] \in Token
  BY <1>2, <1>3, Zenon
<1> QED BY <1>4 DEF CreateAccessToken

LEMMA NewToken ==
  ASSUME NEW u \in active
  PROVE  LET t == CreateAccessToken(u)
         IN  t.user = u /\ t.exp = now + TTL /\ (t.member => Entitled(u))
BY DEF CreateAccessToken, Entitled

\* Initially there are no tokens, or those of the storage, just issued.
LEMMA SessionStart ==
  ASSUME now = 0, events = 0, lost = [u \in Users |-> -1 - TTL],
         \E users \in Initially : active = users.active /\ members = users.members,
         issued \subseteq {CreateAccessToken(u) : u \in active}
  PROVE  SessionInv
<1>2. active \subseteq Users /\ members \subseteq Users
  BY SessionsAssumption
<1>3. ASSUME SessionTypeOK PROVE TokenInv
  <2>1. ASSUME NEW t \in issued, t.member
        PROVE  Entitled(t.user) /\ t.exp <= now + TTL
    <3>1. PICK u \in active : t = CreateAccessToken(u)
      OBVIOUS
    <3>2. t.user = u /\ t.exp = now + TTL /\ Entitled(u)
      BY <2>1, <3>1, NewToken
    <3> QED BY <3>2, SessionsAssumption
  <2> QED BY <2>1 DEF TokenInv
<1>4. lost \in [Users -> Int] /\ now \in 0..events /\ events \in 0..MaxEvents
  BY SessionsAssumption
<1>5. \A u \in active : CreateAccessToken(u) \in Token
  BY <1>2, <1>4, CreatedTokenOK, SessionsAssumption
<1>6. issued \subseteq Token
  BY <1>5
<1>7. ASSUME NEW u \in Users PROVE lost[u] <= now
  <2>1. lost[u] = -1 - TTL
    OBVIOUS
  <2>2. TTL \in Nat
    BY SessionsAssumption
  <2> QED BY <2>1, <2>2, SMT
<1>8. SessionTypeOK
  BY <1>2, <1>4, <1>6, <1>7 DEF SessionTypeOK
<1> QED BY <1>3, <1>8 DEF SessionInv

\* Whatever happens to users, tokens and the clock keeps the invariant.
LEMMA SessionStep ==
  ASSUME SessionInv, [SessionNext]_sessionVars
  PROVE  SessionInv'
<1> USE SessionsAssumption DEF SessionInv
<1>1. CASE EditUser
  <2>1. PICK u \in Users :
          /\ \/ members' \in {members \cup {u}, members \ {u}} \ {members} /\ active' = active
             \/ active' \in {active \cup {u}, active \ {u}} \ {active} /\ members' = members
          /\ lost' = IF Entitled(u) THEN [lost EXCEPT ![u] = now] ELSE lost
    BY <1>1 DEF EditUser
  <2>2. SessionTypeOK'
    BY <1>1, <2>1 DEF EditUser, Event, SessionTypeOK
  <2>3. ASSUME NEW t \in issued', t.member
        PROVE  \/ Entitled(t.user)' /\ t.exp <= now' + TTL
               \/ t.exp <= lost'[t.user] + TTL
    <3>1. t \in issued /\ now' = now /\ t.user \in Users /\ t.exp \in Int
      BY <1>1, <2>3 DEF EditUser, SessionTypeOK, Token
    <3>2. CASE t.user = u /\ Entitled(u)
      <4>1. t.exp <= now + TTL \/ t.exp <= lost[u] + TTL
        BY <2>3, <3>1, <3>2 DEF TokenInv
      <4>2. lost[u] \in Int /\ lost[u] <= now /\ now \in Int
        BY DEF SessionTypeOK
      <4>3. lost'[u] = now
        BY <2>1, <3>2 DEF SessionTypeOK
      <4> QED BY <3>1, <3>2, <4>1, <4>2, <4>3
    <3>3. CASE t.user = u /\ ~Entitled(u)
      BY <2>1, <2>3, <3>1, <3>3 DEF TokenInv
    <3>4. CASE t.user # u
      BY <2>1, <2>3, <3>1, <3>4 DEF TokenInv, Entitled, SessionTypeOK
    <3> QED BY <3>2, <3>3, <3>4
  <2> QED BY <2>2, <2>3 DEF TokenInv
<1>2. CASE Tick
  <2>1. SessionTypeOK'
    BY <1>2 DEF Tick, Event, SessionTypeOK, Token
  <2>2. TokenInv'
    BY <1>2 DEF Tick, Event, SessionTypeOK, Token, TokenInv, Entitled
  <2> QED BY <2>1, <2>2
<1>3. CASE Otherwise
  BY <1>3 DEF Otherwise, Event, SessionTypeOK, Token, TokenInv, Entitled
<1>4. ASSUME NEW u \in active, Issue(u) PROVE SessionInv'
  <2>1. SessionTypeOK'
    BY <1>4, CreatedTokenOK DEF Issue, SessionTypeOK
  <2>2. TokenInv'
    <3>1. issued' = issued \cup {CreateAccessToken(u)}
          /\ UNCHANGED <<now, active, members, lost>>
      BY <1>4 DEF Issue
    <3>2. ASSUME NEW t \in issued', t.member
          PROVE  \/ Entitled(t.user) /\ t.exp <= now + TTL
                 \/ t.exp <= lost[t.user] + TTL
      <4>1. CASE t \in issued
        BY <3>2, <4>1 DEF TokenInv
      <4>2. CASE t = CreateAccessToken(u)
        BY <3>2, <4>2, NewToken DEF SessionTypeOK
      <4> QED BY <3>1, <4>1, <4>2
    <3> QED BY <3>1, <3>2 DEF TokenInv, Entitled
  <2> QED BY <2>1, <2>2
<1>5. CASE UNCHANGED sessionVars
  BY <1>5 DEF sessionVars, SessionTypeOK, Token, TokenInv, Entitled
<1> QED BY <1>1, <1>2, <1>3, <1>4, <1>5 DEF SessionNext

\* A token that has not expired was good less than TTL ago.
LEMMA InvBoundsRights == SessionInv => RightsEndWithTheToken
BY SessionsAssumption
DEF SessionInv, SessionTypeOK, TokenInv, RightsEndWithTheToken, CatalogAnswers, Decodes, Token

\* The client and the network do to users, tokens and the clock what Sessions allows.
LEMMA ClientIsSessions == [Next]_vars => [SessionNext]_sessionVars
<1> SUFFICES ASSUME [Next]_vars PROVE [SessionNext]_sessionVars
  OBVIOUS
<1>1. CASE UserActs
  BY <1>1 DEF UserActs, Submit, ClickLogout, Follow, Reload, OnPage, SetFilter, OnAmount,
     Preview, Create, Decide, Click, tables, SessionNext, Otherwise
<1>2. CASE Arrive
  BY <1>2 DEF Arrive, server, tables, sessionVars
<1>3. ASSUME NEW i \in DOMAIN net, Handle(i) PROVE [SessionNext]_sessionVars
  <2>1. CASE net[i].kind = "login" /\ net[i].arg \in active
    <3>1. Issue(net[i].arg)
      BY <1>3, <2>1 DEF Handle, Login
    <3> QED BY <3>1 DEF SessionNext, Issue
  <2>2. CASE ~(net[i].kind = "login" /\ net[i].arg \in active)
    BY <1>3, <2>2 DEF Handle, Login
  <2> QED BY <2>1, <2>2
<1>4. ASSUME NEW i \in DOMAIN net, Lose(i) PROVE [SessionNext]_sessionVars
  BY <1>4 DEF Lose, tables, SessionNext, Otherwise
<1>5. ASSUME NEW i \in DOMAIN net, Deliver(i) PROVE [SessionNext]_sessionVars
  BY <1>5 DEF Deliver, server, tables, sessionVars
<1>6. CASE ServerActs
  BY <1>6 DEF ServerActs, SomeoneDecides, SessionNext, Otherwise
<1>7. CASE UNCHANGED vars
  BY <1>7 DEF vars, server, tables, sessionVars
<1> QED BY <1>1, <1>2, <1>3, <1>4, <1>5, <1>6, <1>7 DEF Next

\* A browser starts with a token just issued, or none.
LEMMA ClientStarts == Init => SessionInv
<1> SUFFICES ASSUME Init PROVE SessionInv
  OBVIOUS
<1>1. PICK t \in {NoToken} \cup {CreateAccessToken(u) : u \in active} : issued = {t} \ {NoToken}
  BY DEF Init
<1>2. issued \subseteq {CreateAccessToken(u) : u \in active}
  BY <1>1
<1> QED BY <1>2, SessionStart DEF Init

LEMMA ClientKeepsInv == Spec => []SessionInv
<1>1. SessionInv /\ [Next]_vars => SessionInv'
  BY ClientIsSessions, SessionStep
<1> QED BY <1>1, ClientStarts, PTL DEF Spec

\* Whoever is answered a catalog query by the MCP server, which looks only at the token, is
\* active with the role or was so less than the life of a token ago: for any users, any life
\* of tokens, and any course of logins, edits and requests.
THEOREM RightsEnd == Spec => []RightsEndWithTheToken
BY ClientKeepsInv, InvBoundsRights, PTL

-----------------------------------------------------------------------------
(* The client's page: the inductive invariant                              *)

IsSeq(s) == \E S : s \in Seq(S)
Kinds == {"login", "me", "list", "preview", "create", "decide"}
Statuses == {"sent", "ok", "401", "403", "failed"}

ArgOK(m) ==
  /\ m.kind = "login" => m.arg \in Users \cup {Nobody}
  /\ m.kind = "list" => m.arg \in Filters
  /\ m.kind \in {"preview", "create"} => m.arg \in Amounts
  /\ m.kind = "decide" => m.arg \in 1..count

\* What an answer to m may be: what was asked for, and what was decided is no more open.
AnswerOK(m, status, body) ==
  status = "ok" =>
    /\ m.kind = "login" => \E t \in Token : body = <<t>>
    /\ m.kind # "login" => m.token # NoToken
    /\ m.kind = "me" => body = <<m.token.user>>
    /\ m.kind = "list" => \E p \in SUBSET (1..count) : body = <<[filter |-> m.arg, pending |-> p]>>
    /\ m.kind = "preview" => body = <<m.arg>>
    /\ m.kind = "decide" => m.arg \notin pending

MessageOK(m) ==
  /\ m = [kind |-> m.kind, token |-> m.token, by |-> m.by, arg |-> m.arg,
          status |-> m.status, body |-> m.body]
  /\ m.kind \in Kinds /\ m.status \in Statuses
  /\ m.token \in Token \cup {NoToken}
  /\ m.by \in -1..Len(net)
  /\ ArgOK(m) /\ AnswerOK(m, m.status, m.body)

NetOK == IsSeq(net) /\ \A i \in InFlight : MessageOK(net[i])

TabOK ==
  /\ count \in Nat /\ pending \subseteq 1..count
  /\ token \in Token \cup {NoToken} /\ me \in Users \cup {Nobody}
  /\ page \in Pages /\ going \in Pages \cup {Nowhere}
  /\ signingIn \in BOOLEAN /\ hasty \in BOOLEAN

\* The requests that a login under way consists of.  A user who waits has one of them.
Signs(m) == (m.kind = "login" \/ (m.kind = "me" /\ m.arg = "login")) /\ m.by # Unheard
Signing == {i \in InFlight : Signs(net[i])}

SigningOK ==
  /\ signingIn => Signing # {}
  /\ ~hasty => /\ signingIn => page = "login" /\ going = Nowhere
               /\ Signing # {} => signingIn
               /\ \A i, j \in Signing : i = j

RowOK(r) ==
  /\ r = [sent |-> r.sent, user |-> r.user, filter |-> r.filter, pending |-> r.pending]
  /\ r.sent \in 1..Len(net) /\ r.user \in Users /\ r.filter \in Filters
  /\ r.pending \subseteq 1..count

ViewTyped ==
  /\ view = [id |-> view.id, filter |-> view.filter, loading |-> view.loading,
             creating |-> view.creating, amount |-> view.amount, tier |-> view.tier,
             rows |-> view.rows, confirmed |-> view.confirmed, missed |-> view.missed]
  /\ view.id \in 1..Len(net)
  /\ view.filter \in Filters
  /\ view.loading \in BOOLEAN /\ view.creating \in BOOLEAN /\ view.missed \in BOOLEAN
  /\ view.amount \in Amounts /\ view.tier \in Amounts \cup {0}
  /\ view.rows = <<>> \/ (view.rows = <<view.rows[1]>> /\ RowOK(view.rows[1]))
  /\ view.confirmed \subseteq 1..count

Lists == SentBy(view, "list")
Creates == SentBy(view, "create")

Spinners ==
  /\ view.loading => Lists # {}
  /\ view.creating <=> Creates # {}
  /\ \A i, j \in Creates : i = j

\* The list that is shown and those that are asked for are of the user of the token.
OfTheSession ==
  ~hasty /\ token # NoToken =>
    /\ \A i \in Lists : net[i].token.user = token.user
    /\ view.rows # <<>> => view.rows[1].user = token.user

\* The list that is shown is the one to show, or the one asked for last will be.
Fresh(p) == p \cap view.confirmed = {}
Newest ==
  \E i \in Lists :
    /\ \A j \in Lists : j <= i
    /\ view.rows # <<>> => view.rows[1].sent < i
    /\ net[i].arg = view.filter
    /\ net[i].status = "ok" => Fresh(net[i].body[1].pending)
Shown ==
  /\ view.rows # <<>> /\ view.rows[1].filter = view.filter /\ Fresh(view.rows[1].pending)
  /\ \A j \in Lists : j < view.rows[1].sent
UpToDate ==
  /\ Fresh(pending)
  /\ ~view.missed => Newest \/ Shown

ViewOK ==
  IF page = "approvals" THEN ViewTyped /\ Spinners /\ OfTheSession /\ UpToDate ELSE view = NoView

TabInv == NetOK /\ TabOK /\ SigningOK /\ ViewOK
ClientInv == SessionTypeOK /\ TabInv

-----------------------------------------------------------------------------
(* What the steps do to the requests                                       *)

LEMMA Length ==
  ASSUME NEW s, IsSeq(s)
  PROVE  Len(s) \in Nat /\ DOMAIN s = 1..Len(s)
<1>1. PICK S : s \in Seq(S)
  BY DEF IsSeq
<1> QED BY <1>1, LenProperties

LEMMA Concatenated ==
  ASSUME NEW s, IsSeq(s), NEW t, IsSeq(t)
  PROVE  /\ IsSeq(s \o t) /\ Len(s \o t) = Len(s) + Len(t)
         /\ \A i \in 1..Len(s) : (s \o t)[i] = s[i]
         /\ \A i \in 1..Len(t) : (s \o t)[Len(s) + i] = t[i]
<1>1. PICK S, T : s \in Seq(S) /\ t \in Seq(T)
  BY DEF IsSeq
<1> DEFINE U == S \cup T
<1>2. s \in Seq(U) /\ t \in Seq(U)
  BY <1>1, SeqMonotonic
<1> HIDE DEF U
<1>3. /\ s \o t \in Seq(U)
      /\ Len(s \o t) = Len(s) + Len(t)
      /\ \A i \in 1..Len(s) + Len(t) : (s \o t)[i] = IF i <= Len(s) THEN s[i] ELSE t[i - Len(s)]
  BY <1>2, ConcatProperties
<1>4. Len(s) \in Nat /\ Len(t) \in Nat
  BY <1>2, LenProperties
<1>5. \A i \in 1..Len(s) : (s \o t)[i] = s[i]
  BY <1>3, <1>4
<1>6. \A i \in 1..Len(t) : (s \o t)[Len(s) + i] = t[i]
  <2> SUFFICES ASSUME NEW i \in 1..Len(t) PROVE (s \o t)[Len(s) + i] = t[i]
    OBVIOUS
  <2>1. Len(s) + i \in 1..Len(s) + Len(t) /\ ~(Len(s) + i <= Len(s)) /\ Len(s) + i - Len(s) = i
    BY <1>4
  <2> QED BY <1>3, <2>1
<1> QED BY <1>3, <1>5, <1>6 DEF IsSeq

LEMMA OneOrNone ==
  /\ IsSeq(<<>>) /\ Len(<<>>) = 0
  /\ \A m : IsSeq(<<m>>) /\ Len(<<m>>) = 1 /\ <<m>>[1] = m
<1>1. <<>> \in Seq({}) /\ Len(<<>>) = 0
  OBVIOUS
<1>2. ASSUME NEW m PROVE <<m>> \in Seq({m}) /\ Len(<<m>>) = 1 /\ <<m>>[1] = m
  OBVIOUS
<1> QED BY <1>1, <1>2 DEF IsSeq

\* The request `gone` (0: none) is over, and those in `more` are sent.
Change(gone, more) ==
  /\ IsSeq(net') /\ Len(net') = Len(net) + Len(more)
  /\ \A j \in 1..Len(net) : net'[j] = IF j = gone THEN Over ELSE net[j]
  /\ \A j \in 1..Len(more) : net'[Len(net) + j] = more[j]

LEMMA SentChange ==
  ASSUME NetOK, NEW m, net' = Append(net, m)
  PROVE  Change(0, <<m>>)
<1>1. PICK S : net \in Seq(S)
  BY DEF NetOK, IsSeq
<1> DEFINE T == S \cup {m}
<1>2. net \in Seq(T) /\ m \in T
  BY <1>1, SeqMonotonic
<1> HIDE DEF T
<1>3. /\ net' \in Seq(T) /\ Len(net') = Len(net) + 1
      /\ \A j \in 1..Len(net) : net'[j] = net[j]
      /\ net'[Len(net) + 1] = m
  BY <1>2, AppendProperties
<1>4. Len(net) \in Nat
  BY <1>2, LenProperties
<1>5. \A j \in 1..Len(net) : j # 0
  BY <1>4
<1>6. \A j \in 1..1 : j = 1
  OBVIOUS
<1>7. Len(<<m>>) = 1 /\ <<m>>[1] = m
  BY OneOrNone
<1> QED BY <1>3, <1>4, <1>5, <1>6, <1>7 DEF Change, IsSeq

LEMMA DoneChange ==
  ASSUME NetOK, NEW i \in DOMAIN net, NEW more, IsSeq(more), Done(i, more)
  PROVE  Change(i, more)
<1>1. PICK S : net \in Seq(S)
  BY DEF NetOK, IsSeq
<1> DEFINE T == S \cup {Over}
           s == [net EXCEPT ![i] = Over]
<1>2. net \in Seq(T) /\ Over \in T
  BY <1>1, SeqMonotonic
<1>3. i \in 1..Len(net) /\ Len(net) \in Nat
  BY <1>1, LenProperties
<1> HIDE DEF T
<1>4. /\ s \in Seq(T) /\ Len(s) = Len(net)
      /\ \A j \in 1..Len(net) : s[j] = IF j = i THEN Over ELSE net[j]
  BY <1>2, <1>3, ExceptSeq
<1>5. net' = s \o more
  BY DEF Done
<1>6. IsSeq(s)
  BY <1>4 DEF IsSeq
<1> HIDE DEF s
<1>7. /\ IsSeq(s \o more) /\ Len(s \o more) = Len(s) + Len(more)
      /\ \A j \in 1..Len(s) : (s \o more)[j] = s[j]
      /\ \A j \in 1..Len(more) : (s \o more)[Len(s) + j] = more[j]
  BY <1>6, Concatenated
<1> QED BY <1>4, <1>5, <1>7 DEF Change

\* Actions are created and decided; none is opened again.
TablesGrow ==
  /\ count' \in Nat /\ count <= count' /\ pending' \subseteq 1..count'
  /\ \A a \in pending' : a \in pending \/ a \notin 1..count

LEMMA TablesStay ==
  ASSUME TabOK, UNCHANGED <<pending, count>>
  PROVE  TablesGrow
BY DEF TabOK, TablesGrow

LEMMA MessageStays ==
  ASSUME TabOK, TablesGrow, Len(net) \in Nat, Len(net') \in Nat, Len(net) <= Len(net'),
         NEW m, MessageOK(m)
  PROVE  MessageOK(m)'
<1>1. 1..count \subseteq 1..count'
  BY DEF TabOK, TablesGrow
<1>2. -1..Len(net) \subseteq -1..Len(net')
  OBVIOUS
<1>3. ArgOK(m)'
  BY <1>1 DEF MessageOK, ArgOK
<1>4. AnswerOK(m, m.status, m.body)'
  <2> SUFFICES ASSUME m.status = "ok" PROVE AnswerOK(m, m.status, m.body)'
    BY DEF AnswerOK
  <2>1. ASSUME m.kind = "list"
        PROVE  \E p \in SUBSET (1..count') : m.body = <<[filter |-> m.arg, pending |-> p]>>
    BY <1>1, <2>1 DEF MessageOK, AnswerOK
  <2>2. ASSUME m.kind = "decide" PROVE m.arg \notin pending'
    BY <2>2 DEF MessageOK, AnswerOK, ArgOK, TablesGrow
  <2> QED BY <2>1, <2>2 DEF MessageOK, AnswerOK
<1> QED BY <1>2, <1>3, <1>4 DEF MessageOK

LEMMA ChangeKeepsNet ==
  ASSUME NetOK, TabOK, TablesGrow, NEW gone, NEW more, IsSeq(more), Change(gone, more),
         \A j \in 1..Len(more) : MessageOK(more[j])'
  PROVE  NetOK'
<1>1. Len(net) \in Nat /\ DOMAIN net = 1..Len(net) /\ Len(more) \in Nat
  BY Length DEF NetOK
<1>2. Len(net') = Len(net) + Len(more) /\ DOMAIN net' = 1..Len(net')
  BY <1>1, Length DEF Change
<1>3. ASSUME NEW j \in DOMAIN net', NEW m, m = net'[j], m # Over PROVE MessageOK(m)'
  <2>1. CASE j \in 1..Len(net)
    <3>1. m = net[j] /\ j \in InFlight
      BY <1>1, <1>3, <2>1 DEF Change, InFlight
    <3>2. MessageOK(m)
      BY <3>1 DEF NetOK
    <3> QED BY <1>1, <1>2, <3>2, MessageStays
  <2>2. CASE j \notin 1..Len(net)
    <3>1. j - Len(net) \in 1..Len(more) /\ j = Len(net) + (j - Len(net))
      BY <1>1, <1>2, <2>2
    <3>2. m = more[j - Len(net)]
      BY <1>3, <3>1 DEF Change
    <3> QED BY <3>1, <3>2
  <2> QED BY <2>1, <2>2
<1>4. \A j \in InFlight' : MessageOK(net[j])'
  BY <1>3 DEF InFlight
<1> QED BY <1>4 DEF NetOK, Change

\* Those that a view, or a user who logs in, waits for, after a change.
LEMMA InFlightAfterNone ==
  ASSUME NetOK, NEW gone, Change(gone, <<>>)
  PROVE  /\ InFlight' = InFlight \ {gone} /\ \A i \in InFlight' : net'[i] = net[i]
         /\ Len(net') = Len(net) /\ Len(net) \in Nat
<1>1. Len(net) \in Nat /\ DOMAIN net = 1..Len(net)
  BY Length DEF NetOK
<1>2. Len(net') = Len(net) /\ DOMAIN net' = 1..Len(net)
  BY <1>1, Length, OneOrNone DEF Change
<1>3. InFlight' = InFlight \ {gone} /\ \A i \in InFlight' : net'[i] = net[i]
  BY <1>1, <1>2 DEF InFlight, Change
<1> QED BY <1>1, <1>2, <1>3

LEMMA AfterNone ==
  ASSUME NetOK, NEW gone, Change(gone, <<>>), view'.id = view.id
  PROVE  /\ InFlight' = InFlight \ {gone} /\ \A i \in InFlight' : net'[i] = net[i]
         /\ Len(net') = Len(net) /\ Len(net) \in Nat
         /\ Lists' = Lists \ {gone} /\ Creates' = Creates \ {gone}
         /\ Signing' = Signing \ {gone}
<1>1. /\ InFlight' = InFlight \ {gone} /\ \A i \in InFlight' : net'[i] = net[i]
      /\ Len(net') = Len(net) /\ Len(net) \in Nat
  BY InFlightAfterNone
<1>2. Lists' = Lists \ {gone} /\ Creates' = Creates \ {gone}
  BY <1>1 DEF Lists, Creates, SentBy, Sent
<1>3. Signing' = Signing \ {gone}
  BY <1>1 DEF Signing, Signs
<1> QED BY <1>1, <1>2, <1>3

LEMMA InFlightAfterOne ==
  ASSUME NetOK, NEW gone, NEW m, Change(gone, <<m>>), m # Over, gone # Len(net) + 1
  PROVE  LET new == Len(net) + 1 IN
         /\ InFlight' = (InFlight \ {gone}) \cup {new} /\ net'[new] = m
         /\ \A i \in InFlight \ {gone} : net'[i] = net[i]
         /\ Len(net') = new /\ Len(net) \in Nat /\ \A i \in InFlight : i \in 1..Len(net)
<1> DEFINE new == Len(net) + 1
<1>1. Len(net) \in Nat /\ DOMAIN net = 1..Len(net)
  BY Length DEF NetOK
<1>2. Len(net') = new /\ DOMAIN net' = 1..new /\ net'[new] = m
  <2>1. Len(<<m>>) = 1 /\ <<m>>[1] = m /\ 1 \in 1..1
    BY OneOrNone
  <2>2. Len(net') = new /\ net'[new] = m
    BY <2>1 DEF Change
  <2> QED BY <1>1, <2>2, Length DEF Change
<1>3. \A i \in 1..Len(net) : net'[i] = IF i = gone THEN Over ELSE net[i]
  BY DEF Change
<1>4. \A i \in InFlight : i \in 1..Len(net) /\ i < new
  BY <1>1 DEF InFlight
<1>5. InFlight' = (InFlight \ {gone}) \cup {new}
  BY <1>1, <1>2, <1>3 DEF InFlight
<1>6. \A i \in InFlight \ {gone} : net'[i] = net[i]
  BY <1>3, <1>4
<1> QED BY <1>1, <1>2, <1>4, <1>5, <1>6

LEMMA AfterOne ==
  ASSUME NetOK, NEW gone, NEW m, Change(gone, <<m>>), m # Over, gone # Len(net) + 1,
         view'.id = view.id, m.by # Unheard
  PROVE  LET new == Len(net) + 1 IN
         /\ InFlight' = (InFlight \ {gone}) \cup {new} /\ net'[new] = m
         /\ \A i \in InFlight \ {gone} : net'[i] = net[i]
         /\ Len(net') = new /\ Len(net) \in Nat /\ \A i \in InFlight : i \in 1..Len(net)
         /\ Lists' = (Lists \ {gone})
              \cup (IF m.kind = "list" /\ m.by = view.id THEN {new} ELSE {})
         /\ Creates' = (Creates \ {gone})
              \cup (IF m.kind = "create" /\ m.by = view.id THEN {new} ELSE {})
         /\ Signing' = (Signing \ {gone}) \cup (IF Signs(m) THEN {new} ELSE {})
<1> DEFINE new == Len(net) + 1
<1>1. /\ InFlight' = (InFlight \ {gone}) \cup {new} /\ net'[new] = m
      /\ \A i \in InFlight \ {gone} : net'[i] = net[i]
      /\ Len(net') = new /\ Len(net) \in Nat /\ \A i \in InFlight : i \in 1..Len(net)
  BY InFlightAfterOne
<1> HIDE DEF new
<1>2. /\ Lists' = (Lists \ {gone}) \cup (IF m.kind = "list" /\ m.by = view.id THEN {new} ELSE {})
      /\ Creates' = (Creates \ {gone}) \cup (IF m.kind = "create" /\ m.by = view.id THEN {new} ELSE {})
  BY <1>1 DEF Lists, Creates, SentBy, Sent
<1>3. Signing' = (Signing \ {gone}) \cup (IF Signs(m) THEN {new} ELSE {})
  BY <1>1 DEF Signing, Signs
<1> QED BY <1>1, <1>2, <1>3 DEF new

LEMMA OverKeepsNet ==
  ASSUME NetOK, TabOK, TablesGrow, NEW gone, Change(gone, <<>>)
  PROVE  NetOK'
<1> DEFINE more == <<>>
<1>1. IsSeq(more) /\ Len(more) = 0
  BY OneOrNone
<1> HIDE DEF more
<1>2. \A j \in 1..Len(more) : MessageOK(more[j])'
  BY <1>1
<1>3. Change(gone, more)
  BY DEF more
<1> QED BY <1>1, <1>2, <1>3, ChangeKeepsNet

LEMMA SendKeepsNet ==
  ASSUME NetOK, TabOK, TablesGrow, NEW gone, NEW m, Change(gone, <<m>>), MessageOK(m)'
  PROVE  NetOK'
<1> DEFINE more == <<m>>
<1>1. IsSeq(more) /\ Len(more) = 1 /\ more[1] = m
  BY OneOrNone
<1>2. Change(gone, more)
  OBVIOUS
<1> HIDE DEF more
<1>3. PICK n : n = more[1]
  OBVIOUS
<1>4. MessageOK(n)'
  BY <1>1, <1>3
<1>5. \A j \in 1..Len(more) : more[j] = n
  BY <1>1, <1>3
<1>6. \A j \in 1..Len(more) : MessageOK(more[j])'
  BY <1>4, <1>5
<1> QED BY <1>1, <1>2, <1>6, ChangeKeepsNet

LEMMA SigningFrame ==
  ASSUME SigningOK, Signing' = Signing, signingIn' = signingIn, hasty => hasty',
         ~hasty' /\ signingIn => page' = "login" /\ going' = Nowhere
  PROVE  SigningOK'
BY DEF SigningOK

\* A list is asked for as before; if it has now been answered, with what is pending.
SameList(i) ==
  /\ net'[i].token = net[i].token /\ net'[i].arg = net[i].arg
  /\ net'[i].status = "ok" => net'[i] = net[i] \/ net'[i].body[1].pending \subseteq pending

\* A view is as right as it was if its lists are, however the tables grow and whatever the
\* form shows, and its button waits if and only if something is being created.
LEMMA FormKeepsView ==
  ASSUME ViewOK, TabOK, TablesGrow, page = "approvals", page' = page,
         Len(net) \in Nat, Len(net') \in Nat, Len(net) <= Len(net'),
         Lists' = Lists, \A i \in Lists : SameList(i),
         NEW c \in BOOLEAN, c <=> Creates' # {}, \A i, j \in Creates' : i = j,
         NEW a \in Amounts, NEW b \in Amounts \cup {0},
         view' = [view EXCEPT !.creating = c, !.amount = a, !.tier = b],
         hasty' \/ token' \in {token, NoToken}, hasty => hasty'
  PROVE  ViewOK'
<1>1. 1..count \subseteq 1..count' /\ 1..Len(net) \subseteq 1..Len(net')
  BY DEF TabOK, TablesGrow
<1>2. /\ view' = [id |-> view.id, filter |-> view.filter, loading |-> view.loading,
                  creating |-> c, amount |-> a, tier |-> b,
                  rows |-> view.rows, confirmed |-> view.confirmed, missed |-> view.missed]
      /\ view'.id = view.id /\ view'.filter = view.filter /\ view'.loading = view.loading
      /\ view'.creating = c /\ view'.amount = a /\ view'.tier = b
      /\ view'.rows = view.rows /\ view'.confirmed = view.confirmed /\ view'.missed = view.missed
  BY DEF ViewOK, ViewTyped
<1>3. ViewTyped'
  <2>1. view.rows # <<>> => RowOK(view.rows[1]) /\ view.rows = <<view.rows[1]>>
    BY DEF ViewOK, ViewTyped
  <2>2. ASSUME NEW r, RowOK(r) PROVE RowOK(r)'
    BY <1>1, <2>2 DEF RowOK
  <2>3. view.rows # <<>> => RowOK(view.rows[1])'
    BY <1>2, <2>1, <2>2
  <2> QED BY <1>1, <1>2, <2>1, <2>3 DEF ViewOK, ViewTyped
<1>4. Spinners'
  BY <1>2 DEF ViewOK, Spinners
<1>5. OfTheSession'
  BY <1>2 DEF ViewOK, OfTheSession, SameList
<1>6. UpToDate'
  <2>1. Fresh(pending) /\ Fresh(pending)'
    BY <1>2 DEF ViewOK, UpToDate, Fresh, TablesGrow, ViewTyped
  <2>2. ASSUME NEW i \in Lists,
               net[i].status = "ok" => Fresh(net[i].body[1].pending)
        PROVE  net'[i].status = "ok" => net'[i].body[1].pending \cap view.confirmed = {}
    <3>1. SameList(i)
      OBVIOUS
    <3> QED BY <2>1, <2>2, <3>1 DEF SameList, Fresh
  <2>3. Newest => Newest'
    <3> SUFFICES ASSUME Newest PROVE Newest'
      OBVIOUS
    <3>1. PICK i \in Lists :
            /\ \A j \in Lists : j <= i
            /\ view.rows # <<>> => view.rows[1].sent < i
            /\ net[i].arg = view.filter
            /\ net[i].status = "ok" => Fresh(net[i].body[1].pending)
      BY DEF Newest
    <3>2. net'[i].arg = view.filter
      BY <3>1 DEF SameList
    <3>3. net'[i].status = "ok" => net'[i].body[1].pending \cap view.confirmed = {}
      BY <2>2, <3>1
    <3> QED BY <1>2, <3>1, <3>2, <3>3 DEF Newest, Fresh
  <2>4. Shown => Shown'
    BY <1>2 DEF Shown, Fresh
  <2> QED BY <1>2, <2>1, <2>3, <2>4 DEF ViewOK, UpToDate
<1> QED BY <1>3, <1>4, <1>5, <1>6 DEF ViewOK

LEMMA ViewFrame ==
  ASSUME ViewOK, TabOK, TablesGrow, page' = page, view' = view,
         Len(net) \in Nat, Len(net') \in Nat, Len(net) <= Len(net'),
         Lists' = Lists, Creates' = Creates, \A i \in Lists : SameList(i),
         page = "approvals" => hasty' \/ token' \in {token, NoToken}, hasty => hasty'
  PROVE  ViewOK'
<1>1. CASE page = "approvals"
  <2>1. PICK c, a, b : c = view.creating /\ a = view.amount /\ b = view.tier
    OBVIOUS
  <2>2. /\ c \in BOOLEAN /\ (c <=> Creates # {}) /\ \A i, j \in Creates : i = j
        /\ a \in Amounts /\ b \in Amounts \cup {0}
    BY <1>1, <2>1 DEF ViewOK, ViewTyped, Spinners
  <2>3. view' = [view EXCEPT !.creating = c, !.amount = a, !.tier = b]
    BY <1>1, <2>1 DEF ViewOK, ViewTyped
  <2> QED BY <1>1, <2>2, <2>3, FormKeepsView
<1>2. CASE page # "approvals"
  BY <1>2 DEF ViewOK
<1> QED BY <1>1, <1>2

LEMMA SameLists ==
  ASSUME \A i \in Lists : net'[i] = net[i]
  PROVE  \A i \in Lists : SameList(i)
BY DEF SameList

LEMMA NoViewFrame ==
  ASSUME page' # "approvals", view' = NoView
  PROVE  ViewOK'
BY DEF ViewOK

\* The list is asked for anew: the request sent last, for the filter and the user of the page.
LEMMA LoadKeepsView ==
  ASSUME ViewOK, TabOK, page = "approvals", page' = page,
         UNCHANGED <<pending, count, token>>, hasty => hasty',
         Len(net) \in Nat, Len(net') = Len(net) + 1, \A i \in InFlight : i \in 1..Len(net),
         NEW f \in Filters, NEW m, net'[Len(net) + 1] = m,
         m.token = token, m.arg = f, m.status = "sent",
         Lists' = Lists \cup {Len(net) + 1}, \A i \in Lists : net'[i] = net[i],
         NEW c \in BOOLEAN, c <=> Creates' # {}, \A i, j \in Creates' : i = j,
         NEW d \in SUBSET (1..count), d \cap pending = {},
         view' = [id |-> view.id, filter |-> f, loading |-> TRUE, creating |-> c,
                  amount |-> view.amount, tier |-> view.tier, rows |-> view.rows,
                  confirmed |-> d, missed |-> view.missed]
  PROVE  ViewOK'
<1> USE DEF ViewOK
<1> DEFINE new == Len(net) + 1
<1>0. /\ view'.id = view.id /\ view'.filter = f /\ view'.loading = TRUE /\ view'.creating = c
      /\ view'.amount = view.amount /\ view'.tier = view.tier /\ view'.rows = view.rows
      /\ view'.confirmed = d /\ view'.missed = view.missed
  OBVIOUS
<1>1. ViewTyped'
  <2>1. view.rows # <<>> => RowOK(view.rows[1]) /\ view.rows = <<view.rows[1]>>
    BY DEF ViewTyped
  <2>2. ASSUME NEW r, RowOK(r) PROVE RowOK(r)'
    <3>1. 1..Len(net) \subseteq 1..Len(net')
      OBVIOUS
    <3> QED BY <2>2, <3>1 DEF RowOK
  <2>3. view.rows # <<>> => RowOK(view.rows[1])'
    BY <1>0, <2>1, <2>2
  <2>4. view.id \in 1..Len(net')
    BY DEF ViewTyped
  <2>5. view' = [id |-> view'.id, filter |-> view'.filter, loading |-> view'.loading,
                 creating |-> view'.creating, amount |-> view'.amount, tier |-> view'.tier,
                 rows |-> view'.rows, confirmed |-> view'.confirmed, missed |-> view'.missed]
    BY <1>0
  <2>6. view.rows = <<>> \/ (view.rows = <<view.rows[1]>> /\ RowOK(view.rows[1])')
    BY <2>1, <2>3
  <2>7. view'.rows = <<>> \/ (view'.rows = <<view'.rows[1]>> /\ RowOK(view.rows[1])')
    BY <1>0, <2>6
  <2>8. /\ view.amount \in Amounts /\ view.tier \in Amounts \cup {0} /\ view.missed \in BOOLEAN
    BY DEF ViewTyped
  <2> QED BY <1>0, <2>4, <2>5, <2>7, <2>8 DEF ViewTyped
<1>2. Spinners'
  BY <1>0 DEF Spinners
<1>3. OfTheSession'
  BY <1>0 DEF OfTheSession
<1>4. UpToDate'
  <2>1. Fresh(pending)'
    BY <1>0 DEF Fresh
  <2>2. new \in Lists' /\ \A j \in Lists' : j <= new
    <3>1. Lists \subseteq InFlight
      BY DEF Lists, SentBy, Sent
    <3>2. \A j \in Lists : j <= new
      BY <3>1
    <3>3. new <= new
      OBVIOUS
    <3> HIDE DEF new
    <3>4. Lists' = Lists \cup {new}
      BY DEF new
    <3> QED BY <3>2, <3>3, <3>4
  <2>3. view.rows # <<>> => view.rows[1].sent < new
    BY DEF ViewTyped, RowOK
  <2>4. Newest'
    BY <1>0, <2>2, <2>3 DEF Newest
  <2> QED BY <2>1, <2>4 DEF UpToDate
<1> QED BY <1>1, <1>2, <1>3, <1>4

LEMMA NoChange ==
  ASSUME NetOK, net' = net
  PROVE  Change(0, <<>>)
<1>1. Len(net) \in Nat
  BY Length DEF NetOK
<1>2. Len(<<>>) = 0
  BY OneOrNone
<1> QED BY <1>1, <1>2 DEF NetOK, Change

-----------------------------------------------------------------------------
(* The steps of the user                                                   *)

\* Who does not wait for a login is hasty; everyone else has none under way.
LEMMA ClickFacts ==
  ASSUME TabInv, Click
  PROVE  /\ hasty' \in BOOLEAN /\ (hasty => hasty')
         /\ ~hasty' => ~signingIn /\ Signing = {} /\ (page = "login" => going = Nowhere)
<1>1. hasty' = (hasty \/ signingIn \/ (page = "login" /\ going # Nowhere))
  BY DEF Click
<1>2. hasty' \in BOOLEAN /\ (hasty => hasty')
  BY <1>1, Zenon
<1>3. ~hasty' => ~hasty /\ ~signingIn /\ (page = "login" => going = Nowhere)
  BY <1>1, Zenon
<1> QED BY <1>2, <1>3 DEF TabInv, SigningOK

LEMMA SubmitStep ==
  ASSUME TabInv, Submit
  PROVE  TabInv'
<1>1. PICK u \in Users \cup {Nobody} : Send(Request("login", token, TheService, u))
  BY DEF Submit
<1>2. PICK m : m = Request("login", token, TheService, u)
  OBVIOUS
<1>3. /\ page = "login" /\ signingIn' = TRUE
      /\ UNCHANGED <<pending, count, token, me, page, going, view>>
  BY DEF Submit, tables
<1>4. Change(0, <<m>>)
  BY <1>1, <1>2, SentChange DEF TabInv, Send
<1>5. Len(net) \in Nat /\ Len(net') = Len(net) + 1
  BY <1>4, Length, OneOrNone DEF TabInv, NetOK, Change
<1>6. MessageOK(m)' /\ m # Over /\ Signs(m) /\ m.by # Unheard
  <2>1. token \in Token \cup {NoToken}
    BY DEF TabInv, TabOK
  <2>2. TheService \in -1..Len(net')
    BY <1>5 DEF TheService
  <2>3. MessageOK(m)' /\ m # Over /\ m.kind = "login" /\ m.by = TheService
    BY <1>2, <2>1, <2>2 DEF MessageOK, ArgOK, AnswerOK, Request, Over, Kinds, Statuses
  <2> QED BY <2>3 DEF Signs, TheService, Unheard
<1>7. NetOK'
  BY <1>3, <1>4, <1>6, SendKeepsNet, TablesStay DEF TabInv
<1>8. TabOK'
  BY <1>3, ClickFacts DEF TabInv, TabOK, Submit
<1>9. SigningOK'
  <2>1. Signing' = Signing \cup {Len(net) + 1}
    <3>1. 0 # Len(net) + 1 /\ 0 \notin InFlight
      BY <1>5, Length DEF TabInv, NetOK, InFlight
    <3> QED BY <1>3, <1>4, <1>6, <3>1, AfterOne DEF TabInv, Signing
  <2> QED BY <1>3, <2>1, ClickFacts DEF SigningOK, Submit
<1>10. ViewOK'
  BY <1>3 DEF TabInv, ViewOK
<1> QED BY <1>7, <1>8, <1>9, <1>10 DEF TabInv

\* Nothing is sent, and nobody signs in or out of a page.
LEMMA IdleStep ==
  ASSUME TabInv, TabOK', TablesGrow, UNCHANGED <<net, page, view, signingIn>>,
         token' \in {token, NoToken}, hasty => hasty',
         ~hasty' /\ signingIn => page' = "login" /\ going' = Nowhere
  PROVE  TabInv'
<1>1. Change(0, <<>>)
  BY NoChange DEF TabInv
<1>2. /\ Len(net') = Len(net) /\ Len(net) \in Nat
      /\ Lists' = Lists /\ Creates' = Creates /\ Signing' = Signing
      /\ \A i \in Lists : net'[i] = net[i]
  <2>1. 0 \notin Lists /\ 0 \notin Creates /\ 0 \notin Signing
    BY Length DEF TabInv, NetOK, Lists, Creates, Signing, SentBy, Sent, InFlight
  <2>2. /\ Len(net') = Len(net) /\ Len(net) \in Nat
        /\ Lists' = Lists \ {0} /\ Creates' = Creates \ {0} /\ Signing' = Signing \ {0}
    BY <1>1, AfterNone DEF TabInv
  <2> QED BY <2>1, <2>2
<1>3. NetOK'
  BY <1>1, OverKeepsNet DEF TabInv
<1>4. SigningOK'
  BY <1>2, SigningFrame DEF TabInv
<1>5. ViewOK'
  BY <1>2, SameLists, ViewFrame DEF TabInv
<1> QED BY <1>3, <1>4, <1>5 DEF TabInv

LEMMA ClickLogoutStep ==
  ASSUME TabInv, ClickLogout
  PROVE  TabInv'
<1>1. /\ UNCHANGED <<pending, count, net, signingIn, page, view>>
      /\ token' = NoToken /\ me' = Nobody
      /\ going' = IF "login" = page THEN Nowhere ELSE "login"
  BY DEF ClickLogout, tables, Logout, GoTo
<1>2. hasty' \in BOOLEAN /\ (hasty => hasty') /\ (~hasty' => ~signingIn)
  BY ClickFacts DEF ClickLogout
<1>3. TabOK'
  BY <1>1, <1>2 DEF TabInv, TabOK, Pages
<1> QED BY <1>1, <1>2, <1>3, TablesStay, IdleStep DEF TabInv

LEMMA FollowStep ==
  ASSUME TabInv, Follow
  PROVE  TabInv'
<1>1. /\ UNCHANGED <<pending, count, net, token, me, signingIn, page, view>>
      /\ going' \in {Nowhere, "approvals", "other"}
  BY DEF Follow, tables, GoTo
<1>2. hasty' \in BOOLEAN /\ (hasty => hasty') /\ (~hasty' => ~signingIn)
  BY ClickFacts DEF Follow
<1>3. TabOK'
  BY <1>1, <1>2 DEF TabInv, TabOK, Pages
<1> QED BY <1>1, <1>2, <1>3, TablesStay, IdleStep DEF TabInv

\* Who reloads the page hears no answer to the requests of before, and may send one.
LEMMA StartNet ==
  ASSUME NetOK, NEW t, Start(t), NEW m, m = Request("me", t, TheService, "start")
  PROVE  /\ IsSeq(net') /\ DOMAIN net' = 1..Len(net')
         /\ Len(net) \in Nat /\ DOMAIN net = 1..Len(net) /\ Len(net') \in Nat
         /\ Len(net') \in {Len(net), Len(net) + 1}
         /\ \A j \in 1..Len(net) :
              net'[j] = IF net[j] = Over THEN Over ELSE [net[j] EXCEPT !.by = Unheard]
         /\ \A j \in DOMAIN net' \ 1..Len(net) :
              j = Len(net) + 1 /\ net'[j] = m /\ t # NoToken
<1> DEFINE old == [i \in DOMAIN net |-> IF net[i] = Over THEN Over ELSE [net[i] EXCEPT !.by = Unheard]]
<1>1. PICK more : more = IF t = NoToken THEN <<>> ELSE <<m>>
  OBVIOUS
<1>2. net' = old \o more
  BY <1>1 DEF Start
<1>3. Len(net) \in Nat /\ DOMAIN net = 1..Len(net)
  BY Length DEF NetOK
<1>4. IsSeq(old) /\ Len(old) = Len(net)
  <2> DEFINE S == {old[i] : i \in DOMAIN old}
  <2>1. old \in [1..Len(net) -> S]
    BY <1>3
  <2>2. old \in Seq(S)
    BY <1>3, <2>1, SeqDef
  <2>3. Len(old) \in Nat /\ DOMAIN old = 1..Len(old)
    BY <2>2, LenProperties
  <2>4. 1..Len(old) = 1..Len(net)
    BY <1>3, <2>3
  <2>5. Len(old) = Len(net)
    BY <1>3, <2>3, <2>4
  <2> QED BY <2>2, <2>5 DEF IsSeq
<1>5. /\ IsSeq(more) /\ Len(more) \in {0, 1}
      /\ \A j \in 1..Len(more) : more[j] = m /\ t # NoToken
  <2>1. CASE t = NoToken
    BY <1>1, <2>1, OneOrNone
  <2>2. CASE t # NoToken
    BY <1>1, <2>2, OneOrNone
  <2> QED BY <2>1, <2>2
<1>6. /\ IsSeq(net') /\ Len(net') = Len(net) + Len(more)
      /\ \A j \in 1..Len(net) : net'[j] = old[j]
      /\ \A j \in 1..Len(more) : net'[Len(net) + j] = more[j]
  <2>1. /\ IsSeq(old \o more) /\ Len(old \o more) = Len(old) + Len(more)
        /\ \A j \in 1..Len(old) : (old \o more)[j] = old[j]
        /\ \A j \in 1..Len(more) : (old \o more)[Len(old) + j] = more[j]
    BY <1>4, <1>5, Concatenated
  <2> HIDE DEF old
  <2> QED BY <1>2, <1>4, <2>1
<1>7. DOMAIN net' = 1..Len(net')
  BY <1>6, Length
<1>8. ASSUME NEW j \in DOMAIN net', j \notin 1..Len(net)
      PROVE  j = Len(net) + 1 /\ net'[j] = m /\ t # NoToken
  <2>1. j - Len(net) \in 1..Len(more) /\ j = Len(net) + (j - Len(net)) /\ j = Len(net) + 1
    BY <1>3, <1>5, <1>6, <1>7, <1>8
  <2> QED BY <1>5, <1>6, <2>1
<1>9. \A j \in 1..Len(net) :
        old[j] = IF net[j] = Over THEN Over ELSE [net[j] EXCEPT !.by = Unheard]
  BY <1>3
<1> HIDE DEF old
<1>10. Len(net') \in Nat /\ Len(net') \in {Len(net), Len(net) + 1}
  <2>1. Len(net') = Len(net) + Len(more)
    BY <1>6, Zenon
  <2>2. Len(more) \in {0, 1}
    BY <1>5, Zenon
  <2>3. Len(net) \in Nat
    BY <1>3, Zenon
  <2>4. PICK a, b, n : a = Len(net) /\ b = Len(net') /\ n = Len(more)
    OBVIOUS
  <2>5. b = a + n /\ n \in {0, 1} /\ a \in Nat
    BY <2>1, <2>2, <2>3, <2>4, Zenon
  <2>6. b \in Nat /\ b \in {a, a + 1}
    BY <2>5
  <2> QED BY <2>4, <2>6, Zenon
<1>11. \A j \in 1..Len(net) :
         net'[j] = IF net[j] = Over THEN Over ELSE [net[j] EXCEPT !.by = Unheard]
  BY <1>6, <1>9, Zenon
<1>12. \A j \in DOMAIN net' \ 1..Len(net) : j = Len(net) + 1 /\ net'[j] = m /\ t # NoToken
  BY <1>8, Zenon
<1> QED BY <1>3, <1>6, <1>7, <1>10, <1>11, <1>12, Zenon

\* Of the requests that are heard at most the new one is left, which is no login's.
LEMMA ReloadStep ==
  ASSUME TabInv, Reload
  PROVE  TabInv'
<1>1. PICK t \in {token, NoToken} : Start(t)
  BY DEF Reload
<1>2. PICK m : m = Request("me", t, TheService, "start")
  OBVIOUS
<1>3. /\ token' = t /\ me' = Nobody
      /\ signingIn' = FALSE /\ page' = "start" /\ view' = NoView
      /\ UNCHANGED <<pending, count>>
      /\ going' = IF page = "start" THEN going ELSE page
  BY <1>1 DEF Start, Reload, tables
<1>4. /\ IsSeq(net') /\ DOMAIN net' = 1..Len(net')
      /\ Len(net) \in Nat /\ DOMAIN net = 1..Len(net) /\ Len(net') \in Nat
      /\ Len(net') \in {Len(net), Len(net) + 1}
      /\ \A j \in 1..Len(net) :
           net'[j] = IF net[j] = Over THEN Over ELSE [net[j] EXCEPT !.by = Unheard]
      /\ \A j \in DOMAIN net' \ 1..Len(net) : net'[j] = m
  BY <1>1, <1>2, StartNet DEF TabInv
<1>0. Len(net') \in Nat
  BY <1>4, Zenon
<1>5. MessageOK(m)' /\ m.kind = "me" /\ m.arg = "start"
  <2>1. token \in Token \cup {NoToken} /\ TheService \in -1..Len(net')
    BY <1>0 DEF TabInv, TabOK, TheService
  <2> QED BY <1>1, <1>2, <2>1 DEF MessageOK, ArgOK, AnswerOK, Request, Over, Kinds, Statuses
<1>6. ASSUME NEW j \in DOMAIN net', NEW n, n = net'[j], n # Over
      PROVE  MessageOK(n)' /\ (n.by = Unheard \/ n = m)
  <2>1. CASE j \in 1..Len(net)
    <3>1. net[j] # Over /\ n = [net[j] EXCEPT !.by = Unheard]
      BY ZenonT(60), <1>4, <1>6, <2>1
    <3>2. MessageOK(net[j])
      BY <1>4, <2>1, <3>1 DEF TabInv, NetOK, InFlight
    <3>3. PICK k : k = net[j]
      OBVIOUS
    <3>4. MessageOK(k) /\ n = [k EXCEPT !.by = Unheard]
      BY <3>1, <3>2, <3>3
    <3>5. /\ n = [kind |-> n.kind, token |-> n.token, by |-> n.by, arg |-> n.arg,
                  status |-> n.status, body |-> n.body]
          /\ n.kind = k.kind /\ n.token = k.token /\ n.by = Unheard /\ n.arg = k.arg
          /\ n.status = k.status /\ n.body = k.body
      BY <3>4 DEF MessageOK
    <3>6. Unheard \in -1..Len(net')
      BY <1>0 DEF Unheard
    <3>7. ArgOK(n)' /\ AnswerOK(n, n.status, n.body)'
      BY <1>3, <3>4, <3>5 DEF MessageOK, ArgOK, AnswerOK
    <3> QED BY SMTT(60), <3>4, <3>5, <3>6, <3>7 DEF MessageOK
  <2>2. CASE j \notin 1..Len(net)
    <3>1. n = m
      BY ZenonT(60), <1>4, <1>6, <2>2
    <3> QED BY SMTT(60), <1>5, <3>1
  <2> QED BY <2>1, <2>2
<1>7. NetOK'
  <2>1. \A j \in InFlight' : MessageOK(net[j])'
    BY <1>6 DEF InFlight
  <2> QED BY <1>4, <2>1 DEF NetOK
<1>8. TabOK'
  BY <1>3, ClickFacts DEF TabInv, TabOK, Reload, Pages
<1>9. Signing' = {}
  <2>1. \A n : n.by = Unheard \/ n = m => ~Signs(n)
    BY <1>5 DEF Signs
  <2> QED BY <1>6, <2>1 DEF Signing, InFlight, Signs
<1>10. SigningOK'
  BY <1>3, <1>9 DEF SigningOK
<1>11. ViewOK'
  BY <1>3, NoViewFrame
<1> QED BY <1>7, <1>8, <1>10, <1>11 DEF TabInv

\* What the actions on the page have in common.
LEMMA OnPageFacts ==
  ASSUME TabInv, OnPage
  PROVE  /\ page = "approvals" /\ UNCHANGED <<pending, count, token, me, signingIn, page, going>>
         /\ TabOK' /\ (hasty => hasty') /\ (~hasty' => ~signingIn)
         /\ view.id \in Nat /\ view.id \in 1..Len(net) /\ Len(net) \in Nat
         /\ ViewTyped
<1>1. /\ page = "approvals" /\ UNCHANGED <<pending, count, token, me, signingIn, page, going>>
      /\ Click
  BY DEF OnPage, tables
<1>2. hasty' \in BOOLEAN /\ (hasty => hasty') /\ (~hasty' => ~signingIn)
  BY <1>1, ClickFacts
<1>3. TabOK'
  BY <1>1, <1>2 DEF TabInv, TabOK
<1>4. Len(net) \in Nat
  BY Length DEF TabInv, NetOK
<1>5. ViewTyped /\ view.id \in 1..Len(net)
  BY <1>1 DEF TabInv, ViewOK, ViewTyped
<1> QED BY <1>1, <1>2, <1>3, <1>4, <1>5

LEMMA OnAmountStep ==
  ASSUME TabInv, OnAmount
  PROVE  TabInv'
<1>1. PICK a \in Amounts : view' = [view EXCEPT !.amount = a, !.tier = 0]
  BY DEF OnAmount
<1>2. /\ page = "approvals" /\ UNCHANGED <<net, pending, count, token, me, signingIn, page, going>>
      /\ TabOK' /\ (hasty => hasty') /\ (~hasty' => ~signingIn)
  BY OnPageFacts DEF OnAmount
<1>3. Change(0, <<>>) /\ TablesGrow
  BY <1>2, NoChange, TablesStay DEF TabInv
<1>4. NetOK'
  BY <1>3, OverKeepsNet DEF TabInv
<1>5. SigningOK'
  <2>1. Signing' = Signing
    BY <1>2 DEF Signing, InFlight, Signs
  <2> QED BY <1>2, <2>1, SigningFrame DEF TabInv
<1>6. ViewOK'
  <2>1. PICK c, b : c = view.creating /\ b = 0
    OBVIOUS
  <2>2. /\ c \in BOOLEAN /\ (c <=> Creates # {}) /\ (\A i, j \in Creates : i = j)
        /\ view' = [view EXCEPT !.creating = c, !.amount = a, !.tier = b]
    BY <1>1, <1>2, <2>1 DEF TabInv, ViewOK, ViewTyped, Spinners
  <2>3. Creates' = Creates /\ Lists' = Lists /\ Len(net) \in Nat /\ \A i \in Lists : net'[i] = net[i]
    <3>1. InFlight' = InFlight /\ view'.id = view.id
      BY <1>1, <1>2 DEF InFlight, TabInv, ViewOK, ViewTyped
    <3>2. Len(net) \in Nat
      BY Length DEF TabInv, NetOK
    <3> QED BY <1>2, <3>1, <3>2 DEF Lists, Creates, SentBy, Sent
  <2>4. /\ Len(net') \in Nat /\ Len(net) <= Len(net') /\ b \in Amounts \cup {0}
        /\ \A i \in Lists : SameList(i)
        /\ (c <=> Creates' # {}) /\ \A i, j \in Creates' : i = j
    BY <1>2, <2>1, <2>2, <2>3, SameLists
  <2>5. ViewOK /\ TabOK /\ (hasty' \/ token' \in {token, NoToken})
    BY <1>2 DEF TabInv
  <2> QED BY <1>2, <1>3, <2>2, <2>3, <2>4, <2>5, FormKeepsView
<1> QED BY <1>2, <1>4, <1>5, <1>6 DEF TabInv

\* A request of the page that is no list: the view may only note that it creates something.
LEMMA AskStep ==
  ASSUME TabInv, OnPage, NEW m, net' = Append(net, m), MessageOK(m)', m # Over,
         m.kind \in {"preview", "decide"}, m.by = view.id, view' = view
  PROVE  TabInv'
<1>1. /\ page = "approvals" /\ UNCHANGED <<pending, count, token, me, signingIn, page, going>>
      /\ TabOK' /\ (hasty => hasty') /\ (~hasty' => ~signingIn)
      /\ view.id \in Nat /\ view.id \in 1..Len(net) /\ Len(net) \in Nat
  BY OnPageFacts
<1>2. Change(0, <<m>>) /\ TablesGrow
  BY <1>1, SentChange, TablesStay DEF TabInv
<1>3. m.by # Unheard /\ ~Signs(m) /\ 0 # Len(net) + 1 /\ 0 \notin InFlight
  BY <1>1, Length DEF Unheard, Signs, TabInv, NetOK, InFlight
<1>4. /\ Len(net') = Len(net) + 1 /\ Lists' = Lists \ {0} /\ Creates' = Creates \ {0}
      /\ Signing' = Signing \ {0} /\ \A i \in InFlight \ {0} : net'[i] = net[i]
  BY <1>2, <1>3, AfterOne DEF TabInv
<1>5. Lists \subseteq InFlight /\ Creates \subseteq InFlight /\ Signing \subseteq InFlight
  BY DEF Lists, Creates, Signing, SentBy, Sent
<1>6. Lists' = Lists /\ Creates' = Creates /\ Signing' = Signing /\ \A i \in Lists : net'[i] = net[i]
  BY <1>3, <1>4, <1>5
<1>7. NetOK'
  BY <1>2, SendKeepsNet DEF TabInv
<1>8. SigningOK'
  BY <1>1, <1>6, SigningFrame DEF TabInv
<1>9. ViewOK'
  <2>1. Len(net') \in Nat /\ Len(net) <= Len(net') /\ token' \in {token, NoToken}
    BY <1>1, <1>4
  <2>2. ViewOK /\ TabOK /\ page = "approvals" /\ page' = page
    BY <1>1 DEF TabInv
  <2>3. \A i \in Lists : SameList(i)
    BY <1>6, SameLists
  <2> QED BY <1>1, <1>2, <1>6, <2>1, <2>2, <2>3, ViewFrame
<1> QED BY <1>1, <1>7, <1>8, <1>9 DEF TabInv

LEMMA PreviewStep ==
  ASSUME TabInv, Preview
  PROVE  TabInv'
<1>1. PICK m : m = Request("preview", token, view.id, view.amount)
  OBVIOUS
<1>2. OnPage /\ net' = Append(net, m) /\ view' = view
  BY <1>1 DEF Preview, Send
<1>3. view.id \in -1..Len(net') /\ view.amount \in Amounts /\ token \in Token \cup {NoToken}
  <2>1. Len(net') = Len(net) + 1 /\ Len(net) \in Nat /\ view.id \in 1..Len(net) /\ ViewTyped
    BY <1>2, SentChange, OnPageFacts, OneOrNone DEF TabInv, Change
  <2> QED BY <2>1 DEF ViewTyped, TabInv, TabOK
<1>4. MessageOK(m)' /\ m # Over /\ m.kind = "preview" /\ m.by = view.id
  BY <1>1, <1>3 DEF MessageOK, ArgOK, AnswerOK, Request, Over, Kinds, Statuses
<1> QED BY <1>2, <1>4, AskStep

LEMMA DecideStep ==
  ASSUME TabInv, Decide
  PROVE  TabInv'
<1>1. PICK a \in view.rows[1].pending : net' = Append(net, Request("decide", token, view.id, a))
  BY DEF Decide, Send
<1>2. PICK m : m = Request("decide", token, view.id, a)
  OBVIOUS
<1>3. OnPage /\ net' = Append(net, m) /\ view' = view /\ view.rows # <<>>
  BY <1>1, <1>2 DEF Decide
<1>4. view.id \in -1..Len(net') /\ a \in 1..count' /\ token \in Token \cup {NoToken}
  <2>1. /\ Len(net') = Len(net) + 1 /\ Len(net) \in Nat /\ view.id \in 1..Len(net) /\ ViewTyped
        /\ count' = count
    BY <1>3, SentChange, OnPageFacts, OneOrNone DEF TabInv, Change
  <2> QED BY <1>1, <1>3, <2>1 DEF ViewTyped, RowOK, TabInv, TabOK
<1>5. MessageOK(m)' /\ m # Over /\ m.kind = "decide" /\ m.by = view.id
  BY <1>2, <1>4 DEF MessageOK, ArgOK, AnswerOK, Request, Over, Kinds, Statuses
<1> QED BY <1>3, <1>5, AskStep

LEMMA SetFilterStep ==
  ASSUME TabInv, SetFilter
  PROVE  TabInv'
<1>1. PICK f \in Filters :
        /\ view' = Loading([view EXCEPT !.filter = f])
        /\ Send(Load([view EXCEPT !.filter = f], token))
  BY DEF SetFilter
<1>2. PICK m : m = Request("list", token, view.id, f)
  OBVIOUS
<1>3. /\ page = "approvals" /\ UNCHANGED <<pending, count, token, me, signingIn, page, going>>
      /\ TabOK' /\ (hasty => hasty') /\ (~hasty' => ~signingIn)
      /\ view.id \in Nat /\ view.id \in 1..Len(net) /\ Len(net) \in Nat
      /\ ViewTyped
  BY OnPageFacts DEF SetFilter
<1>4. /\ net' = Append(net, m)
      /\ view' = [id |-> view.id, filter |-> f, loading |-> TRUE, creating |-> view.creating,
                  amount |-> view.amount, tier |-> view.tier, rows |-> view.rows,
                  confirmed |-> view.confirmed, missed |-> view.missed]
      /\ view'.id = view.id
  BY <1>1, <1>2, <1>3 DEF Send, Load, Loading, ViewTyped
<1>5. Change(0, <<m>>) /\ TablesGrow
  BY <1>3, <1>4, SentChange, TablesStay DEF TabInv
<1>6. /\ MessageOK(m)' /\ m # Over /\ m.kind = "list" /\ m.by = view.id /\ m.token = token
      /\ m.arg = f /\ m.status = "sent"
  <2>1. Len(net') = Len(net) + 1
    BY <1>5, OneOrNone DEF Change
  <2>2. view.id \in -1..Len(net') /\ token \in Token \cup {NoToken}
    BY <1>3, <2>1 DEF TabInv, TabOK
  <2> QED BY <1>2, <2>2 DEF MessageOK, ArgOK, AnswerOK, Request, Over, Kinds, Statuses
<1>7. m.by # Unheard /\ ~Signs(m) /\ 0 # Len(net) + 1 /\ 0 \notin InFlight
  BY <1>3, <1>6, Length DEF Unheard, Signs, TabInv, NetOK, InFlight
<1>8. Lists \subseteq InFlight /\ Creates \subseteq InFlight /\ Signing \subseteq InFlight
  BY DEF Lists, Creates, Signing, SentBy, Sent
<1>9. /\ Len(net') = Len(net) + 1 /\ net'[Len(net) + 1] = m
      /\ Lists' = Lists \cup {Len(net) + 1} /\ Creates' = Creates /\ Signing' = Signing
      /\ \A i \in Lists : net'[i] = net[i]
      /\ \A i \in InFlight : i \in 1..Len(net)
  <2>1. /\ Len(net') = Len(net) + 1 /\ net'[Len(net) + 1] = m
        /\ Lists' = (Lists \ {0}) \cup {Len(net) + 1} /\ Creates' = Creates \ {0}
        /\ Signing' = Signing \ {0}
        /\ \A i \in InFlight \ {0} : net'[i] = net[i]
        /\ \A i \in InFlight : i \in 1..Len(net)
    BY <1>4, <1>5, <1>6, <1>7, AfterOne DEF TabInv
  <2> QED BY <1>7, <1>8, <2>1
<1>10. NetOK'
  BY <1>5, <1>6, SendKeepsNet DEF TabInv
<1>11. SigningOK'
  BY <1>3, <1>9, SigningFrame DEF TabInv
<1>12. ViewOK'
  <2>1. PICK c, d : c = view.creating /\ d = view.confirmed
    OBVIOUS
  <2>2. /\ c \in BOOLEAN /\ (c <=> Creates # {}) /\ \A i, j \in Creates : i = j
        /\ d \in SUBSET (1..count) /\ d \cap pending = {}
    BY <1>3, <2>1 DEF TabInv, ViewOK, ViewTyped, Spinners, UpToDate, Fresh
  <2>3. view' = [id |-> view.id, filter |-> f, loading |-> TRUE, creating |-> c,
                 amount |-> view.amount, tier |-> view.tier, rows |-> view.rows,
                 confirmed |-> d, missed |-> view.missed]
    BY <1>4, <2>1
  <2>4. ViewOK /\ TabOK /\ (c <=> Creates' # {}) /\ \A i, j \in Creates' : i = j
    BY <1>9, <2>2 DEF TabInv
  <2> QED BY <1>3, <1>6, <1>9, <2>2, <2>3, <2>4, LoadKeepsView
<1> QED BY <1>3, <1>10, <1>11, <1>12 DEF TabInv

LEMMA CreateStep ==
  ASSUME TabInv, Create
  PROVE  TabInv'
<1>1. PICK m : m = Request("create", token, view.id, view.amount)
  OBVIOUS
<1>2. OnPage /\ net' = Append(net, m) /\ view' = [view EXCEPT !.creating = TRUE] /\ ~view.creating
  BY <1>1 DEF Create, Send
<1>3. /\ page = "approvals" /\ UNCHANGED <<pending, count, token, me, signingIn, page, going>>
      /\ TabOK' /\ (hasty => hasty') /\ (~hasty' => ~signingIn)
      /\ view.id \in Nat /\ view.id \in 1..Len(net) /\ Len(net) \in Nat
      /\ ViewTyped
  BY <1>2, OnPageFacts
<1>4. view'.id = view.id
  BY <1>2, <1>3 DEF ViewTyped
<1>5. Change(0, <<m>>) /\ TablesGrow
  BY <1>2, <1>3, SentChange, TablesStay DEF TabInv
<1>6. MessageOK(m)' /\ m # Over /\ m.kind = "create" /\ m.by = view.id
  <2>1. Len(net') = Len(net) + 1
    BY <1>5, OneOrNone DEF Change
  <2>2. view.id \in -1..Len(net') /\ token \in Token \cup {NoToken} /\ view.amount \in Amounts
    BY <1>3, <2>1 DEF TabInv, TabOK, ViewTyped
  <2> QED BY <1>1, <2>2 DEF MessageOK, ArgOK, AnswerOK, Request, Over, Kinds, Statuses
<1>7. m.by # Unheard /\ ~Signs(m) /\ 0 # Len(net) + 1 /\ 0 \notin InFlight
  BY <1>3, <1>6, Length DEF Unheard, Signs, TabInv, NetOK, InFlight
<1>8. Lists \subseteq InFlight /\ Signing \subseteq InFlight /\ Creates = {}
  BY <1>2, <1>3 DEF Lists, Signing, SentBy, Sent, TabInv, ViewOK, Spinners
<1>9. /\ Len(net') = Len(net) + 1
      /\ Lists' = Lists /\ Creates' = {Len(net) + 1} /\ Signing' = Signing
      /\ \A i \in Lists : net'[i] = net[i]
  <2>1. /\ Len(net') = Len(net) + 1
        /\ Lists' = Lists \ {0} /\ Creates' = (Creates \ {0}) \cup {Len(net) + 1}
        /\ Signing' = Signing \ {0}
        /\ \A i \in InFlight \ {0} : net'[i] = net[i]
    BY <1>4, <1>5, <1>6, <1>7, AfterOne DEF TabInv
  <2> QED BY <1>7, <1>8, <2>1
<1>10. NetOK'
  BY <1>5, <1>6, SendKeepsNet DEF TabInv
<1>11. SigningOK'
  BY <1>3, <1>9, SigningFrame DEF TabInv
<1>12. ViewOK'
  <2>1. Len(net') \in Nat /\ Len(net) <= Len(net') /\ token' \in {token, NoToken}
    BY <1>3, <1>9
  <2>2. ViewOK /\ TabOK /\ TRUE \in BOOLEAN /\ (TRUE <=> Creates' # {}) /\ \A i, j \in Creates' : i = j
    BY <1>9 DEF TabInv
  <2>3. PICK c, a, b : c = TRUE /\ a = view.amount /\ b = view.tier
    OBVIOUS
  <2>4. /\ c \in BOOLEAN /\ a \in Amounts /\ b \in Amounts \cup {0}
        /\ view' = [view EXCEPT !.creating = c, !.amount = a, !.tier = b]
    BY <1>2, <1>3, <2>3 DEF ViewTyped
  <2>5. \A i \in Lists : SameList(i)
    BY <1>9, SameLists
  <2> QED BY <1>3, <1>5, <1>9, <2>1, <2>2, <2>3, <2>4, <2>5, FormKeepsView
<1> QED BY <1>3, <1>10, <1>11, <1>12 DEF TabInv

-----------------------------------------------------------------------------
(* The end of a navigation                                                 *)

\* A page that begins has an id of its own: nobody else's answer is for it.
LEMMA ArriveStep ==
  ASSUME TabInv, Arrive
  PROVE  TabInv'
<1>1. PICK to : to = IF going # "login" /\ token = NoToken THEN "login" ELSE going
  OBVIOUS
<1>2. /\ going # Nowhere /\ page' = to /\ going' = Nowhere
      /\ UNCHANGED <<pending, count, token, me, signingIn, hasty>>
      /\ to = page => view' = view /\ net' = net
      /\ to # page /\ to = "approvals" =>
           view' = NewView(Len(net) + 1) /\ net' = Append(net, Load(NewView(Len(net) + 1), token))
      /\ to # page /\ to # "approvals" => view' = NoView /\ net' = net
  BY <1>1, Zenon DEF Arrive, server, tables
<1>3. TabOK' /\ TablesGrow
  <2>1. to \in Pages
    BY <1>1, <1>2 DEF TabInv, TabOK, Pages
  <2> QED BY <1>2, <2>1, TablesStay DEF TabInv, TabOK
<1>4. ~hasty => ~signingIn
  BY <1>2 DEF TabInv, SigningOK
<1>5. CASE to = page
  BY <1>2, <1>3, <1>4, <1>5, IdleStep
<1>6. CASE to # page /\ to # "approvals"
  <2>1. net' = net /\ view' = NoView
    BY <1>2, <1>6
  <2>2. NetOK'
    BY <1>3, <2>1, NoChange, OverKeepsNet DEF TabInv
  <2>3. SigningOK'
    <3>1. Signing' = Signing
      BY <2>1 DEF Signing, InFlight, Signs
    <3> QED BY <1>2, <1>4, <3>1, SigningFrame DEF TabInv
  <2>4. ViewOK'
    BY <1>2, <1>6, <2>1, NoViewFrame
  <2> QED BY <1>3, <2>2, <2>3, <2>4 DEF TabInv
<1>7. CASE to # page /\ to = "approvals"
  <2> DEFINE new == Len(net) + 1
  <2>0. Len(net) \in Nat
    BY Length DEF TabInv, NetOK
  <2>1. PICK m : m = Request("list", token, new, "all")
    OBVIOUS
  <2>2. net' = Append(net, m) /\ view' = NewView(new) /\ page' = "approvals"
    BY <1>2, <1>7, <2>1 DEF NewView, Load
  <2>3. Change(0, <<m>>)
    BY <2>2, SentChange DEF TabInv
  <2>4. /\ MessageOK(m)' /\ m # Over /\ m.kind = "list" /\ m.by = new /\ m.token = token
        /\ m.arg = "all" /\ m.status = "sent" /\ ~Signs(m)
    <3>1. Len(net') = new
      BY <2>3, OneOrNone DEF Change
    <3>2. new \in -1..Len(net') /\ token \in Token \cup {NoToken}
      BY <2>0, <3>1 DEF TabInv, TabOK
    <3> HIDE DEF new
    <3>3. /\ MessageOK(m)' /\ m # Over /\ m.kind = "list" /\ m.by = new /\ m.token = token
          /\ m.arg = "all" /\ m.status = "sent"
      BY <2>1, <3>2, ClientAssumption DEF MessageOK, ArgOK, AnswerOK, Request, Over, Kinds, Statuses
    <3> QED BY <3>3 DEF Signs
  <2>5. 0 # new /\ 0 \notin InFlight
    BY <2>0, Length DEF TabInv, NetOK, InFlight
  <2>6. /\ InFlight' = InFlight \cup {new} /\ net'[new] = m
        /\ \A i \in InFlight : net'[i] = net[i]
        /\ Len(net') = new /\ \A i \in InFlight : i \in 1..Len(net)
    <3>1. /\ InFlight' = (InFlight \ {0}) \cup {new} /\ net'[new] = m
          /\ \A i \in InFlight \ {0} : net'[i] = net[i]
          /\ Len(net') = new /\ \A i \in InFlight : i \in 1..Len(net)
      BY <2>3, <2>4, <2>5, InFlightAfterOne DEF TabInv
    <3> QED BY <2>5, <3>1
  <2>7. NetOK'
    BY <1>3, <2>3, <2>4, SendKeepsNet DEF TabInv
  <2>8. SigningOK'
    <3>1. Signing' = Signing
      BY <2>4, <2>6 DEF Signing, Signs
    <3> QED BY <1>2, <1>4, <3>1, SigningFrame DEF TabInv
  <2>9. /\ view' = [id |-> new, filter |-> "all", loading |-> TRUE, creating |-> FALSE,
                    amount |-> 1, tier |-> 0, rows |-> <<>>, confirmed |-> {}, missed |-> FALSE]
        /\ view'.id = new /\ view'.filter = "all" /\ view'.loading = TRUE
        /\ view'.creating = FALSE /\ view'.amount = 1 /\ view'.tier = 0 /\ view'.rows = <<>>
        /\ view'.confirmed = {} /\ view'.missed = FALSE
    BY <2>2 DEF NewView
  <2>10. Lists' = {new} /\ Creates' = {}
    <3>1. \A i \in InFlight : net[i].by # new
      <4>1. \A i \in InFlight : net[i].by \in -1..Len(net)
        BY DEF TabInv, NetOK, MessageOK
      <4> QED BY <2>0, <4>1
    <3>2. new # Unheard
      BY <2>0 DEF Unheard
    <3> HIDE DEF new
    <3> QED BY <2>4, <2>6, <2>9, <3>1, <3>2 DEF Lists, Creates, SentBy, Sent
  <2>11. new \in 1..Len(net')
    BY <2>0, <2>6
  <2> HIDE DEF new
  <2>12. ViewTyped'
    BY <2>9, <2>11, ClientAssumption DEF ViewTyped
  <2>13. Spinners' /\ OfTheSession'
    BY <1>2, <2>4, <2>6, <2>9, <2>10 DEF Spinners, OfTheSession
  <2>14. UpToDate'
    <3>1. new <= new
      BY <2>11
    <3>2. Newest'
      BY <2>4, <2>6, <2>9, <2>10, <3>1 DEF Newest
    <3>3. Fresh(pending)'
      BY <2>9 DEF Fresh
    <3> QED BY <3>2, <3>3 DEF UpToDate
  <2> QED BY <1>3, <2>2, <2>7, <2>8, <2>12, <2>13, <2>14 DEF TabInv, ViewOK
<1> QED BY <1>5, <1>6, <1>7

-----------------------------------------------------------------------------
(* The steps of the server and of the way to it                            *)

\* A request is answered, as it may be, and the tables grow by what it did.
LEMMA AnswerStep ==
  ASSUME TabInv, TablesGrow, UNCHANGED clientVars,
         NEW i \in InFlight, NEW m, m = net[i], NEW status \in Statuses, NEW body,
         Answer(i, status, body), AnswerOK(m, status, body)',
         m.kind = "list" /\ status = "ok" => body[1].pending \subseteq pending
  PROVE  TabInv'
<1>1. UNCHANGED <<token, me, signingIn, page, going, view, hasty>>
  BY DEF clientVars
<1>2. MessageOK(m) /\ i \in DOMAIN net
  BY DEF TabInv, NetOK, InFlight
<1>3. PICK n : n = [m EXCEPT !.status = status, !.body = body]
  OBVIOUS
<1>4. /\ n = [kind |-> n.kind, token |-> n.token, by |-> n.by, arg |-> n.arg,
              status |-> n.status, body |-> n.body]
      /\ n.kind = m.kind /\ n.token = m.token /\ n.by = m.by /\ n.arg = m.arg
      /\ n.status = status /\ n.body = body
  BY <1>2, <1>3 DEF MessageOK
<1>5. /\ IsSeq(net') /\ Len(net') = Len(net) /\ Len(net) \in Nat /\ DOMAIN net' = DOMAIN net
      /\ \A j \in DOMAIN net : net'[j] = IF j = i THEN n ELSE net[j]
  <2>1. PICK S : net \in Seq(S)
    BY DEF TabInv, NetOK, IsSeq
  <2> DEFINE T == S \cup {n}
  <2>2. net \in Seq(T) /\ n \in T
    BY <2>1, SeqMonotonic
  <2> HIDE DEF T
  <2>3. net' = [net EXCEPT ![i] = n]
    BY <1>2, <1>3 DEF Answer
  <2>4. Len(net) \in Nat /\ DOMAIN net = 1..Len(net)
    BY <2>2, LenProperties
  <2>5. /\ net' \in Seq(T) /\ Len(net') = Len(net)
        /\ \A j \in 1..Len(net) : net'[j] = IF j = i THEN n ELSE net[j]
    BY <1>2, <2>2, <2>3, <2>4, ExceptSeq
  <2>6. DOMAIN net' = 1..Len(net')
    BY <2>5, LenProperties
  <2> QED BY <2>4, <2>5, <2>6 DEF IsSeq
<1>6. n # Over
  <2>1. n.kind # "over"
    BY <1>2, <1>4 DEF MessageOK, Kinds
  <2> QED BY <2>1 DEF Over
<1>7. InFlight' = InFlight
  BY <1>5, <1>6 DEF InFlight
<1>8. NetOK'
  <2>1. ASSUME NEW k, MessageOK(k) PROVE MessageOK(k)'
    BY <1>5, <2>1, MessageStays DEF TabInv
  <2>2. MessageOK(n)'
    <3>1. MessageOK(m)'
      BY <1>2, <2>1
    <3> QED BY <1>4, <3>1 DEF MessageOK, ArgOK, AnswerOK
  <2>3. ASSUME NEW j \in InFlight, NEW k, k = net'[j] PROVE MessageOK(k)'
    <3>1. CASE j = i
      BY <1>5, <2>2, <2>3, <3>1 DEF InFlight
    <3>2. CASE j # i
      <4>1. k = net[j] /\ MessageOK(net[j])
        BY <1>5, <2>3, <3>2 DEF InFlight, TabInv, NetOK
      <4>2. MessageOK(k)
        BY <4>1
      <4> QED BY <2>1, <4>2
    <3> QED BY <3>1, <3>2
  <2>4. \A j \in InFlight' : MessageOK(net[j])'
    BY <1>7, <2>3
  <2> QED BY <1>5, <2>4 DEF NetOK
<1>9. TabOK'
  BY <1>1 DEF TabInv, TabOK, TablesGrow
<1>10. /\ \A j \in InFlight : /\ net'[j].kind = net[j].kind /\ net'[j].by = net[j].by
                              /\ net'[j].arg = net[j].arg /\ net'[j].token = net[j].token
                              /\ j # i => net'[j] = net[j]
       /\ net'[i].status = status /\ net'[i].body = body
  BY <1>4, <1>5 DEF InFlight
<1>11. Lists' = Lists /\ Creates' = Creates /\ Signing' = Signing
  BY <1>1, <1>7, <1>10 DEF Lists, Creates, SentBy, Sent, Signing, Signs
<1>12. SigningOK'
  BY <1>1, <1>11, SigningFrame DEF TabInv, SigningOK
<1>13. \A j \in Lists : SameList(j)
  BY <1>10 DEF Lists, SentBy, Sent, SameList
<1>14. ViewOK'
  BY <1>1, <1>5, <1>11, <1>13, ViewFrame DEF TabInv
<1> QED BY <1>8, <1>9, <1>12, <1>14 DEF TabInv

LEMMA LoseStep ==
  ASSUME TabInv, NEW i, Lose(i)
  PROVE  TabInv'
<1>1. /\ i \in InFlight /\ Answer(i, "failed", <<>>)
      /\ UNCHANGED clientVars /\ UNCHANGED <<pending, count>>
  BY DEF Lose, tables
<1>2. TablesGrow /\ "failed" \in Statuses
  BY <1>1, TablesStay DEF TabInv, Statuses
<1>3. PICK m : m = net[i]
  OBVIOUS
<1>4. AnswerOK(m, "failed", <<>>)'
  BY DEF AnswerOK
<1> QED BY <1>1, <1>2, <1>3, <1>4, AnswerStep

\* Who is answered as someone has shown a token; an action decided is no more pending, and
\* one created has the next id.
LEMMA HandleStep ==
  ASSUME ClientInv, NEW i, Handle(i)
  PROVE  TabInv'
<1> USE DEF ClientInv
<1>1. PICK m : m = net[i]
  OBVIOUS
<1>2. i \in InFlight /\ UNCHANGED clientVars
  BY DEF Handle
<1>3. MessageOK(m) /\ TabOK
  BY <1>1, <1>2 DEF TabInv, NetOK
<1>4. /\ count \in Nat /\ pending \subseteq 1..count
      /\ "ok" \in Statuses /\ "401" \in Statuses /\ "403" \in Statuses
  BY <1>3 DEF TabOK, Statuses
<1>5. ASSUME NEW status \in Statuses, status # "ok", Answer(i, status, <<>>), TablesGrow
      PROVE  TabInv'
  <2>1. AnswerOK(m, status, <<>>)'
    BY <1>5 DEF AnswerOK
  <2> QED BY <1>1, <1>2, <1>5, <2>1, AnswerStep
<1>6. UNCHANGED <<pending, count>> => TablesGrow
  BY <1>3, TablesStay
<1>7. CASE m.kind = "login"
  <2>1. Login(i) /\ UNCHANGED <<pending, count>>
    BY <1>1, <1>7 DEF Handle
  <2>2. CASE m.arg \in active
    <3>1. PICK t : t = CreateAccessToken(m.arg)
      OBVIOUS
    <3>2. Answer(i, "ok", <<t>>)
      BY <1>1, <2>1, <2>2, <3>1 DEF Login
    <3>3. t \in Token
      <4>1. now \in 0..MaxEvents /\ m.arg \in Users
        BY <2>2, SessionsAssumption DEF SessionTypeOK
      <4> QED BY <3>1, <4>1, CreatedTokenOK
    <3>4. PICK body : body = <<t>>
      OBVIOUS
    <3>5. AnswerOK(m, "ok", body)'
      BY <1>7, <3>3, <3>4 DEF AnswerOK
    <3> QED BY <1>1, <1>2, <1>4, <1>6, <1>7, <2>1, <3>2, <3>4, <3>5, AnswerStep
  <2>3. CASE m.arg \notin active
    BY <1>1, <1>4, <1>5, <1>6, <2>1, <2>3 DEF Login
  <2> QED BY <2>2, <2>3
<1>8. CASE m.kind # "login" /\ Refuse(i)
  BY <1>4, <1>5, <1>6, <1>8 DEF Refuse
<1>9. CASE m.kind # "login" /\ Serve(i)
  <2>1. m.token # NoToken
    <3>1. m.token \in Token
      BY <1>1, <1>9 DEF Serve, CurrentUser, Decodes, SessionTypeOK
    <3>2. \A t \in Token : t.exp \in Nat
      BY SessionsAssumption DEF Token
    <3>3. NoToken.exp = -1
      BY DEF NoToken
    <3> QED BY <3>1, <3>2, <3>3
  <2>2. ASSUME NEW body, Answer(i, "ok", body), AnswerOK(m, "ok", body)', TablesGrow,
               m.kind = "list" => body[1].pending \subseteq pending
        PROVE  TabInv'
    BY <1>1, <1>2, <1>4, <2>2, AnswerStep
  <2>3. CASE m.kind = "me" /\ Answer(i, "ok", <<m.token.user>>) /\ UNCHANGED <<pending, count>>
    <3>1. PICK body : body = <<m.token.user>>
      OBVIOUS
    <3>2. AnswerOK(m, "ok", body)'
      BY <2>1, <2>3, <3>1 DEF AnswerOK
    <3> QED BY <1>6, <2>2, <2>3, <3>1, <3>2
  <2>4. CASE m.kind = "preview" /\ Answer(i, "ok", <<m.arg>>) /\ UNCHANGED <<pending, count>>
    <3>1. PICK body : body = <<m.arg>>
      OBVIOUS
    <3>2. AnswerOK(m, "ok", body)'
      BY <2>1, <2>4, <3>1 DEF AnswerOK
    <3> QED BY <1>6, <2>2, <2>4, <3>1, <3>2
  <2>5. CASE /\ m.kind = "list"
             /\ Answer(i, "ok", <<[filter |-> m.arg, pending |-> pending]>>)
             /\ UNCHANGED <<pending, count>>
    <3>1. PICK p, body : p = pending /\ body = <<[filter |-> m.arg, pending |-> p]>>
      OBVIOUS
    <3>2. p \in SUBSET (1..count') /\ body[1].pending = p
      BY <1>4, <2>5, <3>1
    <3>3. AnswerOK(m, "ok", body)'
      BY <2>1, <2>5, <3>1, <3>2 DEF AnswerOK
    <3> QED BY <1>6, <2>2, <2>5, <3>1, <3>2, <3>3
  <2>6. CASE Answer(i, "403", <<>>) /\ UNCHANGED <<pending, count>>
    BY <1>4, <1>5, <1>6, <2>6
  <2>7. CASE /\ m.kind = "decide" /\ m.arg \in pending /\ Answer(i, "ok", <<>>)
             /\ pending' = pending \ {m.arg} /\ count' = count
    <3>1. TablesGrow
      <4>1. count' \in Nat /\ count <= count' /\ 1..count' = 1..count
        BY <1>4, <2>7
      <4>2. pending' \subseteq pending
        BY <2>7
      <4> QED BY <1>4, <4>1, <4>2 DEF TablesGrow
    <3>2. PICK body : body = <<>>
      OBVIOUS
    <3>3. AnswerOK(m, "ok", body)'
      BY <2>1, <2>7 DEF AnswerOK
    <3> QED BY <2>2, <2>7, <3>1, <3>2, <3>3
  <2>8. CASE /\ m.kind = "create" /\ Answer(i, "ok", <<>>) /\ count' = count + 1
             /\ pending' \in {pending, pending \cup {count'}}
    <3>1. TablesGrow
      <4>1. 1..count \subseteq 1..count' /\ count' \in 1..count' /\ count' \in Nat /\ count <= count'
        BY <1>4, <2>8
      <4>2. pending' \subseteq 1..count'
        BY <1>4, <2>8, <4>1
      <4>3. ASSUME NEW a \in pending' PROVE a \in pending \/ a \notin 1..count
        <5>1. a \in pending \/ a = count + 1
          BY <2>8
        <5> QED BY <1>4, <5>1
      <4> QED BY <4>1, <4>2, <4>3 DEF TablesGrow
    <3>2. PICK body : body = <<>>
      OBVIOUS
    <3>3. AnswerOK(m, "ok", body)'
      BY <2>1, <2>8 DEF AnswerOK
    <3> QED BY <2>2, <2>8, <3>1, <3>2, <3>3
  <2> QED BY <1>1, <1>9, <2>3, <2>4, <2>5, <2>6, <2>7, <2>8 DEF Serve
<1> QED BY <1>1, <1>7, <1>8, <1>9 DEF Handle

LEMMA ServerActsStep ==
  ASSUME TabInv, ServerActs
  PROVE  TabInv'
<1>1. UNCHANGED <<count, net, clientVars>> /\ pending' \subseteq pending
  BY DEF ServerActs, SomeoneDecides, clientVars
<1>2. UNCHANGED <<net, token, me, signingIn, page, going, view, hasty, count>>
  BY <1>1 DEF clientVars
<1>3. TabOK'
  BY <1>1, <1>2 DEF TabInv, TabOK
<1>4. TablesGrow
  BY <1>1, <1>2 DEF TabInv, TabOK, TablesGrow
<1>5. ~hasty /\ signingIn => page = "login" /\ going = Nowhere
  BY DEF TabInv, SigningOK
<1> QED BY <1>2, <1>3, <1>4, <1>5, IdleStep

-----------------------------------------------------------------------------
(* Answers                                                                 *)

\* A request is over, and nothing sent in its turn; or something is.
LEMMA OverFacts ==
  ASSUME TabInv, NEW i \in InFlight, Done(i, <<>>), UNCHANGED <<pending, count>>,
         view'.id = view.id
  PROVE  /\ NetOK' /\ TablesGrow /\ TabOK
         /\ Len(net) \in Nat /\ Len(net') \in Nat /\ Len(net) <= Len(net') /\ Len(net') = Len(net)
         /\ Lists' = Lists \ {i} /\ Creates' = Creates \ {i} /\ Signing' = Signing \ {i}
         /\ \A j \in InFlight \ {i} : net'[j] = net[j]
<1>1. Change(i, <<>>)
  BY OneOrNone, DoneChange DEF TabInv, InFlight
<1>2. TablesGrow /\ TabOK
  BY TablesStay DEF TabInv
<1>3. NetOK'
  BY <1>1, <1>2, OverKeepsNet DEF TabInv
<1>4. /\ InFlight' = InFlight \ {i} /\ \A j \in InFlight' : net'[j] = net[j]
      /\ Len(net') = Len(net) /\ Len(net) \in Nat
      /\ Lists' = Lists \ {i} /\ Creates' = Creates \ {i} /\ Signing' = Signing \ {i}
  BY <1>1, AfterNone DEF TabInv
<1> QED BY <1>2, <1>3, <1>4

LEMMA AgainFacts ==
  ASSUME TabInv, NEW i \in InFlight, NEW m, Done(i, <<m>>), UNCHANGED <<pending, count>>,
         view'.id = view.id, m.kind \in Kinds, m.by # Unheard,
         Len(net') = Len(net) + 1 => MessageOK(m)'
  PROVE  /\ NetOK' /\ TablesGrow /\ TabOK
         /\ Len(net) \in Nat /\ Len(net') \in Nat /\ Len(net) <= Len(net')
         /\ Len(net') = Len(net) + 1 /\ net'[Len(net) + 1] = m
         /\ \A j \in InFlight : j \in 1..Len(net)
         /\ Lists' = (Lists \ {i})
              \cup (IF m.kind = "list" /\ m.by = view.id THEN {Len(net) + 1} ELSE {})
         /\ Creates' = (Creates \ {i})
              \cup (IF m.kind = "create" /\ m.by = view.id THEN {Len(net) + 1} ELSE {})
         /\ Signing' = (Signing \ {i}) \cup (IF Signs(m) THEN {Len(net) + 1} ELSE {})
         /\ \A j \in InFlight \ {i} : net'[j] = net[j]
<1>1. Change(i, <<m>>)
  BY OneOrNone, DoneChange DEF TabInv, InFlight
<1>2. TablesGrow /\ TabOK
  BY TablesStay DEF TabInv
<1>3. Len(net) \in Nat /\ DOMAIN net = 1..Len(net) /\ Len(net') = Len(net) + 1
  BY <1>1, Length, OneOrNone DEF TabInv, NetOK, Change
<1>4. NetOK'
  BY <1>1, <1>2, <1>3, SendKeepsNet DEF TabInv
<1>5. m # Over
  BY DEF Over, Kinds
<1>6. i # Len(net) + 1
  BY <1>3 DEF InFlight
<1>7. /\ net'[Len(net) + 1] = m
      /\ \A j \in InFlight \ {i} : net'[j] = net[j]
      /\ \A j \in InFlight : j \in 1..Len(net)
      /\ Lists' = (Lists \ {i})
           \cup (IF m.kind = "list" /\ m.by = view.id THEN {Len(net) + 1} ELSE {})
      /\ Creates' = (Creates \ {i})
           \cup (IF m.kind = "create" /\ m.by = view.id THEN {Len(net) + 1} ELSE {})
      /\ Signing' = (Signing \ {i}) \cup (IF Signs(m) THEN {Len(net) + 1} ELSE {})
  BY <1>1, <1>5, <1>6, AfterOne DEF TabInv
<1> QED BY <1>2, <1>3, <1>4, <1>7

\* Of an answer to the page only a 401 touches the session: it ends it.
LEMMA PageAnswer ==
  ASSUME TabInv, NEW i, Intercept(i), UNCHANGED <<pending, count, page, hasty, signingIn>>,
         Signing' = Signing
  PROVE  /\ TabOK' /\ SigningOK' /\ token' \in {token, NoToken}
         /\ net[i].status = "ok" => token' = token
<1>1. /\ token' \in {token, NoToken} /\ me' \in {me, Nobody}
      /\ going' = going \/ going' = IF "login" = page THEN Nowhere ELSE "login"
      /\ net[i].status = "ok" => token' = token
  BY DEF Intercept, Logout, GoTo
<1>2. TabOK'
  BY <1>1 DEF TabInv, TabOK, Pages
<1>3. ~hasty /\ signingIn => page = "login" /\ going = Nowhere
  BY DEF TabInv, SigningOK
<1>4. SigningOK'
  BY <1>1, <1>3, SigningFrame DEF TabInv
<1> QED BY <1>1, <1>2, <1>4

LEMMA DeliverFacts ==
  ASSUME TabInv, NEW i, Deliver(i)
  PROVE  /\ i \in InFlight /\ MessageOK(net[i])
         /\ UNCHANGED <<pending, count, page, hasty>>
         /\ net[i].by # Unheard =>
              \/ LoginAnswered(i) \/ MeAnswered(i) \/ ListAnswered(i)
              \/ PreviewAnswered(i) \/ CreateAnswered(i) \/ DecideAnswered(i)
         /\ net[i].by = Unheard => Unheeded(i)
BY DEF Deliver, Answered, server, tables, TabInv, NetOK

\* What nobody hears changes nothing.
LEMMA UnheededStep ==
  ASSUME TabInv, NEW i, Deliver(i), net[i].by = Unheard
  PROVE  TabInv'
<1>1. /\ i \in InFlight /\ Done(i, <<>>)
      /\ UNCHANGED <<pending, count, page, hasty, token, me, signingIn, going, view>>
  BY DeliverFacts DEF Unheeded
<1>2. i \notin Lists /\ i \notin Creates /\ i \notin Signing
  BY DEF Lists, Creates, SentBy, Sent, Signing, Signs
<1>3. /\ NetOK' /\ TablesGrow /\ TabOK
      /\ Len(net) \in Nat /\ Len(net') \in Nat /\ Len(net) <= Len(net')
      /\ Lists' = Lists \ {i} /\ Creates' = Creates \ {i} /\ Signing' = Signing \ {i}
      /\ \A j \in InFlight \ {i} : net'[j] = net[j]
  BY <1>1, OverFacts
<1>4. Lists' = Lists /\ Creates' = Creates /\ Signing' = Signing /\ \A j \in Lists : net'[j] = net[j]
  BY <1>2, <1>3 DEF Lists, SentBy, Sent
<1>5. TabOK'
  BY <1>1, <1>3 DEF TabOK
<1>6. SigningOK'
  BY <1>1, <1>4, SigningFrame DEF TabInv, SigningOK
<1>7. ViewOK'
  BY <1>1, <1>3, <1>4, SameLists, ViewFrame DEF TabInv
<1> QED BY <1>3, <1>5, <1>6, <1>7 DEF TabInv

\* A login goes on with the question who one is, or ends.  Who waits for it looks at no list.
LEMMA LoginAnsweredStep ==
  ASSUME TabInv, NEW i, Deliver(i), net[i].by # Unheard, LoginAnswered(i)
  PROVE  TabInv'
<1>1. PICK k : k = net[i]
  OBVIOUS
<1>2. /\ i \in InFlight /\ MessageOK(k) /\ k.kind = "login" /\ k.by # Unheard
      /\ UNCHANGED <<pending, count, page, hasty, going, view>>
  BY <1>1, DeliverFacts DEF LoginAnswered
<1>3. i \notin Lists /\ i \notin Creates /\ i \in Signing
  BY <1>1, <1>2 DEF Lists, Creates, SentBy, Sent, Signing, Signs
<1>4. ~hasty => signingIn /\ page = "login" /\ going = Nowhere /\ Signing = {i}
  BY <1>3 DEF TabInv, SigningOK
<1>5. CASE k.status = "ok"
  <2>1. PICK t \in Token : k.body = <<t>>
    BY <1>2, <1>5 DEF MessageOK, AnswerOK
  <2>2. PICK m : m = Request("me", t, TheService, "login")
    OBVIOUS
  <2>3. token' = t /\ Done(i, <<m>>) /\ UNCHANGED <<me, signingIn>>
    BY <1>1, <1>5, <2>1, <2>2 DEF LoginAnswered
  <2>4. m.kind = "me" /\ m.kind \in Kinds /\ m.by = TheService /\ m.by # Unheard /\ Signs(m)
    BY <2>2 DEF Request, Kinds, TheService, Unheard, Signs
  <2>5. ASSUME Len(net') = Len(net) + 1 PROVE MessageOK(m)'
    <3>1. Len(net) \in Nat
      BY Length DEF TabInv, NetOK
    <3>2. TheService \in -1..Len(net')
      BY <2>5, <3>1 DEF TheService
    <3> QED BY <2>2, <3>2 DEF MessageOK, ArgOK, AnswerOK, Request, Kinds, Statuses
  <2>6. /\ NetOK' /\ TablesGrow /\ TabOK
        /\ Len(net) \in Nat /\ Len(net') \in Nat /\ Len(net) <= Len(net')
        /\ Lists' = Lists \ {i} /\ Creates' = Creates \ {i}
        /\ Signing' = (Signing \ {i}) \cup {Len(net) + 1}
        /\ \A j \in InFlight \ {i} : net'[j] = net[j]
    <3>1. /\ NetOK' /\ TablesGrow /\ TabOK
          /\ Len(net) \in Nat /\ Len(net') \in Nat /\ Len(net) <= Len(net')
          /\ Lists' = (Lists \ {i})
               \cup (IF m.kind = "list" /\ m.by = view.id THEN {Len(net) + 1} ELSE {})
          /\ Creates' = (Creates \ {i})
               \cup (IF m.kind = "create" /\ m.by = view.id THEN {Len(net) + 1} ELSE {})
          /\ Signing' = (Signing \ {i}) \cup (IF Signs(m) THEN {Len(net) + 1} ELSE {})
          /\ \A j \in InFlight \ {i} : net'[j] = net[j]
      BY <1>2, <2>3, <2>4, <2>5, AgainFacts
    <3> QED BY <2>4, <3>1
  <2>7. TabOK'
    BY <1>2, <2>3, <2>6 DEF TabOK
  <2>8. SigningOK'
    BY <1>2, <1>4, <2>3, <2>6 DEF SigningOK
  <2>9. ViewOK'
    <3>1. Lists' = Lists /\ Creates' = Creates /\ \A j \in Lists : net'[j] = net[j]
      BY <1>3, <2>6 DEF Lists, SentBy, Sent
    <3>2. page = "approvals" => hasty'
      BY <1>2, <1>4
    <3> QED BY <1>2, <2>6, <3>1, <3>2, SameLists, ViewFrame DEF TabInv
  <2> QED BY <2>6, <2>7, <2>8, <2>9 DEF TabInv
<1>6. CASE k.status # "ok"
  <2>1. token' = NoToken /\ me' = Nobody /\ signingIn' = FALSE /\ Done(i, <<>>)
    BY <1>1, <1>6 DEF LoginAnswered
  <2>2. /\ NetOK' /\ TablesGrow /\ TabOK
        /\ Len(net) \in Nat /\ Len(net') \in Nat /\ Len(net) <= Len(net')
        /\ Lists' = Lists \ {i} /\ Creates' = Creates \ {i} /\ Signing' = Signing \ {i}
        /\ \A j \in InFlight \ {i} : net'[j] = net[j]
    BY <1>2, <2>1, OverFacts
  <2>3. TabOK'
    BY <1>2, <2>1, <2>2 DEF TabOK
  <2>4. SigningOK'
    BY <1>2, <1>4, <2>1, <2>2 DEF SigningOK
  <2>5. ViewOK'
    <3>1. Lists' = Lists /\ Creates' = Creates /\ \A j \in Lists : net'[j] = net[j]
      BY <1>3, <2>2 DEF Lists, SentBy, Sent
    <3> QED BY <1>2, <2>1, <2>2, <3>1, SameLists, ViewFrame DEF TabInv
  <2> QED BY <2>2, <2>3, <2>4, <2>5 DEF TabInv
<1> QED BY <1>5, <1>6

LEMMA MeAnsweredStep ==
  ASSUME TabInv, NEW i, Deliver(i), net[i].by # Unheard, MeAnswered(i)
  PROVE  TabInv'
<1>1. PICK k : k = net[i]
  OBVIOUS
<1>2. /\ i \in InFlight /\ MessageOK(k) /\ k.kind = "me" /\ k.by # Unheard /\ Done(i, <<>>)
      /\ UNCHANGED <<pending, count, page, hasty, view>>
  BY <1>1, DeliverFacts DEF MeAnswered
<1>3. i \notin Lists /\ i \notin Creates /\ (k.arg = "login" <=> i \in Signing)
  BY <1>1, <1>2 DEF Lists, Creates, SentBy, Sent, Signing, Signs
<1>4. /\ NetOK' /\ TablesGrow /\ TabOK
      /\ Len(net) \in Nat /\ Len(net') \in Nat /\ Len(net) <= Len(net')
      /\ Lists' = Lists \ {i} /\ Creates' = Creates \ {i} /\ Signing' = Signing \ {i}
      /\ \A j \in InFlight \ {i} : net'[j] = net[j]
  BY <1>2, OverFacts
<1>5. token' \in {token, NoToken} /\ me' \in Users \cup {Nobody}
  <2>1. CASE k.status = "ok"
    <3>1. k.body = <<k.token.user>> /\ k.token # NoToken /\ k.token \in Token \cup {NoToken}
      BY <1>2, <2>1 DEF MessageOK, AnswerOK
    <3>2. k.token.user \in Users
      BY <3>1 DEF Token
    <3>3. me' = k.body[1] /\ token' = token
      BY <1>1, <2>1 DEF MeAnswered
    <3> QED BY <3>1, <3>2, <3>3
  <2>2. CASE k.status # "ok"
    BY <1>1, <2>2 DEF MeAnswered
  <2> QED BY <2>1, <2>2
<1>6. /\ k.arg = "login" => signingIn' = FALSE /\ going' \in {"approvals", "other", Nowhere}
      /\ k.arg # "login" =>
           /\ signingIn' = signingIn
           /\ going' = going \/ going' = IF "login" = page THEN Nowhere ELSE "login"
  BY <1>1 DEF MeAnswered, GoTo
<1>7. TabOK'
  <2>1. going' \in Pages \cup {Nowhere} /\ signingIn' \in BOOLEAN
    BY <1>4, <1>6 DEF TabOK, Pages
  <2> QED BY <1>2, <1>4, <1>5, <2>1 DEF TabOK
<1>8. SigningOK'
  <2>1. ~hasty => /\ Signing # {} => signingIn
                  /\ signingIn => page = "login" /\ going = Nowhere
                  /\ \A j, l \in Signing : j = l
    BY DEF TabInv, SigningOK
  <2>2. CASE k.arg = "login"
    <3>1. ~hasty => Signing' = {}
      BY <1>3, <1>4, <2>1, <2>2
    <3> QED BY <1>2, <1>6, <2>2, <3>1 DEF SigningOK
  <2>3. CASE k.arg # "login"
    <3>1. Signing' = Signing
      BY <1>3, <1>4, <2>3
    <3> QED BY <1>2, <1>6, <2>1, <2>3, <3>1, SigningFrame DEF TabInv
  <2> QED BY <2>2, <2>3
<1>9. ViewOK'
  <2>1. Lists' = Lists /\ Creates' = Creates /\ \A j \in Lists : net'[j] = net[j]
    BY <1>3, <1>4 DEF Lists, SentBy, Sent
  <2> QED BY <1>2, <1>4, <1>5, <2>1, SameLists, ViewFrame DEF TabInv
<1> QED BY <1>4, <1>7, <1>8, <1>9 DEF TabInv

\* A list that was overtaken makes the page miss something until its end; one that was not is
\* the list to show, if it was the last to be asked for.
LEMMA ListShown ==
  ASSUME TabInv, page = "approvals", page' = page, hasty' = hasty,
         UNCHANGED <<pending, count>>, token' \in {token, NoToken},
         NEW i \in Lists, NEW k, k = net[i], k.status = "ok",
         Len(net) \in Nat, Len(net') = Len(net),
         Lists' = Lists \ {i}, Creates' = Creates, \A j \in InFlight \ {i} : net'[j] = net[j],
         NEW p \in SUBSET (1..count), k.body[1] = [filter |-> k.arg, pending |-> p],
         NEW r, r = [sent |-> i, user |-> k.token.user, filter |-> k.arg, pending |-> p],
         NEW late \in BOOLEAN, late <=> Overtaken(i),
         view' = [view EXCEPT !.loading = FALSE, !.missed = @ \/ late, !.rows = <<r>>]
  PROVE  ViewOK'
<1>1. ViewTyped /\ Spinners /\ OfTheSession /\ UpToDate
  BY DEF TabInv, ViewOK
<1>2. /\ view' = [id |-> view'.id, filter |-> view'.filter, loading |-> view'.loading,
                  creating |-> view'.creating, amount |-> view'.amount, tier |-> view'.tier,
                  rows |-> view'.rows, confirmed |-> view'.confirmed, missed |-> view'.missed]
      /\ view'.id = view.id /\ view'.filter = view.filter /\ view'.loading = FALSE
      /\ view'.creating = view.creating /\ view'.amount = view.amount
      /\ view'.tier = view.tier /\ view'.rows = <<r>> /\ view'.confirmed = view.confirmed
      /\ view'.missed = (view.missed \/ late)
  BY <1>1 DEF ViewTyped
<1>3. <<r>>[1] = r /\ <<r>> # <<>>
  OBVIOUS
<1>4. /\ r.sent = i /\ r.user = k.token.user /\ r.filter = k.arg /\ r.pending = p
      /\ r = [sent |-> r.sent, user |-> r.user, filter |-> r.filter, pending |-> r.pending]
  OBVIOUS
<1>5. i \in InFlight /\ MessageOK(k) /\ k.kind = "list" /\ i \in 1..Len(net)
  BY Length DEF Lists, SentBy, Sent, TabInv, NetOK, InFlight
<1>6. k.token.user \in Users
  BY <1>5 DEF MessageOK, AnswerOK, Token
<1>7. ViewTyped'
  <2>1. RowOK(r)'
    BY <1>4, <1>5, <1>6 DEF RowOK, MessageOK, ArgOK
  <2>2. view'.rows = <<view'.rows[1]>> /\ RowOK(view.rows[1])'
    BY <1>2, <1>3, <2>1
  <2>3. view'.missed \in BOOLEAN
    BY <1>1, <1>2 DEF ViewTyped
  <2> QED BY <1>1, <1>2, <2>2, <2>3 DEF ViewTyped
<1>8. Spinners'
  BY <1>1, <1>2 DEF Spinners
<1>9. OfTheSession'
  <2>1. \A j \in Lists' : j \in Lists /\ net'[j] = net[j]
    BY DEF Lists, SentBy, Sent
  <2> QED BY <1>1, <1>2, <1>3, <1>4, <2>1 DEF OfTheSession
<1>10. UpToDate'
  <2>1. Fresh(pending)'
    BY <1>1, <1>2 DEF UpToDate, Fresh
  <2>2. ASSUME ~view'.missed PROVE Newest' \/ Shown'
    <3>1. ~view.missed /\ ~Overtaken(i) /\ (Newest \/ Shown)
      BY <1>1, <1>2, <2>2 DEF UpToDate
    <3>2. ~Shown
      BY <3>1 DEF Shown, Overtaken
    <3>3. PICK n \in Lists :
            /\ \A j \in Lists : j <= n
            /\ net[n].arg = view.filter
            /\ net[n].status = "ok" => Fresh(net[n].body[1].pending)
      BY <3>1, <3>2 DEF Newest
    <3>4. \A j \in Lists : j \in Nat
      BY Length DEF Lists, SentBy, Sent, InFlight, TabInv, NetOK
    <3>5. CASE n = i
      <4>1. r.filter = view.filter /\ r.pending \cap view.confirmed = {}
        BY <1>4, <3>3, <3>5 DEF Fresh
      <4>2. \A j \in Lists' : j < i
        BY <3>3, <3>4, <3>5
      <4> QED BY <1>2, <1>3, <1>4, <4>1, <4>2 DEF Shown, Fresh
    <3>6. CASE n # i
      <4>1. n \in Lists' /\ net'[n] = net[n] /\ i < n /\ \A j \in Lists' : j <= n
        BY <3>3, <3>4, <3>6 DEF Lists, SentBy, Sent
      <4> QED BY <1>2, <1>3, <1>4, <3>3, <4>1 DEF Newest, Fresh
    <3> QED BY <3>5, <3>6
  <2> QED BY <2>1, <2>2 DEF UpToDate
<1> QED BY <1>7, <1>8, <1>9, <1>10 DEF ViewOK

\* A list that fails leaves the page with what it showed.
LEMMA ListMissed ==
  ASSUME TabInv, page = "approvals", page' = page, hasty' = hasty,
         UNCHANGED <<pending, count>>, token' \in {token, NoToken},
         NEW i \in Lists, Len(net') = Len(net), Lists' = Lists \ {i}, Creates' = Creates,
         \A j \in InFlight \ {i} : net'[j] = net[j],
         view' = [view EXCEPT !.loading = FALSE, !.missed = TRUE]
  PROVE  ViewOK'
<1>1. ViewTyped /\ Spinners /\ OfTheSession /\ UpToDate
  BY DEF TabInv, ViewOK
<1>2. /\ view' = [id |-> view'.id, filter |-> view'.filter, loading |-> view'.loading,
                  creating |-> view'.creating, amount |-> view'.amount, tier |-> view'.tier,
                  rows |-> view'.rows, confirmed |-> view'.confirmed, missed |-> view'.missed]
      /\ view'.id = view.id /\ view'.filter = view.filter /\ view'.loading = FALSE
      /\ view'.creating = view.creating /\ view'.amount = view.amount
      /\ view'.tier = view.tier /\ view'.rows = view.rows /\ view'.confirmed = view.confirmed
      /\ view'.missed = TRUE
  BY <1>1 DEF ViewTyped
<1>3. ViewTyped'
  BY <1>1, <1>2 DEF ViewTyped, RowOK
<1>4. Spinners'
  BY <1>1, <1>2 DEF Spinners
<1>5. OfTheSession'
  <2>1. \A j \in Lists' : j \in Lists /\ net'[j] = net[j]
    BY DEF Lists, SentBy, Sent
  <2> QED BY <1>1, <1>2, <2>1 DEF OfTheSession
<1>6. UpToDate'
  BY <1>1, <1>2 DEF UpToDate, Fresh
<1> QED BY <1>3, <1>4, <1>5, <1>6 DEF ViewOK

LEMMA ListAnsweredStep ==
  ASSUME TabInv, NEW i, Deliver(i), net[i].by # Unheard, ListAnswered(i)
  PROVE  TabInv'
<1>1. PICK k : k = net[i]
  OBVIOUS
<1>2. /\ i \in InFlight /\ MessageOK(k) /\ k.kind = "list" /\ k.by # Unheard /\ Done(i, <<>>)
      /\ UNCHANGED <<pending, count, page, hasty, signingIn>> /\ Intercept(i)
  BY <1>1, DeliverFacts DEF ListAnswered
<1>3. i \notin Creates /\ i \notin Signing
  BY <1>1, <1>2 DEF Creates, SentBy, Sent, Signing, Signs
<1>4. PICK late \in BOOLEAN : late <=> Overtaken(i)
  OBVIOUS
<1>5. CASE ~Listens(i)
  <2>1. view' = view
    BY <1>5 DEF ListAnswered
  <2>2. /\ NetOK' /\ TablesGrow /\ TabOK
        /\ Len(net) \in Nat /\ Len(net') \in Nat /\ Len(net) <= Len(net')
        /\ Lists' = Lists \ {i} /\ Creates' = Creates \ {i} /\ Signing' = Signing \ {i}
        /\ \A j \in InFlight \ {i} : net'[j] = net[j]
    BY <1>2, <2>1, OverFacts
  <2>3. TabOK' /\ SigningOK' /\ token' \in {token, NoToken}
    BY <1>2, <1>3, <2>2, PageAnswer
  <2>4. ViewOK'
    <3>1. CASE page = "approvals"
      <4>1. i \notin Lists
        BY <1>5, <3>1 DEF Lists, SentBy, Sent, Listens
      <4>2. Lists' = Lists /\ Creates' = Creates /\ \A j \in Lists : net'[j] = net[j]
        BY <1>3, <2>2, <4>1 DEF Lists, SentBy, Sent
      <4> QED BY <1>2, <2>1, <2>2, <2>3, <4>2, SameLists, ViewFrame DEF TabInv
    <3>2. CASE page # "approvals"
      BY <1>2, <2>1, <3>2 DEF TabInv, ViewOK
    <3> QED BY <3>1, <3>2
  <2> QED BY <2>2, <2>3, <2>4 DEF TabInv
<1>6. CASE Listens(i)
  <2>1. page = "approvals" /\ i \in Lists /\ ViewTyped
    BY <1>1, <1>2, <1>6 DEF Listens, Lists, SentBy, Sent, TabInv, ViewOK
  <2>2. CASE k.status = "ok"
    <3>1. PICK p \in SUBSET (1..count) : k.body = <<[filter |-> k.arg, pending |-> p]>>
      BY <1>2, <2>2 DEF MessageOK, AnswerOK
    <3>2. PICK r : r = [sent |-> i, user |-> k.token.user, filter |-> k.arg, pending |-> p]
      OBVIOUS
    <3>3. PICK a : a = k.body[1]
      OBVIOUS
    <3>4. a = [filter |-> k.arg, pending |-> p] /\ a.filter = k.arg /\ a.pending = p
      BY <3>1, <3>3
    <3>5. view' = [view EXCEPT !.loading = FALSE, !.missed = @ \/ late, !.rows = <<r>>]
      <4>1. view' = [view EXCEPT !.loading = FALSE, !.missed = @ \/ Overtaken(i),
                        !.rows = <<[sent |-> i, user |-> k.token.user,
                                    filter |-> a.filter, pending |-> a.pending]>>]
        BY <1>1, <1>6, <2>2, <3>3 DEF ListAnswered
      <4>2. (view.missed \/ Overtaken(i)) = (view.missed \/ late)
        BY <1>4, <2>1 DEF ViewTyped
      <4> QED BY <3>2, <3>4, <4>1, <4>2
    <3>6. view'.id = view.id
      BY <2>1, <3>5 DEF ViewTyped
    <3>7. /\ NetOK' /\ Len(net) \in Nat /\ Len(net') = Len(net)
          /\ Lists' = Lists \ {i} /\ Creates' = Creates \ {i} /\ Signing' = Signing \ {i}
          /\ \A j \in InFlight \ {i} : net'[j] = net[j]
      BY <1>2, <3>6, OverFacts
    <3>8. TabOK' /\ SigningOK' /\ token' \in {token, NoToken}
      BY <1>2, <1>3, <3>7, PageAnswer
    <3>9. k.body[1] = [filter |-> k.arg, pending |-> p] /\ Creates' = Creates
      BY <1>3, <3>3, <3>4, <3>7
    <3>10. ViewOK'
      BY ZenonT(60), <1>1, <1>2, <1>4, <2>1, <2>2, <3>2, <3>5, <3>7, <3>8, <3>9, ListShown
    <3> QED BY <3>7, <3>8, <3>10 DEF TabInv
  <2>3. CASE k.status # "ok"
    <3>1. view' = [view EXCEPT !.loading = FALSE, !.missed = TRUE]
      BY <1>1, <1>6, <2>3 DEF ListAnswered
    <3>2. view'.id = view.id
      BY <2>1, <3>1 DEF ViewTyped
    <3>3. /\ NetOK' /\ Len(net) \in Nat /\ Len(net') = Len(net)
          /\ Lists' = Lists \ {i} /\ Creates' = Creates \ {i} /\ Signing' = Signing \ {i}
          /\ \A j \in InFlight \ {i} : net'[j] = net[j]
      BY <1>2, <3>2, OverFacts
    <3>4. TabOK' /\ SigningOK' /\ token' \in {token, NoToken} /\ Creates' = Creates
      BY <1>2, <1>3, <3>3, PageAnswer
    <3>5. ViewOK'
      BY <1>2, <2>1, <3>1, <3>3, <3>4, ListMissed
    <3> QED BY <3>3, <3>4, <3>5 DEF TabInv
  <2> QED BY <2>2, <2>3
<1> QED BY <1>5, <1>6

LEMMA PreviewAnsweredStep ==
  ASSUME TabInv, NEW i, Deliver(i), net[i].by # Unheard, PreviewAnswered(i)
  PROVE  TabInv'
<1>1. PICK k : k = net[i]
  OBVIOUS
<1>2. /\ i \in InFlight /\ MessageOK(k) /\ k.kind = "preview" /\ k.by # Unheard /\ Done(i, <<>>)
      /\ UNCHANGED <<pending, count, page, hasty, signingIn>> /\ Intercept(i)
  BY <1>1, DeliverFacts DEF PreviewAnswered
<1>3. i \notin Lists /\ i \notin Creates /\ i \notin Signing
  BY <1>1, <1>2 DEF Lists, Creates, SentBy, Sent, Signing, Signs
<1>4. PICK c, a : c = view.creating /\ a = view.amount
  OBVIOUS
<1>5. /\ view' = view
      \/ /\ page = "approvals" /\ ViewTyped
         /\ \E b \in Amounts \cup {0} :
              view' = [view EXCEPT !.creating = c, !.amount = a, !.tier = b]
  <2>1. CASE Listens(i) /\ k.status = "ok"
    <3>1. page = "approvals" /\ ViewTyped
      BY <2>1 DEF Listens, TabInv, ViewOK
    <3>2. k.body = <<k.arg>> /\ k.arg \in Amounts
      BY <1>2, <2>1 DEF MessageOK, ArgOK, AnswerOK
    <3>3. view' = [view EXCEPT !.tier = k.arg]
      BY <1>1, <2>1, <3>2 DEF PreviewAnswered
    <3>4. view' = [view EXCEPT !.creating = c, !.amount = a, !.tier = k.arg]
      BY <1>4, <3>1, <3>3 DEF ViewTyped
    <3> QED BY <3>1, <3>2, <3>4
  <2>2. CASE ~(Listens(i) /\ k.status = "ok")
    BY <1>1, <2>2 DEF PreviewAnswered
  <2> QED BY <2>1, <2>2
<1>6. view'.id = view.id
  BY <1>5 DEF ViewTyped
<1>7. /\ NetOK' /\ TablesGrow /\ TabOK
      /\ Len(net) \in Nat /\ Len(net') \in Nat /\ Len(net) <= Len(net')
      /\ Lists' = Lists \ {i} /\ Creates' = Creates \ {i} /\ Signing' = Signing \ {i}
      /\ \A j \in InFlight \ {i} : net'[j] = net[j]
  BY <1>2, <1>6, OverFacts
<1>8. TabOK' /\ SigningOK' /\ token' \in {token, NoToken}
  BY <1>2, <1>3, <1>7, PageAnswer
<1>9. Lists' = Lists /\ Creates' = Creates /\ \A j \in Lists : SameList(j)
  BY <1>3, <1>7, SameLists DEF Lists, SentBy, Sent
<1>10. ViewOK'
  <2>1. CASE view' = view
    BY <1>2, <1>7, <1>8, <1>9, <2>1, ViewFrame DEF TabInv
  <2>2. ASSUME page = "approvals", ViewTyped, NEW b \in Amounts \cup {0},
               view' = [view EXCEPT !.creating = c, !.amount = a, !.tier = b]
        PROVE  ViewOK'
    <3>1. /\ c \in BOOLEAN /\ a \in Amounts
          /\ (c <=> Creates' # {}) /\ \A j, l \in Creates' : j = l
      BY <1>4, <1>9, <2>2 DEF TabInv, ViewOK, ViewTyped, Spinners
    <3>2. ViewOK
      BY DEF TabInv
    <3> QED BY <1>2, <1>7, <1>8, <1>9, <2>2, <3>1, <3>2, FormKeepsView
  <2> QED BY <1>5, <2>1, <2>2
<1> QED BY <1>7, <1>8, <1>10 DEF TabInv

\* What a page that is gone asked for, or asks for once more, concerns no other.
LEMMA AwayStep ==
  ASSUME TabInv, NEW i \in InFlight, NEW k, k = net[i], k.kind \in {"create", "decide"},
         k.by # Unheard, ~Listens(i), Intercept(i), view' = view,
         UNCHANGED <<pending, count, page, hasty, signingIn>>,
         Done(i, <<>>) \/ Done(i, <<Request("list", token, k.by, "all")>>)
  PROVE  TabInv'
<1>1. MessageOK(k) /\ i \notin Lists /\ i \notin Signing
  BY DEF TabInv, NetOK, Lists, SentBy, Sent, Signing, Signs
<1>2. page = "approvals" => i \notin Creates /\ k.by # view.id
  BY DEF Creates, SentBy, Sent, Listens
<1>3. PICK m : m = Request("list", token, k.by, "all")
  OBVIOUS
<1>4. /\ NetOK' /\ TablesGrow /\ TabOK
      /\ Len(net) \in Nat /\ Len(net') \in Nat /\ Len(net) <= Len(net')
      /\ Signing' = Signing \ {i}
      /\ page = "approvals" => Lists' = Lists \ {i} /\ Creates' = Creates \ {i}
      /\ \A j \in InFlight \ {i} : net'[j] = net[j]
  <2>1. CASE Done(i, <<>>)
    <3>1. /\ NetOK' /\ TablesGrow /\ TabOK
          /\ Len(net) \in Nat /\ Len(net') \in Nat /\ Len(net) <= Len(net')
          /\ Lists' = Lists \ {i} /\ Creates' = Creates \ {i} /\ Signing' = Signing \ {i}
          /\ \A j \in InFlight \ {i} : net'[j] = net[j]
      BY <2>1, OverFacts
    <3> QED BY <3>1
  <2>2. CASE Done(i, <<m>>)
    <3>1. m.kind = "list" /\ m.kind \in Kinds /\ m.by = k.by /\ ~Signs(m)
      BY <1>3 DEF Request, Kinds, Signs
    <3>2. ASSUME Len(net') = Len(net) + 1 PROVE MessageOK(m)'
      <4>1. Len(net) \in Nat
        BY Length DEF TabInv, NetOK
      <4>2. k.by \in -1..Len(net') /\ token \in Token \cup {NoToken}
        BY <1>1, <3>2, <4>1 DEF MessageOK, TabInv, TabOK
      <4> QED BY <1>3, <4>2, ClientAssumption
              DEF MessageOK, ArgOK, AnswerOK, Request, Kinds, Statuses
    <3>3. /\ NetOK' /\ TablesGrow /\ TabOK
          /\ Len(net) \in Nat /\ Len(net') \in Nat /\ Len(net) <= Len(net')
          /\ Lists' = (Lists \ {i})
               \cup (IF m.kind = "list" /\ m.by = view.id THEN {Len(net) + 1} ELSE {})
          /\ Creates' = (Creates \ {i})
               \cup (IF m.kind = "create" /\ m.by = view.id THEN {Len(net) + 1} ELSE {})
          /\ Signing' = (Signing \ {i}) \cup (IF Signs(m) THEN {Len(net) + 1} ELSE {})
          /\ \A j \in InFlight \ {i} : net'[j] = net[j]
      BY <2>2, <3>1, <3>2, AgainFacts
    <3> QED BY <1>2, <3>1, <3>3
  <2> QED BY <1>3, <2>1, <2>2
<1>5. TabOK' /\ SigningOK' /\ token' \in {token, NoToken}
  BY <1>1, <1>4, PageAnswer
<1>6. ViewOK'
  <2>1. CASE page = "approvals"
    <3>1. Lists' = Lists /\ Creates' = Creates /\ \A j \in Lists : net'[j] = net[j]
      BY <1>1, <1>2, <1>4, <2>1 DEF Lists, SentBy, Sent
    <3> QED BY <1>4, <1>5, <3>1, SameLists, ViewFrame DEF TabInv
  <2>2. CASE page # "approvals"
    BY <2>2 DEF TabInv, ViewOK
  <2> QED BY <2>1, <2>2
<1> QED BY <1>4, <1>5, <1>6 DEF TabInv

\* A page that is there asks for its list again.
LEMMA AgainStep ==
  ASSUME TabInv, NEW i \in InFlight, NEW k, k = net[i], k.kind \in {"create", "decide"},
         k.by # Unheard, Listens(i), UNCHANGED <<pending, count, page, hasty, signingIn, token>>,
         Intercept(i), Done(i, <<Load(view, token)>>),
         NEW c \in BOOLEAN, c <=> Creates \ {i} # {},
         NEW d \in SUBSET (1..count), d \cap pending = {},
         view' = [id |-> view.id, filter |-> view.filter, loading |-> TRUE, creating |-> c,
                  amount |-> view.amount, tier |-> view.tier, rows |-> view.rows,
                  confirmed |-> d, missed |-> view.missed]
  PROVE  TabInv'
<1>1. MessageOK(k) /\ i \notin Lists /\ i \notin Signing
  BY DEF TabInv, NetOK, Lists, SentBy, Sent, Signing, Signs
<1>2. page = "approvals" /\ k.by = view.id /\ ViewTyped /\ Spinners
  BY DEF Listens, TabInv, ViewOK
<1>3. PICK m, f : f = view.filter /\ m = Request("list", token, view.id, f)
  OBVIOUS
<1>4. Done(i, <<m>>)
  BY <1>3 DEF Load
<1>5. /\ m.kind = "list" /\ m.kind \in Kinds /\ m.by = view.id /\ m.by # Unheard /\ ~Signs(m)
      /\ m.token = token /\ m.arg = f /\ m.status = "sent"
  <2>1. /\ m.kind = "list" /\ m.kind \in Kinds /\ m.by = view.id /\ m.by # Unheard
        /\ m.token = token /\ m.arg = f /\ m.status = "sent"
    BY <1>2, <1>3 DEF Request, Kinds
  <2> QED BY <2>1 DEF Signs
<1>6. f \in Filters /\ view'.id = view.id
  BY <1>2, <1>3 DEF ViewTyped
<1>7. ASSUME Len(net') = Len(net) + 1 PROVE MessageOK(m)'
  <2>1. Len(net) \in Nat
    BY Length DEF TabInv, NetOK
  <2>2. view.id \in -1..Len(net') /\ token \in Token \cup {NoToken}
    BY <1>2, <1>7, <2>1 DEF ViewTyped, TabInv, TabOK
  <2> QED BY <1>3, <1>6, <2>2 DEF MessageOK, ArgOK, AnswerOK, Request, Kinds, Statuses
<1>8. /\ NetOK' /\ TablesGrow /\ TabOK
      /\ Len(net) \in Nat /\ Len(net') \in Nat /\ Len(net) <= Len(net')
      /\ Len(net') = Len(net) + 1 /\ net'[Len(net) + 1] = m
      /\ \A j \in InFlight : j \in 1..Len(net)
      /\ Lists' = (Lists \ {i}) \cup {Len(net) + 1}
      /\ Creates' = Creates \ {i} /\ Signing' = Signing \ {i}
      /\ \A j \in InFlight \ {i} : net'[j] = net[j]
  <2>1. /\ NetOK' /\ TablesGrow /\ TabOK
        /\ Len(net) \in Nat /\ Len(net') \in Nat /\ Len(net) <= Len(net')
        /\ Len(net') = Len(net) + 1 /\ net'[Len(net) + 1] = m
        /\ \A j \in InFlight : j \in 1..Len(net)
        /\ Lists' = (Lists \ {i})
             \cup (IF m.kind = "list" /\ m.by = view.id THEN {Len(net) + 1} ELSE {})
        /\ Creates' = (Creates \ {i})
             \cup (IF m.kind = "create" /\ m.by = view.id THEN {Len(net) + 1} ELSE {})
        /\ Signing' = (Signing \ {i}) \cup (IF Signs(m) THEN {Len(net) + 1} ELSE {})
        /\ \A j \in InFlight \ {i} : net'[j] = net[j]
    BY <1>4, <1>5, <1>6, <1>7, AgainFacts
  <2> QED BY <1>5, <2>1
<1>9. TabOK' /\ SigningOK'
  <2>1. Signing' = Signing
    BY <1>1, <1>8
  <2> QED BY <2>1, PageAnswer
<1>10. ViewOK'
  <2>1. /\ Lists' = Lists \cup {Len(net) + 1} /\ \A j \in Lists : net'[j] = net[j]
        /\ (c <=> Creates' # {}) /\ \A j, l \in Creates' : j = l
    BY <1>1, <1>2, <1>8 DEF Lists, SentBy, Sent, Spinners
  <2>2. view' = [id |-> view.id, filter |-> f, loading |-> TRUE, creating |-> c,
                 amount |-> view.amount, tier |-> view.tier, rows |-> view.rows,
                 confirmed |-> d, missed |-> view.missed]
    BY <1>3
  <2>3. ViewOK /\ TabOK
    BY DEF TabInv
  <2> QED BY <1>2, <1>5, <1>6, <1>8, <2>1, <2>2, <2>3, LoadKeepsView
<1> QED BY <1>8, <1>9, <1>10 DEF TabInv

LEMMA CreateAnsweredStep ==
  ASSUME TabInv, NEW i, Deliver(i), net[i].by # Unheard, CreateAnswered(i)
  PROVE  TabInv'
<1>1. PICK k : k = net[i]
  OBVIOUS
<1>2. /\ i \in InFlight /\ MessageOK(k) /\ k.kind = "create" /\ k.by # Unheard
      /\ UNCHANGED <<pending, count, page, hasty, signingIn>> /\ Intercept(i)
  BY <1>1, DeliverFacts DEF CreateAnswered
<1>3. CASE ~Listens(i)
  <2>1. view' = view /\ (Done(i, <<>>) \/ Done(i, <<Request("list", token, k.by, "all")>>))
    BY <1>1, <1>3 DEF CreateAnswered, AndLoad
  <2> QED BY <1>1, <1>2, <1>3, <2>1, AwayStep
<1>4. CASE Listens(i)
  <2>1. /\ page = "approvals" /\ i \in Creates /\ i \notin Lists /\ i \notin Signing
        /\ ViewTyped /\ Spinners /\ UpToDate
    BY <1>1, <1>2, <1>4
    DEF Listens, Lists, Creates, SentBy, Sent, Signing, Signs, TabInv, ViewOK
  <2>2. Creates \ {i} = {}
    BY <2>1 DEF Spinners
  <2>3. PICK c, d : c = FALSE /\ d = view.confirmed
    OBVIOUS
  <2>4. c \in BOOLEAN /\ (c <=> Creates \ {i} # {}) /\ d \in SUBSET (1..count) /\ d \cap pending = {}
    BY <2>1, <2>2, <2>3 DEF ViewTyped, UpToDate, Fresh
  <2>5. CASE k.status = "ok"
    <3>1. Done(i, <<Load(view, token)>>) /\ UNCHANGED token
      BY <1>1, <1>4, <2>5 DEF CreateAnswered, AndLoad, Intercept
    <3>2. view' = Loading(Created(view, "ok"))
      BY <1>1, <1>4, <2>5 DEF CreateAnswered, AndLoad
    <3>3. view' = [id |-> view.id, filter |-> view.filter, loading |-> TRUE, creating |-> c,
                   amount |-> view.amount, tier |-> view.tier, rows |-> view.rows,
                   confirmed |-> d, missed |-> view.missed]
      BY <2>1, <2>3, <3>2 DEF Loading, Created, ViewTyped
    <3> QED BY <1>1, <1>2, <1>4, <2>4, <3>1, <3>3, AgainStep
  <2>6. CASE k.status # "ok"
    <3>1. Done(i, <<>>) /\ view' = Created(view, k.status)
      BY <1>1, <1>4, <2>6 DEF CreateAnswered
    <3>2. PICK a, b : a = view.amount /\ b = view.tier
      OBVIOUS
    <3>3. /\ view' = [view EXCEPT !.creating = c, !.amount = a, !.tier = b]
          /\ view'.id = view.id /\ a \in Amounts /\ b \in Amounts \cup {0}
      BY <2>1, <2>3, <3>1, <3>2 DEF Created, ViewTyped
    <3>4. /\ NetOK' /\ TablesGrow /\ TabOK
          /\ Len(net) \in Nat /\ Len(net') \in Nat /\ Len(net) <= Len(net')
          /\ Lists' = Lists \ {i} /\ Creates' = Creates \ {i} /\ Signing' = Signing \ {i}
          /\ \A j \in InFlight \ {i} : net'[j] = net[j]
      BY <1>2, <3>1, <3>3, OverFacts
    <3>5. TabOK' /\ SigningOK' /\ token' \in {token, NoToken}
      BY <1>2, <2>1, <3>4, PageAnswer
    <3>6. /\ Lists' = Lists /\ Creates' = {} /\ \A j \in Lists : SameList(j)
      BY <2>1, <2>2, <3>4, SameLists DEF Lists, SentBy, Sent
    <3>7. ViewOK' 
      <4>1. ViewOK /\ (c <=> Creates' # {}) /\ \A j, l \in Creates' : j = l
        BY <2>3, <3>6 DEF TabInv
      <4> QED BY <1>2, <2>1, <2>4, <3>3, <3>4, <3>5, <3>6, <4>1, FormKeepsView
    <3> QED BY <3>4, <3>5, <3>7 DEF TabInv
  <2> QED BY <2>5, <2>6
<1> QED BY <1>3, <1>4

LEMMA DecideAnsweredStep ==
  ASSUME TabInv, NEW i, Deliver(i), net[i].by # Unheard, DecideAnswered(i)
  PROVE  TabInv'
<1>1. PICK k : k = net[i]
  OBVIOUS
<1>2. /\ i \in InFlight /\ MessageOK(k) /\ k.kind = "decide" /\ k.by # Unheard
      /\ UNCHANGED <<pending, count, page, hasty, signingIn>> /\ Intercept(i)
  BY <1>1, DeliverFacts DEF DecideAnswered
<1>3. CASE ~Listens(i)
  <2>1. view' = view /\ (Done(i, <<>>) \/ Done(i, <<Request("list", token, k.by, "all")>>))
    BY <1>1, <1>3 DEF DecideAnswered, AndLoad
  <2> QED BY <1>1, <1>2, <1>3, <2>1, AwayStep
<1>4. i \notin Lists /\ i \notin Signing /\ i \notin Creates
  BY <1>1, <1>2 DEF Lists, Creates, SentBy, Sent, Signing, Signs
<1>5. CASE Listens(i) /\ k.status = "ok"
  <2>1. page = "approvals" /\ ViewTyped /\ Spinners /\ UpToDate
    BY <1>5 DEF Listens, TabInv, ViewOK
  <2>2. PICK c, d : c = view.creating /\ d = view.confirmed \cup {k.arg}
    OBVIOUS
  <2>3. k.arg \in 1..count /\ k.arg \notin pending
    BY <1>2, <1>5 DEF MessageOK, ArgOK, AnswerOK
  <2>4. c \in BOOLEAN /\ (c <=> Creates \ {i} # {}) /\ d \in SUBSET (1..count) /\ d \cap pending = {}
    BY <1>4, <2>1, <2>2, <2>3 DEF ViewTyped, Spinners, UpToDate, Fresh
  <2>5. Done(i, <<Load(view, token)>>) /\ UNCHANGED token
    BY <1>1, <1>5 DEF DecideAnswered, AndLoad, Intercept
  <2>6. view' = Loading([view EXCEPT !.confirmed = @ \cup {k.arg}])
    BY <1>1, <1>5 DEF DecideAnswered, AndLoad
  <2>7. view' = [id |-> view.id, filter |-> view.filter, loading |-> TRUE, creating |-> c,
                 amount |-> view.amount, tier |-> view.tier, rows |-> view.rows,
                 confirmed |-> d, missed |-> view.missed]
    BY <2>1, <2>2, <2>6 DEF Loading, ViewTyped
  <2> QED BY <1>1, <1>2, <1>5, <2>4, <2>5, <2>7, AgainStep
<1>6. CASE Listens(i) /\ k.status # "ok"
  <2>1. Done(i, <<>>) /\ view' = view
    BY <1>1, <1>6 DEF DecideAnswered
  <2>2. /\ NetOK' /\ TablesGrow /\ TabOK
        /\ Len(net) \in Nat /\ Len(net') \in Nat /\ Len(net) <= Len(net')
        /\ Lists' = Lists \ {i} /\ Creates' = Creates \ {i} /\ Signing' = Signing \ {i}
        /\ \A j \in InFlight \ {i} : net'[j] = net[j]
    BY <1>2, <2>1, OverFacts
  <2>3. TabOK' /\ SigningOK' /\ token' \in {token, NoToken}
    BY <1>2, <1>4, <2>2, PageAnswer
  <2>4. Lists' = Lists /\ Creates' = Creates /\ \A j \in Lists : net'[j] = net[j]
    BY <1>4, <2>2 DEF Lists, SentBy, Sent
  <2>5. ViewOK'
    BY <1>2, <2>1, <2>2, <2>3, <2>4, SameLists, ViewFrame DEF TabInv
  <2> QED BY <2>2, <2>3, <2>5 DEF TabInv
<1> QED BY <1>3, <1>5, <1>6

-----------------------------------------------------------------------------
(* The bound on the requests, that TLC relies on                           *)

\* Each event sends at most one request, and what it may lead to is owed: after a login the
\* question who one is, after it the page and its list, after a creation or a decision a list.
Logins == {i \in InFlight : net[i].kind = "login"}
Asking == {i \in InFlight : net[i].kind = "me" /\ net[i].arg = "login"}
Changing == {i \in InFlight : net[i].kind \in {"create", "decide"}}
Leading == IF going = "approvals" THEN 1 ELSE 0
Owed == 2 * Cardinality(Logins) + Cardinality(Asking) + Cardinality(Changing)
Bounded == Len(net) + Owed + Leading <= 2 + 3 * events

Due(m) ==
  IF m.kind = "login" THEN 2
  ELSE IF (m.kind = "me" /\ m.arg = "login") \/ m.kind \in {"create", "decide"} THEN 1 ELSE 0

LEMMA OwedIsFinite ==
  ASSUME NetOK
  PROVE  /\ IsFiniteSet(Logins) /\ IsFiniteSet(Asking) /\ IsFiniteSet(Changing)
         /\ Cardinality(Logins) \in Nat /\ Cardinality(Asking) \in Nat
         /\ Cardinality(Changing) \in Nat /\ Owed \in Nat
<1>1. Len(net) \in Nat /\ DOMAIN net = 1..Len(net)
  BY Length DEF NetOK
<1>2. IsFiniteSet(1..Len(net))
  BY <1>1, FS_Interval
<1>3. Logins \subseteq 1..Len(net) /\ Asking \subseteq 1..Len(net) /\ Changing \subseteq 1..Len(net)
  BY <1>1 DEF Logins, Asking, Changing, InFlight
<1>4. IsFiniteSet(Logins) /\ IsFiniteSet(Asking) /\ IsFiniteSet(Changing)
  BY <1>2, <1>3, FS_Subset
<1>5. /\ Cardinality(Logins) \in Nat /\ Cardinality(Asking) \in Nat
      /\ Cardinality(Changing) \in Nat
  BY <1>4, FS_CardinalityType
<1>6. Owed \in Nat
  BY <1>5 DEF Owed
<1> QED BY <1>4, <1>5, <1>6

LEMMA OwedWithout ==
  ASSUME NetOK, NEW i \in InFlight, NEW k, k = net[i],
         InFlight' = InFlight \ {i}, \A j \in InFlight' : net'[j] = net[j]
  PROVE  Owed' = Owed - Due(k)
<1>1. /\ Logins' = Logins \ {i} /\ (i \in Logins <=> k.kind = "login")
      /\ Asking' = Asking \ {i} /\ (i \in Asking <=> k.kind = "me" /\ k.arg = "login")
      /\ Changing' = Changing \ {i} /\ (i \in Changing <=> k.kind \in {"create", "decide"})
  BY DEF Logins, Asking, Changing
<1>2. /\ Cardinality(Logins') = IF i \in Logins THEN Cardinality(Logins) - 1 ELSE Cardinality(Logins)
      /\ Cardinality(Asking') = IF i \in Asking THEN Cardinality(Asking) - 1 ELSE Cardinality(Asking)
      /\ Cardinality(Changing') = IF i \in Changing THEN Cardinality(Changing) - 1
                                  ELSE Cardinality(Changing)
  BY <1>1, OwedIsFinite, FS_RemoveElement
<1>3. Cardinality(Logins) \in Nat /\ Cardinality(Asking) \in Nat /\ Cardinality(Changing) \in Nat
  BY OwedIsFinite
<1> HIDE DEF Logins, Asking, Changing
<1> QED BY <1>1, <1>2, <1>3 DEF Owed, Due

LEMMA OwedWith ==
  ASSUME NetOK, NEW k, NEW new, new \notin InFlight,
         InFlight' = InFlight \cup {new}, net'[new] = k, \A j \in InFlight : net'[j] = net[j]
  PROVE  Owed' = Owed + Due(k)
<1>1. /\ Logins' = IF k.kind = "login" THEN Logins \cup {new} ELSE Logins
      /\ Asking' = IF k.kind = "me" /\ k.arg = "login" THEN Asking \cup {new} ELSE Asking
      /\ Changing' = IF k.kind \in {"create", "decide"} THEN Changing \cup {new} ELSE Changing
      /\ new \notin Logins /\ new \notin Asking /\ new \notin Changing
  BY DEF Logins, Asking, Changing
<1>2. /\ Cardinality(Logins \cup {new}) = Cardinality(Logins) + 1
      /\ Cardinality(Asking \cup {new}) = Cardinality(Asking) + 1
      /\ Cardinality(Changing \cup {new}) = Cardinality(Changing) + 1
  BY <1>1, OwedIsFinite, FS_AddElement
<1>3. Cardinality(Logins) \in Nat /\ Cardinality(Asking) \in Nat /\ Cardinality(Changing) \in Nat
  BY OwedIsFinite
<1> QED BY <1>1, <1>2, <1>3 DEF Owed, Due

\* One over and one sent.
LEMMA OwedInstead ==
  ASSUME NetOK, NEW i \in InFlight, NEW k, k = net[i], NEW m, NEW new, new \notin InFlight,
         InFlight' = (InFlight \ {i}) \cup {new}, net'[new] = m,
         \A j \in InFlight \ {i} : net'[j] = net[j]
  PROVE  Owed' = Owed - Due(k) + Due(m)
<1> DEFINE logins == Logins \ {i}
           asking == Asking \ {i}
           changing == Changing \ {i}
<1>1. /\ Logins' = IF m.kind = "login" THEN logins \cup {new} ELSE logins
      /\ Asking' = IF m.kind = "me" /\ m.arg = "login" THEN asking \cup {new} ELSE asking
      /\ Changing' = IF m.kind \in {"create", "decide"} THEN changing \cup {new} ELSE changing
      /\ new \notin logins /\ new \notin asking /\ new \notin changing
      /\ (i \in Logins <=> k.kind = "login")
      /\ (i \in Asking <=> k.kind = "me" /\ k.arg = "login")
      /\ (i \in Changing <=> k.kind \in {"create", "decide"})
  BY DEF Logins, Asking, Changing
<1>2. /\ IsFiniteSet(logins) /\ IsFiniteSet(asking) /\ IsFiniteSet(changing)
      /\ Cardinality(logins) = IF i \in Logins THEN Cardinality(Logins) - 1 ELSE Cardinality(Logins)
      /\ Cardinality(asking) = IF i \in Asking THEN Cardinality(Asking) - 1 ELSE Cardinality(Asking)
      /\ Cardinality(changing) = IF i \in Changing THEN Cardinality(Changing) - 1
                                 ELSE Cardinality(Changing)
  BY OwedIsFinite, FS_RemoveElement
<1> HIDE DEF logins, asking, changing
<1>3. /\ Cardinality(logins \cup {new}) = Cardinality(logins) + 1
      /\ Cardinality(asking \cup {new}) = Cardinality(asking) + 1
      /\ Cardinality(changing \cup {new}) = Cardinality(changing) + 1
  BY <1>1, <1>2, FS_AddElement
<1>4. Cardinality(Logins) \in Nat /\ Cardinality(Asking) \in Nat /\ Cardinality(Changing) \in Nat
  BY OwedIsFinite
<1>5. /\ Cardinality(Logins') = Cardinality(Logins) - (IF k.kind = "login" THEN 1 ELSE 0)
                                + (IF m.kind = "login" THEN 1 ELSE 0)
      /\ Cardinality(Asking') = Cardinality(Asking)
                                - (IF k.kind = "me" /\ k.arg = "login" THEN 1 ELSE 0)
                                + (IF m.kind = "me" /\ m.arg = "login" THEN 1 ELSE 0)
      /\ Cardinality(Changing') = Cardinality(Changing)
                                  - (IF k.kind \in {"create", "decide"} THEN 1 ELSE 0)
                                  + (IF m.kind \in {"create", "decide"} THEN 1 ELSE 0)
  BY <1>1, <1>2, <1>3, <1>4
<1> QED BY <1>4, <1>5 DEF Owed, Due

\* The same requests are under way, perhaps answered or no longer heard.
LEMMA OwedSame ==
  ASSUME InFlight' = InFlight,
         \A j \in InFlight : net'[j].kind = net[j].kind /\ net'[j].arg = net[j].arg
  PROVE  Owed' = Owed
<1>1. Logins' = Logins /\ Asking' = Asking /\ Changing' = Changing
  BY DEF Logins, Asking, Changing
<1> QED BY <1>1 DEF Owed

LEMMA SendOwes ==
  ASSUME NetOK, NEW m, net' = Append(net, m), m.kind \in Kinds
  PROVE  Len(net') = Len(net) + 1 /\ Len(net) \in Nat /\ Owed \in Nat /\ Owed' = Owed + Due(m)
<1>1. Change(0, <<m>>)
  BY SentChange
<1>2. Len(net) \in Nat /\ DOMAIN net = 1..Len(net)
  BY Length DEF NetOK
<1>3. 0 # Len(net) + 1 /\ 0 \notin InFlight /\ Len(net) + 1 \notin InFlight
  BY <1>2 DEF InFlight
<1>4. m # Over
  BY DEF Over, Kinds
<1> DEFINE new == Len(net) + 1
<1>5. /\ InFlight' = (InFlight \ {0}) \cup {new} /\ net'[new] = m
      /\ \A j \in InFlight \ {0} : net'[j] = net[j]
      /\ Len(net') = new
  BY <1>1, <1>3, <1>4, InFlightAfterOne
<1> HIDE DEF new
<1>6. /\ InFlight' = InFlight \cup {new} /\ \A j \in InFlight : net'[j] = net[j]
      /\ new \notin InFlight
  BY <1>3, <1>5 DEF new
<1>7. Owed' = Owed + Due(m)
  BY <1>5, <1>6, OwedWith
<1> QED BY <1>2, <1>5, <1>7, OwedIsFinite DEF new

LEMMA OverOwes ==
  ASSUME NetOK, NEW i \in InFlight, NEW k, k = net[i], Done(i, <<>>)
  PROVE  Len(net') = Len(net) /\ Len(net) \in Nat /\ Owed \in Nat /\ Owed' = Owed - Due(k)
<1>1. Change(i, <<>>)
  BY OneOrNone, DoneChange DEF InFlight
<1>2. /\ InFlight' = InFlight \ {i} /\ \A j \in InFlight' : net'[j] = net[j]
      /\ Len(net') = Len(net) /\ Len(net) \in Nat
  BY <1>1, InFlightAfterNone
<1> QED BY <1>2, OwedWithout, OwedIsFinite

LEMMA AgainOwes ==
  ASSUME NetOK, NEW i \in InFlight, NEW k, k = net[i],
         NEW m, m.kind \in Kinds, Done(i, <<m>>)
  PROVE  /\ Len(net') = Len(net) + 1 /\ Len(net) \in Nat /\ Owed \in Nat
         /\ Owed' = Owed - Due(k) + Due(m)
<1>1. Change(i, <<m>>)
  BY OneOrNone, DoneChange DEF InFlight
<1>2. Len(net) \in Nat /\ DOMAIN net = 1..Len(net)
  BY Length DEF NetOK
<1>3. i # Len(net) + 1 /\ Len(net) + 1 \notin InFlight
  BY <1>2 DEF InFlight
<1>4. m # Over
  BY DEF Over, Kinds
<1>5. /\ InFlight' = (InFlight \ {i}) \cup {Len(net) + 1} /\ net'[Len(net) + 1] = m
      /\ \A j \in InFlight \ {i} : net'[j] = net[j]
      /\ Len(net') = Len(net) + 1
  BY <1>1, <1>3, <1>4, InFlightAfterOne
<1> QED BY <1>2, <1>3, <1>5, OwedInstead, OwedIsFinite

LEMMA AnswerOwes ==
  ASSUME NetOK, NetOK', NEW i \in InFlight, NEW status, NEW body, Answer(i, status, body)
  PROVE  Len(net') = Len(net) /\ Owed' = Owed
<1>1. PICK k : k = net[i]
  OBVIOUS
<1>2. MessageOK(k) /\ i \in DOMAIN net
  BY <1>1 DEF NetOK, InFlight
<1>3. PICK n : n = [k EXCEPT !.status = status, !.body = body]
  OBVIOUS
<1>4. n.kind = k.kind /\ n.arg = k.arg /\ n.kind # "over"
  BY <1>2, <1>3 DEF MessageOK, Kinds
<1>5. DOMAIN net' = DOMAIN net /\ \A j \in DOMAIN net : net'[j] = IF j = i THEN n ELSE net[j]
  BY <1>1, <1>2, <1>3 DEF Answer
<1>6. n # Over
  BY <1>4 DEF Over
<1>7. InFlight' = InFlight
  BY <1>5, <1>6 DEF InFlight
<1>8. \A j \in InFlight : net'[j].kind = net[j].kind /\ net'[j].arg = net[j].arg
  BY <1>1, <1>4, <1>5 DEF InFlight
<1>9. Len(net') = Len(net)
  <2>1. /\ Len(net) \in Nat /\ Len(net') \in Nat
        /\ DOMAIN net = 1..Len(net) /\ DOMAIN net' = 1..Len(net')
    BY Length DEF NetOK
  <2>2. PICK a, b : a = Len(net) /\ b = Len(net')
    OBVIOUS
  <2>3. a \in Nat /\ b \in Nat /\ 1..a = 1..b
    BY <1>5, <2>1, <2>2, Zenon
  <2>4. a = b
    BY <2>3
  <2> QED BY <2>2, <2>4
<1> QED BY <1>7, <1>8, <1>9, OwedSame

LEMMA DueFacts ==
  ASSUME NEW m
  PROVE  /\ Due(m) \in {0, 1, 2}
         /\ m.kind = "login" => Due(m) = 2
         /\ m.kind = "me" => Due(m) = IF m.arg = "login" THEN 1 ELSE 0
         /\ m.kind \in {"create", "decide"} => Due(m) = 1
         /\ m.kind \in {"list", "preview"} => Due(m) = 0
BY DEF Due

\* A click sends at most one request.
LEMMA UserOwes ==
  ASSUME ClientInv, Bounded, UserActs
  PROVE  Bounded'
<1> USE DEF ClientInv, TabInv
<1>0. Len(net) \in Nat /\ Owed \in Nat /\ events \in Nat /\ Leading \in {0, 1} /\ NetOK
  BY Length, OwedIsFinite, SessionsAssumption DEF NetOK, SessionTypeOK, Leading
<1>1. events' = events + 1
  BY DEF UserActs, Submit, ClickLogout, Follow, Reload, OnPage, SetFilter, OnAmount,
     Preview, Create, Decide, Click, Event
<1>2. ASSUME net' = net PROVE Bounded'
  <2>1. Owed' = Owed /\ Leading' \in {0, 1}
    BY <1>2, OwedSame DEF InFlight, Leading
  <2> QED BY <1>0, <1>1, <1>2, <2>1 DEF Bounded
<1>3. ASSUME NEW m, net' = Append(net, m), m.kind \in Kinds, going' = going
      PROVE  Bounded'
  <2>1. Len(net') = Len(net) + 1 /\ Owed' = Owed + Due(m) /\ Due(m) \in {0, 1, 2}
    BY <1>0, <1>3, SendOwes, DueFacts
  <2>2. Leading' = Leading
    BY <1>3 DEF Leading
  <2> QED BY SMTT(40), <1>0, <1>1, <2>1, <2>2 DEF Bounded
<1>4. CASE Submit
  <2>1. PICK u \in Users \cup {Nobody} : net' = Append(net, Request("login", token, TheService, u))
    BY <1>4 DEF Submit, Send
  <2> QED BY <1>3, <1>4, <2>1 DEF Submit, Request, Kinds
<1>5. CASE ClickLogout \/ Follow \/ OnAmount
  BY <1>2, <1>5 DEF ClickLogout, Follow, OnAmount
<1>6. CASE Reload
  <2>1. PICK t, m : Start(t) /\ m = Request("me", t, TheService, "start")
    BY <1>6 DEF Reload
  <2>2. /\ Len(net') \in {Len(net), Len(net) + 1} /\ DOMAIN net' = 1..Len(net')
        /\ DOMAIN net = 1..Len(net)
        /\ \A j \in 1..Len(net) :
             net'[j] = IF net[j] = Over THEN Over ELSE [net[j] EXCEPT !.by = Unheard]
        /\ \A j \in DOMAIN net' \ 1..Len(net) : j = Len(net) + 1 /\ net'[j] = m
    BY ZenonT(40), <1>0, <2>1, StartNet
  <2>3. m.kind = "me" /\ m.arg = "start" /\ m # Over
    BY <2>1 DEF Request, Over
  <2>4. ASSUME NEW j \in InFlight
        PROVE  /\ j \in InFlight' /\ net'[j].kind = net[j].kind /\ net'[j].arg = net[j].arg
    <3>1. PICK k, n : k = net[j] /\ n = [k EXCEPT !.by = Unheard]
      OBVIOUS
    <3>2. MessageOK(k) /\ j \in 1..Len(net) /\ net'[j] = n
      BY <1>0, <2>2, <3>1 DEF InFlight, NetOK
    <3>3. n.kind = k.kind /\ n.arg = k.arg /\ n.kind # "over"
      BY <3>1, <3>2 DEF MessageOK, Kinds
    <3>4. n # Over
      BY <3>3 DEF Over
    <3>5. j \in DOMAIN net'
      <4>1. PICK a, b : a = Len(net) /\ b = Len(net')
        OBVIOUS
      <4>2. a \in Nat /\ b \in {a, a + 1} /\ j \in 1..a /\ DOMAIN net' = 1..b
        BY <1>0, <2>2, <3>2, <4>1, Zenon
      <4>3. j \in 1..b
        BY <4>2
      <4> QED BY <4>2, <4>3, Zenon
    <3> QED BY <3>1, <3>2, <3>3, <3>4, <3>5 DEF InFlight
  <2>5. ASSUME NEW j \in InFlight', j \notin InFlight
        PROVE  net'[j].kind = "me" /\ net'[j].arg = "start"
    BY <2>2, <2>3, <2>5 DEF InFlight
  <2>6. Logins' = Logins /\ Asking' = Asking /\ Changing' = Changing
    BY <2>4, <2>5 DEF Logins, Asking, Changing
  <2>7. Owed' = Owed
    BY SMTT(60), <2>6 DEF Owed
  <2>8. Leading' \in {0, 1} /\ Len(net') \in {Len(net), Len(net) + 1}
    BY <2>2 DEF Leading
  <2> QED BY <1>0, <1>1, <2>7, <2>8 DEF Bounded
<1>7. CASE SetFilter
  <2>1. PICK v : net' = Append(net, Load(v, token))
    BY <1>7 DEF SetFilter, Send
  <2> QED BY <1>3, <1>7, <2>1 DEF SetFilter, OnPage, Load, Request, Kinds
<1>8. CASE Preview \/ Create
  BY <1>3, <1>8 DEF Preview, Create, OnPage, Send, Request, Kinds
<1>9. CASE Decide
  <2>1. PICK a : net' = Append(net, Request("decide", token, view.id, a))
    BY <1>9 DEF Decide, Send
  <2> QED BY <1>3, <1>9, <2>1 DEF Decide, OnPage, Request, Kinds
<1> QED BY <1>4, <1>5, <1>6, <1>7, <1>8, <1>9 DEF UserActs

\* An answer leads to what was owed for it.
LEMMA DeliverOwes ==
  ASSUME ClientInv, Bounded, NEW i, Deliver(i)
  PROVE  Bounded'
<1> USE DEF ClientInv, TabInv
<1>0. Len(net) \in Nat /\ Owed \in Nat /\ events \in Nat /\ Leading \in {0, 1} /\ NetOK
  BY Length, OwedIsFinite, SessionsAssumption DEF NetOK, SessionTypeOK, Leading
<1>1. PICK k : k = net[i]
  OBVIOUS
<1>2. i \in InFlight /\ MessageOK(k) /\ events' = events /\ NetOK
  BY <1>1, DeliverFacts DEF Deliver, server
<1>3. PICK due : due = Due(k)
  OBVIOUS
<1>4. ASSUME Done(i, <<>>), Leading' <= Leading + due, Leading' \in {0, 1}
      PROVE  Bounded'
  <2>1. Len(net') = Len(net) /\ Owed' = Owed - due
    BY <1>1, <1>2, <1>3, <1>4, OverOwes
  <2>2. due \in {0, 1, 2}
    BY <1>3, DueFacts
  <2> QED BY <1>0, <1>2, <1>4, <2>1, <2>2 DEF Bounded
<1>5. ASSUME NEW m, m.kind \in Kinds, Done(i, <<m>>), Due(m) + 1 <= due, Leading' <= Leading,
             Leading' \in {0, 1}
      PROVE  Bounded'
  <2>1. Len(net') = Len(net) + 1 /\ Owed' = Owed - due + Due(m)
    BY <1>1, <1>2, <1>3, <1>5, AgainOwes
  <2>2. due \in {0, 1, 2} /\ Due(m) \in {0, 1, 2}
    BY <1>3, DueFacts
  <2> QED BY SMTT(40), <1>0, <1>2, <1>5, <2>1, <2>2 DEF Bounded
<1>6. Leading' \in {0, 1} /\ (going' \in {going, "login", Nowhere} => Leading' <= Leading)
  BY DEF Leading, Nowhere
<1>7. due \in {0, 1, 2} /\ (going' \in {going, "login", Nowhere} => Leading' <= Leading + due)
  <2>1. due \in {0, 1, 2}
    BY <1>3, DueFacts
  <2> QED BY <1>0, <1>6, <2>1
<1>8. Intercept(i) => going' \in {going, "login", Nowhere}
  BY DEF Intercept, Logout, GoTo
<1>9. CASE net[i].by = Unheard
  BY <1>2, <1>4, <1>6, <1>7, <1>9, DeliverFacts DEF Unheeded
<1>10. CASE LoginAnswered(i)
  <2>1. k.kind = "login" /\ going' = going
    BY <1>1, <1>10 DEF LoginAnswered
  <2>2. CASE k.status = "ok"
    <3>1. PICK m : m = Request("me", net[i].body[1], TheService, "login")
      OBVIOUS
    <3>2. Done(i, <<m>>)
      BY <1>1, <1>10, <2>2, <3>1 DEF LoginAnswered
    <3>3. m.kind \in Kinds /\ Due(m) = 1
      BY <3>1 DEF Request, Kinds, Due
    <3>4. due = 2
      BY <1>3, <2>1, DueFacts
    <3> QED BY <1>5, <1>6, <2>1, <3>2, <3>3, <3>4
  <2>3. CASE k.status # "ok"
    BY <1>1, <1>4, <1>6, <1>7, <1>10, <2>1, <2>3 DEF LoginAnswered
  <2> QED BY <2>2, <2>3
<1>11. CASE MeAnswered(i)
  <2>1. k.kind = "me" /\ Done(i, <<>>)
    BY <1>1, <1>11 DEF MeAnswered
  <2>2. CASE k.arg = "login"
    <3>1. due = 1
      BY <1>3, <2>1, <2>2, DueFacts
    <3>2. Leading' <= Leading + due
      BY <1>0, <1>6, <3>1
    <3> QED BY <1>4, <1>6, <2>1, <3>2
  <2>3. CASE k.arg # "login"
    <3>1. going' \in {going, "login", Nowhere}
      BY <1>1, <1>11, <2>3 DEF MeAnswered, GoTo
    <3> QED BY <1>4, <1>6, <1>7, <2>1, <3>1
  <2> QED BY <2>2, <2>3
<1>12. CASE ListAnswered(i) \/ PreviewAnswered(i)
  BY <1>4, <1>6, <1>7, <1>8, <1>12 DEF ListAnswered, PreviewAnswered
<1>13. CASE CreateAnswered(i) \/ DecideAnswered(i)
  <2>1. k.kind \in {"create", "decide"} /\ Intercept(i)
    BY <1>1, <1>13 DEF CreateAnswered, DecideAnswered
  <2>2. due = 1
    BY <1>3, <2>1, DueFacts
  <2>3. CASE Done(i, <<>>)
    BY <1>4, <1>6, <1>7, <1>8, <2>1, <2>3
  <2>4. ASSUME NEW t, NEW b, NEW f, Done(i, <<Request("list", t, b, f)>>)
        PROVE  Bounded'
    <3>1. PICK m : m = Request("list", t, b, f)
      OBVIOUS
    <3>2. m.kind \in Kinds /\ m.kind = "list"
      BY <3>1 DEF Request, Kinds
    <3>3. Due(m) = 0
      BY <3>2, DueFacts
    <3> QED BY <1>5, <1>6, <1>8, <2>1, <2>2, <2>4, <3>1, <3>2, <3>3
  <2>5. \/ Done(i, <<>>)
        \/ Done(i, <<Request("list", token, view.id, view.filter)>>)
        \/ Done(i, <<Request("list", token, net[i].by, "all")>>)
    BY <1>13 DEF CreateAnswered, DecideAnswered, AndLoad, Load
  <2> QED BY <2>3, <2>4, <2>5
<1> QED BY <1>2, <1>9, <1>10, <1>11, <1>12, <1>13, DeliverFacts

LEMMA BoundedStep ==
  ASSUME ClientInv, NetOK', Bounded, Next
  PROVE  Bounded'
<1> USE DEF ClientInv, TabInv
<1>0. Len(net) \in Nat /\ Owed \in Nat /\ events \in Nat /\ Leading \in {0, 1} /\ NetOK
  BY Length, OwedIsFinite, SessionsAssumption DEF NetOK, SessionTypeOK, Leading
<1>1. CASE Arrive
  <2>1. events' = events /\ going' = Nowhere /\ Leading' = 0
    BY <1>1 DEF Arrive, server, Leading, Nowhere
  <2>2. CASE net' = net
    <3>1. Owed' = Owed
      BY <2>2, OwedSame DEF InFlight
    <3> QED BY <1>0, <2>1, <2>2, <3>1 DEF Bounded
  <2>3. CASE net' # net
    <3>1. /\ going = "approvals"
          /\ net' = Append(net, Request("list", token, Len(net) + 1, "all"))
      BY <1>1, <2>3 DEF Arrive, Load, NewView
    <3>2. PICK m : m = Request("list", token, Len(net) + 1, "all")
      OBVIOUS
    <3>3. m.kind \in Kinds /\ m.kind = "list"
      BY <3>2 DEF Request, Kinds
    <3>4. Len(net') = Len(net) + 1 /\ Owed' = Owed + Due(m) /\ Due(m) = 0 /\ Leading = 1
      BY <1>0, <3>1, <3>2, <3>3, SendOwes, DueFacts DEF Leading
    <3> QED BY <1>0, <2>1, <3>4 DEF Bounded
  <2> QED BY <2>2, <2>3
<1>2. ASSUME NEW i, Handle(i) PROVE Bounded'
  <2>1. /\ i \in InFlight /\ events' = events /\ going' = going
        /\ \E status, body : Answer(i, status, body)
    BY <1>2 DEF Handle, Login, Refuse, Serve, Issue, sessionVars, clientVars
  <2>2. Len(net') = Len(net) /\ Owed' = Owed /\ Leading' = Leading
    BY <1>0, <2>1, AnswerOwes DEF Leading
  <2> QED BY <2>1, <2>2 DEF Bounded
<1>3. ASSUME NEW i, Lose(i) PROVE Bounded'
  <2>1. i \in InFlight /\ events' = events + 1 /\ going' = going /\ Answer(i, "failed", <<>>)
    BY <1>3 DEF Lose, Event, clientVars
  <2>2. Len(net') = Len(net) /\ Owed' = Owed /\ Leading' = Leading
    BY <1>0, <2>1, AnswerOwes DEF Leading
  <2> QED BY <1>0, <2>1, <2>2 DEF Bounded
<1>4. CASE ServerActs
  <2>1. events' = events + 1 /\ going' = going /\ net' = net
    BY <1>4 DEF ServerActs, EditUser, Tick, SomeoneDecides, Event, clientVars
  <2>2. Owed' = Owed /\ Leading' = Leading
    BY <2>1, OwedSame DEF InFlight, Leading
  <2> QED BY <1>0, <2>1, <2>2 DEF Bounded
<1> QED BY <1>1, <1>2, <1>3, <1>4, UserOwes, DeliverOwes DEF Next

-----------------------------------------------------------------------------
(* The invariant, and what it says                                         *)

Inv == ClientInv /\ TokenInv /\ Bounded

LEMMA ClientInit ==
  ASSUME Init
  PROVE  Inv
<1>1. SessionTypeOK /\ TokenInv
  BY ClientStarts DEF SessionInv
<1>2. PICK t \in {NoToken} \cup {CreateAccessToken(u) : u \in active} :
        /\ token = t
        /\ net = IF t = NoToken THEN <<>> ELSE <<Request("me", t, TheService, "start")>>
  BY DEF Init
<1>3. t \in Token \cup {NoToken}
  <2>1. active \subseteq Users /\ now \in 0..MaxEvents
    BY <1>1, SessionsAssumption DEF SessionTypeOK
  <2> QED BY <2>1, CreatedTokenOK
<1>4. PICK m : m = Request("me", t, TheService, "start")
  OBVIOUS
<1>5. m.kind = "me" /\ m.arg = "start" /\ m # Over
  BY <1>4 DEF Request, Over
<1>6. /\ IsSeq(net) /\ Len(net) \in {0, 1} /\ DOMAIN net = 1..Len(net)
      /\ \A i \in DOMAIN net : net[i] = m
  <2>1. CASE t = NoToken
    BY <1>2, <2>1, OneOrNone, Length
  <2>2. CASE t # NoToken
    <3>1. net = <<m>>
      BY <1>2, <1>4, <2>2
    <3>2. IsSeq(net) /\ Len(net) = 1 /\ net[1] = m
      BY <3>1, OneOrNone
    <3>3. DOMAIN net = 1..1
      BY <3>2, Length
    <3> QED BY <3>2, <3>3
  <2> QED BY <2>1, <2>2
<1>7. NetOK
  <2>1. TheService \in -1..Len(net)
    BY <1>6 DEF TheService
  <2>2. MessageOK(m)
    BY <1>3, <1>4, <2>1 DEF MessageOK, ArgOK, AnswerOK, Request, Kinds, Statuses
  <2> QED BY <1>6, <2>2 DEF NetOK, InFlight
<1>8. TabOK
  <2>1. count = 1 /\ pending = {1}
    BY DEF Init
  <2>2. count \in Nat /\ pending \subseteq 1..count
    BY <2>1
  <2>3. /\ me = Nobody /\ signingIn = FALSE /\ page = "start" /\ going = "approvals"
        /\ hasty = FALSE
    BY DEF Init
  <2> QED BY <1>2, <1>3, <2>2, <2>3 DEF TabOK, Pages
<1>9. SigningOK
  <2>1. Signing = {}
    BY <1>5, <1>6 DEF Signing, Signs, InFlight
  <2> QED BY <2>1 DEF Init, SigningOK
<1>10. ViewOK
  BY DEF Init, ViewOK
<1>11. Bounded
  <2>1. Logins = {} /\ Asking = {} /\ Changing = {}
    BY <1>5, <1>6 DEF Logins, Asking, Changing, InFlight
  <2>2. Owed = 0
    BY <2>1, FS_EmptySet DEF Owed
  <2>3. Leading = 1 /\ events = 0 /\ Len(net) \in {0, 1}
    <3>1. going = "approvals" /\ events = 0
      BY DEF Init
    <3> QED BY <1>6, <3>1 DEF Leading
  <2>4. PICK a, b, c, d : a = Len(net) /\ b = Owed /\ c = Leading /\ d = events
    OBVIOUS
  <2>5. a \in {0, 1} /\ b = 0 /\ c = 1 /\ d = 0
    BY <2>2, <2>3, <2>4, Zenon
  <2>6. a + b + c <= 2 + 3 * d
    BY <2>5
  <2> QED BY <2>4, <2>6, Zenon DEF Bounded
<1> QED BY <1>1, <1>7, <1>8, <1>9, <1>10, <1>11 DEF Inv, ClientInv, TabInv

LEMMA TabStep ==
  ASSUME ClientInv, Next
  PROVE  TabInv'
<1>1. TabInv
  BY DEF ClientInv
<1>2. CASE UserActs
  BY <1>1, <1>2, SubmitStep, ClickLogoutStep, FollowStep, ReloadStep, SetFilterStep,
     OnAmountStep, PreviewStep, CreateStep, DecideStep DEF UserActs
<1>3. ASSUME NEW i \in DOMAIN net, Deliver(i) PROVE TabInv'
  <2>1. CASE net[i].by = Unheard
    BY <1>1, <1>3, <2>1, UnheededStep
  <2>2. CASE net[i].by # Unheard
    BY <1>1, <1>3, <2>2, DeliverFacts, LoginAnsweredStep, MeAnsweredStep, ListAnsweredStep,
       PreviewAnsweredStep, CreateAnsweredStep, DecideAnsweredStep
  <2> QED BY <2>1, <2>2
<1> QED BY <1>1, <1>2, <1>3, ArriveStep, HandleStep, LoseStep, ServerActsStep DEF Next

LEMMA InvStep ==
  ASSUME Inv, [Next]_vars
  PROVE  Inv'
<1>1. SessionTypeOK' /\ TokenInv'
  BY ClientIsSessions, SessionStep DEF Inv, ClientInv, SessionInv
<1>2. CASE Next
  <2>1. TabInv'
    BY <1>2, TabStep DEF Inv
  <2>2. NetOK'
    BY <2>1 DEF TabInv
  <2>3. Bounded'
    BY <1>2, <2>2, BoundedStep DEF Inv
  <2> QED BY <1>1, <2>1, <2>3 DEF Inv, ClientInv
<1>3. CASE UNCHANGED vars
  <2>1. UNCHANGED <<pending, count, events, net, token, me, signingIn, page, going, view, hasty>>
    BY <1>3 DEF vars, server, tables, clientVars
  <2>2. TabInv'
    <3>1. TabInv /\ TabOK
      BY DEF Inv, ClientInv, TabInv
    <3>2. TabOK'
      BY <2>1, <3>1 DEF TabOK
    <3>3. ~hasty /\ signingIn => page = "login" /\ going = Nowhere
      BY <3>1 DEF TabInv, SigningOK
    <3> QED BY <2>1, <3>1, <3>2, <3>3, TablesStay, IdleStep
  <2>3. Bounded'
    BY <2>1 DEF Inv, Bounded, Owed, Leading, Logins, Asking, Changing, InFlight
  <2> QED BY <1>1, <2>2, <2>3 DEF Inv, ClientInv
<1> QED BY <1>2, <1>3

LEMMA InvHolds == Spec => []Inv
<1>1. Init => Inv
  BY ClientInit
<1>2. Inv /\ [Next]_vars => Inv'
  BY InvStep
<1> QED BY <1>1, <1>2, PTL DEF Spec

LEMMA BoundedRequests ==
  ASSUME Inv
  PROVE  Len(net) \in Nat /\ Len(net) <= 2 + 3 * MaxEvents /\ Len(net) \in {0} \cup Requests
<1>1. Len(net) \in Nat /\ Owed \in Nat /\ Leading \in {0, 1}
  BY Length, OwedIsFinite DEF Inv, ClientInv, TabInv, NetOK, Leading
<1>2. events \in Nat /\ events <= MaxEvents /\ MaxEvents \in Nat
  BY SessionsAssumption DEF Inv, ClientInv, SessionTypeOK
<1>3. Len(net) <= 2 + 3 * MaxEvents
  BY <1>1, <1>2 DEF Inv, Bounded
<1> QED BY <1>1, <1>2, <1>3 DEF Requests

LEMMA InvTypes ==
  ASSUME Inv
  PROVE  TypeOK
<1> USE DEF Inv, ClientInv, TabInv
<1>1. Len(net) \in {0} \cup Requests /\ 1..Len(net) \subseteq Requests
  BY BoundedRequests, SessionsAssumption DEF Requests
<1>2. signingIn => Sent("login") # {} \/ \E i \in Sent("me") : net[i].arg = "login"
  BY DEF SigningOK, Signing, Signs, Sent
<1>3. CASE page # "approvals"
  BY <1>1, <1>2, <1>3 DEF TypeOK, TabOK, ViewOK
<1>4. CASE page = "approvals"
  <2>1. ViewTyped /\ Spinners
    BY <1>4 DEF ViewOK
  <2>2. view.rows \in Seq(Row) /\ Len(view.rows) <= 1
    <3>1. CASE view.rows = <<>>
      BY <3>1
    <3>2. CASE view.rows # <<>>
      <4>1. PICK r : r = view.rows[1]
        OBVIOUS
      <4>2. view.rows = <<r>> /\ RowOK(r)
        BY <2>1, <3>2, <4>1 DEF ViewTyped
      <4>3. r.sent \in Requests /\ r.pending \in SUBSET (1..count)
        BY <1>1, <4>2 DEF RowOK
      <4>4. r \in Row
        BY <4>2, <4>3 DEF RowOK, Row
      <4> QED BY <4>2, <4>4
    <3> QED BY <3>1, <3>2
  <2>3. view \in View
    <3>1. view.id \in Requests /\ view.confirmed \in SUBSET (1..count)
      BY <1>1, <2>1 DEF ViewTyped
    <3> HIDE DEF Inv, ClientInv, TabInv
    <3> QED BY <2>1, <2>2, <3>1 DEF ViewTyped, View
  <2>4. view.loading => SentBy(view, "list") # {}
    BY <2>1 DEF Spinners, Lists
  <2>5. view.creating => Cardinality(SentBy(view, "create")) = 1
    <3> SUFFICES ASSUME view.creating PROVE Cardinality(SentBy(view, "create")) = 1
      OBVIOUS
    <3>1. PICK i : i \in Creates
      BY <2>1 DEF Spinners
    <3>2. Creates = {i}
      BY <2>1, <3>1 DEF Spinners
    <3> QED BY <3>2, FS_Singleton DEF Creates
  <2> QED BY <1>1, <1>2, <1>4, <2>2, <2>3, <2>4, <2>5 DEF TypeOK, TabOK
<1> QED BY <1>3, <1>4

LEMMA InvShowsTheSession ==
  ASSUME Inv
  PROVE  ListIsOfTheSession
BY DEF Inv, ClientInv, TabInv, ViewOK, OfTheSession, ListIsOfTheSession

LEMMA InvShowsWhatIsAsked ==
  ASSUME Inv
  PROVE  QuietListIsRight
BY DEF Inv, ClientInv, TabInv, ViewOK, UpToDate, Newest, Shown, Fresh, Lists, QuietListIsRight

\* A tab is well formed whatever is clicked, answered, lost or late: in particular a spinner of
\* the approvals page or of the login waits for a request that is under way, and the button
\* that creates an action for exactly one.
THEOREM TypeCorrect == Spec => []TypeOK
<1>1. Inv => TypeOK
  BY InvTypes
<1> QED BY <1>1, InvHolds, PTL

\* As long as the user waits for a login to end, the list on the page was read in the name
\* that the buttons of the page act in.
THEOREM ListsAreOfTheSession == Spec => []ListIsOfTheSession
<1>1. Inv => ListIsOfTheSession
  BY InvShowsTheSession
<1> QED BY <1>1, InvHolds, PTL

\* With all lists answered in order, the page shows what its filter asks for and nothing that it
\* has seen decided, for any number of users, views, filters and requests, in any order.
THEOREM QuietListsAreRight == Spec => []QuietListIsRight
<1>1. Inv => QuietListIsRight
  BY InvShowsWhatIsAsked
<1> QED BY <1>1, InvHolds, PTL
=============================================================================
