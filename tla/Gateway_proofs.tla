--------------------------- MODULE Gateway_proofs ---------------------------
(***************************************************************************)
(* The semaphore and the quota of Gateway, for any number of requests,     *)
(* users, permits, rounds and tokens.                                      *)
(***************************************************************************)
EXTENDS Gateway, FiniteSetTheorems, TLAPS

\* Types and permits hold together: what follows a task is a task only because a request
\* at a model is at a task.
Kept == TypeOK /\ PermitsKept

-----------------------------------------------------------------------------
(* What follows a call                                                     *)

\* The next task is one, and a further round is asked for only while rounds are left.
LEMMA NextTask ==
  ASSUME TypeOK, NEW r \in Requests, task[r] \in Tasks,
         NEW to \in AfterAnswer(r) \cup AfterError(r)
  PROVE  /\ to \in Tasks \cup {"save", "failed"}
         /\ to = "generation" /\ task[r] \in {"generation", "judge"} => round[r] < MaxRounds
<1>1. CASE task[r] = "understanding"
  BY <1>1 DEF AfterAnswer, AfterError, Tasks
<1>2. CASE task[r] = "routing"
  BY <1>2 DEF AfterAnswer, AfterError, Tasks
<1>3. CASE task[r] = "generation"
  BY <1>3 DEF AfterAnswer, AfterError, Again, Tasks
<1>4. CASE task[r] = "judge"
  BY <1>4 DEF AfterAnswer, AfterError, Again, Tasks
<1> QED BY <1>1, <1>2, <1>3, <1>4 DEF Tasks

LEMMA GoOnTyped ==
  ASSUME TypeOK, NEW r \in Requests, task[r] \in Tasks,
         NEW to \in AfterAnswer(r) \cup AfterError(r), GoOn(r, to)
  PROVE  /\ task' \in [Requests -> Tasks \cup Ended \cup {"new", "save"}]
         /\ round' \in [Requests -> 0..MaxRounds]
         /\ \A q \in Requests \ {r} : task'[q] = task[q]
<1>1. to \in Tasks \cup {"save", "failed"}
  BY NextTask
<1>2. to = "generation" /\ task[r] \in {"generation", "judge"} => round[r] + 1 \in 0..MaxRounds
  BY NextTask, GatewayAssumption DEF TypeOK
<1>3. task' = [task EXCEPT ![r] = to]
  BY DEF GoOn
<1>4. round' = round
        \/ (to = "generation" /\ task[r] \in {"generation", "judge"}
             /\ round' = [round EXCEPT ![r] = @ + 1])
  <2>1. CASE to = "generation" /\ task[r] \in {"generation", "judge"}
    BY <2>1 DEF GoOn
  <2>2. CASE ~(to = "generation" /\ task[r] \in {"generation", "judge"})
    BY <2>2 DEF GoOn, TypeOK
  <2> QED BY <2>1, <2>2
<1> QED BY <1>1, <1>2, <1>3, <1>4 DEF TypeOK, Ended

-----------------------------------------------------------------------------
(* The semaphore                                                           *)

LEMMA HoldersFinite ==
  ASSUME TypeOK PROVE IsFiniteSet(holders) /\ Cardinality(holders) \in Nat
BY FS_Subset, FS_CardinalityType, GatewayAssumption DEF TypeOK

\* The first waiter waits, and the rest of the queue is the queue without it.
LEMMA FirstWaiter ==
  ASSUME Kept, queue # <<>>
  PROVE  /\ Head(queue) \in Requests /\ step[Head(queue)] = "waiting"
         /\ Tail(queue) \in Seq(Requests)
         /\ Len(Tail(queue)) = Len(queue) - 1
         /\ \A i \in 1..(Len(queue) - 1) : Tail(queue)[i] = queue[i + 1]
         /\ {Tail(queue)[i] : i \in DOMAIN Tail(queue)} = Waiting \ {Head(queue)}
<1>1. queue \in Seq(Requests) /\ Len(queue) \in Nat \ {0} /\ Head(queue) = queue[1]
  BY DEF Kept, TypeOK
<1>2. Head(queue) \in Waiting
  BY <1>1 DEF Waiting
<1>3. /\ Tail(queue) \in Seq(Requests) /\ Len(Tail(queue)) = Len(queue) - 1
      /\ \A i \in 1..(Len(queue) - 1) : Tail(queue)[i] = queue[i + 1]
  BY <1>1
<1>4. DOMAIN Tail(queue) = 1..(Len(queue) - 1) /\ DOMAIN queue = 1..Len(queue)
  BY <1>1, <1>3
<1>5. \A i \in 1..(Len(queue) - 1) : Tail(queue)[i] \in Waiting \ {Head(queue)}
  <2> TAKE i \in 1..(Len(queue) - 1)
  <2>1. i + 1 \in DOMAIN queue /\ 1 \in DOMAIN queue /\ i + 1 # 1
    BY <1>1, <1>4
  <2>2. queue[i + 1] # queue[1]
    BY <2>1 DEF Kept, PermitsKept
  <2> QED BY <1>1, <1>3, <2>1, <2>2 DEF Waiting
<1>6. \A x \in Waiting \ {Head(queue)} : \E i \in 1..(Len(queue) - 1) : Tail(queue)[i] = x
  <2> TAKE x \in Waiting \ {Head(queue)}
  <2>1. PICK j \in DOMAIN queue : queue[j] = x
    BY DEF Waiting
  <2>2. j # 1 /\ j - 1 \in 1..(Len(queue) - 1) /\ (j - 1) + 1 = j
    BY <1>1, <1>4, <2>1
  <2>3. Tail(queue)[j - 1] = x
    BY <1>3, <2>1, <2>2
  <2> QED BY <2>2, <2>3
<1>7. {Tail(queue)[i] : i \in DOMAIN Tail(queue)} = Waiting \ {Head(queue)}
  BY <1>4, <1>5, <1>6
<1> QED BY <1>1, <1>2, <1>3, <1>7 DEF Kept, PermitsKept, TypeOK

\* Whoever gives a permit back leaves the semaphore in order, handing it on or not.
LEMMA ReleaseKeeps ==
  ASSUME Kept, NEW r \in Requests, step[r] \in {"primary", "fallback"}, Release(r),
         \A q \in Requests \ {r} : task'[q] = task[q]
  PROVE  /\ step' \in [Requests -> Steps] /\ holders' \subseteq Requests /\ queue' \in Seq(Requests)
         /\ PermitsKept'
<1> USE DEF Kept
<1>0. r \in holders /\ r \notin Waiting
  BY DEF PermitsKept
<1>1. /\ IsFiniteSet(holders \ {r}) /\ Cardinality(holders) \in Nat
      /\ Cardinality(holders \ {r}) = Cardinality(holders) - 1
  BY <1>0, HoldersFinite, FS_RemoveElement
<1>2. CASE queue = <<>>
  <2>1. /\ holders' = holders \ {r} /\ queue' = queue
        /\ step' = [step EXCEPT ![r] = "out"]
    BY <1>2 DEF Release
  <2>2. Waiting = {} /\ Waiting' = {}
    BY <1>2, <2>1 DEF Waiting
  <2> QED BY <1>1, <1>2, <2>1, <2>2, GatewayAssumption DEF PermitsKept, TypeOK, Steps
<1>3. CASE queue # <<>>
  <2> DEFINE h == Head(queue)
  <2>1. /\ holders' = (holders \ {r}) \cup {h} /\ queue' = Tail(queue)
        /\ step' = [step EXCEPT ![r] = "out", ![h] = "primary"]
    BY <1>3 DEF Release
  <2>2. /\ h \in Requests /\ step[h] = "waiting" /\ h # r /\ h \notin holders
        /\ queue' \in Seq(Requests)
        /\ Waiting' = Waiting \ {h}
    BY <1>3, <2>1, FirstWaiter DEF PermitsKept, Waiting
  <2>3. step' \in [Requests -> Steps] /\ holders' \subseteq Requests
    BY <2>1, <2>2 DEF TypeOK, Steps
  <2>4. /\ step'[r] = "out" /\ step'[h] = "primary"
        /\ \A q \in Requests \ {r, h} : step'[q] = step[q]
    BY <2>1, <2>2 DEF TypeOK
  <2>5. holders' = {q \in Requests : step'[q] \in {"primary", "fallback"}}
    BY <2>1, <2>2, <2>4 DEF PermitsKept
  <2>6. Waiting' = {q \in Requests : step'[q] = "waiting"}
    BY <2>2, <2>4 DEF PermitsKept
  <2>7. \A i, j \in DOMAIN queue' : queue'[i] = queue'[j] => i = j
    <3> SUFFICES ASSUME NEW i \in DOMAIN queue', NEW j \in DOMAIN queue', queue'[i] = queue'[j]
                 PROVE  i = j
      OBVIOUS
    <3>1. /\ i \in 1..(Len(queue) - 1) /\ j \in 1..(Len(queue) - 1)
          /\ queue'[i] = queue[i + 1] /\ queue'[j] = queue[j + 1]
      BY <1>3, <2>1, <2>2, FirstWaiter
    <3>2. i + 1 \in DOMAIN queue /\ j + 1 \in DOMAIN queue
      BY <3>1 DEF TypeOK
    <3>3. i + 1 = j + 1
      BY <3>1, <3>2 DEF PermitsKept
    <3> QED BY <3>1, <3>3
  <2>8. \A q \in Requests : step'[q] # "out" => task'[q] \in Tasks
    BY <2>2, <2>4 DEF PermitsKept
  <2>9. Cardinality(holders') = Cardinality(holders)
    <3>1. h \notin holders \ {r}
      BY <2>2
    <3>2. Cardinality((holders \ {r}) \cup {h}) = Cardinality(holders \ {r}) + 1
      BY <1>1, <3>1, FS_AddElement
    <3> QED BY <1>1, <2>1, <3>2
  <2>10. Cardinality(holders') = Permits
    BY <1>3, <2>9 DEF PermitsKept
  <2> QED BY <2>2, <2>3, <2>5, <2>6, <2>7, <2>8, <2>10, GatewayAssumption DEF PermitsKept
<1> QED BY <1>2, <1>3

-----------------------------------------------------------------------------
(* Types and permits                                                       *)

LEMMA KeptAtFirst == Init => Kept
<1> SUFFICES ASSUME Init PROVE Kept
  OBVIOUS
<1>1. Cardinality(holders) = 0
  BY FS_EmptySet DEF Init
<1>2. Waiting = {}
  BY DEF Init, Waiting
<1> QED BY <1>1, <1>2, GatewayAssumption DEF Init, Kept, TypeOK, PermitsKept, Tasks, Steps

LEMMA KeptByStep == Kept /\ [Next]_vars => Kept'
<1> SUFFICES ASSUME Kept, [Next]_vars PROVE Kept'
  OBVIOUS
<1> USE DEF Kept
<1>1. ASSUME NEW r \in Requests, Arrive(r) PROVE Kept'
  BY <1>1 DEF Arrive, TypeOK, PermitsKept, Waiting, Tasks
<1>2. ASSUME NEW r \in Requests, SaveTrace(r) PROVE Kept'
  BY <1>2 DEF SaveTrace, TypeOK, PermitsKept, Waiting, Tasks, Ended
<1>3. ASSUME NEW r \in Requests, EnterFree(r) PROVE Kept'
  <2>1. r \notin holders
    BY <1>3 DEF EnterFree, Ready, PermitsKept
  <2>2. Cardinality(holders') = Cardinality(holders) + 1 /\ Cardinality(holders) < Permits
    BY <1>3, <2>1, HoldersFinite, FS_AddElement DEF EnterFree, Free
  <2>3. Cardinality(holders') <= Permits
    BY <2>2, HoldersFinite, GatewayAssumption
  <2>4. queue' = queue /\ queue = <<>>
    BY <1>3 DEF EnterFree, Free
  <2> QED BY <1>3, <2>3, <2>4 DEF EnterFree, Ready, TypeOK, PermitsKept, Waiting, Steps
<1>4. ASSUME NEW r \in Requests, EnterQueue(r) PROVE Kept'
  <2>1. /\ queue' = Append(queue, r) /\ holders' = holders
        /\ step' = [step EXCEPT ![r] = "waiting"] /\ task' = task
    BY <1>4 DEF EnterQueue
  <2>2. queue \in Seq(Requests) /\ r \notin Waiting
    BY <1>4 DEF EnterQueue, Ready, TypeOK, PermitsKept
  <2>3. /\ queue' \in Seq(Requests) /\ DOMAIN queue' = 1..(Len(queue) + 1)
        /\ DOMAIN queue = 1..Len(queue) /\ Len(queue) \in Nat
        /\ queue'[Len(queue) + 1] = r /\ \A i \in DOMAIN queue : queue'[i] = queue[i]
    BY <2>1, <2>2
  <2>4. Waiting' = Waiting \cup {r}
    BY <2>3 DEF Waiting
  <2>5. \A i, j \in DOMAIN queue' : queue'[i] = queue'[j] => i = j
    BY <2>2, <2>3 DEF PermitsKept, Waiting
  <2>6. Cardinality(holders) = Permits
    BY <1>4, HoldersFinite, GatewayAssumption DEF EnterQueue, Free, PermitsKept
  <2>7. TypeOK'
    BY <1>4, <2>3 DEF EnterQueue, TypeOK, Steps
  <2>8. /\ step'[r] = "waiting" /\ step[r] = "out" /\ task[r] \in Tasks
        /\ \A q \in Requests \ {r} : step'[q] = step[q]
    BY <1>4, <2>1 DEF Ready, EnterQueue, TypeOK
  <2>9. /\ holders' = {q \in Requests : step'[q] \in {"primary", "fallback"}}
        /\ Waiting' = {q \in Requests : step'[q] = "waiting"}
        /\ \A q \in Requests : step'[q] # "out" => task'[q] \in Tasks
    BY <2>1, <2>4, <2>8 DEF PermitsKept
  <2>10. Cardinality(holders') <= Permits /\ (queue' # <<>> => Cardinality(holders') = Permits)
    BY <2>1, <2>6 DEF PermitsKept
  <2>11. PermitsKept'
    BY <2>5, <2>9, <2>10 DEF PermitsKept
  <2> QED BY <2>7, <2>11
<1>5. ASSUME NEW r \in Requests, QuotaExceeded(r) PROVE Kept'
  <2>1. PICK to \in AfterError(r) : GoOn(r, to)
    BY <1>5 DEF QuotaExceeded
  <2>2. /\ task' \in [Requests -> Tasks \cup Ended \cup {"new", "save"}]
        /\ round' \in [Requests -> 0..MaxRounds]
        /\ \A q \in Requests \ {r} : task'[q] = task[q]
    BY <1>5, <2>1, GoOnTyped DEF QuotaExceeded, Ready
  <2>3. TypeOK'
    BY <1>5, <2>2 DEF QuotaExceeded, TypeOK
  <2>4. step' = step /\ step[r] = "out" /\ holders' = holders /\ queue' = queue
    BY <1>5 DEF QuotaExceeded, Ready
  <2>5. \A q \in Requests : step'[q] # "out" => task'[q] \in Tasks
    BY <2>2, <2>4 DEF PermitsKept
  <2>6. PermitsKept'
    BY <2>4, <2>5 DEF PermitsKept, Waiting
  <2> QED BY <2>3, <2>6
<1>6. ASSUME NEW r \in Requests, NEW tokens \in TokenCounts, Answer(r, tokens) PROVE Kept'
  <2>1. PICK to \in AfterAnswer(r) : GoOn(r, to)
    BY <1>6 DEF Answer
  <2>2. task[r] \in Tasks
    BY <1>6 DEF Answer, TypeOK, PermitsKept
  <2>3. /\ task' \in [Requests -> Tasks \cup Ended \cup {"new", "save"}]
        /\ round' \in [Requests -> 0..MaxRounds]
        /\ \A q \in Requests \ {r} : task'[q] = task[q]
    BY <2>1, <2>2, GoOnTyped
  <2>4. /\ step' \in [Requests -> Steps] /\ holders' \subseteq Requests
        /\ queue' \in Seq(Requests) /\ PermitsKept'
    BY <1>6, <2>3, ReleaseKeeps DEF Answer
  <2>5. used' \in [Users -> Nat]
    BY <1>6, GatewayAssumption DEF Answer, TypeOK
  <2>6. author' \in [Requests -> Models \cup {NoModel}]
    BY <1>6 DEF Answer, TypeOK, At, Primary, Fallback, Models
  <2> QED BY <2>3, <2>4, <2>5, <2>6 DEF TypeOK
<1>7. ASSUME NEW r \in Requests, FallBack(r) PROVE Kept'
  BY <1>7 DEF FallBack, TypeOK, PermitsKept, Waiting, Steps
<1>8. ASSUME NEW r \in Requests, Break(r) PROVE Kept'
  <2>1. PICK to \in AfterError(r) : GoOn(r, to)
    BY <1>8 DEF Break
  <2>2. task[r] \in Tasks
    BY <1>8 DEF Break, TypeOK, PermitsKept
  <2>3. /\ task' \in [Requests -> Tasks \cup Ended \cup {"new", "save"}]
        /\ round' \in [Requests -> 0..MaxRounds]
        /\ \A q \in Requests \ {r} : task'[q] = task[q]
    BY <2>1, <2>2, GoOnTyped
  <2>4. /\ step' \in [Requests -> Steps] /\ holders' \subseteq Requests
        /\ queue' \in Seq(Requests) /\ PermitsKept'
    BY <1>8, <2>3, ReleaseKeeps DEF Break
  <2> QED BY <1>8, <2>3, <2>4 DEF Break, TypeOK
<1>9. CASE NextDay
  BY <1>9 DEF NextDay, TypeOK, PermitsKept, Waiting
<1>10. CASE Restart
  <2>1. Waiting' = {} /\ Cardinality(holders') = 0
    BY <1>10, FS_EmptySet DEF Restart, Waiting
  <2> QED BY <1>10, <2>1, GatewayAssumption DEF Restart, TypeOK, PermitsKept, Steps, Ended
<1>11. CASE UNCHANGED vars
  BY <1>11 DEF vars, TypeOK, PermitsKept, Waiting
<1> QED BY <1>1, <1>2, <1>3, <1>4, <1>5, <1>6, <1>7, <1>8, <1>9, <1>10, <1>11 DEF Next, Work

\* Every variable of the gateway and its requests keeps to its set, for any number of
\* requests, users, permits and rounds (complete, TokenQuota, generate_answer).
THEOREM TypeCorrect == Spec => []TypeOK
<1>1. Kept => TypeOK
  BY DEF Kept
<1> QED BY <1>1, KeptAtFirst, KeptByStep, PTL DEF Spec

\* The semaphore of the gateway is never overdrawn, loses no permit through any exit of
\* complete(), and leaves no permit idle while a request waits.
THEOREM Permitted == Spec => []PermitsKept
<1>1. Kept => PermitsKept
  BY DEF Kept
<1> QED BY <1>1, KeptAtFirst, KeptByStep, PTL DEF Spec

-----------------------------------------------------------------------------
(* The quota                                                               *)

InFlight(u) == {r \in Of(u) : step[r] # "out"}

\* What is used, with the most that the calls under way can add.
Reserved ==
  \A u \in Users :
    used[u] <= (DailyLimit - 1) + MaxTokens * (Cardinality(Of(u)) - Cardinality(InFlight(u)))

LEMMA InFlightFinite ==
  ASSUME NEW u
  PROVE  /\ IsFiniteSet(Of(u)) /\ IsFiniteSet(InFlight(u))
         /\ Cardinality(Of(u)) \in Nat /\ Cardinality(InFlight(u)) \in Nat
         /\ Cardinality(InFlight(u)) <= Cardinality(Of(u))
<1>1. Of(u) \subseteq Requests /\ InFlight(u) \subseteq Of(u)
  BY DEF Of, InFlight
<1>2. IsFiniteSet(Of(u))
  BY <1>1, FS_Subset, GatewayAssumption
<1> QED BY <1>1, <1>2, FS_Subset, FS_CardinalityType

LEMMA InFlightFiniteNext ==
  ASSUME NEW u
  PROVE  Cardinality(InFlight(u)') \in Nat /\ Cardinality(InFlight(u)') <= Cardinality(Of(u))
<1>1. Of(u) \subseteq Requests /\ InFlight(u)' \subseteq Of(u)
  BY DEF Of, InFlight
<1>2. IsFiniteSet(Of(u))
  BY <1>1, FS_Subset, GatewayAssumption
<1> QED BY <1>1, <1>2, FS_Subset, FS_CardinalityType

\* Fewer calls under way leave more room; one call less leaves room for its tokens.
LEMMA Room ==
  ASSUME NEW limit \in Nat, NEW m \in Nat, NEW n \in Nat, NEW k \in Nat, NEW l \in Nat,
         l <= n, k <= n, NEW x \in Nat, NEW y \in Nat, x <= (limit - 1) + m * (n - k),
         \/ y <= x /\ l <= k
         \/ y <= x + m /\ l = k - 1
         \/ y < limit
  PROVE  y <= (limit - 1) + m * (n - l)
<1>1. m * (n - l) \in Nat /\ m * (n - k) \in Nat
  BY Z3
<1>2. CASE y < limit
  BY <1>1, <1>2
<1>3. CASE y <= x /\ l <= k
  <2>1. PICK d \in Nat : n - l = (n - k) + d
    <3>1. k - l \in Nat /\ n - l = (n - k) + (k - l)
      BY <1>3
    <3> QED BY <3>1
  <2>2. m * (n - l) = m * (n - k) + m * d /\ m * d \in Nat
    BY <2>1
  <2> QED BY <1>1, <1>3, <2>2
<1>4. CASE y <= x + m /\ l = k - 1
  <2>1. n - l = (n - k) + 1
    BY <1>4
  <2>2. m * (n - l) = m * (n - k) + m
    BY <2>1
  <2> QED BY <1>1, <1>4, <2>2
<1> QED BY <1>2, <1>3, <1>4

LEMMA ReservedAtFirst == Init => Reserved
<1> SUFFICES ASSUME Init, NEW u \in Users
             PROVE  used[u] <= (DailyLimit - 1) + MaxTokens * (Cardinality(Of(u)) - Cardinality(InFlight(u)))
  BY DEF Reserved
<1>1. used[u] = 0
  BY DEF Init
<1>2. MaxTokens * (Cardinality(Of(u)) - Cardinality(InFlight(u))) \in Nat
  BY InFlightFinite, GatewayAssumption, Z3
<1> QED BY <1>1, <1>2, GatewayAssumption

\* A call ends: there is room for what it used.
LEMMA EndOfCall ==
  ASSUME Kept, Reserved, NEW r \in Requests, step[r] \in {"primary", "fallback"}, Release(r),
         NEW tokens \in 0..MaxTokens, used' = [used EXCEPT ![UserOf[r]] = @ + tokens]
  PROVE  Reserved'
<1> SUFFICES ASSUME NEW u \in Users
             PROVE  used'[u] <= (DailyLimit - 1) + MaxTokens * (Cardinality(Of(u)) - Cardinality(InFlight(u)'))
  BY DEF Reserved, Of
<1>1. step' \in [Requests -> Steps] /\ step'[r] = "out" /\ \A q \in Requests \ {r} : step'[q] # "out" <=> step[q] # "out"
  <2>1. CASE queue = <<>>
    BY <2>1 DEF Release, Kept, TypeOK, Steps
  <2>2. CASE queue # <<>>
    BY <2>2, FirstWaiter DEF Release, Kept, TypeOK, Steps
  <2> QED BY <2>1, <2>2
<1>2. InFlight(u)' = InFlight(u) \ {r}
  BY <1>1 DEF InFlight, Of
<1>3. used[u] \in Nat /\ used'[u] \in Nat
  BY GatewayAssumption DEF Kept, TypeOK
<1>4. used[u] <= (DailyLimit - 1) + MaxTokens * (Cardinality(Of(u)) - Cardinality(InFlight(u)))
  BY DEF Reserved
<1>5. CASE UserOf[r] = u
  <2>1. r \in InFlight(u)
    BY <1>5 DEF InFlight, Of
  <2>2. Cardinality(InFlight(u)') = Cardinality(InFlight(u)) - 1
    BY <1>2, <2>1, InFlightFinite, FS_RemoveElement
  <2>3. used'[u] = used[u] + tokens /\ used'[u] <= used[u] + MaxTokens
    BY <1>5, GatewayAssumption DEF Kept, TypeOK
  <2> QED BY <1>3, <1>4, <2>2, <2>3, InFlightFinite, InFlightFiniteNext, Room, GatewayAssumption
<1>6. CASE UserOf[r] # u
  <2>1. InFlight(u)' = InFlight(u)
    BY <1>2, <1>6 DEF InFlight, Of
  <2>2. used'[u] = used[u]
    BY <1>6, GatewayAssumption DEF Kept, TypeOK
  <2> QED BY <1>4, <2>1, <2>2
<1> QED BY <1>5, <1>6

\* A call begins: the quota was looked at in the same step.
LEMMA StartOfCall ==
  ASSUME Kept, Reserved, NEW r \in Requests, WithinQuota(r), used' = used,
         \A q \in Requests \ {r} : step'[q] = step[q]
  PROVE  Reserved'
<1> SUFFICES ASSUME NEW u \in Users
             PROVE  used'[u] <= (DailyLimit - 1) + MaxTokens * (Cardinality(Of(u)) - Cardinality(InFlight(u)'))
  BY DEF Reserved, Of
<1>1. used[u] \in Nat
  BY DEF Kept, TypeOK
<1>2. used[u] <= (DailyLimit - 1) + MaxTokens * (Cardinality(Of(u)) - Cardinality(InFlight(u)))
  BY DEF Reserved
<1>3. CASE UserOf[r] = u
  <2>1. used[u] < DailyLimit
    BY <1>3 DEF WithinQuota
  <2> QED BY <1>1, <1>2, <2>1, InFlightFinite, InFlightFiniteNext, Room, GatewayAssumption
<1>4. CASE UserOf[r] # u
  <2>1. InFlight(u)' = InFlight(u)
    BY <1>4 DEF InFlight, Of
  <2> QED BY <1>2, <2>1
<1> QED BY <1>3, <1>4

LEMMA ReservedByStep == Kept /\ Reserved /\ [Next]_vars => Reserved'
<1> SUFFICES ASSUME Kept, Reserved, [Next]_vars PROVE Reserved'
  OBVIOUS
<1>0. ASSUME used' = used, step' = step PROVE Reserved'
  BY <1>0 DEF Reserved, InFlight, Of
<1>1. ASSUME NEW r \in Requests, Arrive(r) PROVE Reserved'
  BY <1>0, <1>1 DEF Arrive
<1>2. ASSUME NEW r \in Requests, SaveTrace(r) PROVE Reserved'
  BY <1>0, <1>2 DEF SaveTrace
<1>3. ASSUME NEW r \in Requests, EnterFree(r) PROVE Reserved'
  BY <1>3, StartOfCall DEF EnterFree, Kept, TypeOK
<1>4. ASSUME NEW r \in Requests, EnterQueue(r) PROVE Reserved'
  BY <1>4, StartOfCall DEF EnterQueue, Kept, TypeOK
<1>5. ASSUME NEW r \in Requests, QuotaExceeded(r) PROVE Reserved'
  BY <1>0, <1>5 DEF QuotaExceeded
<1>6. ASSUME NEW r \in Requests, NEW tokens \in TokenCounts, Answer(r, tokens) PROVE Reserved'
  <2>1. tokens \in 0..MaxTokens
    BY GatewayAssumption
  <2> QED BY <1>6, <2>1, EndOfCall DEF Answer
<1>7. ASSUME NEW r \in Requests, FallBack(r) PROVE Reserved'
  <2>1. step[r] # "out" /\ step'[r] # "out" /\ \A q \in Requests \ {r} : step'[q] = step[q]
    BY <1>7 DEF FallBack, Kept, TypeOK
  <2>2. \A u \in Users : InFlight(u)' = InFlight(u)
    BY <2>1 DEF InFlight, Of
  <2> QED BY <1>7, <2>2 DEF FallBack, Reserved, Of
<1>8. ASSUME NEW r \in Requests, Break(r) PROVE Reserved'
  <2>1. 0 \in 0..MaxTokens /\ used' = [used EXCEPT ![UserOf[r]] = @ + 0]
    BY <1>8, GatewayAssumption DEF Break, Kept, TypeOK
  <2> QED BY <1>8, <2>1, EndOfCall DEF Break
<1>9. ASSUME used' = [u \in Users |-> 0] PROVE Reserved'
  <2> SUFFICES ASSUME NEW u \in Users
               PROVE  used'[u] <= (DailyLimit - 1) + MaxTokens * (Cardinality(Of(u)) - Cardinality(InFlight(u)'))
    BY DEF Reserved, Of
  <2>1. MaxTokens * (Cardinality(Of(u)) - Cardinality(InFlight(u)')) \in Nat
    BY InFlightFiniteNext, InFlightFinite, GatewayAssumption, Z3
  <2> QED BY <1>9, <2>1, GatewayAssumption
<1>10. CASE NextDay \/ Restart
  BY <1>9, <1>10 DEF NextDay, Restart
<1>11. CASE UNCHANGED vars
  BY <1>0, <1>11 DEF vars
<1> QED BY <1>1, <1>2, <1>3, <1>4, <1>5, <1>6, <1>7, <1>8, <1>10, <1>11 DEF Next, Work

\* No user gets past the daily quota by more than one call of each of their
\* requests, for any quota, any cost of a call and any number of requests (TokenQuota).
THEOREM Bounded == Spec => []OvershootBounded
<1>1. Kept /\ Reserved => OvershootBounded
  <2> SUFFICES ASSUME Kept, Reserved, NEW u \in Users
               PROVE  used[u] <= (DailyLimit - 1) + MaxTokens * Cardinality(Of(u))
    BY DEF OvershootBounded
  <2>1. used[u] <= (DailyLimit - 1) + MaxTokens * (Cardinality(Of(u)) - Cardinality(InFlight(u)))
    BY DEF Reserved
  <2>2. used[u] \in Nat /\ Cardinality(Of(u)) - 0 = Cardinality(Of(u))
    BY InFlightFinite DEF Kept, TypeOK
  <2>3. used[u] <= (DailyLimit - 1) + MaxTokens * (Cardinality(Of(u)) - 0)
    BY <2>1, <2>2, InFlightFinite, Room, GatewayAssumption
  <2> QED BY <2>2, <2>3
<1> QED BY <1>1, KeptAtFirst, KeptByStep, ReservedAtFirst, ReservedByStep, PTL DEF Spec
=============================================================================
