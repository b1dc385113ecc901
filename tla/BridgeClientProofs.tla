------------------------- MODULE BridgeClientProofs -------------------------
(* Theorems about BridgeClient for any calls, any pool and any number of     *)
(* requests that hang.                                                      *)
EXTENDS BridgeClient, FiniteSetTheorems, TLAPS

\* A stage is a finite set of requests; whatever the order, each arrives once.
LEMMA StageIsFinite ==
    ASSUME NEW c \in Calls, NEW n \in DOMAIN Stages[c]
    PROVE  /\ Stages[c][n] \subseteq Requests
           /\ IsFiniteSet(Stages[c][n])
           /\ Cardinality(Stages[c][n]) \in Nat
<1>1. Stages[c][n] \subseteq Requests
  BY StagesAssumption
<1> QED
  BY <1>1, PoolAssumption, FS_Subset, FS_CardinalityType

LEMMA EachArrivesOnce ==
    ASSUME NEW R \in SUBSET Requests, NEW s \in Arrivals(R)
    PROVE  /\ s \in Seq(Requests)
           /\ Len(s) = Cardinality(R)
           /\ DOMAIN s = 1..Len(s)
           /\ \A i \in DOMAIN s : s[i] \in R
           /\ \A r \in R : \E i \in DOMAIN s : s[i] = r
           /\ \A i, j \in DOMAIN s : s[i] = s[j] => i = j
<1>1. IsFiniteSet(R) /\ Cardinality(R) \in Nat
  BY PoolAssumption, FS_Subset, FS_CardinalityType
<1>2. /\ s \in [1..Cardinality(R) -> R]
      /\ \A r \in R : \E i \in DOMAIN s : s[i] = r
  BY DEF Arrivals
<1>3. /\ s \in Seq(Requests)
      /\ Len(s) = Cardinality(R)
      /\ DOMAIN s = 1..Len(s)
  BY <1>1, <1>2
<1>4. IsFiniteSet(1..Cardinality(R)) /\ Cardinality(1..Cardinality(R)) = Cardinality(R)
  BY <1>1, FS_Interval
<1>5. s \in Surjection(1..Cardinality(R), R)
  BY <1>2 DEF Surjection
<1>6. s \in Injection(1..Cardinality(R), R)
  BY <1>1, <1>4, <1>5, FS_SurjSameCardinalityImpliesInj
<1>7. \A i, j \in DOMAIN s : s[i] = s[j] => i = j
  BY <1>2, <1>6 DEF Injection, IsInjective
<1> QED
  BY <1>2, <1>3, <1>7

\* What a queue holds after a stage has been sent.
LEMMA SentBehind ==
    ASSUME NEW q \in Seq(Requests), NEW R \in SUBSET Requests, NEW s \in Arrivals(R)
    PROVE  /\ q \o s \in Seq(Requests)
           /\ Len(q \o s) = Len(q) + Len(s)
           /\ DOMAIN (q \o s) = 1..(Len(q) + Len(s))
           /\ \A i \in 1..Len(q) : (q \o s)[i] = q[i]
           /\ \A i \in 1..Len(s) : (q \o s)[Len(q) + i] = s[i]
           /\ \A i \in (Len(q) + 1)..(Len(q) + Len(s)) : (q \o s)[i] = s[i - Len(q)]
  BY EachArrivesOnce

(***************************************************************************)
(* Types.                                                                   *)
(***************************************************************************)
\* Every reachable state of clients and pool is well typed.
THEOREM ClientTypes == Spec => []TypeOK
<1>1. Init => TypeOK
  BY DEF Init, TypeOK, Returned
<1>2. TypeOK /\ [Next]_vars => TypeOK'
  <2> SUFFICES ASSUME TypeOK, [Next]_vars PROVE TypeOK'
    OBVIOUS
  <2> USE DEF TypeOK
  <2>1. ASSUME NEW R \in SUBSET Requests, Send(R)
        PROVE  /\ req' \in [Requests -> {"unsent", "waiting"} \cup Over]
               /\ queue' \in Seq(Requests)
               /\ serving' = serving /\ hung' = hung
    BY <2>1, SentBehind DEF Send
  <2>2. ASSUME NEW c \in Calls, Call(c) PROVE TypeOK'
    <3>1. Stages[c][1] \in SUBSET Requests /\ Len(Stages[c]) \in Nat \ {0}
      BY StagesAssumption
    <3>2. Send(Stages[c][1]) /\ stage' = [stage EXCEPT ![c] = 1]
      BY <2>2 DEF Call
    <3>3. stage' \in [Calls -> Nat] /\ \A d \in Calls : stage'[d] <= Returned(d)
      BY <3>1, <3>2 DEF Returned
    <3> QED
      BY <2>1, <3>1, <3>2, <3>3
  <2>3. ASSUME NEW c \in Calls, Proceed(c) PROVE TypeOK'
    <3> DEFINE fatal == \E r \in Asked(c) \cap Essential : req[r] # "answered"
               next == IF fatal THEN Returned(c) ELSE stage[c] + 1
               R == IF next = Returned(c) THEN {} ELSE Stages[c][next]
    <3>1. UnderWay(c) /\ stage' = [stage EXCEPT ![c] = next] /\ Send(R)
      BY <2>3 DEF Proceed
    <3>2. Len(Stages[c]) \in Nat
      BY StagesAssumption
    <3>3. next \in Nat /\ next <= Returned(c)
      BY <3>1, <3>2 DEF UnderWay, Returned
    <3>4. R \in SUBSET Requests
      <4>1. CASE next = Returned(c)
        BY <4>1
      <4>2. CASE next # Returned(c)
        <5>1. next \in DOMAIN Stages[c]
          BY <3>1, <3>2, <4>2, StagesAssumption DEF UnderWay, Returned
        <5> QED
          BY <4>2, <5>1, StageIsFinite
      <4> QED
        BY <4>1, <4>2
    <3>5. stage' \in [Calls -> Nat] /\ \A d \in Calls : stage'[d] <= Returned(d)
      BY <3>1, <3>3 DEF Returned
    <3> HIDE DEF R, next
    <3> QED
      BY <2>1, <3>1, <3>4, <3>5
  <2>4. ASSUME NEW r \in Requests, Timeout(r) PROVE TypeOK'
    BY <2>4 DEF Timeout, Over
  <2>5. ASSUME NEW w \in Workers, Take(w) PROVE TypeOK'
    <3>1. Head(queue) \in Requests /\ Tail(queue) \in Seq(Requests)
      BY <2>5 DEF Take
    <3> QED
      BY <2>5, <3>1, PoolAssumption DEF Take
  <2>6. ASSUME NEW w \in Workers, Hang(w) PROVE TypeOK'
    BY <2>6 DEF Hang
  <2>7. ASSUME NEW w \in Workers, Finish(w) PROVE TypeOK'
    BY <2>7 DEF Finish, Over
  <2>8. CASE UNCHANGED vars
    BY <2>8 DEF vars
  <2> QED
    BY <2>2, <2>3, <2>4, <2>5, <2>6, <2>7, <2>8 DEF Next
<1> QED
  BY <1>1, <1>2, PTL DEF Spec

(***************************************************************************)
(* A request is with the bridge once.                                       *)
(***************************************************************************)
\* The stages a call has not entered have not been sent, and what has not been
\* sent is not with the bridge.
Later ==
    \A c \in Calls : \A n \in DOMAIN Stages[c] :
        n > stage[c] => \A r \in Stages[c][n] : req[r] = "unsent"

Unsent == \A r \in Requests : req[r] = "unsent" => ~Queued(r) /\ ~Served(r)

PlaceInv == TypeOK /\ Later /\ Unsent /\ OnePlace

LEMMA SendingKeepsPlaces ==
    ASSUME PlaceInv, NEW R \in SUBSET Requests, Send(R),
           \A r \in R : req[r] = "unsent"
    PROVE  Unsent' /\ OnePlace'
<1>1. queue \in Seq(Requests) /\ serving' = serving
      /\ req' = [r \in Requests |-> IF r \in R THEN "waiting" ELSE req[r]]
  BY DEF Send, PlaceInv, TypeOK
<1>2. PICK s \in Arrivals(R) : queue' = queue \o s
  BY DEF Send
<1>3. /\ Len(queue) \in Nat /\ Len(s) \in Nat
      /\ DOMAIN queue = 1..Len(queue) /\ DOMAIN s = 1..Len(s)
      /\ DOMAIN queue' = 1..(Len(queue) + Len(s))
      /\ \A i \in 1..Len(queue) : queue'[i] = queue[i]
      /\ \A i \in 1..Len(s) : queue'[Len(queue) + i] = s[i]
      /\ \A i \in (Len(queue) + 1)..(Len(queue) + Len(s)) : queue'[i] = s[i - Len(queue)]
  BY <1>1, <1>2, EachArrivesOnce, SentBehind
<1>4. ASSUME NEW r \in Requests
      PROVE  /\ Queued(r)' <=> Queued(r) \/ r \in R
             /\ \A i, j \in DOMAIN queue' : queue'[i] = r /\ queue'[j] = r => i = j
  <2>1. CASE r \in R
    <3>1. ~Queued(r)
      BY <2>1 DEF PlaceInv, Unsent
    <3>2. PICK k \in DOMAIN s : s[k] = r
      BY <2>1, EachArrivesOnce
    <3>3. Len(queue) + k \in DOMAIN queue' /\ queue'[Len(queue) + k] = r
      BY <1>3, <3>2
    <3>4. ASSUME NEW i \in DOMAIN queue', queue'[i] = r PROVE i = Len(queue) + k
      <4>1. i \notin 1..Len(queue)
        BY <1>3, <3>1, <3>4 DEF Queued
      <4>2. i - Len(queue) \in DOMAIN s /\ s[i - Len(queue)] = r
        BY <1>3, <3>4, <4>1
      <4>3. i - Len(queue) = k
        BY <3>2, <4>2, EachArrivesOnce
      <4> QED
        BY <1>3, <4>3
    <3> QED
      BY <2>1, <3>3, <3>4 DEF Queued
  <2>2. CASE r \notin R
    <3>1. ASSUME NEW i \in DOMAIN queue', queue'[i] = r
          PROVE  i \in DOMAIN queue /\ queue[i] = r
      <4>1. ASSUME i \notin 1..Len(queue) PROVE FALSE
        <5>1. i - Len(queue) \in DOMAIN s /\ s[i - Len(queue)] = r
          BY <1>3, <3>1, <4>1
        <5> QED
          BY <2>2, <5>1, EachArrivesOnce
      <4> QED
        BY <1>3, <3>1, <4>1
    <3>2. \A i \in DOMAIN queue : i \in DOMAIN queue' /\ queue'[i] = queue[i]
      BY <1>3
    <3>3. \A i, j \in DOMAIN queue : queue[i] = r /\ queue[j] = r => i = j
      BY DEF PlaceInv, OnePlace
    <3> QED
      BY <2>2, <3>1, <3>2, <3>3 DEF Queued
  <2> QED
    BY <2>1, <2>2
<1>5. \A r \in Requests : Served(r)' <=> Served(r)
  BY <1>1 DEF Served
<1>6. Unsent'
  <2> SUFFICES ASSUME NEW r \in Requests, req'[r] = "unsent"
               PROVE  ~Queued(r)' /\ ~Served(r)'
    BY DEF Unsent
  <2>1. r \notin R /\ req[r] = "unsent"
    BY <1>1
  <2> QED
    BY <1>4, <1>5, <2>1 DEF PlaceInv, Unsent
<1>7. OnePlace'
  <2> SUFFICES ASSUME NEW r \in Requests
               PROVE  /\ \A i, j \in DOMAIN queue' : queue'[i] = r /\ queue'[j] = r => i = j
                      /\ \A v, w \in Workers : serving'[v] = r /\ serving'[w] = r => v = w
                      /\ ~(Queued(r)' /\ Served(r)')
                      /\ req'[r] = "waiting" => Queued(r)' \/ Served(r)'
    BY DEF OnePlace
  <2>1. \A v, w \in Workers : serving'[v] = r /\ serving'[w] = r => v = w
    BY <1>1 DEF PlaceInv, OnePlace
  <2>2. ~(Queued(r)' /\ Served(r)')
    BY <1>4, <1>5 DEF PlaceInv, OnePlace, Unsent
  <2>3. req'[r] = "waiting" => Queued(r)' \/ Served(r)'
    BY <1>1, <1>4, <1>5 DEF PlaceInv, OnePlace
  <2> QED
    BY <1>4, <2>1, <2>2, <2>3
<1> QED
  BY <1>6, <1>7

\* What a call awaits when it enters stage n; nothing once it returns.
Awaits(c, n) == IF n = Returned(c) THEN {} ELSE Stages[c][n]

LEMMA EntryIsUnsent ==
    ASSUME PlaceInv, NEW c \in Calls, NEW n \in 1..Returned(c), n > stage[c]
    PROVE  Awaits(c, n) \in SUBSET Requests /\ \A r \in Awaits(c, n) : req[r] = "unsent"
<1>1. CASE n = Returned(c)
  BY <1>1 DEF Awaits
<1>2. CASE n # Returned(c)
  <2>1. n \in DOMAIN Stages[c] /\ Awaits(c, n) = Stages[c][n]
    BY <1>2, StagesAssumption DEF Awaits, Returned
  <2> QED
    BY <2>1, StageIsFinite DEF PlaceInv, Later
<1> QED
  BY <1>1, <1>2

LEMMA EntryKeepsPlaces ==
    ASSUME PlaceInv, NEW c \in Calls, NEW n \in 1..Returned(c), n > stage[c],
           stage' = [stage EXCEPT ![c] = n], Send(Awaits(c, n))
    PROVE  Later' /\ Unsent' /\ OnePlace'
<1>1. Unsent' /\ OnePlace'
  BY EntryIsUnsent, SendingKeepsPlaces
<1>2. Later'
  <2> SUFFICES ASSUME NEW d \in Calls, NEW m \in DOMAIN Stages[d], m > stage'[d],
                      NEW r \in Stages[d][m]
               PROVE  req'[r] = "unsent"
    BY DEF Later
  <2>1. stage \in [Calls -> Nat] /\ m \in Nat /\ n \in Nat /\ r \in Requests
    <3>1. m \in Nat /\ r \in Requests
      BY StagesAssumption, StageIsFinite
    <3> QED
      BY <3>1 DEF PlaceInv, TypeOK
  <2>2. m > stage[d] /\ <<d, m>> # <<c, n>>
    BY <2>1
  <2>3. req[r] = "unsent"
    BY <2>2 DEF PlaceInv, Later
  <2>4. r \notin Awaits(c, n)
    <3>1. CASE n = Returned(c)
      BY <3>1 DEF Awaits
    <3>2. CASE n # Returned(c)
      <4>1. n \in DOMAIN Stages[c] /\ Awaits(c, n) = Stages[c][n]
        BY <3>2, StagesAssumption DEF Awaits, Returned
      <4> QED
        BY <2>2, <4>1, StagesAssumption
    <3> QED
      BY <3>1, <3>2
  <2> QED
    BY <2>1, <2>3, <2>4 DEF Send
<1> QED
  BY <1>1, <1>2

\* What the two steps of a coroutine do: it enters a later stage.
LEMMA CoroutinesEnter ==
    ASSUME TypeOK, NEW c \in Calls, Call(c) \/ Proceed(c)
    PROVE  \E n \in 1..Returned(c) :
                n > stage[c] /\ stage' = [stage EXCEPT ![c] = n] /\ Send(Awaits(c, n))
<1>1. Len(Stages[c]) \in Nat \ {0} /\ stage[c] \in Nat
  BY StagesAssumption DEF TypeOK
<1>2. CASE Call(c)
  <2>1. 1 \in 1..Returned(c) /\ 1 # Returned(c)
    BY <1>1 DEF Returned
  <2>2. 1 > stage[c] /\ stage' = [stage EXCEPT ![c] = 1] /\ Send(Awaits(c, 1))
    <3>1. Awaits(c, 1) = Stages[c][1]
      BY <2>1 DEF Awaits
    <3> QED
      BY <1>2, <3>1 DEF Call
  <2> QED
    BY <2>1, <2>2
<1>3. CASE Proceed(c)
  <2> DEFINE fatal == \E r \in Asked(c) \cap Essential : req[r] # "answered"
             next == IF fatal THEN Returned(c) ELSE stage[c] + 1
  <2>1. next \in 1..Returned(c) /\ next > stage[c]
    BY <1>1, <1>3 DEF Proceed, UnderWay, Returned
  <2>2. stage' = [stage EXCEPT ![c] = next] /\ Send(Awaits(c, next))
    BY <1>3 DEF Proceed, Awaits
  <2> QED
    BY <2>1, <2>2
<1> QED
  BY <1>2, <1>3

\* No request is handed to the pool twice, whatever clients give up and
\* whatever hangs, and one that is awaited is with the bridge.
THEOREM ServedOnce == Spec => []OnePlace
<1>1. Init => Later /\ Unsent /\ OnePlace
  BY StagesAssumption, PoolAssumption DEF Init, Later, Unsent, OnePlace, Queued, Served
<1>2. TypeOK /\ TypeOK' /\ (Later /\ Unsent /\ OnePlace) /\ [Next]_vars
        => (Later /\ Unsent /\ OnePlace)'
  <2> SUFFICES ASSUME PlaceInv, TypeOK', [Next]_vars PROVE Later' /\ Unsent' /\ OnePlace'
    BY DEF PlaceInv
  <2>1. /\ stage \in [Calls -> Nat] /\ req \in [Requests -> {"unsent", "waiting"} \cup Over]
        /\ queue \in Seq(Requests) /\ serving \in [Workers -> Requests \cup {None}]
    BY DEF PlaceInv, TypeOK
  <2>2. ASSUME NEW c \in Calls, Call(c) \/ Proceed(c) PROVE Later' /\ Unsent' /\ OnePlace'
    BY <2>2, CoroutinesEnter, EntryKeepsPlaces DEF PlaceInv
  <2>3. ASSUME NEW r \in Requests, Timeout(r) PROVE Later' /\ Unsent' /\ OnePlace'
    BY <2>1, <2>3, StagesAssumption
       DEF Timeout, PlaceInv, Later, Unsent, OnePlace, Queued, Served
  <2>4. ASSUME NEW w \in Workers, Take(w) PROVE Later' /\ Unsent' /\ OnePlace'
    <3>1. /\ queue # <<>> /\ serving[w] = None
          /\ serving' = [serving EXCEPT ![w] = Head(queue)] /\ queue' = Tail(queue)
          /\ req' = req /\ stage' = stage
      BY <2>4 DEF Take
    <3>2. /\ Len(queue) \in Nat \ {0} /\ DOMAIN queue = 1..Len(queue)
          /\ Head(queue) = queue[1] /\ Head(queue) \in Requests
          /\ DOMAIN queue' = 1..(Len(queue) - 1)
          /\ \A i \in DOMAIN queue' : queue'[i] = queue[i + 1]
      BY <2>1, <3>1
    <3>3. ASSUME NEW r \in Requests
          PROVE  /\ \A i, j \in DOMAIN queue' : queue'[i] = r /\ queue'[j] = r => i = j
                 /\ Queued(r)' <=> Queued(r) /\ r # Head(queue)
                 /\ Served(r)' <=> Served(r) \/ r = Head(queue)
      <4>1. \A i, j \in DOMAIN queue : queue[i] = r /\ queue[j] = r => i = j
        BY DEF PlaceInv, OnePlace
      <4>2. \A i, j \in DOMAIN queue' : queue'[i] = r /\ queue'[j] = r => i = j
        BY <3>2, <4>1
      <4>3. ASSUME Queued(r)' PROVE Queued(r) /\ r # Head(queue)
        <5>1. PICK i \in DOMAIN queue' : queue'[i] = r
          BY <4>3 DEF Queued
        <5>2. i + 1 \in DOMAIN queue /\ queue[i + 1] = r /\ i + 1 # 1 /\ 1 \in DOMAIN queue
          BY <3>2, <5>1
        <5> QED
          BY <3>2, <4>1, <5>2 DEF Queued
      <4>4. ASSUME Queued(r), r # Head(queue) PROVE Queued(r)'
        <5>1. PICK i \in DOMAIN queue : queue[i] = r
          BY <4>4 DEF Queued
        <5>2. i - 1 \in DOMAIN queue' /\ queue'[i - 1] = r
          BY <3>2, <4>4, <5>1
        <5> QED
          BY <5>2 DEF Queued
      <4>5. Served(r)' <=> Served(r) \/ r = Head(queue)
        BY <2>1, <3>1, PoolAssumption DEF Served
      <4> QED
        BY <4>2, <4>3, <4>4, <4>5
    <3>4. Queued(Head(queue)) /\ ~Served(Head(queue)) /\ req[Head(queue)] # "unsent"
      BY <3>2 DEF Queued, PlaceInv, OnePlace, Unsent
    <3>5. Later'
      BY <3>1 DEF PlaceInv, Later
    <3>6. Unsent'
      BY <3>1, <3>3, <3>4 DEF PlaceInv, Unsent
    <3>7. OnePlace'
      <4> SUFFICES ASSUME NEW r \in Requests
                   PROVE  /\ \A i, j \in DOMAIN queue' : queue'[i] = r /\ queue'[j] = r => i = j
                          /\ \A u, v \in Workers : serving'[u] = r /\ serving'[v] = r => u = v
                          /\ ~(Queued(r)' /\ Served(r)')
                          /\ req'[r] = "waiting" => Queued(r)' \/ Served(r)'
        BY DEF OnePlace
      <4>1. \A u, v \in Workers : serving'[u] = r /\ serving'[v] = r => u = v
        BY <2>1, <3>1, <3>4 DEF PlaceInv, OnePlace, Served
      <4> QED
        BY <3>1, <3>3, <4>1 DEF PlaceInv, OnePlace
    <3> QED
      BY <3>5, <3>6, <3>7
  <2>5. ASSUME NEW w \in Workers, Hang(w) PROVE Later' /\ Unsent' /\ OnePlace'
    BY <2>5 DEF Hang, PlaceInv, Later, Unsent, OnePlace, Queued, Served
  <2>6. ASSUME NEW w \in Workers, Finish(w) PROVE Later' /\ Unsent' /\ OnePlace'
    <3>1. PICK o \in {"answered", "failed"} :
              req' = [req EXCEPT ![serving[w]] = IF @ = "waiting" THEN o ELSE @]
      BY <2>6 DEF Finish
    <3>2. /\ serving[w] \in Requests /\ serving' = [serving EXCEPT ![w] = None]
          /\ queue' = queue /\ stage' = stage
      BY <2>1, <2>6 DEF Finish
    <3>3. ASSUME NEW r \in Requests
          PROVE  /\ req'[r] = "unsent" <=> req[r] = "unsent"
                 /\ req'[r] = "waiting" <=> req[r] = "waiting" /\ r # serving[w]
      BY <2>1, <3>1, <3>2
    <3>4. ASSUME NEW r \in Requests
          PROVE  /\ Queued(r)' <=> Queued(r)
                 /\ Served(r)' => Served(r)
                 /\ Served(r) /\ r # serving[w] => Served(r)'
      BY <2>1, <3>2, PoolAssumption DEF Queued, Served
    <3>5. Later'
      BY <3>2, <3>3, StagesAssumption DEF PlaceInv, Later
    <3>6. Unsent'
      BY <3>3, <3>4 DEF PlaceInv, Unsent
    <3>7. \A r \in Requests : \A u, v \in Workers :
              serving'[u] = r /\ serving'[v] = r => u = v
      BY <2>1, <3>2, PoolAssumption DEF PlaceInv, OnePlace
    <3>8. OnePlace'
      BY <3>2, <3>3, <3>4, <3>7 DEF PlaceInv, OnePlace
    <3> QED
      BY <3>5, <3>6, <3>8
  <2>7. CASE UNCHANGED vars
    BY <2>7 DEF vars, PlaceInv, Later, Unsent, OnePlace, Queued, Served
  <2> QED
    BY <2>2, <2>3, <2>4, <2>5, <2>6, <2>7 DEF Next
<1> QED
  BY <1>1, <1>2, ClientTypes, PTL DEF Spec

(***************************************************************************)
(* A tool call keeps the safety part of its promise.                        *)
(***************************************************************************)
Told == [r \in Requests |-> Outcome(req[r])]

LEMMA OutcomeIs ==
    ASSUME NEW s \in {"unsent", "waiting"} \cup Over
    PROVE  /\ Outcome(s) = "unsent" <=> s = "unsent"
           /\ Outcome(s) = "open" <=> s = "waiting"
           /\ Outcome(s) = "answered" <=> s = "answered"
           /\ Outcome(s) = "lost" <=> s \in {"failed", "timed_out"}
           /\ Outcome(s) \in {"answered", "lost"} <=> s \in Over
  BY DEF Outcome, Over

\* Entering a stage is entering it in the promise, with all its requests open.
LEMMA EntryIsKept ==
    ASSUME TypeOK, NEW c \in Calls, NEW n \in 1..Returned(c),
           stage' = [stage EXCEPT ![c] = n], Send(Awaits(c, n))
    PROVE  Promise!Enter(c, n)
<1>1. Len(Stages[c]) \in Nat
  BY StagesAssumption
<1>2. \A r \in Requests : (n <= Len(Stages[c]) /\ r \in Stages[c][n]) <=> r \in Awaits(c, n)
  BY <1>1 DEF Awaits, Returned
<1>3. \A r \in Requests : req'[r] = IF r \in Awaits(c, n) THEN "waiting" ELSE req[r]
  BY DEF Send
<1>4. Outcome("waiting") = "open"
  BY DEF Outcome
<1>5. Told' = [r \in Requests |->
                IF n <= Len(Stages[c]) /\ r \in Stages[c][n] THEN "open" ELSE Told[r]]
  BY <1>2, <1>3, <1>4 DEF Told
<1> QED
  BY <1>5 DEF Promise!Enter, Told

\* The end of a request that is awaited is its end in the promise.
LEMMA EndIsKept ==
    ASSUME TypeOK, NEW r \in Requests, req[r] = "waiting", stage' = stage,
           NEW o \in Over, req' = [req EXCEPT ![r] = o]
    PROVE  Promise!End(r)
<1>1. Told[r] = "open" /\ Outcome(o) \in {"answered", "lost"}
  BY OutcomeIs DEF Told
<1>2. Told' = [Told EXCEPT ![r] = Outcome(o)]
  BY DEF Told, TypeOK
<1> QED
  BY <1>1, <1>2 DEF Promise!End, Told

\* Whatever the bridge and the network do, a tool call asks stage by stage, is
\* told the end of each request once, and stops early only for an answer it
\* cannot do without.
THEOREM CallsKeepSafety == Spec => Promise!Safety
<1>1. Init => Promise!Init
  BY DEF Init, Promise!Init, Outcome
<1>2. TypeOK /\ [Next]_vars => [Promise!Next]_(Promise!vars)
  <2> SUFFICES ASSUME TypeOK, [Next]_vars PROVE Promise!Next \/ UNCHANGED Promise!vars
    OBVIOUS
  <2>1. /\ stage \in [Calls -> Nat] /\ req \in [Requests -> {"unsent", "waiting"} \cup Over]
        /\ serving \in [Workers -> Requests \cup {None}]
    BY DEF TypeOK
  <2>2. ASSUME NEW c \in Calls, Call(c) PROVE Promise!Next
    <3>1. 1 \in 1..Returned(c) /\ Awaits(c, 1) = Stages[c][1]
      BY StagesAssumption DEF Returned, Awaits
    <3>2. Promise!Enter(c, 1) /\ stage[c] = 0
      BY <2>2, <3>1, EntryIsKept DEF Call
    <3> QED
      BY <3>2 DEF Promise!Begin, Promise!Next
  <2>3. ASSUME NEW c \in Calls, Proceed(c) PROVE Promise!Next
    <3> DEFINE fatal == \E r \in Asked(c) \cap Essential : req[r] # "answered"
               next == IF fatal THEN Returned(c) ELSE stage[c] + 1
    <3>1. UnderWay(c) /\ StageIsOver(c) /\ Len(Stages[c]) \in Nat /\ stage[c] \in Nat
      BY <2>1, <2>3, StagesAssumption DEF Proceed
    <3>2. next \in 1..Returned(c) /\ stage' = [stage EXCEPT ![c] = next] /\ Send(Awaits(c, next))
      BY <2>3, <3>1 DEF Proceed, UnderWay, Returned, Awaits
    <3>3. Promise!Enter(c, next)
      <4> HIDE DEF next
      <4> QED
        BY <3>2, EntryIsKept
    <3>4. Asked(c) \subseteq Requests
      BY <3>1, StageIsFinite DEF Asked, UnderWay
    <3>5. \A r \in Asked(c) : /\ Told[r] \in {"answered", "lost"}
                              /\ Told[r] = "answered" <=> req[r] = "answered"
      BY <2>1, <3>1, <3>4, OutcomeIs DEF StageIsOver, Told
    <3>6. Promise!UnderWay(c) /\ Promise!Asked(c) = Asked(c) /\ Promise!Returned(c) = Returned(c)
      BY <3>1 DEF UnderWay, Promise!UnderWay, Asked, Promise!Asked, Returned, Promise!Returned
    <3>7. \A r \in Promise!Asked(c) : Told[r] \in {"answered", "lost"}
      BY <3>5, <3>6
    <3>8. CASE fatal
      <4>1. PICK r \in Promise!Asked(c) \cap Essential : Told[r] = "lost"
        BY <3>5, <3>6, <3>8
      <4>2. Promise!Enter(c, Promise!Returned(c))
        BY <3>3, <3>6, <3>8
      <4>3. Promise!Proceed(c)
        BY <3>6, <3>7, <4>1, <4>2 DEF Promise!Proceed, Told
      <4> QED
        BY <4>3 DEF Promise!Next
    <3>9. CASE ~fatal
      <4>1. \A r \in Promise!Asked(c) \cap Essential : Told[r] = "answered"
        BY <3>5, <3>6, <3>9
      <4>2. Promise!Enter(c, stage[c] + 1)
        BY <3>3, <3>9
      <4>3. Promise!Proceed(c)
        BY <3>6, <3>7, <4>1, <4>2 DEF Promise!Proceed, Told
      <4> QED
        BY <4>3 DEF Promise!Next
    <3> QED
      BY <3>8, <3>9
  <2>4. ASSUME NEW r \in Requests, Timeout(r) PROVE Promise!Next
    <3>1. Promise!End(r)
      BY <2>4, EndIsKept DEF Timeout, Over
    <3> QED
      BY <3>1 DEF Promise!Next
  <2>5. ASSUME NEW w \in Workers, Take(w) \/ Hang(w) PROVE UNCHANGED Promise!vars
    BY <2>5 DEF Take, Hang, Promise!vars
  <2>6. ASSUME NEW w \in Workers, Finish(w) PROVE Promise!Next \/ UNCHANGED Promise!vars
    <3>1. serving[w] \in Requests /\ stage' = stage
      BY <2>1, <2>6 DEF Finish
    <3>2. PICK o \in {"answered", "failed"} :
              req' = [req EXCEPT ![serving[w]] = IF @ = "waiting" THEN o ELSE @]
      BY <2>6 DEF Finish
    <3>3. CASE req[serving[w]] = "waiting"
      <4>1. o \in Over /\ req' = [req EXCEPT ![serving[w]] = o]
        BY <3>2, <3>3 DEF Over
      <4>2. Promise!End(serving[w])
        BY <3>1, <3>3, <4>1, EndIsKept
      <4> QED
        BY <3>1, <4>2 DEF Promise!Next
    <3>4. CASE req[serving[w]] # "waiting"
      <4>1. req' = req
        BY <2>1, <3>1, <3>2, <3>4
      <4> QED
        BY <3>1, <4>1 DEF Promise!vars
    <3> QED
      BY <3>3, <3>4
  <2>7. CASE UNCHANGED vars
    BY <2>7 DEF vars, Promise!vars
  <2> QED
    BY <2>2, <2>3, <2>4, <2>5, <2>6, <2>7 DEF Next
<1> QED
  BY <1>1, <1>2, ClientTypes, PTL DEF Spec, Promise!Safety
=============================================================================
