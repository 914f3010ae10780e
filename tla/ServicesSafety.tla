--------------------------- MODULE ServicesSafety ---------------------------
(***************************************************************************)
(* Proofs about the services MCServices puts side by side, for any values  *)
(* of their constants: the Cloudflare worker (its rate gate and chat       *)
(* relay, its sign-in session and its other routes), the daemon (terminal  *)
(* moves, selection and panel) and the sum of them with the extension and  *)
(* the native install (ExtensionSafety).                                   *)
(***************************************************************************)
EXTENDS MCServices, ExtensionSafety, FiniteSetTheorems, SequenceTheorems, TLAPS
(***************************************************************************)
(* The rate gate and the chat relay                                        *)
(***************************************************************************)

ChatsBy(u) == {c \in Chats : UserOf[c] = u}

InPhases(f, T, P) == {c \in T : f[c].phase \in P}

Tally(f, T, P) == Cardinality(InPhases(f, T, P))

\* What c contributes to a count.
Adds(f, T, P, c) == IF c \in T /\ f[c].phase \in P THEN 1 ELSE 0

\* How often a request may still be sent, and all those of T.
Owes(phase) == CASE phase = "granted" -> 2 [] phase \in {"first", "renewing"} -> 1 [] OTHER -> 0

Unsent(f, T) ==
  2 * Tally(f, T, {"granted"}) + Tally(f, T, {"first", "renewing"})

\* The gate's counters are within the day's limits.
CountsWithin ==
  /\ gate.day <= today
  /\ Loaded.count.global["chat"] <= GlobalLimit["chat"]
  /\ \A u \in Users : Loaded.count.users["chat"][u] <= UserLimit["chat"]

\* What was sent and what may still be sent was counted today, or was reserved when
\* the day began.
SendsCovered ==
  /\ sentToday.all + Unsent(chat, Chats)
       <= 2 * (Loaded.count.global["chat"] + GlobalConcurrency)
  /\ \A u \in Users :
       sentToday.by[u] + Unsent(chat, ChatsBy(u))
         <= 2 * (Loaded.count.users["chat"][u] + UserConcurrency)

\* Whoever may still send holds a reservation that lasts until then.
LeaseCovers ==
  \A c \in Chats :
    /\ chat[c].phase = "granted" =>
         gate.leases[c] > chat[c].left + FetchTimeout + RefreshTimeout
    /\ chat[c].phase = "first" => gate.leases[c] > chat[c].left + RefreshTimeout
    /\ chat[c].phase = "renewing" => gate.leases[c] > chat[c].left

\* The inductive invariant.
RelayInv ==
  /\ ChatTypeOK
  /\ CountsWithin
  /\ SendsCovered
  /\ LeaseCovers
  /\ WithinConcurrency(Held)

-----------------------------------------------------------------------------
\* Budgets that hold of a set of chats hold of its subsets.
LEMMA FewerChats ==
  ASSUME NEW S \in SUBSET Chats, NEW T \in SUBSET S, WithinConcurrency(S)
  PROVE  WithinConcurrency(T)
<1>1. \A A \in SUBSET Chats : IsFiniteSet(A) /\ Cardinality(A) \in Nat
  BY GateAssumption, FS_Subset, FS_CardinalityType
<1>2. ASSUME NEW A \in SUBSET Chats, NEW B \in SUBSET A
      PROVE  Cardinality(B) <= Cardinality(A)
  BY <1>1, FS_Subset
<1>3. Cardinality(T) <= GlobalConcurrency
  BY <1>1, <1>2, GateAssumption DEF WithinConcurrency
<1>4. ASSUME NEW u \in Users
      PROVE  Cardinality({c \in T : UserOf[c] = u}) <= UserConcurrency
  <2> DEFINE A == {c \in S : UserOf[c] = u}
             B == {c \in T : UserOf[c] = u}
  <2>1. A \in SUBSET Chats /\ B \in SUBSET A
    OBVIOUS
  <2>2. Cardinality(A) <= UserConcurrency
    BY DEF WithinConcurrency
  <2> HIDE DEF A, B
  <2>3. Cardinality(A) \in Nat /\ Cardinality(B) \in Nat /\ Cardinality(B) <= Cardinality(A)
    BY <2>1, <1>1, <1>2
  <2>4. Cardinality(B) <= UserConcurrency
    BY <2>2, <2>3, GateAssumption
  <2> QED BY <2>4 DEF B
<1> QED BY <1>3, <1>4 DEF WithinConcurrency

\* A chat more, where there is room for it, keeps the budgets.
LEMMA OneMoreChat ==
  ASSUME NEW S \in SUBSET Chats, NEW c \in Chats, c \notin S, WithinConcurrency(S),
         Cardinality(S) < GlobalConcurrency,
         Cardinality({d \in S : UserOf[d] = UserOf[c]}) < UserConcurrency
  PROVE  WithinConcurrency(S \cup {c})
<1>1. \A A \in SUBSET Chats : IsFiniteSet(A) /\ Cardinality(A) \in Nat
  BY GateAssumption, FS_Subset, FS_CardinalityType
<1>2. Cardinality(S \cup {c}) <= GlobalConcurrency
  <2>1. Cardinality(S \cup {c}) = Cardinality(S) + 1
    BY <1>1, FS_AddElement
  <2> QED BY <2>1, <1>1, GateAssumption
<1>3. ASSUME NEW u \in Users
      PROVE  Cardinality({d \in S \cup {c} : UserOf[d] = u}) <= UserConcurrency
  <2> DEFINE A == {d \in S : UserOf[d] = u}
  <2>1. A \in SUBSET Chats /\ c \notin A
    OBVIOUS
  <2>2. CASE UserOf[c] # u
    <3>1. {d \in S \cup {c} : UserOf[d] = u} = A
      BY <2>2
    <3> QED BY <3>1 DEF WithinConcurrency
  <2>3. CASE UserOf[c] = u
    <3>1. {d \in S \cup {c} : UserOf[d] = u} = A \cup {c}
      BY <2>3
    <3>2. Cardinality(A) < UserConcurrency
      BY <2>3
    <3> HIDE DEF A
    <3>3. Cardinality(A \cup {c}) = Cardinality(A) + 1 /\ Cardinality(A) \in Nat
      BY <2>1, <1>1, FS_AddElement
    <3>4. Cardinality(A \cup {c}) <= UserConcurrency
      BY <3>2, <3>3, GateAssumption
    <3> QED BY <3>1, <3>4
  <2> QED BY <2>2, <2>3
<1> QED BY <1>2, <1>3 DEF WithinConcurrency

\* Counters.
LEMMA CountersType ==
  /\ NoCounts \in Counters
  /\ \A n \in Counters, k \in Kinds, u \in Users : Counted(n, k, u) \in Counters
<1>1. NoCounts \in Counters
  BY DEF NoCounts, Counters
<1>2. ASSUME NEW n \in Counters, NEW k \in Kinds, NEW u \in Users
      PROVE  Counted(n, k, u) \in Counters
  <2> DEFINE G == [n.global EXCEPT ![k] = n.global[k] + 1]
             R == [n.users[k] EXCEPT ![u] = n.users[k][u] + 1]
             U == [n.users EXCEPT ![k] = R]
  <2>1. n.global \in [Kinds -> Nat] /\ n.users \in [Kinds -> [Users -> Nat]]
    BY DEF Counters
  <2>2. Counted(n, k, u) = [global |-> G, users |-> U]
    BY DEF Counted
  <2>3. G \in [Kinds -> Nat]
    BY <2>1
  <2>4. R \in [Users -> Nat]
    <3>1. n.users[k] \in [Users -> Nat] /\ n.users[k][u] + 1 \in Nat
      BY <2>1
    <3> QED BY <3>1
  <2>5. U \in [Kinds -> [Users -> Nat]]
    <3> HIDE DEF R
    <3> QED BY <2>1, <2>4
  <2> HIDE DEF G, U
  <2> QED BY <2>2, <2>3, <2>5 DEF Counters
<1> QED BY <1>1, <1>2

\* Counting a request adds one to the count of its kind, in all and for its user.
LEMMA CountedValues ==
  ASSUME NEW n \in Counters, NEW k \in Kinds, NEW u \in Users,
         NEW j \in Kinds, NEW v \in Users
  PROVE  /\ Counted(n, k, u).global[j] = n.global[j] + (IF j = k THEN 1 ELSE 0)
         /\ Counted(n, k, u).users[j][v]
              = n.users[j][v] + (IF j = k /\ v = u THEN 1 ELSE 0)
<1> DEFINE G == [n.global EXCEPT ![k] = n.global[k] + 1]
           U == [n.users EXCEPT ![k] = [n.users[k] EXCEPT ![u] = n.users[k][u] + 1]]
<1>1. n.global \in [Kinds -> Nat] /\ n.users \in [Kinds -> [Users -> Nat]]
  BY DEF Counters
<1>2. Counted(n, k, u).global = G /\ Counted(n, k, u).users = U
  BY DEF Counters, Counted
<1>3. G[j] = n.global[j] + (IF j = k THEN 1 ELSE 0)
  BY <1>1
<1>4. U[j][v] = n.users[j][v] + (IF j = k /\ v = u THEN 1 ELSE 0)
  <2>1. CASE j = k
    <3>1. U[j] = [n.users[k] EXCEPT ![u] = n.users[k][u] + 1]
      BY <1>1, <2>1
    <3>2. n.users[k] \in [Users -> Nat]
      BY <1>1
    <3> HIDE DEF U
    <3>3. U[j][v] = n.users[k][v] + (IF v = u THEN 1 ELSE 0)
      BY <3>1, <3>2
    <3> QED BY <2>1, <3>3
  <2>2. CASE j # k
    <3>1. U[j] = n.users[j] /\ n.users[j][v] \in Nat
      BY <1>1, <2>2
    <3> HIDE DEF U
    <3> QED BY <3>1, <2>2
  <2> QED BY <2>1, <2>2
<1> QED BY <1>2, <1>3, <1>4

\* What was loaded is of today and of the right type, with the stored leases.
LEMMA LoadedFacts ==
  ASSUME ChatTypeOK
  PROVE  /\ Loaded \in GateState
         /\ Loaded.day = today
         /\ Loaded.leases = gate.leases
         /\ Loaded = [day |-> today, count |-> Loaded.count, leases |-> gate.leases]
<1>1. today \in Nat /\ gate \in GateState
  BY RelayAssumption DEF ChatTypeOK
<1> QED BY <1>1, CountersType DEF Loaded, GateState

\* Counting a chat counts one more, in all and for its user.
LEMMA SentValues ==
  ASSUME NEW n \in SendCounts, NEW u \in Users
  PROVE  /\ NothingSent \in SendCounts /\ SentBy(n, u) \in SendCounts
         /\ SentBy(n, u).all = n.all + 1
         /\ \A v \in Users : SentBy(n, u).by[v] = n.by[v] + (IF v = u THEN 1 ELSE 0)
BY DEF SendCounts, SentBy, NothingSent

-----------------------------------------------------------------------------
\* What is counted of a set of chats when one of them moves on.
LEMMA PhaseCount ==
  ASSUME NEW T \in SUBSET Chats, NEW f, NEW g, NEW c \in Chats, NEW P,
         \A d \in Chats \ {c} : g[d] = f[d]
  PROVE  /\ Tally(f, T, P) \in Nat /\ Tally(g, T, P) \in Nat
         /\ Tally(f, T, P) + Adds(g, T, P, c) = Tally(g, T, P) + Adds(f, T, P, c)
<1> DEFINE A == InPhases(f, T, P)
           B == InPhases(g, T, P)
           R == InPhases(f, T \ {c}, P)
<1>1. R \in SUBSET Chats /\ c \notin R
  BY DEF InPhases
<1>2. A = IF c \in T /\ f[c].phase \in P THEN R \cup {c} ELSE R
  BY DEF InPhases
<1>3. B = IF c \in T /\ g[c].phase \in P THEN R \cup {c} ELSE R
  BY DEF InPhases
<1> HIDE DEF A, B, R
<1>4. IsFiniteSet(R) /\ Cardinality(R) \in Nat /\ Cardinality(R \cup {c}) = Cardinality(R) + 1
  BY <1>1, GateAssumption, FS_Subset, FS_CardinalityType, FS_AddElement
<1>5. /\ Cardinality(A) \in Nat /\ Cardinality(A) = Cardinality(R) + Adds(f, T, P, c)
      /\ Cardinality(B) \in Nat /\ Cardinality(B) = Cardinality(R) + Adds(g, T, P, c)
  BY <1>2, <1>3, <1>4 DEF Adds
<1>6. Adds(f, T, P, c) \in Nat /\ Adds(g, T, P, c) \in Nat
  BY DEF Adds
<1>7. Cardinality(A) + Adds(g, T, P, c) = Cardinality(B) + Adds(f, T, P, c)
  BY <1>4, <1>5, <1>6
<1> QED BY <1>5, <1>7 DEF A, B, Tally

\* When one chat moves on, what may still be sent changes by what that chat owes.
LEMMA OneMovesOn ==
  ASSUME NEW T \in SUBSET Chats, NEW f \in [Chats -> ChatState], NEW c \in Chats,
         NEW s \in ChatState
  PROVE  LET g == [f EXCEPT ![c] = s] IN
         /\ Unsent(f, T) \in Nat /\ Unsent(g, T) \in Nat
         /\ c \in T => Unsent(g, T) + Owes(f[c].phase) = Unsent(f, T) + Owes(s.phase)
         /\ c \notin T => Unsent(g, T) = Unsent(f, T)
<1> DEFINE g == [f EXCEPT ![c] = s]
           G == {"granted"}
           O == {"first", "renewing"}
<1>1. g[c] = s /\ \A d \in Chats \ {c} : g[d] = f[d]
  OBVIOUS
<1>2. /\ c \in T => /\ Owes(f[c].phase) = 2 * Adds(f, T, G, c) + Adds(f, T, O, c)
                    /\ Owes(s.phase) = 2 * Adds(g, T, G, c) + Adds(g, T, O, c)
      /\ c \notin T => /\ Adds(f, T, G, c) = Adds(g, T, G, c)
                       /\ Adds(f, T, O, c) = Adds(g, T, O, c)
      /\ Adds(f, T, G, c) \in Nat /\ Adds(g, T, G, c) \in Nat
      /\ Adds(f, T, O, c) \in Nat /\ Adds(g, T, O, c) \in Nat
  BY <1>1 DEF Owes, Adds
<1> HIDE DEF g, G, O
<1>3. /\ Tally(f, T, G) \in Nat /\ Tally(g, T, G) \in Nat
      /\ Tally(f, T, G) + Adds(g, T, G, c) = Tally(g, T, G) + Adds(f, T, G, c)
  BY <1>1, PhaseCount
<1>4. /\ Tally(f, T, O) \in Nat /\ Tally(g, T, O) \in Nat
      /\ Tally(f, T, O) + Adds(g, T, O, c) = Tally(g, T, O) + Adds(f, T, O, c)
  BY <1>1, PhaseCount
<1>5. /\ Unsent(f, T) = 2 * Tally(f, T, G) + Tally(f, T, O)
      /\ Unsent(g, T) = 2 * Tally(g, T, G) + Tally(g, T, O)
  BY DEF Unsent, G, O
<1>6. Unsent(f, T) \in Nat /\ Unsent(g, T) \in Nat
  BY <1>3, <1>4, <1>5
<1>7. c \in T => Unsent(g, T) + Owes(f[c].phase) = Unsent(f, T) + Owes(s.phase)
  BY <1>2, <1>3, <1>4, <1>5
<1>8. c \notin T => Unsent(g, T) = Unsent(f, T)
  BY <1>2, <1>3, <1>4, <1>5
<1> QED BY <1>6, <1>7, <1>8 DEF g

\* Each chat that may still be sent is sent at most twice more.
LEMMA UnsentBound ==
  ASSUME NEW f, NEW T \in SUBSET Chats, NEW H \in SUBSET T,
         \A c \in T : f[c].phase \in {"granted", "first", "renewing"} => c \in H
  PROVE  Unsent(f, T) \in Nat /\ Unsent(f, T) <= 2 * Cardinality(H)
<1> DEFINE A == InPhases(f, T, {"granted"})
           B == InPhases(f, T, {"first", "renewing"})
<1>1. A \in SUBSET H /\ B \in SUBSET H /\ A \cap B = {} /\ H \in SUBSET Chats
  BY DEF InPhases
<1>2. Unsent(f, T) = 2 * Cardinality(A) + Cardinality(B)
  BY DEF Unsent, Tally
<1> HIDE DEF A, B
<1>3. IsFiniteSet(H) /\ IsFiniteSet(A) /\ IsFiniteSet(B)
  BY <1>1, GateAssumption, FS_Subset
<1>4. Cardinality(A) \in Nat /\ Cardinality(B) \in Nat /\ Cardinality(H) \in Nat
  BY <1>3, FS_CardinalityType
<1>5. Cardinality(A \cup B) = Cardinality(A) + Cardinality(B)
  BY <1>1, <1>3, <1>4, FS_Union, FS_EmptySet
<1>6. Cardinality(A \cup B) <= Cardinality(H)
  BY <1>1, <1>3, FS_Subset
<1> QED BY <1>2, <1>4, <1>5, <1>6

\* Sends stay covered when one chat moves on: it may still send less by what it sends
\* now (a), or was counted (k).
LEMMA MoveCovered ==
  ASSUME ChatTypeOK, SendsCovered, Loaded'.count \in Counters,
         NEW c \in Chats, NEW s \in ChatState, chat' = [chat EXCEPT ![c] = s],
         NEW a \in {0, 1}, NEW k \in {0, 1},
         sentToday'.all = sentToday.all + a,
         \A u \in Users : sentToday'.by[u] = sentToday.by[u] + (IF u = UserOf[c] THEN a ELSE 0),
         Loaded'.count.global["chat"] = Loaded.count.global["chat"] + k,
         \A u \in Users : Loaded'.count.users["chat"][u]
                            = Loaded.count.users["chat"][u] + (IF u = UserOf[c] THEN k ELSE 0),
         Owes(s.phase) + a <= Owes(chat[c].phase) + 2 * k
  PROVE  SendsCovered'
<1>1. chat \in [Chats -> ChatState] /\ Loaded.count \in Counters /\ sentToday \in SendCounts
  BY LoadedFacts DEF ChatTypeOK, GateState
<1>2. Owes(s.phase) \in Nat /\ Owes(chat[c].phase) \in Nat
  BY DEF Owes
<1>3. sentToday'.all + Unsent(chat', Chats)
        <= 2 * (Loaded'.count.global["chat"] + GlobalConcurrency)
  <2>1. sentToday.all \in Nat /\ Loaded.count.global["chat"] \in Nat
    BY <1>1, GateAssumption DEF SendCounts, Counters
  <2>2. /\ Unsent(chat, Chats) \in Nat /\ Unsent(chat', Chats) \in Nat
        /\ Unsent(chat', Chats) + Owes(chat[c].phase) = Unsent(chat, Chats) + Owes(s.phase)
    BY <1>1, OneMovesOn
  <2>3. sentToday.all + Unsent(chat, Chats) <= 2 * (Loaded.count.global["chat"] + GlobalConcurrency)
    BY DEF SendsCovered
  <2> QED BY <2>1, <2>2, <2>3, <1>2, GateAssumption
<1>4. ASSUME NEW u \in Users
      PROVE  sentToday'.by[u] + Unsent(chat', ChatsBy(u))
               <= 2 * (Loaded'.count.users["chat"][u] + UserConcurrency)
  <2>1. sentToday.by[u] \in Nat /\ Loaded.count.users["chat"][u] \in Nat
    BY <1>1, GateAssumption DEF SendCounts, Counters
  <2>2. sentToday.by[u] + Unsent(chat, ChatsBy(u))
          <= 2 * (Loaded.count.users["chat"][u] + UserConcurrency)
    BY DEF SendsCovered
  <2>3. ChatsBy(u) \in SUBSET Chats /\ (c \in ChatsBy(u) <=> u = UserOf[c])
    BY DEF ChatsBy
  <2>4. /\ Unsent(chat, ChatsBy(u)) \in Nat /\ Unsent(chat', ChatsBy(u)) \in Nat
        /\ u = UserOf[c] => Unsent(chat', ChatsBy(u)) + Owes(chat[c].phase)
                              = Unsent(chat, ChatsBy(u)) + Owes(s.phase)
        /\ u # UserOf[c] => Unsent(chat', ChatsBy(u)) = Unsent(chat, ChatsBy(u))
    BY <1>1, <2>3, OneMovesOn
  <2>5. CASE u = UserOf[c]
    BY <2>1, <2>2, <2>4, <2>5, <1>2, GateAssumption
  <2>6. CASE u # UserOf[c]
    <3>1. sentToday'.by[u] = sentToday.by[u] /\ Loaded'.count.users["chat"][u] = Loaded.count.users["chat"][u]
      BY <2>6, <2>1
    <3> QED BY <3>1, <2>2, <2>4, <2>6
  <2> QED BY <2>5, <2>6
<1> QED BY <1>3, <1>4 DEF SendsCovered

-----------------------------------------------------------------------------
\* A Worker that just started, with no request, has the invariant.
LEMMA InitRelayInv == ChatInit => RelayInv
<1> SUFFICES ASSUME ChatInit PROVE RelayInv
  OBVIOUS
<1>1. ChatTypeOK
  <2>1. today \in 0..MaxDay
    BY RelayAssumption DEF ChatInit, GateInit
  <2>2. gate \in GateState
    BY CountersType, GateAssumption DEF ChatInit, GateInit, GateState
  <2>3. chat \in [Chats -> ChatState]
    BY RelayAssumption DEF ChatInit, Idle, ChatState
  <2>4. sentToday \in SendCounts
    BY DEF ChatInit, NothingSent, SendCounts
  <2> QED BY <2>1, <2>2, <2>3, <2>4 DEF ChatTypeOK
<1>2. Loaded.count = NoCounts /\ gate.day = today /\ today = 0
  BY DEF ChatInit, GateInit, Loaded
<1>3. CountsWithin
  BY <1>2, GateAssumption DEF NoCounts, CountsWithin
<1>4. LeaseCovers
  BY DEF ChatInit, Idle, LeaseCovers
<1>5. WithinConcurrency(Held)
  <2>1. Held = {}
    BY DEF Held, ChatInit, GateInit
  <2>2. Cardinality({}) = 0 /\ \A u \in Users : {c \in {} : UserOf[c] = u} = {}
    BY FS_EmptySet
  <2> QED BY <2>1, <2>2, GateAssumption DEF WithinConcurrency
<1>6. SendsCovered
  <2>1. ASSUME NEW T \in SUBSET Chats PROVE Unsent(chat, T) = 0
    <3>1. /\ InPhases(chat, T, {"granted"}) = {}
          /\ InPhases(chat, T, {"first", "renewing"}) = {}
      BY DEF ChatInit, Idle, InPhases
    <3> QED BY <3>1, FS_EmptySet DEF Unsent, Tally
  <2>2. Unsent(chat, Chats) = 0 /\ \A u \in Users : Unsent(chat, ChatsBy(u)) = 0
    BY <2>1 DEF ChatsBy
  <2> QED BY <2>2, <1>2, GateAssumption DEF SendsCovered, ChatInit, NothingSent, NoCounts
<1> QED BY <1>1, <1>3, <1>4, <1>5, <1>6 DEF RelayInv

\* A step that reserves nothing keeps the concurrency limits.
LEMMA NoGrant ==
  ASSUME WithinConcurrency(Held), Held' \subseteq Held
  PROVE  WithinConcurrency(Held)'
<1>1. Held \in SUBSET Chats
  BY DEF Held
<1>2. WithinConcurrency(Held')
  BY <1>1, FewerChats
<1> QED BY <1>2 DEF WithinConcurrency

\* The gate admits a chat.
LEMMA StartChatRelayInv ==
  ASSUME RelayInv, NEW c \in Chats, StartChat(c)
  PROVE  RelayInv'
<1> DEFINE u == UserOf[c]
           s == [phase |-> "granted", left |-> GrantDelay]
           n == Counted(Loaded.count, "chat", u)
<1>1. ChatTypeOK /\ CountsWithin /\ SendsCovered /\ LeaseCovers /\ WithinConcurrency(Held)
  BY DEF RelayInv
<1>2. chat[c] \in ChatState /\ chat \in [Chats -> ChatState] /\ gate \in GateState
  BY <1>1 DEF ChatTypeOK
<1>3. /\ u \in Users /\ "chat" \in Kinds
      /\ WithinBudget("chat", u) /\ RoomForChat(u)
      /\ chat[c].phase = "idle" /\ gate.leases[c] = 0
  BY GateAssumption DEF StartChat, AcquireChat
<1>15. /\ chat' = [chat EXCEPT ![c] = s] /\ sentToday' = sentToday /\ today' = today
  BY DEF StartChat, Goes
<1>4. Loaded.count \in Counters /\ n \in Counters
  BY <1>1, <1>3, LoadedFacts, CountersType DEF GateState
<1>5. /\ n.global["chat"] = Loaded.count.global["chat"] + 1
      /\ \A v \in Users : n.users["chat"][v]
                            = Loaded.count.users["chat"][v] + (IF v = u THEN 1 ELSE 0)
  BY <1>3, <1>4, CountedValues
<1>6. gate' = [day |-> today, count |-> n, leases |-> [gate.leases EXCEPT ![c] = Lease]]
  BY <1>1, LoadedFacts DEF StartChat, AcquireChat
<1> HIDE DEF n, s
<1>7. today \in Nat /\ gate' \in GateState
  BY <1>1, <1>2, <1>4, <1>6, GateAssumption, RelayAssumption DEF GateState, ChatTypeOK
<1>8. s \in ChatState /\ chat' \in [Chats -> ChatState]
  BY <1>15, <1>2, RelayAssumption DEF ChatState, s
<1>9. ChatTypeOK'
  BY <1>15, <1>7, <1>8, <1>1 DEF ChatTypeOK
<1>10. Loaded'.count = n /\ gate'.day = today'
  <2>1. gate'.day = today' /\ gate'.count = n
    BY <1>15, <1>6
  <2> QED BY <2>1 DEF Loaded
<1>11. CountsWithin'
  <2>1. /\ Loaded.count.global["chat"] \in Nat /\ GlobalLimit["chat"] \in Nat
        /\ UserLimit["chat"] \in Nat /\ \A v \in Users : Loaded.count.users["chat"][v] \in Nat
    BY <1>3, <1>4, GateAssumption DEF Counters
  <2>2. /\ Loaded.count.global["chat"] < GlobalLimit["chat"]
        /\ Loaded.count.users["chat"][u] < UserLimit["chat"]
    BY <1>3 DEF WithinBudget
  <2>3. \A v \in Users : Loaded.count.users["chat"][v] <= UserLimit["chat"]
    BY <1>1 DEF CountsWithin
  <2>4. n.global["chat"] <= GlobalLimit["chat"]
    BY <1>5, <2>1, <2>2
  <2>5. \A v \in Users : n.users["chat"][v] <= UserLimit["chat"]
    BY <1>5, <2>1, <2>2, <2>3
  <2> QED BY <1>7, <1>10, <1>15, <2>4, <2>5 DEF CountsWithin
<1>12. SendsCovered'
  <2>1. Owes(s.phase) + 0 <= Owes(chat[c].phase) + 2 * 1
    BY <1>3 DEF Owes, s
  <2>2. /\ sentToday'.all = sentToday.all + 0
        /\ \A v \in Users : sentToday'.by[v] = sentToday.by[v] + (IF v = u THEN 0 ELSE 0)
    BY <1>1, <1>15 DEF ChatTypeOK, SendCounts
  <2> QED BY <1>1, <1>4, <1>5, <1>8, <1>10, <1>15, <2>1, <2>2, MoveCovered
<1>13. LeaseCovers'
  BY <1>2, <1>15, <1>6, <1>1, GateAssumption, RelayAssumption DEF GateState, LeaseCovers, s
<1>14. WithinConcurrency(Held)'
  <2>1. Held' = Held \cup {c}
    BY <1>6, <1>2, GateAssumption DEF Held, GateState
  <2>2. c \notin Held /\ Held \in SUBSET Chats
    BY <1>3 DEF Held
  <2>3. /\ Cardinality(Held) < GlobalConcurrency
        /\ Cardinality({d \in Held : UserOf[d] = UserOf[c]}) < UserConcurrency
    BY <1>3 DEF RoomForChat, HeldBy
  <2>4. WithinConcurrency(Held \cup {c})
    BY <2>2, <2>3, <1>1, OneMoreChat
  <2> QED BY <2>1, <2>4 DEF WithinConcurrency
<1> QED BY <1>9, <1>11, <1>12, <1>13, <1>14 DEF RelayInv

\* A chat that was admitted moves on: it is sent (a) or not.
LEMMA MovesOnRelayInv ==
  ASSUME RelayInv, NEW c \in Chats, NEW s \in ChatState, NEW a \in {0, 1},
         chat' = [chat EXCEPT ![c] = s], UNCHANGED <<today, gate>>,
         sentToday' = IF a = 1 THEN SentBy(sentToday, UserOf[c]) ELSE sentToday,
         Owes(s.phase) + a <= Owes(chat[c].phase),
         LeaseCovers'
  PROVE  RelayInv'
<1>1. ChatTypeOK /\ CountsWithin /\ SendsCovered /\ LeaseCovers /\ WithinConcurrency(Held)
  BY DEF RelayInv
<1>2. chat \in [Chats -> ChatState] /\ sentToday \in SendCounts /\ UserOf[c] \in Users
  BY <1>1, GateAssumption DEF ChatTypeOK
<1>3. Loaded' = Loaded /\ Held' = Held /\ Loaded.count \in Counters
  BY <1>1, LoadedFacts DEF Loaded, Held, GateState
<1>4. /\ sentToday' \in SendCounts /\ sentToday'.all = sentToday.all + a
      /\ \A u \in Users : sentToday'.by[u] = sentToday.by[u] + (IF u = UserOf[c] THEN a ELSE 0)
  <2>1. CASE a = 1
    BY <2>1, <1>2, SentValues
  <2>2. CASE a = 0
    BY <2>2, <1>2 DEF SendCounts
  <2> QED BY <2>1, <2>2
<1>5. chat' \in [Chats -> ChatState]
  BY <1>2
<1>6. ChatTypeOK'
  BY <1>1, <1>4, <1>5 DEF ChatTypeOK
<1>7. CountsWithin'
  BY <1>1, <1>3 DEF CountsWithin
<1>8. SendsCovered'
  <2>1. Owes(s.phase) + a <= Owes(chat[c].phase) + 2 * 0
    <3>1. Owes(chat[c].phase) \in Nat
      BY DEF Owes
    <3> QED BY <3>1
  <2>2. /\ Loaded'.count.global["chat"] = Loaded.count.global["chat"] + 0
        /\ \A u \in Users : Loaded'.count.users["chat"][u]
                              = Loaded.count.users["chat"][u] + (IF u = UserOf[c] THEN 0 ELSE 0)
    BY <1>3, GateAssumption DEF Counters
  <2> QED BY <1>1, <1>3, <1>4, <2>1, <2>2, MoveCovered
<1>9. WithinConcurrency(Held)'
  BY <1>1, <1>3 DEF WithinConcurrency
<1> QED BY <1>6, <1>7, <1>8, <1>9 DEF RelayInv

\* Every step of a chat request keeps the invariant.
LEMMA ChatStepRelayInv ==
  ASSUME RelayInv, NEW c \in Chats, ChatStep(c)
  PROVE  RelayInv'
<1>1. ChatTypeOK /\ CountsWithin /\ SendsCovered /\ LeaseCovers /\ WithinConcurrency(Held)
  BY DEF RelayInv
<1>2. /\ chat[c] \in ChatState /\ chat \in [Chats -> ChatState] /\ gate \in GateState
      /\ gate.leases[c] \in Nat /\ chat[c].left \in Nat
  BY <1>1 DEF ChatTypeOK, GateState, ChatState
<1>3. CASE StartChat(c)
  BY <1>3, StartChatRelayInv
<1>4. CASE SendChat(c)
  <2> DEFINE s == [phase |-> "first", left |-> FetchTimeout]
  <2>1. /\ chat[c].phase = "granted" /\ chat' = [chat EXCEPT ![c] = s]
        /\ sentToday' = SentBy(sentToday, UserOf[c]) /\ UNCHANGED <<today, gate>>
    BY <1>4 DEF SendChat, Goes
  <2>2. s \in ChatState /\ Owes(s.phase) + 1 <= Owes(chat[c].phase)
    BY <2>1, RelayAssumption DEF ChatState, Owes
  <2>3. LeaseCovers'
    BY <2>1, <1>1, <1>2, RelayAssumption DEF LeaseCovers
  <2> QED BY <2>1, <2>2, <2>3, MovesOnRelayInv
<1>5. CASE Unauthorized(c)
  <2> DEFINE s == [phase |-> "renewing", left |-> RefreshTimeout]
  <2>1. /\ chat[c].phase = "first" /\ chat' = [chat EXCEPT ![c] = s]
        /\ UNCHANGED <<today, gate, sentToday>>
    BY <1>5 DEF Unauthorized, Goes
  <2>2. s \in ChatState /\ Owes(s.phase) + 0 <= Owes(chat[c].phase)
    BY <2>1, RelayAssumption DEF ChatState, Owes
  <2>3. LeaseCovers'
    BY <2>1, <1>1, <1>2, RelayAssumption DEF LeaseCovers
  <2>4. sentToday' = IF 0 = 1 THEN SentBy(sentToday, UserOf[c]) ELSE sentToday
    BY <2>1
  <2> HIDE DEF s
  <2> QED BY <2>1, <2>2, <2>3, <2>4, MovesOnRelayInv
<1>6. CASE TokenRenewed(c)
  <2> DEFINE s == [phase |-> "second", left |-> FetchTimeout]
  <2>1. /\ chat[c].phase = "renewing" /\ chat' = [chat EXCEPT ![c] = s]
        /\ sentToday' = SentBy(sentToday, UserOf[c]) /\ UNCHANGED <<today, gate>>
    BY <1>6 DEF TokenRenewed, Goes
  <2>2. s \in ChatState /\ Owes(s.phase) + 1 <= Owes(chat[c].phase)
    BY <2>1, RelayAssumption DEF ChatState, Owes
  <2>3. LeaseCovers'
    BY <2>1, <1>1, <1>2 DEF LeaseCovers
  <2> QED BY <2>1, <2>2, <2>3, MovesOnRelayInv
<1>7. ASSUME NEW phase \in {"idle", "releasing"}, Goes(c, phase, 0),
             UNCHANGED <<today, gate, sentToday>>
      PROVE  RelayInv'
  <2> DEFINE s == [phase |-> phase, left |-> 0]
  <2>1. chat' = [chat EXCEPT ![c] = s]
    BY <1>7 DEF Goes
  <2>2. s \in ChatState /\ Owes(s.phase) + 0 <= Owes(chat[c].phase)
    BY <1>7, RelayAssumption DEF ChatState, Owes
  <2>3. LeaseCovers'
    BY <2>1, <1>7, <1>1, <1>2 DEF LeaseCovers
  <2>4. sentToday' = IF 0 = 1 THEN SentBy(sentToday, UserOf[c]) ELSE sentToday
    BY <1>7
  <2> HIDE DEF s
  <2> QED BY <1>7, <2>1, <2>2, <2>3, <2>4, MovesOnRelayInv
<1>8. CASE Finish(c)
  BY <1>8, <1>7 DEF Finish
<1>9. CASE Crash(c)
  BY <1>9, <1>7 DEF Crash
<1>10. CASE ReleaseSlot(c)
  <2> DEFINE s == [phase |-> "idle", left |-> 0]
  <2>1. /\ chat[c].phase = "releasing" /\ gate' = [Loaded EXCEPT !.leases[c] = 0]
        /\ chat' = [chat EXCEPT ![c] = s] /\ UNCHANGED <<today, sentToday>>
    BY <1>10 DEF ReleaseSlot, ReleaseChat, Goes
  <2>2. gate' = [day |-> today, count |-> Loaded.count,
                 leases |-> [gate.leases EXCEPT ![c] = 0]]
    BY <2>1, <1>1, LoadedFacts
  <2>3. gate' \in GateState /\ today \in Nat
    BY <2>2, <1>1, <1>2, LoadedFacts, GateAssumption, RelayAssumption DEF GateState, ChatTypeOK
  <2>4. s \in ChatState /\ chat' \in [Chats -> ChatState]
    BY <2>1, <1>2, RelayAssumption DEF ChatState
  <2>5. ChatTypeOK'
    BY <2>1, <2>3, <2>4, <1>1 DEF ChatTypeOK
  <2>6. Loaded'.count = Loaded.count /\ gate'.day = today' /\ Loaded.count \in Counters
    BY <2>1, <2>2, <1>1, LoadedFacts DEF Loaded, GateState
  <2>7. CountsWithin'
    BY <2>1, <2>3, <2>6, <1>1 DEF CountsWithin
  <2>8. SendsCovered'
    <3>1. Owes(s.phase) + 0 <= Owes(chat[c].phase) + 2 * 0
      BY DEF Owes
    <3>2. /\ Loaded'.count.global["chat"] = Loaded.count.global["chat"] + 0
          /\ \A u \in Users : Loaded'.count.users["chat"][u]
                                = Loaded.count.users["chat"][u] + (IF u = UserOf[c] THEN 0 ELSE 0)
      BY <2>6, GateAssumption DEF Counters
    <3>3. /\ sentToday'.all = sentToday.all + 0
          /\ \A v \in Users : sentToday'.by[v] = sentToday.by[v] + (IF v = UserOf[c] THEN 0 ELSE 0)
      BY <1>1, <2>1 DEF ChatTypeOK, SendCounts
    <3> HIDE DEF s
    <3> QED BY <1>1, <2>1, <2>4, <2>6, <3>1, <3>2, <3>3, MoveCovered
  <2>9. LeaseCovers'
    BY <2>1, <2>2, <1>1, <1>2 DEF LeaseCovers, GateState
  <2>10. WithinConcurrency(Held)'
    <3>1. Held' \subseteq Held
      BY <2>2, <1>2 DEF Held, GateState
    <3> QED BY <3>1, <1>1, NoGrant
  <2> QED BY <2>5, <2>7, <2>8, <2>9, <2>10 DEF RelayInv
<1> QED BY <1>3, <1>4, <1>5, <1>6, <1>8, <1>9, <1>10 DEF ChatStep

\* So does a request that counts against the day's budget only.
LEMMA StartDailyRelayInv ==
  ASSUME RelayInv, NEW k \in Kinds, NEW u \in Users, StartDaily(k, u)
  PROVE  RelayInv'
<1> DEFINE n == Counted(Loaded.count, k, u)
<1>1. ChatTypeOK /\ CountsWithin /\ SendsCovered /\ LeaseCovers /\ WithinConcurrency(Held)
  BY DEF RelayInv
<1>2. /\ k # "chat" /\ gate' = [Loaded EXCEPT !.count = Counted(@, k, u)]
      /\ UNCHANGED <<today, chat, sentToday>>
  BY DEF StartDaily, AcquireDaily
<1>3. Loaded.count \in Counters /\ n \in Counters
  BY <1>1, LoadedFacts, CountersType DEF GateState
<1>4. /\ n.global["chat"] = Loaded.count.global["chat"]
      /\ \A v \in Users : n.users["chat"][v] = Loaded.count.users["chat"][v]
  <2>1. /\ Loaded.count.global["chat"] \in Nat
        /\ \A v \in Users : Loaded.count.users["chat"][v] \in Nat
    BY <1>3, GateAssumption DEF Counters
  <2>2. /\ n.global["chat"] = Loaded.count.global["chat"] + 0
        /\ \A v \in Users : n.users["chat"][v] = Loaded.count.users["chat"][v] + 0
    BY <1>2, <1>3, GateAssumption, CountedValues
  <2> QED BY <2>1, <2>2
<1>5. gate' = [day |-> today, count |-> n, leases |-> gate.leases]
  BY <1>1, <1>2, LoadedFacts
<1> HIDE DEF n
<1>6. gate' \in GateState /\ today \in Nat
  BY <1>1, <1>3, <1>5, RelayAssumption DEF ChatTypeOK, GateState
<1>7. ChatTypeOK'
  BY <1>1, <1>2, <1>6 DEF ChatTypeOK
<1>8. Loaded'.count = n /\ gate'.day = today'
  BY <1>2, <1>5 DEF Loaded
<1>9. CountsWithin' /\ SendsCovered'
  BY <1>1, <1>2, <1>4, <1>6, <1>8 DEF CountsWithin, SendsCovered
<1>10. LeaseCovers' /\ Held' = Held
  BY <1>2, <1>5, <1>1 DEF LeaseCovers, Held
<1>11. WithinConcurrency(Held)'
  BY <1>1, <1>10 DEF WithinConcurrency
<1> QED BY <1>7, <1>9, <1>10, <1>11 DEF RelayInv

\* So does the passing of time, in which leases lapse.
LEMMA TickRelayInv ==
  ASSUME RelayInv, Tick
  PROVE  RelayInv'
<1>1. ChatTypeOK /\ CountsWithin /\ SendsCovered /\ LeaseCovers /\ WithinConcurrency(Held)
  BY DEF RelayInv
<1>2. chat \in [Chats -> ChatState] /\ gate \in GateState
  BY <1>1 DEF ChatTypeOK
<1>3. /\ \A c \in Chats : Timed(c) => chat[c].left > 0
      /\ chat' = [c \in Chats |->
           IF Timed(c) THEN [chat[c] EXCEPT !.left = chat[c].left - 1] ELSE chat[c]]
      /\ UNCHANGED <<today, sentToday>>
  BY DEF Tick
<1>4. gate' = [day |-> gate.day, count |-> gate.count,
               leases |-> [c \in Chats |->
                 IF gate.leases[c] > 0 THEN gate.leases[c] - 1 ELSE 0]]
  BY <1>2 DEF Tick, LeasesRunDown, GateState
<1>5. gate' \in GateState
  BY <1>4, <1>2, GateAssumption DEF GateState
<1>6. chat' \in [Chats -> ChatState]
  BY <1>3, <1>2, RelayAssumption DEF ChatState
<1>7. ChatTypeOK'
  BY <1>1, <1>3, <1>5, <1>6 DEF ChatTypeOK
<1>8. Loaded'.count = Loaded.count /\ gate'.day = gate.day
  BY <1>3, <1>4 DEF Loaded
<1>9. CountsWithin'
  BY <1>1, <1>3, <1>8 DEF CountsWithin
<1>10. SendsCovered'
  <2>1. \A c \in Chats : chat'[c].phase = chat[c].phase
    BY <1>2, <1>3 DEF ChatState
  <2>2. \A T \in SUBSET Chats : Unsent(chat', T) = Unsent(chat, T)
    BY <2>1 DEF Unsent, Tally, InPhases
  <2>3. /\ Unsent(chat', Chats) = Unsent(chat, Chats)
        /\ \A u \in Users : Unsent(chat', ChatsBy(u)) = Unsent(chat, ChatsBy(u))
    BY <2>2 DEF ChatsBy
  <2> QED BY <1>1, <1>3, <1>8, <2>3 DEF SendsCovered
<1>11. LeaseCovers'
  BY <1>2, <1>3, <1>4, <1>1, RelayAssumption DEF ChatState, GateState, LeaseCovers, Timed
<1>12. WithinConcurrency(Held)'
  <2>1. Held' \subseteq Held
    BY <1>4, <1>2 DEF Held, GateState
  <2> QED BY <2>1, <1>1, NoGrant
<1> QED BY <1>7, <1>9, <1>10, <1>11, <1>12 DEF RelayInv

\* So does midnight: the chats that may still be sent hold reservations.
LEMMA NewDayRelayInv ==
  ASSUME RelayInv, NewDay
  PROVE  RelayInv'
<1>1. ChatTypeOK /\ CountsWithin /\ LeaseCovers /\ WithinConcurrency(Held)
  BY DEF RelayInv
<1>2. /\ today < MaxDay /\ today' = today + 1 /\ sentToday' = NothingSent
      /\ UNCHANGED <<gate, chat>>
  BY DEF NewDay
<1>3. ChatTypeOK'
  BY <1>1, <1>2, RelayAssumption DEF ChatTypeOK, NothingSent, SendCounts
<1>4. Loaded'.count = NoCounts /\ gate'.day <= today'
  <2>1. gate.day \in Nat /\ today \in Nat
    BY <1>1, RelayAssumption DEF ChatTypeOK, GateState
  <2>2. gate'.day <= today' /\ gate'.day # today'
    BY <2>1, <1>1, <1>2 DEF CountsWithin
  <2> QED BY <2>2, <1>2 DEF Loaded
<1>5. CountsWithin'
  BY <1>4, GateAssumption DEF CountsWithin, NoCounts
<1>6. LeaseCovers' /\ Held' = Held
  BY <1>1, <1>2 DEF LeaseCovers, Held
<1>7. WithinConcurrency(Held)'
  BY <1>1, <1>6 DEF WithinConcurrency
<1>8. SendsCovered'
  <2>1. ASSUME NEW c \in Chats, chat[c].phase \in {"granted", "first", "renewing"}
        PROVE  c \in Held
    <3>1. gate.leases[c] \in Nat /\ chat[c].left \in Nat
      BY <1>1 DEF ChatTypeOK, GateState, ChatState
    <3> QED BY <2>1, <3>1, <1>1, RelayAssumption DEF LeaseCovers, Held
  <2>2. Held \in SUBSET Chats /\ IsFiniteSet(Held) /\ Cardinality(Held) \in Nat
    <3>1. Held \in SUBSET Chats
      BY DEF Held
    <3> QED BY <3>1, GateAssumption, FS_Subset, FS_CardinalityType
  <2>3. Unsent(chat, Chats) <= 2 * GlobalConcurrency /\ Unsent(chat, Chats) \in Nat
    BY <2>1, <2>2, UnsentBound, <1>1, GateAssumption DEF WithinConcurrency
  <2>4. ASSUME NEW u \in Users
        PROVE  Unsent(chat, ChatsBy(u)) <= 2 * UserConcurrency /\ Unsent(chat, ChatsBy(u)) \in Nat
    <3> DEFINE H == {c \in Held : UserOf[c] = u}
    <3>1. /\ ChatsBy(u) \in SUBSET Chats /\ H \in SUBSET ChatsBy(u) /\ H \in SUBSET Held
          /\ \A c \in ChatsBy(u) : c \in Held => c \in H
      BY <2>2 DEF ChatsBy
    <3>2. Cardinality(H) <= UserConcurrency
      BY <1>1 DEF WithinConcurrency
    <3> HIDE DEF H
    <3>3. \A c \in ChatsBy(u) : chat[c].phase \in {"granted", "first", "renewing"} => c \in H
      BY <2>1, <3>1
    <3>4. Unsent(chat, ChatsBy(u)) \in Nat /\ Unsent(chat, ChatsBy(u)) <= 2 * Cardinality(H)
      BY <3>1, <3>3, UnsentBound
    <3>5. Cardinality(H) \in Nat
      BY <2>2, <3>1, FS_Subset, FS_CardinalityType
    <3> QED BY <3>2, <3>4, <3>5, GateAssumption
  <2> QED BY <2>3, <2>4, <1>2, <1>4, GateAssumption DEF SendsCovered, NothingSent, NoCounts
<1> QED BY <1>3, <1>5, <1>6, <1>7, <1>8 DEF RelayInv

\* Every step of the relay keeps the invariant.
LEMMA NextRelayInv == RelayInv /\ [ChatNext]_chatVars => RelayInv'
<1> SUFFICES ASSUME RelayInv, [ChatNext]_chatVars PROVE RelayInv'
  OBVIOUS
<1>1. CASE UNCHANGED chatVars
  BY <1>1 DEF chatVars, RelayInv, ChatTypeOK, CountsWithin, SendsCovered, Loaded, LeaseCovers,
              WithinConcurrency, Held
<1>2. CASE ChatNext
  BY <1>2, ChatStepRelayInv, StartDailyRelayInv, TickRelayInv, NewDayRelayInv DEF ChatNext
<1> QED BY <1>1, <1>2

\* The invariant holds of every reachable state.
LEMMA RelayInvHolds == ChatSpec => []RelayInv
BY InitRelayInv, NextRelayInv, PTL DEF ChatSpec

-----------------------------------------------------------------------------
\* For every set of accounts, chats and budgets the gate's stored state and the
\* relay's have their types (rate-gate.ts GateState).
THEOREM RelayTypeCorrect == ChatSpec => []ChatTypeOK
<1>1. RelayInv => ChatTypeOK
  BY DEF RelayInv
<1> QED BY <1>1, RelayInvHolds, PTL

\* Whatever the limits, and however grants, fetches, retries after a 401, lost workers
\* and midnight interleave, the chats sent to xAI in one UTC day are at most twice the
\* day's budget and twice those that may run at once (rate-gate.ts load, worker.ts
\* routeResponses).
THEOREM BudgetHolds == ChatSpec => []DailyBudget
<1>1. ASSUME RelayInv PROVE DailyBudget
  <2>1. ChatTypeOK /\ CountsWithin /\ SendsCovered
    BY <1>1 DEF RelayInv
  <2>2. Loaded.count \in Counters /\ sentToday \in SendCounts
    BY <2>1, LoadedFacts DEF GateState, ChatTypeOK
  <2>3. \A T \in SUBSET Chats : Unsent(chat, T) \in Nat
    BY UnsentBound
  <2>4. sentToday.all <= 2 * (GlobalLimit["chat"] + GlobalConcurrency)
    BY <2>2, GateAssumption, <2>3, <2>1 DEF Counters, SendCounts, CountsWithin, SendsCovered
  <2>5. ASSUME NEW u \in Users
        PROVE  sentToday.by[u] <= 2 * (UserLimit["chat"] + UserConcurrency)
    <3>1. /\ sentToday.by[u] \in Nat /\ Loaded.count.users["chat"][u] \in Nat
          /\ UserLimit["chat"] \in Nat
      BY <2>2, GateAssumption DEF Counters, SendCounts
    <3>2. Unsent(chat, ChatsBy(u)) \in Nat
      BY <2>3 DEF ChatsBy
    <3> QED BY <2>1, <3>1, <3>2, GateAssumption DEF CountsWithin, SendsCovered
  <2> QED BY <2>4, <2>5 DEF DailyBudget
<1> QED BY <1>1, RelayInvHolds, PTL

\* As long as a fetch is aborted before a lease ends, the first fetches open at
\* xAI are within the concurrency limits (rate-gate.ts RESERVATION_LEASE_MS).
THEOREM FirstAttemptsHold == ChatSpec => []FirstAttemptsWithinBudget
<1>1. ASSUME RelayInv PROVE FirstAttemptsWithinBudget
  <2>1. FirstAttempts \in SUBSET Held /\ Held \in SUBSET Chats
    <3>1. ASSUME NEW c \in Chats, chat[c].phase = "first"
          PROVE  gate.leases[c] > 0
      <4>1. /\ gate.leases[c] > chat[c].left + RefreshTimeout
            /\ gate.leases[c] \in Nat /\ chat[c].left \in Nat
        BY <1>1, <3>1 DEF RelayInv, LeaseCovers, ChatTypeOK, GateState, ChatState
      <4> QED BY <4>1, RelayAssumption
    <3> QED BY <3>1 DEF FirstAttempts, Held
  <2> QED BY <2>1, <1>1, FewerChats DEF RelayInv, FirstAttemptsWithinBudget
<1> QED BY <1>1, RelayInvHolds, PTL

-----------------------------------------------------------------------------
(***************************************************************************)
(* The sign-in session                                                     *)
(***************************************************************************)

\* What a stored or a read session may be: a device sign-in keeps nothing else,
\* videos are kept beside a credential, and few.
Sound(s) ==
  /\ s \in SessionState
  /\ Cardinality(s.videos) <= MaxVideos
  /\ s.device # "none" => ~SignedIn(s)
  /\ s.videos # {} => SignedIn(s)

PollsRead ==
  \A p \in Polls : Sound(polls[p].read) /\ ~SignedIn(polls[p].read)

\* An exchange carries a credential xAI issued; one that was begun before the
\* end finds nothing stored any more, and none survives a sign-out's generation.
ExchangesRead ==
  \A e \in exchanges :
    /\ Sound(e.read) /\ SignedIn(e.read) /\ e.read.token <= minted
    /\ granted
    /\ e.generation <= generation
    /\ e.generation # generation => ~SignedIn(session)
    /\ signedOut => e.generation # generation

OneExchange == \A e, f \in exchanges : e = f

\* Before the device sign-in began nothing has happened.
Unstarted ==
  started = "no" =>
    ~granted /\ session.device = "none" /\ \A p \in Polls : ~polls[p].asking

\* The inductive invariant.
SessionInv ==
  /\ SessionTypeOK
  /\ Sound(session) /\ session.token <= minted
  /\ SignedIn(session) => granted
  /\ signedOut => granted
  /\ PollsRead /\ ExchangesRead /\ OneExchange /\ Unstarted
  /\ EndedLoginStaysOut /\ TokensUsedOnce

USE SessionAssumption DEF SessionAssumption

-----------------------------------------------------------------------------
\* Nothing stored is sound.
LEMMA EmptyIsSound ==
  /\ Empty \in SessionState /\ Sound(Empty) /\ ~SignedIn(Empty)
  /\ Empty.token = 0 /\ Empty.device = "none"
  /\ Empty.videos = {} /\ Cardinality(Empty.videos) <= MaxVideos
<1>1. Cardinality({}) = 0
  BY FS_EmptySet
<1> QED BY <1>1 DEF Sound, Empty, SessionState, SignedIn

\* Fewer videos are kept within the limit.
LEMMA FewerVideos ==
  ASSUME NEW S \in SUBSET Videos, NEW T \in SUBSET S, Cardinality(S) <= MaxVideos
  PROVE  Cardinality(T) <= MaxVideos
BY FS_Subset, FS_CardinalityType

\* A handler that only stores keeps the invariant when what it stores is sound,
\* and it neither signs in nor changes the token.
LEMMA StoringKeepsInv ==
  ASSUME SessionInv, NEW s, Stores(s), Sound(s), s.token \in {session.token, 0},
         s.device \in {session.device, "none"} \/ started # "no"
  PROVE  SessionInv'
<1> USE DEF SessionInv
<1>1. SessionTypeOK'
  BY DEF SessionTypeOK, Stores, Sound
<1>2. /\ Sound(session') /\ (session'.token <= minted')
      /\ (SignedIn(session') => granted')
      /\ (signedOut' => granted')
  BY DEF SessionTypeOK, Stores, SignedIn
<1>3. PollsRead' /\ OneExchange' /\ Unstarted'
  BY DEF PollsRead, OneExchange, Unstarted, Stores, Sound, SignedIn
<1>4. ExchangesRead'
  BY DEF ExchangesRead, Stores, Sound, SignedIn
<1>5. EndedLoginStaysOut' /\ TokensUsedOnce'
  BY DEF EndedLoginStaysOut, TokensUsedOnce, Stores, SignedIn, SessionTypeOK
<1> QED BY <1>1, <1>2, <1>3, <1>4, <1>5 DEF Sound

\* A session object without a login has the invariant.
LEMMA InvInit == SessionInit => SessionInv
<1> SUFFICES ASSUME SessionInit PROVE SessionInv
  OBVIOUS
<1>1. Cardinality({}) = 0
  BY FS_EmptySet
<1>2. SessionTypeOK
  <2>1. NotPolling \in [read: SessionState, asking: BOOLEAN]
    BY EmptyIsSound DEF NotPolling
  <2>2. 0 \in 0..MaxTokens
    OBVIOUS
  <2> QED BY <2>1, <2>2, EmptyIsSound DEF SessionInit, SessionTypeOK
<1>3. Sound(session) /\ ~SignedIn(session) /\ session.token = 0
  BY EmptyIsSound DEF SessionInit
<1>4. PollsRead
  <2>1. NotPolling.read = Empty
    BY DEF NotPolling
  <2>2. \A p \in Polls : polls[p] = NotPolling
    BY DEF SessionInit
  <2> QED BY <2>1, <2>2, EmptyIsSound DEF PollsRead
<1>5. ExchangesRead /\ OneExchange /\ Unstarted
  <2>1. \A p \in Polls : ~polls[p].asking
    BY DEF SessionInit, NotPolling
  <2> QED BY <2>1, EmptyIsSound DEF SessionInit, ExchangesRead, OneExchange, Unstarted
<1>6. EndedLoginStaysOut /\ TokensUsedOnce
  BY <1>3 DEF SessionInit, EndedLoginStaysOut, TokensUsedOnce
<1> QED BY <1>2, <1>3, <1>4, <1>5, <1>6 DEF SessionInv, SessionInit

-----------------------------------------------------------------------------
(* Device sign-in *)

\* The device codes of a login keep the invariant.
LEMMA DeviceKeepsInv ==
  ASSUME SessionInv, DeviceStart \/ DeviceStarted \/ DeviceTime \/ PollTooLate
  PROVE  SessionInv'
<1>1. CASE DeviceStart
  <2>0. exchanges = {}
    BY <1>1 DEF DeviceStart, SessionInv, Unstarted, ExchangesRead
  <2>1. SessionTypeOK' /\ Sound(session') /\ session' = session /\ minted' = minted
        /\ polls' = polls /\ exchanges' = {}
    BY <1>1, <2>0 DEF SessionInv, SessionTypeOK, DeviceStart, Sound, Unstarted, SessionState
  <2>2. PollsRead' /\ ExchangesRead' /\ OneExchange' /\ Unstarted' /\ TokensUsedOnce'
    BY <1>1, <2>1
    DEF SessionInv, DeviceStart, PollsRead, ExchangesRead, OneExchange, Unstarted,
        TokensUsedOnce, Sound, SignedIn
  <2> QED BY <1>1, <2>1, <2>2 DEF SessionInv, DeviceStart, EndedLoginStaysOut, SignedIn
<1>2. CASE DeviceStarted
  <2>1. Sound(session') /\ session'.token \in {session.token, 0}
    <3> DEFINE s == [Empty EXCEPT !.device = "wait"]
    <3>1. s \in SessionState /\ s.videos = Empty.videos /\ s.token = 0
      BY EmptyIsSound DEF SessionState
    <3>2. Sound(s)
      BY <3>1, EmptyIsSound DEF Sound, SignedIn
    <3> QED BY <1>2, <3>1, <3>2 DEF DeviceStarted, SessionInv
  <2>2. SessionTypeOK'
    BY <1>2, <2>1 DEF SessionInv, SessionTypeOK, DeviceStarted, Sound
  <2>3. PollsRead' /\ OneExchange' /\ Unstarted'
    BY <1>2 DEF SessionInv, DeviceStarted, PollsRead, OneExchange, Unstarted, Sound, SignedIn
  <2>4. ExchangesRead'
    BY <1>2, <2>1 DEF SessionInv, DeviceStarted, ExchangesRead, Sound, SignedIn
  <2>5. EndedLoginStaysOut' /\ TokensUsedOnce' /\ session'.token <= minted'
        /\ (SignedIn(session') => granted') /\ (signedOut' => granted')
    BY <1>2, <2>1
    DEF SessionInv, DeviceStarted, EndedLoginStaysOut, TokensUsedOnce, SignedIn, SessionTypeOK
  <2> QED BY <2>1, <2>2, <2>3, <2>4, <2>5 DEF SessionInv, Sound
<1>3. CASE DeviceTime
  <2> DEFINE s == [session EXCEPT !.device = IF @ = "wait" THEN "ready" ELSE "over"]
  <2>1. Sound(s) /\ s.token = session.token
    BY <1>3 DEF DeviceTime, SessionInv, Sound, SessionState, SignedIn
  <2>2. Stores(s)
    BY <1>3 DEF DeviceTime
  <2>3. started # "no"
    BY <1>3 DEF DeviceTime, SessionInv, Unstarted
  <2> QED BY <2>1, <2>2, <2>3, StoringKeepsInv
<1>4. CASE PollTooLate
  BY <1>4, EmptyIsSound, StoringKeepsInv DEF PollTooLate, Empty
<1> QED BY <1>1, <1>2, <1>3, <1>4

\* A poll that finds the login approved keeps the invariant.
LEMMA PollKeepsInv ==
  ASSUME SessionInv, NEW p \in Polls, Poll(p)
  PROVE  SessionInv'
<1>1. Sound(session') /\ session'.token = session.token /\ ~SignedIn(session')
  BY DEF Poll, SessionInv, Sound, SessionState, SignedIn
<1>2. polls' = [polls EXCEPT ![p] = [read |-> session', asking |-> TRUE]]
      /\ polls \in [Polls -> [read: SessionState, asking: BOOLEAN]]
  BY DEF Poll, SessionInv, SessionTypeOK
<1>3. SessionTypeOK'
  BY <1>1, <1>2 DEF SessionInv, SessionTypeOK, Poll, Sound
<1>4. PollsRead'
  BY <1>1, <1>2 DEF SessionInv, PollsRead, Sound, SignedIn
<1>5. OneExchange' /\ Unstarted' /\ ExchangesRead'
  BY <1>1, <1>2 DEF SessionInv, Poll, OneExchange, Unstarted, ExchangesRead, Sound, SignedIn
<1>6. EndedLoginStaysOut' /\ TokensUsedOnce'
  BY <1>1 DEF SessionInv, Poll, EndedLoginStaysOut, TokensUsedOnce
<1> QED BY <1>1, <1>3, <1>4, <1>5, <1>6 DEF SessionInv, Poll, Sound

\* The end of a poll leaves every other poll's read session alone.
LEMMA PollDoneKeeps ==
  ASSUME SessionInv, NEW p \in Polls, PollDone(p)
  PROVE  /\ polls' \in [Polls -> [read: SessionState, asking: BOOLEAN]]
         /\ PollsRead' /\ OneExchange' /\ started' # "no" /\ Unstarted'
<1>1. NotPolling \in [read: SessionState, asking: BOOLEAN]
      /\ Sound(NotPolling.read) /\ ~SignedIn(NotPolling.read)
  BY EmptyIsSound DEF NotPolling, Sound
<1>2. polls' = [polls EXCEPT ![p] = NotPolling]
      /\ polls \in [Polls -> [read: SessionState, asking: BOOLEAN]]
  BY DEF PollDone, SessionInv, SessionTypeOK
<1>3. PollsRead'
  BY <1>1, <1>2 DEF SessionInv, PollsRead, Sound, SignedIn
<1>4. started' # "no"
  BY DEF SessionInv, PollDone, Unstarted
<1> QED BY <1>1, <1>2, <1>3, <1>4 DEF SessionInv, PollDone, OneExchange, Unstarted

\* The one sign-in finds no exchange: no credential was stored before it.
LEMMA PollSignsInKeepsInv ==
  ASSUME SessionInv, NEW p \in Polls, PollSignsIn(p)
  PROVE  SessionInv'
<1>1. PollDone(p) /\ minted \in Nat /\ minted' = minted + 1 /\ ~granted /\ granted'
  BY DEF PollSignsIn, SessionInv, SessionTypeOK
<1>2. PICK r \in BOOLEAN : session' = [Empty EXCEPT !.token = minted', !.renewable = r]
  BY DEF PollSignsIn
<1>3. Sound(session') /\ session'.token = minted'
  <2>1. Empty \in SessionState /\ minted' \in Nat
    BY <1>1, EmptyIsSound
  <2>2. session' \in SessionState /\ session'.videos = Empty.videos
        /\ session'.token = minted' /\ session'.device = Empty.device
    BY <2>1, <1>2 DEF SessionState
  <2>3. SignedIn(session')
    BY <1>1, <2>2 DEF SignedIn
  <2> QED BY <2>2, <2>3, EmptyIsSound DEF Sound
<1>4. exchanges' = {} /\ ~signedOut' /\ spent' = spent
  BY <1>1 DEF SessionInv, ExchangesRead, PollDone
<1>5. SessionTypeOK'
  <2>1. minted' \in 0..MaxTokens /\ spent' \subseteq 1..minted'
    BY <1>1, <1>4 DEF SessionInv, SessionTypeOK, PollSignsIn
  <2>2. granted' \in BOOLEAN
    BY <1>1 DEF PollSignsIn
  <2> QED BY <1>1, <1>3, <1>4, <2>1, <2>2, PollDoneKeeps DEF SessionInv, SessionTypeOK, PollDone, Sound
<1>6. ExchangesRead' /\ EndedLoginStaysOut' /\ TokensUsedOnce'
  BY <1>1, <1>3, <1>4
  DEF SessionInv, SessionTypeOK, ExchangesRead, EndedLoginStaysOut, TokensUsedOnce
<1>7. session'.token <= minted'
  BY <1>1, <1>3
<1> QED BY <1>1, <1>3, <1>4, <1>5, <1>6, <1>7, PollDoneKeeps DEF SessionInv, Sound

\* A poll that brings nothing keeps the invariant.
LEMMA PollDoesNotKeepsInv ==
  ASSUME SessionInv, NEW p \in Polls, PollDoesNot(p)
  PROVE  SessionInv'
<1>1. PollDone(p) /\ minted' = minted /\ (granted => granted') /\ granted' \in BOOLEAN
  <2>1. PollDone(p) /\ minted' = minted /\ (granted' = granted \/ granted' = TRUE)
    BY DEF PollDoesNot
  <2>2. granted \in BOOLEAN
    BY DEF SessionInv, SessionTypeOK
  <2>3. CASE granted' = granted
    BY <2>1, <2>2, <2>3, Zenon
  <2>4. CASE granted' = TRUE
    BY <2>1, <2>4, Zenon
  <2> QED BY <2>1, <2>3, <2>4
<1>2. /\ session' \in {polls[p].read, Empty, session}
      /\ Sound(session') /\ (session' = session \/ session'.token = 0)
  <2>1. Sound(polls[p].read) /\ polls[p].read.token = 0 /\ Sound(session)
    BY DEF SessionInv, PollsRead, SignedIn
  <2> QED BY <2>1, EmptyIsSound DEF PollDoesNot
<1>3. SessionTypeOK'
  BY <1>1, <1>2, PollDoneKeeps DEF SessionInv, SessionTypeOK, PollDone, Sound
<1>4. ExchangesRead'
  BY <1>1, <1>2 DEF SessionInv, ExchangesRead, PollDone, Sound, SignedIn
<1>5. EndedLoginStaysOut' /\ TokensUsedOnce' /\ (session'.token <= minted')
      /\ (SignedIn(session') => granted') /\ (signedOut' => granted')
  BY <1>1, <1>2
  DEF SessionInv, PollDone, EndedLoginStaysOut, TokensUsedOnce, SignedIn, SessionTypeOK
<1> QED BY <1>1, <1>2, <1>3, <1>4, <1>5, PollDoneKeeps DEF SessionInv, Sound

-----------------------------------------------------------------------------
(* The credential *)

\* The refresh of a token keeps the invariant.
LEMMA RefreshKeepsInv ==
  ASSUME SessionInv, Refresh
  PROVE  SessionInv'
<1> DEFINE e == [read |-> session, generation |-> generation]
<1>1. /\ e \in [read: SessionState, generation: Nat] /\ exchanges' = {e}
      /\ e.read = session /\ e.generation = generation
  BY DEF Refresh, SessionInv, SessionTypeOK
<1> HIDE DEF e
<1>2. session' = session /\ generation' = generation /\ minted' = minted /\ granted
      /\ SignedIn(session) /\ ~signedOut
  BY DEF Refresh, SessionInv, EndedLoginStaysOut
<1>3. SessionTypeOK' /\ Sound(session')
  BY <1>1, <1>2 DEF SessionInv, SessionTypeOK, Refresh, Sound
<1>4. ExchangesRead' /\ OneExchange'
  BY <1>1, <1>2 DEF SessionInv, SessionTypeOK, Refresh, ExchangesRead, OneExchange, Sound, SignedIn
<1>5. PollsRead' /\ EndedLoginStaysOut' /\ TokensUsedOnce'
  BY <1>1, <1>2
  DEF SessionInv, Refresh, PollsRead, EndedLoginStaysOut, TokensUsedOnce, Sound, SignedIn
<1>6. Unstarted'
  <2>1. started # "no"
    BY <1>2 DEF SessionInv, Unstarted
  <2> QED BY <1>2, <2>1 DEF Refresh, Unstarted
<1> QED BY <1>2, <1>3, <1>4, <1>5, <1>6 DEF SessionInv, Refresh, Sound, SignedIn
\* The answer to the one exchange: xAI's new token is above all it replaced.
LEMMA RefreshedKeepsInv ==
  ASSUME SessionInv, NEW e \in exchanges, Refreshed(e)
  PROVE  SessionInv'
<1>1. /\ exchanges' = {} /\ generation' = generation /\ started' = started
      /\ polls' = polls /\ late' = late /\ granted' = granted
      /\ ended' = ended /\ signedOut' = signedOut /\ e.read.token \notin spent
  BY DEF Refreshed, Renewed, ExchangeDone, SessionInv, OneExchange
<1>2. /\ e.read \in SessionState /\ e.generation \in Nat
      /\ Sound(e.read) /\ SignedIn(e.read) /\ e.read.token <= minted /\ granted
      /\ (e.generation # generation => ~SignedIn(session))
      /\ (signedOut => e.generation # generation)
  BY DEF SessionInv, SessionTypeOK, ExchangesRead
<1>3. /\ minted' \in 0..MaxTokens /\ minted <= minted' /\ spent' \subseteq 1..minted'
      /\ RenewedToken(e) \in 1..minted' /\ RenewedToken(e) \notin spent'
  <2>1. minted \in 0..MaxTokens /\ spent \subseteq 1..minted /\ e.read.token \in 1..minted
    BY <1>2 DEF SessionInv, SessionTypeOK, SessionState, SignedIn
  <2>2. CASE minted < MaxTokens /\ minted' = minted + 1 /\ spent' = spent \cup {e.read.token}
    <3>1. RenewedToken(e) = minted'
      BY <2>1, <2>2 DEF RenewedToken
    <3>2. minted' \in 0..MaxTokens /\ minted <= minted' /\ minted' \in 1..minted'
      BY <2>1, <2>2
    <3>3. spent' \subseteq 1..minted' /\ minted' \notin spent'
      <4>1. minted \in Nat /\ e.read.token \in Nat /\ \A t \in spent : t \in Nat /\ t <= minted /\ 1 <= t
        BY <2>1
      <4>2. \A t \in spent' : t \in Nat /\ t <= minted /\ 1 <= t
        BY <2>1, <2>2, <4>1
      <4>3. minted' = minted + 1
        BY <2>2
      <4> QED BY <4>1, <4>2, <4>3
    <3> QED BY <3>1, <3>2, <3>3
  <2>3. CASE minted' = minted /\ spent' = spent
    BY <1>1, <2>1, <2>3 DEF RenewedToken
  <2> QED BY <2>2, <2>3 DEF Refreshed, Renewed
<1>4. /\ Sound(session') /\ session'.token <= minted' /\ session'.token \notin spent'
      /\ (signedOut' => ~SignedIn(session')) /\ session'.device \in {session.device, "none"}
  <2>1. CASE e.generation = generation
    BY <2>1, <1>2, <1>3, <1>1 DEF Refreshed, SessionState, Sound, SignedIn
  <2>2. CASE e.generation # generation
    <3>1. session' = session /\ session.token = 0
      BY <1>2, <2>2 DEF Refreshed, SignedIn
    <3> QED BY <1>3, <3>1 DEF SessionInv, SignedIn
  <2> QED BY <2>1, <2>2
<1>5. SessionTypeOK'
  BY <1>1, <1>3, <1>4 DEF SessionInv, SessionTypeOK, Sound
<1>6. PollsRead' /\ ExchangesRead' /\ OneExchange' /\ Unstarted'
  BY <1>1, <1>4
  DEF SessionInv, PollsRead, ExchangesRead, OneExchange, Unstarted, Sound, SignedIn
<1>7. EndedLoginStaysOut' /\ TokensUsedOnce'
  BY <1>1, <1>4 DEF EndedLoginStaysOut, TokensUsedOnce
<1> QED BY <1>1, <1>2, <1>4, <1>5, <1>6, <1>7 DEF SessionInv, Sound

\* A refresh that fails keeps the invariant.
LEMMA NotRefreshedKeepsInv ==
  ASSUME SessionInv, NEW e \in exchanges, NotRefreshed(e)
  PROVE  SessionInv'
<1>1. /\ exchanges' = {} /\ generation' = generation /\ started' = started
      /\ polls' = polls /\ late' = late /\ granted' = granted /\ minted' = minted
      /\ spent' = spent /\ ended' = ended /\ signedOut' = signedOut
  BY DEF NotRefreshed, ExchangeDone, SessionInv, OneExchange
<1>2. session' = session \/ session' = Empty
  BY DEF NotRefreshed
<1>3. Sound(session') /\ session'.token \in {session.token, 0}
      /\ session'.device \in {session.device, "none"}
  BY <1>2, EmptyIsSound DEF SessionInv
<1>4. SessionTypeOK'
  BY <1>1, <1>3 DEF SessionInv, SessionTypeOK, Sound
<1>5. PollsRead' /\ ExchangesRead' /\ OneExchange' /\ Unstarted'
  BY <1>1, <1>3
  DEF SessionInv, PollsRead, ExchangesRead, OneExchange, Unstarted, Sound, SignedIn
<1>6. /\ EndedLoginStaysOut' /\ TokensUsedOnce' /\ session'.token <= minted'
      /\ (SignedIn(session') => granted') /\ (signedOut' => granted')
  BY <1>1, <1>3 DEF SessionInv, SessionTypeOK, EndedLoginStaysOut, TokensUsedOnce, SignedIn
<1> QED BY <1>3, <1>4, <1>5, <1>6 DEF SessionInv, Sound

-----------------------------------------------------------------------------
(* What is kept beside the credential, and the end *)

\* A session that is signed out or cannot be read, its settings and its videos keep the invariant.
LEMMA KeptKeepsInv ==
  ASSUME SessionInv,
         \/ StatusSignsOut \/ StoreSettings \/ Unreadable
         \/ \E v \in Videos : RegisterVideo(v) \/ CompleteVideo(v)
  PROVE  SessionInv'
<1>0. Sound(session) /\ session \in SessionState
  BY DEF SessionInv, SessionTypeOK
<1>1. CASE StatusSignsOut \/ Unreadable
  BY <1>1, EmptyIsSound, StoringKeepsInv DEF StatusSignsOut, Unreadable
<1>2. CASE StoreSettings
  <2> DEFINE s == [session EXCEPT !.settings = TRUE]
  <2>1. Sound(s) /\ s.token = session.token /\ s.device = session.device
    BY <1>0 DEF Sound, SessionState, SignedIn
  <2>2. Stores(s)
    BY <1>2 DEF StoreSettings
  <2> QED BY <2>1, <2>2, StoringKeepsInv
<1>3. ASSUME NEW V \in SUBSET Videos, Cardinality(V) <= MaxVideos, SignedIn(session),
             Stores([session EXCEPT !.videos = V])
      PROVE  SessionInv'
  <2> DEFINE s == [session EXCEPT !.videos = V]
  <2>1. /\ s \in SessionState /\ s.token = session.token /\ s.device = session.device
        /\ s.videos = V
    BY <1>0 DEF SessionState
  <2>2. Sound(s)
    BY <1>0, <1>3, <2>1 DEF Sound, SignedIn
  <2>3. Stores(s)
    BY <1>3
  <2> QED BY <2>1, <2>2, <2>3, StoringKeepsInv
<1>4. Pending \in SUBSET Videos /\ Cardinality(Pending) <= MaxVideos
  <2>1. session.videos \in SUBSET Videos /\ Cardinality(session.videos) <= MaxVideos
    BY <1>0 DEF SessionState, Sound
  <2> QED BY <2>1, FewerVideos DEF Pending
<1>5. ASSUME NEW v \in Videos, RegisterVideo(v) PROVE SessionInv'
  <2> DEFINE V == Pending \cup {v}
  <2>1. IsFiniteSet(Pending) /\ Cardinality(Pending) \in Nat
    BY <1>4, FS_Subset, FS_CardinalityType
  <2>2. Cardinality(V) = IF v \in Pending THEN Cardinality(Pending)
                         ELSE Cardinality(Pending) + 1
    BY <2>1, FS_AddElement
  <2>3. v \in Pending \/ Cardinality(Pending) < MaxVideos
    BY <1>5 DEF RegisterVideo
  <2>4. Cardinality(V) <= MaxVideos /\ V \in SUBSET Videos
    BY <1>4, <2>1, <2>2, <2>3
  <2>5. SignedIn(session) /\ Stores([session EXCEPT !.videos = V])
    BY <1>5 DEF RegisterVideo
  <2> HIDE DEF V
  <2> QED BY <2>4, <2>5, <1>3
<1>6. ASSUME NEW v \in Videos, CompleteVideo(v) PROVE SessionInv'
  <2>1. Cardinality(Pending \ {v}) <= MaxVideos /\ Pending \ {v} \in SUBSET Videos
    BY <1>4, FewerVideos
  <2> QED BY <2>1, <1>3, <1>6 DEF CompleteVideo
<1> QED BY <1>1, <1>2, <1>5, <1>6

\* The end raises the generation: the exchange under way belongs to no
\* generation that is still stored.
LEMMA EndKeepsInv ==
  ASSUME SessionInv, End
  PROVE  SessionInv'
<1>1. /\ generation \in Nat /\ generation' = generation + 1 /\ session' = Empty
      /\ polls' = polls /\ exchanges' = exchanges /\ late' = late /\ minted' = minted
      /\ granted' = granted /\ spent' = spent /\ started' = started /\ ended' = TRUE
      /\ signedOut' = (signedOut \/ SignedIn(session)) /\ started = "yes"
  BY DEF End, SessionInv, SessionTypeOK
<1>2. signedOut' \in BOOLEAN /\ (signedOut' => granted')
  BY <1>1, Zenon DEF SessionInv, SessionTypeOK
<1>3. SessionTypeOK' /\ Sound(session') /\ ~SignedIn(session') /\ session'.token = 0
  BY <1>1, <1>2, EmptyIsSound DEF SessionInv, SessionTypeOK
<1>4. \A e \in exchanges : e.generation \in Nat /\ e.generation <= generation
  BY DEF SessionInv, SessionTypeOK, ExchangesRead
<1>5. ExchangesRead' /\ TokensUsedOnce'
  BY <1>1, <1>3, <1>4
  DEF SessionInv, SessionTypeOK, ExchangesRead, TokensUsedOnce, Sound, SignedIn
<1>6. PollsRead' /\ OneExchange' /\ Unstarted' /\ EndedLoginStaysOut'
  BY <1>1, <1>3
  DEF SessionInv, PollsRead, OneExchange, Unstarted, EndedLoginStaysOut, Sound, SignedIn
<1>7. session'.token <= minted'
  BY <1>1, <1>3 DEF SessionInv, SessionTypeOK
<1> QED BY <1>2, <1>3, <1>5, <1>6, <1>7 DEF SessionInv, Sound

\* A restart forgets the generation and every handler that knew it.
LEMMA RestartKeepsInv ==
  ASSUME SessionInv, Restart
  PROVE  SessionInv'
<1>1. /\ exchanges' = {} /\ generation' = 0 /\ polls' = [p \in Polls |-> NotPolling]
      /\ started' = (IF started = "asking" THEN "yes" ELSE started)
      /\ session' = session /\ late' = late /\ minted' = minted /\ granted' = granted
      /\ spent' = spent /\ ended' = ended /\ signedOut' = signedOut
  BY DEF Restart
<1>2. /\ NotPolling \in [read: SessionState, asking: BOOLEAN]
      /\ NotPolling.read = Empty /\ ~NotPolling.asking
  BY EmptyIsSound DEF NotPolling
<1>3. \A p \in Polls : polls'[p] = NotPolling
  BY <1>1
<1>4. SessionTypeOK'
  BY <1>1, <1>2 DEF SessionInv, SessionTypeOK
<1>5. PollsRead'
  BY <1>2, <1>3, EmptyIsSound DEF PollsRead, Sound, SignedIn
<1>6. ExchangesRead' /\ OneExchange' /\ Unstarted'
  BY <1>1, <1>2, <1>3 DEF SessionInv, SessionTypeOK, ExchangesRead, OneExchange, Unstarted
<1>7. EndedLoginStaysOut' /\ TokensUsedOnce'
  BY <1>1 DEF SessionInv, EndedLoginStaysOut, TokensUsedOnce, SignedIn
<1> QED BY <1>1, <1>4, <1>5, <1>6, <1>7 DEF SessionInv, Sound, SignedIn

\* The time of registered videos keeps the invariant.
LEMMA VideoTimeKeepsInv ==
  ASSUME SessionInv, NEW v \in Videos, VideoTime(v)
  PROVE  SessionInv'
<1>1. SessionTypeOK'
  BY DEF SessionInv, SessionTypeOK, VideoTime
<1> QED
  BY <1>1
  DEF SessionInv, VideoTime, Sound, SignedIn, PollsRead, ExchangesRead, OneExchange,
      Unstarted, EndedLoginStaysOut, TokensUsedOnce

-----------------------------------------------------------------------------
\* Every step of the session object keeps the invariant.
LEMMA InvNext == SessionInv /\ [SessionNext]_sessionVars => SessionInv'
<1> SUFFICES ASSUME SessionInv, [SessionNext]_sessionVars PROVE SessionInv'
  OBVIOUS
<1>1. CASE DeviceStart \/ DeviceStarted \/ DeviceTime \/ PollTooLate
  BY <1>1, DeviceKeepsInv
<1>2. ASSUME NEW p \in Polls, Poll(p) \/ PollSignsIn(p) \/ PollDoesNot(p) PROVE SessionInv'
  BY <1>2, PollKeepsInv, PollSignsInKeepsInv, PollDoesNotKeepsInv
<1>3. CASE Refresh
  BY <1>3, RefreshKeepsInv
<1>4. ASSUME NEW e \in exchanges, Refreshed(e) \/ NotRefreshed(e) PROVE SessionInv'
  BY <1>4, RefreshedKeepsInv, NotRefreshedKeepsInv
<1>5. CASE \/ StatusSignsOut \/ StoreSettings \/ Unreadable
           \/ \E v \in Videos : RegisterVideo(v) \/ CompleteVideo(v)
  BY <1>5, KeptKeepsInv
<1>6. ASSUME NEW v \in Videos, VideoTime(v) PROVE SessionInv'
  BY <1>6, VideoTimeKeepsInv
<1>7. CASE End
  BY <1>7, EndKeepsInv
<1>8. CASE Restart
  BY <1>8, RestartKeepsInv
<1>9. CASE UNCHANGED sessionVars
  BY <1>9
  DEF sessionVars, SessionInv, SessionTypeOK, Sound, SignedIn, PollsRead, ExchangesRead, OneExchange,
      Unstarted, EndedLoginStaysOut, TokensUsedOnce
<1> QED BY <1>1, <1>2, <1>3, <1>4, <1>5, <1>6, <1>7, <1>8, <1>9 DEF SessionNext

\* The invariant holds of every reachable state.
LEMMA InvHolds == SessionSpec => []SessionInv
BY InvInit, InvNext, PTL DEF SessionSpec

\* The stored session, the reads and the tokens keep their types, and no session
\* ever keeps more videos than the limit.
THEOREM SessionTypeCorrect == SessionSpec => []SessionTypeOK
BY InvHolds, PTL DEF SessionInv

\* A sign-in that was ended is never stored again, however polls, refreshes,
\* ends and restarts interleave.
THEOREM EndedStaysOut == SessionSpec => []EndedLoginStaysOut
BY InvHolds, PTL DEF SessionInv

\* No refresh token is held or sent once xAI has replaced it.
THEOREM TokensHeldOnce == SessionSpec => []TokensUsedOnce
BY InvHolds, PTL DEF SessionInv

\* A step that leaves a credential stored takes a video away only in the ways
\* the property names.
LEMMA VideoStep ==
  ASSUME SessionInv, [SessionNext]_sessionVars, NEW v \in session.videos,
         v \notin session'.videos, SignedIn(session')
  PROVE  \/ CompleteVideo(v) \/ v \in late
         \/ \E e \in exchanges : e \notin exchanges' /\ v \notin e.read.videos
<1>1. /\ Sound(session) /\ SignedIn(session) /\ granted /\ session \in SessionState
      /\ session.device = "none" /\ started # "no"
  BY DEF SessionInv, SessionTypeOK, Sound, Unstarted
<1>2. session' # session /\ session' # Empty
  BY EmptyIsSound
<1>3. CASE DeviceStart \/ DeviceStarted \/ DeviceTime \/ PollTooLate
  <2>1. ASSUME DeviceStarted PROVE FALSE
    <3>1. [Empty EXCEPT !.device = "wait"].token = 0
      BY EmptyIsSound DEF SessionState
    <3> QED BY <1>2, <2>1, <3>1 DEF DeviceStarted, SignedIn
  <2> QED BY <1>1, <1>2, <1>3, <2>1 DEF DeviceStart, DeviceTime, PollTooLate, Stores
<1>4. ASSUME NEW p \in Polls, Poll(p) \/ PollSignsIn(p) \/ PollDoesNot(p) PROVE FALSE
  <2>1. ~SignedIn(polls[p].read)
    BY DEF SessionInv, PollsRead
  <2> QED BY <1>1, <1>2, <1>4, <2>1 DEF Poll, PollSignsIn, PollDoesNot
<1>5. ASSUME NEW e \in exchanges, Refreshed(e) PROVE e \notin exchanges' /\ v \notin e.read.videos
  BY <1>2, <1>5 DEF Refreshed, SessionInv, SessionTypeOK, SessionState, Renewed, ExchangeDone
<1>6. ASSUME NEW e \in exchanges, NotRefreshed(e) PROVE FALSE
  BY <1>2, <1>6 DEF NotRefreshed
<1>7. ASSUME StatusSignsOut \/ Unreadable \/ End PROVE FALSE
  BY <1>2, <1>7 DEF StatusSignsOut, Unreadable, End, Stores
<1>8. ASSUME StoreSettings PROVE FALSE
  BY <1>1, <1>8 DEF StoreSettings, Stores, SessionState
<1>9. ASSUME NEW w \in Videos, RegisterVideo(w) PROVE v \in late
  BY <1>1, <1>9 DEF RegisterVideo, Stores, SessionState, Pending
<1>10. ASSUME NEW w \in Videos, CompleteVideo(w) PROVE CompleteVideo(v) \/ v \in late
  <2>1. session'.videos = Pending \ {w}
    BY <1>1, <1>10 DEF CompleteVideo, Stores, SessionState
  <2> QED BY <1>10, <2>1 DEF Pending
<1>11. ASSUME Refresh \/ Restart \/ UNCHANGED sessionVars \/ (\E w \in Videos : VideoTime(w)) PROVE FALSE
  BY <1>2, <1>11 DEF Refresh, Restart, sessionVars, VideoTime
<1> QED
  BY <1>3, <1>4, <1>5, <1>6, <1>7, <1>8, <1>9, <1>10, <1>11 DEF SessionNext

\* While the sign-in lasts, a registered video is forgotten only when it is
\* complete or over, or by a refresh that read the session before.
THEOREM VideosStay == SessionSpec => RegisteredVideoStays
<1>1. SessionInv /\ [SessionNext]_sessionVars =>
        [\A v \in session.videos :
           v \notin session'.videos /\ SignedIn(session')
             => \/ CompleteVideo(v) \/ v \in late
                \/ \E e \in exchanges : e \notin exchanges' /\ v \notin e.read.videos]_sessionVars
  BY VideoStep
<1> QED BY <1>1, InvHolds, PTL DEF SessionSpec, RegisteredVideoStays

HIDE SessionAssumption DEF SessionAssumption

-----------------------------------------------------------------------------
(***************************************************************************)
(* The other routes                                                        *)
(***************************************************************************)

\* What a request under way is.
RequestState ==
  [route : Routes \cup {"none"},
   at : {"idle", "checks", "upstream", "refresh", "claim", "download", "stream"},
   passed : Nat, clip : Clips \cup {NoClip}, again : BOOLEAN, hops : 0..MaxRedirects]

\* The inductive invariant: the types, the limit of a session's videos, and the claims.
RoutesInv ==
  /\ request \in [Requests -> RequestState]
  /\ dailyUse \in 0..DailyLimit
  /\ clip \in [Clips -> {"none", "pending", "gone"}]
  /\ claim \in [Clips -> {"none", "live", "over"}]
  /\ Cardinality(PendingClips(clip)) <= MaxClips
  /\ ClaimHasADownload

\* Who is downloading is at one of the two stages of it.
LEMMA DownloadsMean ==
  ClaimHasADownload <=>
    \A c \in Clips : claim[c] = "live" =>
      \/ \E r \in Requests : request[r].clip = c /\ request[r].at \in {"download", "stream"}
      \/ c \in orphaned
  BY DEF ClaimHasADownload, Downloads


\* An arrival is a request.
LEMMA RequestArrives ==
  ASSUME NEW n \in RequestState, NEW route \in Routes, NEW c \in Clips \cup {NoClip}
  PROVE  [n EXCEPT !.route = route, !.at = "checks", !.clip = c] \in RequestState
  BY DEF RequestState

\* A request that goes from one stage to another is still a request.
LEMMA RequestMoves ==
  ASSUME request \in [Requests -> RequestState], NEW r \in Requests
  PROVE  /\ NoRequest \in RequestState
         /\ Responds(r) => request' \in [Requests -> RequestState]
         /\ Passes(r) => request' \in [Requests -> RequestState]
         /\ \A stage \in {"upstream", "refresh", "claim", "download", "stream"} :
              Onward(r, stage) => request' \in [Requests -> RequestState]
<1>1. NoRequest \in RequestState
  BY RoutesAssumption DEF NoRequest, RequestState
<1>2. request[r] \in RequestState /\ request[r].passed + 1 \in Nat
  BY DEF RequestState
<1>3. \A passed \in Nat, stage \in {"checks", "upstream"} :
        [request[r] EXCEPT !.passed = passed, !.at = stage] \in RequestState
  BY <1>2 DEF RequestState
<1>4. \A stage \in {"upstream", "refresh", "claim", "download", "stream"} :
        [request[r] EXCEPT !.at = stage] \in RequestState
  BY <1>2 DEF RequestState
<1> QED
  BY <1>1, <1>2, <1>3, <1>4 DEF Responds, Passes, Onward

\* A step of a request that downloads nothing takes no download away.
LEMMA OthersDownload ==
  ASSUME RoutesInv, NEW r \in Requests, request[r].at \notin {"download", "stream"},
         \A s \in Requests \ {r} : request'[s] = request[s],
         \A c \in Clips : claim'[c] = "live" => claim[c] = "live",
         orphaned \subseteq orphaned'
  PROVE  ClaimHasADownload'
BY DownloadsMean DEF ClaimHasADownload, Downloads, RoutesInv

\* No more videos are pending than the limit, when one more comes only where there is room.
LEMMA FewPending ==
  ASSUME RoutesInv, NEW S \in SUBSET Clips, NEW c \in Clips,
         S \subseteq PendingClips(clip) \cup {c},
         c \in S \ PendingClips(clip) => Cardinality(PendingClips(clip)) < MaxClips
  PROVE  Cardinality(S) <= MaxClips
<1> DEFINE P == PendingClips(clip)
<1>1. IsFiniteSet(P) /\ Cardinality(P) \in Nat /\ Cardinality(P) <= MaxClips
  <2>1. P \in SUBSET Clips
    BY DEF PendingClips
  <2> QED
    BY <2>1, RoutesAssumption, FS_Subset, FS_CardinalityType DEF RoutesInv
<1> HIDE DEF P
<1>2. /\ IsFiniteSet(P \cup {c})
      /\ Cardinality(P \cup {c}) = IF c \in P THEN Cardinality(P) ELSE Cardinality(P) + 1
  BY <1>1, FS_AddElement
<1>3. MaxClips \in Nat
  BY RoutesAssumption
<1>4. CASE c \in S \ P
  BY <1>2, FS_Subset, FS_CardinalityType, <1>4, <1>1, <1>3 DEF P
<1>5. CASE c \notin S \ P
  <2>1. S \in SUBSET P
    BY <1>5 DEF P
  <2>2. Cardinality(S) <= Cardinality(P) /\ Cardinality(S) \in Nat
    BY <1>1, <2>1, FS_Subset, FS_CardinalityType
  <2> QED
    BY <1>1, <1>3, <2>2
<1> QED
  BY <1>4, <1>5

\* Without a new video the limit stays.
LEMMA NoMorePending ==
  ASSUME RoutesInv, \A c \in Clips : clip'[c] = "pending" => clip[c] = "pending"
  PROVE  Cardinality(PendingClips(clip')) <= MaxClips
<1> DEFINE S == PendingClips(clip')
           P == PendingClips(clip)
<1>1. S \in SUBSET P /\ P \in SUBSET Clips
  BY DEF PendingClips
<1>2. Cardinality(P) <= MaxClips
  BY DEF RoutesInv
<1> HIDE DEF S, P
<1>3. IsFiniteSet(P) /\ Cardinality(P) \in Nat /\ MaxClips \in Nat
  BY <1>1, RoutesAssumption, FS_Subset, FS_CardinalityType
<1>4. Cardinality(S) <= Cardinality(P) /\ Cardinality(S) \in Nat
  BY <1>1, <1>3, FS_Subset, FS_CardinalityType
<1>5. Cardinality(S) <= MaxClips
  BY <1>2, <1>3, <1>4
<1> QED
  BY <1>5 DEF S

\* Initially no video is known.
LEMMA RoutesInvInit == RoutesInit => RoutesInv
<1> SUFFICES ASSUME RoutesInit
             PROVE  RoutesInv
  OBVIOUS
<1>1. NoRequest \in RequestState
  BY RoutesAssumption DEF NoRequest, RequestState
<1>2. PendingClips(clip) = {} /\ \A c \in Clips : claim[c] = "none"
  BY DEF RoutesInit, PendingClips
<1>3. Cardinality(PendingClips(clip)) <= MaxClips
  BY <1>2, FS_EmptySet, RoutesAssumption
<1> QED
  BY <1>1, <1>2, <1>3, RoutesAssumption DEF RoutesInit, RoutesInv, ClaimHasADownload

\* Arrivals, checks, and the upstreams that touch no video.
LEMMA PlainStepKeepsInv ==
  ASSUME RoutesInv, NEW r \in Requests,
         \/ \E route \in Routes, c \in Clips \cup {NoClip} : Arrives(r, route, c)
         \/ PassesOrNot(r) \/ ReadsCredential(r) \/ SpendsDaily(r) \/ ChecksClip(r)
         \/ Unauthorized401(r) \/ RefreshesOrNot(r) \/ UpstreamFails(r)
         \/ ReplyDelivered(r) \/ BootstrapDelivered(r) \/ FetchRedirected(r) \/ FetchDelivered(r)
  PROVE  RoutesInv'
<1> USE RoutesAssumption DEF RoutesInv
<1> DEFINE RequestsMoved == /\ request' \in [Requests -> RequestState]
                    /\ request[r].at \notin {"download", "stream"}
                    /\ \A s \in Requests \ {r} : request'[s] = request[s]
<1>1. ASSUME NEW route \in Routes, NEW c \in Clips \cup {NoClip}, Arrives(r, route, c)
      PROVE  RequestsMoved
  <2>1. [NoRequest EXCEPT !.route = route, !.at = "checks", !.clip = c] \in RequestState
    <3>1. NoRequest \in RequestState
      BY RequestMoves
    <3> QED
      BY <3>1, RequestArrives
  <2>2. request[r].at = "idle"
    <3>1. request[r] = NoRequest
      BY <1>1 DEF Arrives
    <3>2. NoRequest.at = "idle"
      BY DEF NoRequest
    <3> QED
      BY <3>1, <3>2
  <2> QED
    BY <1>1, <2>1, <2>2 DEF Arrives
<1>2. ASSUME PassesOrNot(r) \/ ReadsCredential(r) \/ SpendsDaily(r) \/ ChecksClip(r)
      PROVE  RequestsMoved
  <2>1. request[r].at = "checks" /\ (Passes(r) \/ Responds(r))
    BY <1>2 DEF PassesOrNot, ReadsCredential, SpendsDaily, ChecksClip, AtCheck
  <2> QED
    BY <2>1, RequestMoves DEF Passes, Responds
<1>3. ASSUME \/ Unauthorized401(r) \/ RefreshesOrNot(r) \/ UpstreamFails(r)
             \/ ReplyDelivered(r) \/ BootstrapDelivered(r) \/ FetchDelivered(r)
      PROVE  RequestsMoved
  <2>1. /\ request[r].at \in {"upstream", "refresh"}
        /\ \/ Responds(r) \/ Onward(r, "refresh")
           \/ request' = [request EXCEPT ![r].at = "upstream", ![r].again = TRUE]
    BY <1>3
       DEF Unauthorized401, RefreshesOrNot, UpstreamFails, ReplyDelivered, BootstrapDelivered,
           FetchDelivered, ReplyOf, ImageReplied, ManagedReplied, BundleReplied,
           TelemetryReplied, LocalReplied, Delivers
  <2>2. [request[r] EXCEPT !.at = "upstream", !.again = TRUE] \in RequestState
    BY DEF RequestState
  <2> QED
    BY <2>1, <2>2, RequestMoves DEF Responds, Onward
<1>4. ASSUME FetchRedirected(r)
      PROVE  RequestsMoved
  <2>1. ASSUME request[r].hops # MaxRedirects
        PROVE  [request[r] EXCEPT !.hops = @ + 1] \in RequestState
    BY <2>1 DEF RequestState
  <2> QED
    BY <1>4, <2>1, RequestMoves DEF FetchRedirected, Delivers, Responds
<1>5. RequestsMoved
  BY <1>1, <1>2, <1>3, <1>4
<1>6. /\ clip' = clip /\ orphaned' = orphaned
      /\ claim' \in [Clips -> {"none", "live", "over"}]
      /\ \A c \in Clips : claim'[c] = "live" => claim[c] = "live"
      /\ dailyUse' \in 0..DailyLimit
  <2>1. CASE ChecksClip(r)
    BY <2>1 DEF ChecksClip
  <2>2. CASE SpendsDaily(r)
    BY <2>2 DEF SpendsDaily, sessionSide
  <2>3. CASE /\ ~ChecksClip(r)
             /\ ~SpendsDaily(r)
    <3>1. UNCHANGED <<clip, claim, orphaned, dailyUse>>
      BY <2>3
         DEF Arrives, PassesOrNot, ReadsCredential, Unauthorized401, RefreshesOrNot,
             UpstreamFails, ReplyDelivered, BootstrapDelivered, FetchRedirected,
             FetchDelivered, sessionSide
    <3> QED
      BY <3>1
  <2> QED
    BY <2>1, <2>2, <2>3
<1>7. ClaimHasADownload'
  BY <1>5, <1>6, OthersDownload
<1> QED
  BY <1>5, <1>6, <1>7

\* The steps that start, poll, claim and download a video.
LEMMA VideoStepKeepsInv ==
  ASSUME RoutesInv, NEW r \in Requests,
         \/ \E c \in Clips : VideoStarted(r, c)
         \/ \E status \in {"pending", "failed", "expired", "done"} : PollDelivered(r, status)
         \/ Claims(r) \/ DownloadBegins(r) \/ DownloadFails(r) \/ StreamSettles(r)
  PROVE  RoutesInv'
<1> USE RoutesAssumption
<1>1. ASSUME NEW c \in Clips, VideoStarted(r, c)
      PROVE  RoutesInv'
  <2>1. /\ request' \in [Requests -> RequestState] /\ request[r].at = "upstream"
        /\ \A s \in Requests \ {r} : request'[s] = request[s]
        /\ UNCHANGED <<claim, orphaned, dailyUse>>
        /\ clip' \in [Clips -> {"none", "pending", "gone"}]
    BY <1>1, RequestMoves DEF VideoStarted, Delivers, Responds, RoutesInv
  <2>2. PendingClips(clip') \subseteq PendingClips(clip) \cup {c}
    BY <1>1 DEF VideoStarted, PendingClips, RoutesInv
  <2>3. c \in PendingClips(clip') => Cardinality(PendingClips(clip)) < MaxClips
    BY <1>1 DEF VideoStarted, PendingClips, RoutesInv
  <2>4. Cardinality(PendingClips(clip')) <= MaxClips
    <3>1. PendingClips(clip') \in SUBSET Clips
      BY DEF PendingClips
    <3> QED
      BY <2>2, <2>3, <3>1, FewPending
  <2>5. ClaimHasADownload'
    BY <2>1, OthersDownload
  <2> QED
    BY <2>1, <2>4, <2>5 DEF RoutesInv, PendingClips
<1>2. ASSUME NEW status \in {"pending", "failed", "expired", "done"}, PollDelivered(r, status)
      PROVE  RoutesInv'
  <2>1. /\ request' \in [Requests -> RequestState] /\ request[r].at = "upstream"
        /\ \A s \in Requests \ {r} : request'[s] = request[s]
    BY <1>2, RequestMoves DEF PollDelivered, Delivers, Responds, Onward, RoutesInv
  <2>2. /\ UNCHANGED <<orphaned, dailyUse>>
        /\ clip' \in [Clips -> {"none", "pending", "gone"}]
        /\ claim' \in [Clips -> {"none", "live", "over"}]
        /\ \A c \in Clips : claim'[c] = "live" => claim[c] = "live"
        /\ \A c \in Clips : clip'[c] = "pending" => clip[c] = "pending"
    BY <1>2 DEF PollDelivered, Complete, RoutesInv
  <2>3. ClaimHasADownload'
    BY <2>1, <2>2, OthersDownload
  <2>4. Cardinality(PendingClips(clip')) <= MaxClips
    BY <2>2, NoMorePending
  <2> QED
    BY <2>1, <2>2, <2>3, <2>4 DEF RoutesInv, PendingClips
<1>3. ASSUME Claims(r)
      PROVE  RoutesInv'
  <2> DEFINE c == request[r].clip
  <2>1. CASE Responds(r) /\ UNCHANGED <<claim, orphaned>>
    BY <1>3, <2>1, RequestMoves, OthersDownload DEF Claims, Responds, RoutesInv, PendingClips
  <2>2. CASE /\ claim' = [claim EXCEPT ![c] = "live"]
             /\ orphaned' = orphaned \ {c}
             /\ Onward(r, "download")
    <3>1. /\ request' \in [Requests -> RequestState] /\ request[r].at = "claim"
          /\ \A s \in Requests \ {r} : request'[s] = request[s]
          /\ request'[r].clip = c /\ request'[r].at = "download"
      BY <1>3, <2>2, RequestMoves DEF Claims, Onward, RoutesInv, RequestState
    <3>2. ASSUME NEW d \in Clips, claim'[d] = "live"
          PROVE  \/ \E s \in Requests :
                      request'[s].clip = d /\ request'[s].at \in {"download", "stream"}
                 \/ d \in orphaned'
      <4>1. CASE d = c
        BY <3>1, <4>1
      <4>2. CASE d # c
        <5>1. claim[d] = "live"
          BY <2>2, <3>2, <4>2 DEF RoutesInv
        <5> QED
          BY <2>2, <3>1, <4>2, <5>1, DownloadsMean DEF RoutesInv
      <4> QED
        BY <4>1, <4>2
    <3>3. ClaimHasADownload'
      BY <3>2 DEF ClaimHasADownload, Downloads
    <3>4. UNCHANGED <<clip, dailyUse>> /\ claim' \in [Clips -> {"none", "live", "over"}]
      BY <1>3, <2>2 DEF Claims, RoutesInv
    <3> QED
      BY <3>1, <3>3, <3>4 DEF RoutesInv, PendingClips
  <2> QED
    BY <1>3, <2>1, <2>2 DEF Claims
<1>4. ASSUME DownloadBegins(r)
      PROVE  RoutesInv'
  <2>1. /\ request' \in [Requests -> RequestState]
        /\ \A s \in Requests : request'[s].clip = request[s].clip
        /\ \A s \in Requests :
             request[s].at \in {"download", "stream"} => request'[s].at \in {"download", "stream"}
    BY <1>4, RequestMoves DEF DownloadBegins, Onward, RoutesInv, RequestState
  <2>2. UNCHANGED <<clip, claim, orphaned, dailyUse>>
    BY <1>4 DEF DownloadBegins, sessionSide
  <2>3. ClaimHasADownload'
    BY <2>1, <2>2, DownloadsMean DEF RoutesInv, ClaimHasADownload, Downloads
  <2> QED
    BY <2>1, <2>2, <2>3 DEF RoutesInv, PendingClips
<1>5. ASSUME DownloadFails(r) \/ StreamSettles(r)
      PROVE  RoutesInv'
  <2> DEFINE c == request[r].clip
  <2>1. /\ request' \in [Requests -> RequestState]
        /\ \A s \in Requests \ {r} : request'[s] = request[s]
        /\ claim' = [claim EXCEPT ![c] = "none"]
        /\ clip' \in [Clips -> {"none", "pending", "gone"}]
        /\ \A d \in Clips : clip'[d] = "pending" => clip[d] = "pending"
        /\ UNCHANGED <<orphaned, dailyUse>>
    BY <1>5, RequestMoves
       DEF DownloadFails, StreamSettles, Responds, Complete, GivesBack, RoutesInv
  <2>2. ASSUME NEW d \in Clips, claim'[d] = "live"
        PROVE  \/ \E s \in Requests :
                    request'[s].clip = d /\ request'[s].at \in {"download", "stream"}
               \/ d \in orphaned'
    <3>1. d # c /\ claim[d] = "live"
      BY <2>1, <2>2 DEF RoutesInv
    <3> QED
      BY <2>1, <3>1, DownloadsMean DEF RoutesInv
  <2>3. ClaimHasADownload'
    BY <2>2 DEF ClaimHasADownload, Downloads
  <2>4. Cardinality(PendingClips(clip')) <= MaxClips
    BY <2>1, NoMorePending
  <2> QED
    BY <2>1, <2>3, <2>4 DEF RoutesInv, PendingClips
<1> QED
  BY <1>1, <1>2, <1>3, <1>4, <1>5

\* Times that run out, crashes and sign-outs.
LEMMA RouteFaultKeepsInv ==
  ASSUME RoutesInv,
         \/ \E r \in Requests : WorkerCrashes(r)
         \/ \E c \in Clips : ClaimRunsOut(c) \/ ClipRunsOut(c)
         \/ LogsOut
  PROVE  RoutesInv'
<1>1. ASSUME NEW r \in Requests, WorkerCrashes(r)
      PROVE  RoutesInv'
  BY <1>1, RequestMoves, DownloadsMean DEF WorkerCrashes, Responds, RoutesInv, ClaimHasADownload,
     Downloads, PendingClips
<1>2. ASSUME (\E c \in Clips : ClaimRunsOut(c) \/ ClipRunsOut(c)) \/ LogsOut
      PROVE  RoutesInv'
  BY <1>2, NoMorePending DEF ClaimRunsOut, ClipRunsOut, LogsOut, RoutesInv, ClaimHasADownload,
     Downloads, PendingClips
<1> QED
  BY <1>1, <1>2

\* Every step keeps the invariant.
LEMMA RoutesInvNext == RoutesInv /\ [RoutesNext]_routeVars => RoutesInv'
<1>1. ASSUME RoutesInv, UNCHANGED routeVars
      PROVE  RoutesInv'
  BY <1>1
     DEF routeVars, sessionSide, RoutesInv, ClaimHasADownload, Downloads, PendingClips
<1> QED
  BY <1>1, PlainStepKeepsInv, VideoStepKeepsInv, RouteFaultKeepsInv DEF RoutesNext

\* The invariant holds of every route.
LEMMA RoutesInvHolds == RoutesSpec => []RoutesInv
BY RoutesInvInit, RoutesInvNext, PTL DEF RoutesSpec

\* The requests and the session's videos keep their types, no fetch follows more redirects
\* than the limit, the day's budget is never overspent, and no session has more videos
\* pending than MAX_VIDEO_REQUESTS_PER_SESSION (worker.ts /video/register).
THEOREM RoutesTypeCorrect == RoutesSpec => []RoutesTypeOK
<1>1. RoutesInv => RoutesTypeOK
  BY DEF RoutesInv, RoutesTypeOK, RequestState
<1> QED
  BY <1>1, RoutesInvHolds, PTL

\* A video whose claim is live is being downloaded, unless the worker went away with its
\* download: no way in which a download ends keeps the next poll out (worker.ts
\* /video/claim, /video/release, boundedResponseStream).
THEOREM ClaimsAreDownloads == RoutesSpec => []ClaimHasADownload
<1>1. RoutesInv => ClaimHasADownload
  BY DEF RoutesInv
<1> QED
  BY <1>1, RoutesInvHolds, PTL

(***************************************************************************)
(* Terminal moves                                                          *)
(***************************************************************************)

\* The inductive invariant: while any session is in the queue, also one that is
\* being moved, a move is in flight or the timer is set.
QueueIsTried ==
  /\ retry \in BOOLEAN
  /\ moves # <<>> /\ ~daemonStopped => moverAt # "off" \/ retry

LEMMA ScanTries ==
  ASSUME NEW q, NEW timer \in BOOLEAN, Scan(q, timer)
  PROVE  QueueIsTried'
<1> DEFINE waiting == Those(q, Sessions \ moving')
           able    == {i \in 1 .. Len(waiting) : Ready(activity'[waiting[i]])}
<1>1. CASE able # {}
  BY <1>1 DEF Scan, QueueIsTried
<1>2. CASE able = {}
  BY <1>2 DEF Scan, QueueIsTried
<1> QED BY <1>1, <1>2

LEMMA ProcessTries ==
  ASSUME NEW q, NEW timer \in BOOLEAN, Process(q, timer)
  PROVE  QueueIsTried'
BY ScanTries DEF Process, QueueIsTried

LEMMA AfterMoveTries ==
  ASSUME NEW q, NEW timer \in BOOLEAN, AfterMove(q, timer)
  PROVE  QueueIsTried'
BY ScanTries DEF AfterMove, EndOnly, QueueIsTried

LEMMA MovesInitInv == MovesInit => QueueIsTried
BY DEF MovesInit, QueueIsTried

LEMMA MovesStepInv == QueueIsTried /\ [MovesNext]_moveVars => QueueIsTried'
<1> SUFFICES ASSUME QueueIsTried, [MovesNext]_moveVars PROVE QueueIsTried'
  OBVIOUS
<1>0. retry \in BOOLEAN /\ (retry \/ ~daemonStopped) \in BOOLEAN
  BY DEF QueueIsTried
<1>1. ASSUME NEW k \in Sessions, MoveToTerminal(k) PROVE QueueIsTried'
  BY <1>0, <1>1, ProcessTries DEF MoveToTerminal
<1>2. CASE MoveAllToTerminal
  <2>1. CASE Waiting(moves) # {}
    <3>1. moves # <<>>
      BY <2>1 DEF Waiting, Range
    <3> QED BY <1>2, <2>1, <3>1 DEF MoveAllToTerminal, QueueIsTried
  <2>2. CASE Waiting(moves) = {}
    BY <1>0, <1>2, <2>2, ProcessTries DEF MoveAllToTerminal
  <2> QED BY <2>1, <2>2
<1>3. ASSUME NEW k \in Sessions, NEW a \in Activities, InventoryChanges(k, a) PROVE QueueIsTried'
  BY <1>0, <1>3, ProcessTries DEF InventoryChanges, QueueIsTried
<1>4. CASE RetryFires
  BY <1>4, ProcessTries DEF RetryFires
<1>5. CASE GivesUp
  BY <1>0, <1>5, AfterMoveTries DEF GivesUp
<1>6. CASE Rechecked
  BY <1>0, <1>5, <1>6, ScanTries DEF Rechecked, QueueIsTried
<1>7. CASE Proved
  BY <1>0, <1>5, <1>7, ScanTries, AfterMoveTries DEF Proved, QueueIsTried
<1>8. CASE Moved
  BY <1>0, <1>5, <1>8, AfterMoveTries DEF Moved
<1>9. CASE Stop
  BY <1>9 DEF Stop, QueueIsTried
<1>10. CASE UNCHANGED moveVars
  BY <1>10 DEF moveVars, QueueIsTried
<1> QED BY <1>1, <1>2, <1>3, <1>4, <1>6, <1>7, <1>8, <1>9, <1>10 DEF MovesNext

LEMMA QueueInvHolds ==
  ASSUME QueueIsTried PROVE WaitingIsTried
BY DEF QueueIsTried, WaitingIsTried, Waiting, Range

THEOREM MovesAreTried == MovesSpec => []WaitingIsTried
<1>1. MovesSpec => []QueueIsTried
  BY MovesInitInv, MovesStepInv, PTL DEF MovesSpec
<1> QED BY <1>1, QueueInvHolds, PTL

\* A queue that holds a session once.
Once(q) == \A i, j \in 1 .. Len(q) : q[i] = q[j] => i = j
Holds(q, k) == \E i \in 1 .. Len(q) : q[i] = k

LEMMA QueueFacts ==
  ASSUME NEW q \in Seq(Sessions)
  PROVE  /\ Len(q) \in Nat /\ (IsInjective(q) <=> Once(q))
         /\ \A k : k \in Range(q) <=> Holds(q, k)
         /\ \A i \in 1 .. Len(q) : q[i] \in Sessions
BY LenProperties, ElementOfSeq DEF IsInjective, Once, Range, Holds

LEMMA OnceMore ==
  ASSUME NEW t, NEW q \in Seq(t), Once(q), NEW k \in t, ~Holds(q, k)
  PROVE  Append(q, k) \in Seq(t) /\ Once(Append(q, k)) /\ \A x : Holds(Append(q, k), x) <=> Holds(q, x) \/ x = k
<1> DEFINE l == Append(q, k)
<1>1. /\ l \in Seq(t) /\ Len(l) = Len(q) + 1 /\ l[Len(q) + 1] = k /\ Len(q) \in Nat
      /\ \A i \in 1 .. Len(q) : l[i] = q[i]
  BY AppendProperties, LenProperties
<1> HIDE DEF l
<1>2. \A i \in 1 .. Len(l) : i \in 1 .. Len(q) \/ i = Len(q) + 1
  BY <1>1
<1>3. Once(l)
  BY <1>1, <1>2 DEF Once, Holds
<1>4. ASSUME NEW x PROVE Holds(l, x) <=> Holds(q, x) \/ x = k
  <2>1. Holds(l, x) => Holds(q, x) \/ x = k
    BY <1>1, <1>2 DEF Holds
  <2>2. ASSUME NEW i \in 1 .. Len(q), q[i] = x PROVE Holds(l, x)
    <3>1. i \in 1 .. Len(l) /\ l[i] = x
      BY <1>1, <2>2
    <3> QED BY <3>1 DEF Holds
  <2>3. x = k => Holds(l, x)
    <3>1. Len(q) + 1 \in 1 .. Len(l) /\ l[Len(q) + 1] = k
      BY <1>1
    <3> QED BY <3>1 DEF Holds
  <2> QED BY <2>1, <2>2, <2>3 DEF Holds
<1> QED BY <1>1, <1>3, <1>4 DEF l

\* Those is Among.
LEMMA ThoseAreAmong == \A q, these : Those(q, these) = Among(q, these)
BY DEF Those, Among

\* What Those leaves out of a queue leaves the rest where it was.
LEMMA ThoseOnce ==
  ASSUME NEW q \in Seq(Sessions), Once(q), NEW these
  PROVE  /\ Those(q, these) \in Seq(Sessions) /\ Once(Those(q, these))
         /\ \A k : Holds(Those(q, these), k) <=> k \in these /\ Holds(q, k)
<1>0. Len(q) \in Nat
  BY LenProperties
<1>1. Among(q, these) \in Seq(Sessions)
  BY AmongKeeps
<1>2. \A x : (\E i \in 1 .. Len(Among(q, these)) : Among(q, these)[i] = x)
              <=> x \in these /\ \E i \in 1 .. Len(q) : q[i] = x
  BY AmongKeeps
<1>3. PICK f \in [0 .. Len(q) -> Seq(Sessions)] :
            /\ Among(q, these) = f[Len(q)]
            /\ \A i \in 0 .. Len(q) : AmongStep(f, q, these, i)
  BY AmongUnfolds
<1> DEFINE Good(n) == Once(f[n]) /\ \A k : Holds(f[n], k) => \E i \in 1 .. n : q[i] = k
           Bad     == {n \in 0 .. Len(q) : ~Good(n)}
<1>4. 0 \notin Bad
  BY <1>0, <1>3, EmptySeq DEF AmongStep, Once, Holds
<1>5. ASSUME NEW n \in 1 .. Len(q), n - 1 \notin Bad PROVE n \notin Bad
  <2>1. n \in 0 .. Len(q) /\ n # 0 /\ n - 1 \in 0 .. Len(q) /\ n \in Nat
    BY <1>0
  <2>2. f[n - 1] \in Seq(Sessions) /\ q[n] \in Sessions
    BY <2>1, ElementOfSeq
  <2>3. Good(n - 1)
    BY <1>5, <2>1
  <2>4. f[n] = IF q[n] \in these THEN Append(f[n - 1], q[n]) ELSE f[n - 1]
    BY <1>3, <2>1 DEF AmongStep
  <2>5. ~Holds(f[n - 1], q[n])
    <3>1. SUFFICES ASSUME Holds(f[n - 1], q[n]) PROVE FALSE
      OBVIOUS
    <3>2. PICK i \in 1 .. n - 1 : q[i] = q[n]
      BY <2>3, <3>1
    <3>3. i \in 1 .. Len(q) /\ i # n
      BY <1>0, <3>2
    <3> QED BY <3>2, <3>3 DEF Once
  <2>6. CASE q[n] \in these
    <3>1. /\ Once(f[n]) /\ \A x : Holds(f[n], x) <=> Holds(f[n - 1], x) \/ x = q[n]
      BY <2>2, <2>3, <2>4, <2>5, <2>6, OnceMore
    <3>2. ASSUME NEW k, Holds(f[n], k) PROVE \E i \in 1 .. n : q[i] = k
      <4>1. CASE k = q[n]
        <5>1. n \in 1 .. n
          BY <2>1
        <5> QED BY <4>1, <5>1
      <4>2. CASE Holds(f[n - 1], k)
        <5>1. PICK i \in 1 .. n - 1 : q[i] = k
          BY <2>3, <4>2
        <5>2. i \in 1 .. n
          BY <2>1
        <5> QED BY <5>1, <5>2
      <4> QED BY <3>1, <3>2, <4>1, <4>2
    <3> QED BY <3>1, <3>2
  <2>7. CASE q[n] \notin these
    <3>1. f[n] = f[n - 1]
      BY <2>4, <2>7
    <3>2. ASSUME NEW k, Holds(f[n], k) PROVE \E i \in 1 .. n : q[i] = k
      <4>1. PICK i \in 1 .. n - 1 : q[i] = k
        BY <2>3, <3>1, <3>2
      <4>2. i \in 1 .. n
        BY <2>1
      <4> QED BY <4>1, <4>2
    <3> QED BY <2>3, <3>1, <3>2
  <2> QED BY <2>6, <2>7
<1>6. Good(Len(q))
  <2> HIDE DEF Good
  <2>1. Bad \subseteq 0 .. Len(q)
    OBVIOUS
  <2> HIDE DEF Bad
  <2>2. Bad = {}
    BY <1>0, <1>4, <1>5, <2>1, UpToEach
  <2>3. Len(q) \in 0 .. Len(q)
    BY <1>0
  <2> QED BY <2>2, <2>3 DEF Bad
<1>7. Those(q, these) = Among(q, these)
  BY ThoseAreAmong
<1>8. Once(Among(q, these))
  BY <1>3, <1>6
<1> QED BY <1>1, <1>2, <1>7, <1>8 DEF Holds

\* The sessions that can be moved are queued once each.
LEMMA QueuedOnce ==
  ASSUME NEW S \in SUBSET Sessions
  PROVE  SetToSeq(S) \in Seq(Sessions) /\ Once(SetToSeq(S))
<1> DEFINE n == Cardinality(S)
<1>1. IsFiniteSet(S)
  BY MovesAssumption, FS_Subset
<1>2. n \in Nat /\ ExistsBijection(1 .. n, S)
  BY <1>1, FS_CardinalityType
<1>3. \E f \in [1 .. n -> S] : IsInjective(f)
  BY <1>2 DEF ExistsBijection, Bijection, Injection
<1>4. SetToSeq(S) \in [1 .. n -> S] /\ IsInjective(SetToSeq(S))
  BY <1>3 DEF SetToSeq
<1> HIDE DEF n
<1> DEFINE q == SetToSeq(S)
<1>5. q \in [1 .. n -> Sessions]
  BY <1>4
<1> HIDE DEF q
<1>6. q \in Seq(Sessions)
  BY <1>2, <1>5, IsASeq
<1>7. IsInjective(q)
  BY <1>4 DEF q
<1>8. Once(q)
  BY <1>6, <1>7, QueueFacts
<1> QED BY <1>6, <1>8 DEF q

-----------------------------------------------------------------------------
\* The inductive invariant of the types: the queue holds a session once, the move in flight
\* is of a session, and what is being moved is that one, still in the queue.
QueueTyped ==
  /\ moves \in Seq(Sessions) /\ Once(moves)
  /\ mover \in Sessions \cup {NoSession} /\ (moverAt # "off" => mover \in Sessions)
  /\ moverAt \in {"off", "refreshing", "proving", "moving"}
  /\ moving = IF moverAt = "moving" THEN {mover} ELSE {}
  /\ \A k \in moving : Holds(moves, k)

MovesRest ==
  /\ retry \in BOOLEAN /\ daemonStopped \in BOOLEAN
  /\ activity \in [Sessions -> Activities]
  /\ moved \subseteq Sessions /\ wanted \subseteq Sessions

MovesTypesInv == QueueTyped /\ MovesRest

LEMMA WithoutOnce ==
  ASSUME NEW q \in Seq(Sessions), Once(q), NEW ks
  PROVE  /\ Without(q, ks) \in Seq(Sessions) /\ Once(Without(q, ks))
         /\ \A k : Holds(Without(q, ks), k) <=> Holds(q, k) /\ k \notin ks
<1>1. /\ Without(q, ks) \in Seq(Sessions) /\ Once(Without(q, ks))
      /\ \A k : Holds(Without(q, ks), k) <=> k \in Sessions \ ks /\ Holds(q, k)
  BY ThoseOnce DEF Without
<1>2. \A k : Holds(q, k) => k \in Sessions
  BY QueueFacts DEF Holds
<1> QED BY <1>1, <1>2

LEMMA EnqueuedOnce ==
  ASSUME NEW q \in Seq(Sessions), Once(q), NEW k \in Sessions
  PROVE  Enqueued(q, k) \in Seq(Sessions) /\ Once(Enqueued(q, k))
<1>1. CASE k \in Range(q)
  BY <1>1 DEF Enqueued
<1>2. CASE k \notin Range(q)
  <2>1. ~Holds(q, k)
    BY <1>2, QueueFacts
  <2> QED BY <1>2, <2>1, OnceMore DEF Enqueued
<1> QED BY <1>1, <1>2

\* A scan, with nothing being moved.
LEMMA ScanTyped ==
  ASSUME NEW q \in Seq(Sessions), Once(q), NEW timer, Scan(q, timer), moving' = {}
  PROVE  QueueTyped'
<1> DEFINE waiting == Those(q, Sessions \ moving')
           able    == {i \in 1 .. Len(waiting) : Ready(activity'[waiting[i]])}
           first   == CHOOSE i \in able : \A j \in able : i <= j
           passed  == IF able = {} THEN Range(waiting) ELSE {waiting[i] : i \in 1 .. first}
<1>1. /\ moves' = Without(q, {k \in passed : ~Movable(activity'[k])})
      /\ mover' = IF able = {} THEN NoSession ELSE waiting[first]
      /\ moverAt' = IF able = {} THEN "off" ELSE "refreshing"
  BY DEF Scan
<1>2. waiting \in Seq(Sessions)
  BY ThoseOnce
<1> HIDE DEF waiting
<1>3. able # {} => waiting[first] \in Sessions
  <2>1. Len(waiting) \in Nat /\ \A i \in 1 .. Len(waiting) : waiting[i] \in Sessions
    BY <1>2, QueueFacts
  <2>2. able \subseteq Nat
    BY <2>1
  <2>3. able # {} => \E i \in able : \A j \in able : i <= j
    <3> HIDE DEF able
    <3> QED BY <2>2, LeastNumber
  <2>4. able # {} => first \in able
    <3> HIDE DEF able
    <3> QED BY <2>3
  <2>5. \A i \in able : i \in 1 .. Len(waiting)
    OBVIOUS
  <2> HIDE DEF able, first
  <2> QED BY <2>1, <2>4, <2>5
<1> HIDE DEF able, first
<1>4. moves' \in Seq(Sessions) /\ Once(moves')
  BY <1>1, WithoutOnce
<1>5. /\ mover' \in Sessions \cup {NoSession} /\ (moverAt' # "off" => mover' \in Sessions)
      /\ moverAt' \in {"off", "refreshing"}
  BY <1>1, <1>3
<1> QED BY <1>4, <1>5 DEF QueueTyped

LEMMA ProcessTyped ==
  ASSUME QueueTyped, NEW q \in Seq(Sessions), Once(q), NEW timer, Process(q, timer),
         UNCHANGED moving, \A k \in moving : Holds(q, k)
  PROVE  QueueTyped'
BY ScanTyped DEF QueueTyped, Process

LEMMA AfterMoveTyped ==
  ASSUME NEW q \in Seq(Sessions), Once(q), NEW timer, AfterMove(q, timer), moving' = {}
  PROVE  QueueTyped'
<1>1. CASE EndOnly(q, timer)
  BY <1>1 DEF EndOnly, QueueTyped
<1>2. CASE Scan(q, timer)
  BY <1>2, ScanTyped
<1> QED BY <1>1, <1>2 DEF AfterMove

LEMMA GivesUpTyped ==
  ASSUME QueueTyped, GivesUp, moving' = {}
  PROVE  QueueTyped' /\ wanted' \subseteq wanted
BY WithoutOnce, AfterMoveTyped DEF QueueTyped, GivesUp

LEMMA MovesTypesInit == MovesInit => MovesTypesInv
<1> SUFFICES ASSUME MovesInit PROVE MovesTypesInv
  OBVIOUS
<1>1. moves = <<>> /\ moves \in Seq(Sessions) /\ Len(moves) = 0
  BY EmptySeq DEF MovesInit
<1>2. Once(moves)
  BY <1>1 DEF Once
<1>3. activity \in [Sessions -> Activities]
  BY DEF MovesInit, Activities
<1> QED BY <1>1, <1>2, <1>3 DEF MovesInit, MovesTypesInv, QueueTyped, MovesRest

\* The queue.
LEMMA QueueTypesKept == MovesTypesInv /\ [MovesNext]_moveVars => QueueTyped'
<1> SUFFICES ASSUME MovesTypesInv, [MovesNext]_moveVars PROVE QueueTyped'
  OBVIOUS
<1>0. /\ QueueTyped /\ moves \in Seq(Sessions) /\ Once(moves)
      /\ mover \in Sessions \cup {NoSession} /\ (moverAt # "off" => mover \in Sessions)
      /\ moverAt \in {"off", "refreshing", "proving", "moving"}
      /\ moving = (IF moverAt = "moving" THEN {mover} ELSE {})
      /\ \A k \in moving : Holds(moves, k)
  BY DEF MovesTypesInv, QueueTyped
<1>01. \A k : k \in Range(moves) <=> Holds(moves, k)
  BY <1>0, QueueFacts
<1>1. ASSUME NEW k \in Sessions, MoveToTerminal(k) PROVE QueueTyped'
  <2>1. CASE k \in Range(moves)
    BY <1>1, <2>1, <1>0, WithoutOnce, ProcessTyped DEF MoveToTerminal
  <2>2. CASE k \notin Range(moves)
    <3>1. Process(Append(moves, k), retry) /\ UNCHANGED moving
      BY <1>1, <2>2 DEF MoveToTerminal
    <3>2. /\ Append(moves, k) \in Seq(Sessions) /\ Once(Append(moves, k))
          /\ \A x : Holds(Append(moves, k), x) <=> Holds(moves, x) \/ x = k
      BY <1>0, <1>01, <2>2, OnceMore
    <3> QED BY <1>0, <3>1, <3>2, ProcessTyped
  <2> QED BY <2>1, <2>2
<1>2. CASE MoveAllToTerminal
  <2>1. CASE Waiting(moves) # {}
    BY <1>2, <2>1, <1>0, WithoutOnce DEF MoveAllToTerminal, Waiting, QueueTyped
  <2>2. CASE Waiting(moves) = {}
    <3> DEFINE candidates == {k \in Sessions : Movable(activity[k]) /\ k \notin moved}
    <3>1. moving = {} /\ Process(SetToSeq(candidates), retry) /\ UNCHANGED moving
      BY <1>2, <2>2 DEF MoveAllToTerminal
    <3>2. candidates \in SUBSET Sessions
      OBVIOUS
    <3> HIDE DEF candidates
    <3>3. SetToSeq(candidates) \in Seq(Sessions) /\ Once(SetToSeq(candidates))
      BY <3>2, QueuedOnce
    <3> QED BY <1>0, <3>1, <3>3, ProcessTyped
  <2> QED BY <2>1, <2>2
<1>3. ASSUME NEW k \in Sessions, NEW a \in Activities, InventoryChanges(k, a) PROVE QueueTyped'
  BY <1>3, <1>0, ProcessTyped DEF InventoryChanges, QueueTyped
<1>4. CASE RetryFires
  <2>1. UNCHANGED moving /\ Process(moves, FALSE)
    BY <1>4 DEF RetryFires
  <2> QED BY <1>0, <2>1, ProcessTyped
<1>5. CASE Rechecked
  <2>1. moverAt = "refreshing" /\ UNCHANGED moving /\ moving = {} /\ mover \in Sessions
    BY <1>0, <1>5 DEF Rechecked
  <2>2. CASE Scan(Enqueued(moves, mover), retry \/ ~daemonStopped)
    <3>1. Enqueued(moves, mover) \in Seq(Sessions) /\ Once(Enqueued(moves, mover))
      BY <1>0, <2>1, EnqueuedOnce
    <3> QED BY <2>1, <2>2, <3>1, ScanTyped
  <2>3. CASE moverAt' = "proving" /\ UNCHANGED <<moves, mover, retry, wanted>>
    BY <1>0, <2>1, <2>3 DEF QueueTyped
  <2>4. CASE GivesUp
    BY <1>0, <2>1, <2>4, GivesUpTyped
  <2> QED BY <1>5, <2>2, <2>3, <2>4 DEF Rechecked
<1>6. CASE Proved
  <2>1. moverAt = "proving" /\ moving = {} /\ mover \in Sessions
    BY <1>0, <1>6 DEF Proved
  <2>2. CASE UNCHANGED moving /\ Scan(Enqueued(moves, mover), retry \/ ~daemonStopped)
    <3>1. Enqueued(moves, mover) \in Seq(Sessions) /\ Once(Enqueued(moves, mover))
      BY <1>0, <2>1, EnqueuedOnce
    <3> QED BY <2>1, <2>2, <3>1, ScanTyped
  <2>3. CASE UNCHANGED moving /\ AfterMove(moves, retry)
    BY <1>0, <2>1, <2>3, AfterMoveTyped
  <2>4. CASE /\ mover \in Range(moves)
             /\ moving' = {mover} /\ moverAt' = "moving"
             /\ UNCHANGED <<moves, mover, retry, wanted>>
    BY <1>0, <1>01, <2>1, <2>4 DEF QueueTyped
  <2>5. CASE UNCHANGED moving /\ GivesUp
    BY <1>0, <2>1, <2>5, GivesUpTyped
  <2> QED BY <1>6, <2>2, <2>3, <2>4, <2>5 DEF Proved
<1>7. CASE Moved
  <2>1. moving' = {}
    BY <1>7 DEF Moved
  <2>2. CASE AfterMove(Without(moves, {mover}), retry)
    <3>1. Without(moves, {mover}) \in Seq(Sessions) /\ Once(Without(moves, {mover}))
      BY <1>0, WithoutOnce
    <3> QED BY <2>1, <2>2, <3>1, AfterMoveTyped
  <2>3. CASE GivesUp
    BY <1>0, <2>1, <2>3, GivesUpTyped
  <2> QED BY <1>7, <2>2, <2>3 DEF Moved
<1>8. CASE Stop
  BY <1>0, <1>8 DEF Stop, QueueTyped
<1>9. CASE UNCHANGED moveVars
  BY <1>0, <1>9 DEF moveVars, QueueTyped
<1> QED BY <1>1, <1>2, <1>3, <1>4, <1>5, <1>6, <1>7, <1>8, <1>9 DEF MovesNext

\* The rest; the timer is the one the queue is tried by.
LEMMA MovesRestKept == MovesTypesInv /\ QueueIsTried' /\ [MovesNext]_moveVars => MovesRest'
<1> SUFFICES ASSUME MovesTypesInv, QueueIsTried', [MovesNext]_moveVars PROVE MovesRest'
  OBVIOUS
<1>0. /\ daemonStopped \in BOOLEAN /\ activity \in [Sessions -> Activities]
      /\ moved \subseteq Sessions /\ wanted \subseteq Sessions
      /\ retry' \in BOOLEAN /\ (moverAt # "off" => mover \in Sessions)
  BY DEF MovesTypesInv, QueueTyped, MovesRest, QueueIsTried
<1>01. Waiting(moves) \subseteq Sessions
  BY QueueFacts DEF MovesTypesInv, QueueTyped, Waiting, Holds
<1>1. ASSUME NEW k \in Sessions, MoveToTerminal(k) PROVE MovesRest'
  <2>1. UNCHANGED <<activity, moved, daemonStopped>> /\ (wanted' = wanted \ {k} \/ wanted' = wanted \cup {k})
    BY <1>1 DEF MoveToTerminal
  <2> QED BY <1>0, <2>1 DEF MovesRest
<1>2. CASE MoveAllToTerminal
  <2>1. UNCHANGED <<activity, moved, daemonStopped>>
    BY <1>2 DEF MoveAllToTerminal
  <2>2. wanted' \subseteq Sessions
    BY <1>2, <1>0 DEF MoveAllToTerminal
  <2> QED BY <1>0, <2>1, <2>2 DEF MovesRest
<1>3. ASSUME NEW k \in Sessions, NEW a \in Activities, InventoryChanges(k, a) PROVE MovesRest'
  BY <1>3, <1>0 DEF InventoryChanges, MovesRest
<1>4. CASE RetryFires
  BY <1>0, <1>4 DEF RetryFires, MovesRest
<1>5. CASE Rechecked
  <2>1. UNCHANGED <<activity, moved, daemonStopped>> /\ (wanted' = wanted \/ wanted' = wanted \ {mover})
    BY <1>5 DEF Rechecked, GivesUp
  <2> QED BY <1>0, <2>1 DEF MovesRest
<1>6. CASE Proved
  <2>1. UNCHANGED <<activity, moved, daemonStopped>> /\ (wanted' = wanted \/ wanted' = wanted \ {mover})
    BY <1>6 DEF Proved, GivesUp
  <2> QED BY <1>0, <2>1 DEF MovesRest
<1>7. CASE Moved
  BY <1>0, <1>7 DEF Moved, GivesUp, MovesRest
<1>8. CASE Stop
  BY <1>0, <1>8 DEF Stop, MovesRest
<1>9. CASE UNCHANGED moveVars
  BY <1>0, <1>9 DEF moveVars, MovesRest
<1> QED BY <1>1, <1>2, <1>3, <1>4, <1>5, <1>6, <1>7, <1>8, <1>9 DEF MovesNext

LEMMA MovesTypesHold == MovesTypesInv => MovesTypeOK
BY QueueFacts DEF MovesTypesInv, QueueTyped, MovesRest, MovesTypeOK

(***************************************************************************)
(* The selected conversation                                               *)
(***************************************************************************)

\* The inductive invariant: an attempt that may report is that of the last tap, its row was
\* listed, and an attempt that is older than the last tap left the tap's own reason on show.
SelectionInv ==
  /\ attachRequest \in 0 .. MaxTaps
  /\ current # 0 => \E t \in attempts : t.request = current
  /\ \A t \in attempts :
       /\ t.request \in 1 .. attachRequest
       /\ t.request = attachRequest => t.row = tapped
       /\ t.request = attachRequest /\ current # 0 => current = attachRequest
  /\ current # 0 /\ current = attachRequest => goesBy = tapped
  /\ current # 0 /\ current # attachRequest => attachError = tapped
  /\ current # 0 => ~left
  /\ LastTapSettles
LEMMA SelectionNumbers == MaxTaps \in Nat /\ NoRow \notin Rows
BY SelectionAssumption

LEMMA PushFollows ==
  ASSUME NEW a, NEW shown, Push(a, shown), current' = 0, goesBy = a
  PROVE  active' = goesBy'
BY DEF Push

LEMMA PushKeeps ==
  ASSUME NEW a, NEW shown, Push(a, shown), current' # 0
  PROVE  goesBy' = goesBy
BY DEF Push

LEMMA SelectionInitInv == SelectionInit => SelectionInv
BY SelectionNumbers DEF SelectionInit, SelectionInv, LastTapSettles

\* Only the tapped conversation, its request and what is on show matter.
LEMMA SelectionStepInv == SelectionInv /\ [SelectionNext]_selectionVars => SelectionInv'
<1> SUFFICES ASSUME SelectionInv, [SelectionNext]_selectionVars PROVE SelectionInv'
  OBVIOUS
<1> USE SelectionNumbers
<1>0. \A t \in attempts : t.request \in 1 .. attachRequest
  BY DEF SelectionInv
<1>1. ASSUME NEW r \in Rows, AttachSession(r) PROVE SelectionInv'
  <2>1. attachRequest' \in 0 .. MaxTaps /\ attachRequest' = attachRequest + 1 /\ attachRequest \in Nat
    BY <1>1 DEF AttachSession, SelectionInv
  <2>2. tapped' = r /\ goesBy' = r /\ left' = FALSE
    BY <1>1 DEF AttachSession
  <2>3. CASE r \in listed
    <3>1. PICK n : n = [row |-> r, request |-> attachRequest']
      OBVIOUS
    <3>2. attempts' = attempts \cup {n} /\ current' = attachRequest' /\ attachError' = NoRow
      BY <1>1, <2>1, <2>3, <3>1 DEF AttachSession
    <3>3. n.row = r /\ n.request = attachRequest' /\ n \in attempts'
      BY <3>1, <3>2
    <3>4. \A t \in attempts' : t.request \in 1 .. attachRequest' /\ (t.request = attachRequest' => t.row = r)
      BY <1>0, <2>1, <3>2, <3>3
    <3> QED BY <2>1, <2>2, <3>2, <3>3, <3>4 DEF SelectionInv, LastTapSettles
  <2>4. CASE r \notin listed
    BY <1>1, <2>4, <1>0, <2>1, <2>2 DEF AttachSession, SelectionInv, LastTapSettles
  <2> QED BY <2>3, <2>4
<1>2. ASSUME NEW t \in attempts, Selected(t) PROVE SelectionInv'
  <2>1. attempts' \subseteq attempts /\ current' = 0 /\ current = t.request /\ current # 0
        /\ UNCHANGED <<attachRequest, attachError, tapped, left>>
    BY <1>0, <1>2 DEF Selected, SelectionInv
  <2>2. CASE t.request = attachRequest
    <3>1. Push(t.row, listed) /\ goesBy = t.row
      BY <1>2, <2>1, <2>2 DEF Selected, SelectionInv
    <3>2. active' = goesBy'
      BY <2>1, <3>1, PushFollows
    <3> QED BY <2>1, <3>2 DEF SelectionInv, LastTapSettles
  <2>3. CASE t.request # attachRequest
    BY <2>1, <2>3 DEF SelectionInv, LastTapSettles
  <2> QED BY <2>2, <2>3
<1>3. ASSUME NEW t \in attempts, SelectThrows(t) PROVE SelectionInv'
  <2>1. attempts' = attempts \ {t} /\ UNCHANGED <<attachRequest, tapped, goesBy, left>>
    BY <1>3 DEF SelectThrows
  <2>2. CASE t.request = current
    <3>1. current' = 0 /\ attachError' = tapped
      BY <1>0, <1>3, <2>2 DEF SelectThrows, SelectionInv, FailAttach
    <3> QED BY <2>1, <3>1 DEF SelectionInv, LastTapSettles
  <2>3. CASE t.request # current
    BY <1>3, <2>3, <2>1 DEF SelectThrows, SelectionInv, FailAttach, LastTapSettles
  <2> QED BY <2>2, <2>3
<1>4. ASSUME NEW t \in attempts, Superseded(t) PROVE SelectionInv'
  BY <1>4 DEF Superseded, SelectionInv, LastTapSettles
<1>5. CASE Release
  BY <1>5 DEF Release, SelectionInv, LastTapSettles
<1>6. CASE New
  BY <1>6, <1>0 DEF New, SelectionInv, LastTapSettles
<1>7. CASE ResumeHeadless
  BY <1>7 DEF ResumeHeadless, SelectionInv, LastTapSettles
<1>8. CASE ResumeInTerminal \/ Launched \/ WindowsChange
  BY <1>8 DEF ResumeInTerminal, Launched, WindowsChange, selection, SelectionInv, LastTapSettles
<1>9. CASE Branch \/ Detach
  BY <1>9 DEF Branch, Detach, SelectionInv, LastTapSettles
<1>10. CASE CatalogLists
  <2>1. Push(active, listed') /\ UNCHANGED <<attempts, current, attachRequest, attachError, tapped, left>>
    BY <1>10 DEF CatalogLists
  <2>2. CASE current = 0
    <3>1. active = goesBy => active' = goesBy'
      BY <2>1, <2>2, PushFollows
    <3> QED BY <2>1, <2>2, <3>1 DEF SelectionInv, LastTapSettles
  <2>3. CASE current # 0
    <3>1. goesBy' = goesBy
      BY <2>1, <2>3, PushKeeps
    <3> QED BY <2>1, <2>3, <3>1 DEF SelectionInv, LastTapSettles
  <2> QED BY <2>2, <2>3
<1>11. CASE UNCHANGED selectionVars
  BY <1>11 DEF selectionVars, selection, SelectionInv, LastTapSettles
<1> QED BY <1>1, <1>2, <1>3, <1>4, <1>5, <1>6, <1>7, <1>8, <1>9, <1>10, <1>11 DEF SelectionNext

THEOREM TapsSettle == SelectionSpec => []LastTapSettles
<1>1. SelectionInv => LastTapSettles
  BY DEF SelectionInv
<1>2. SelectionSpec => []SelectionInv
  BY SelectionInitInv, SelectionStepInv, PTL DEF SelectionSpec
<1> QED BY <1>1, <1>2, PTL

\* The types and what they rest on.
TapsInv == SelectionInv /\ SelectionTypeOK

\* A conversation that moves to the row it is listed under moves to a row.
LEMMA PushTyped ==
  ASSUME NEW a \in Rows \cup {NoRow}, NEW shown \in SUBSET Rows, Push(a, shown),
         kept \in [Rows -> Rows \cup {NoRow}], goesBy \in Rows \cup {NoRow}
  PROVE  /\ active' \in Rows \cup {NoRow} /\ goesBy' \in Rows \cup {NoRow}
         /\ kept' \in [Rows -> Rows \cup {NoRow}]
<1> USE SelectionNumbers
<1> DEFINE r == Rekeyed(a, kept, shown)
<1>0. active' = r[1] /\ kept' = r[2] /\ goesBy' = IF goesBy = a /\ current' = 0 THEN r[1] ELSE goesBy
  BY DEF Push
<1>1. CASE a # NoRow /\ kept[a] \in shown \ {a}
  BY <1>1, <1>0 DEF Rekeyed
<1>2. CASE ~(a # NoRow /\ kept[a] \in shown \ {a})
  <2>1. r = <<a, kept>>
    BY <1>2 DEF Rekeyed
  <2> QED BY <1>0, <2>1
<1> QED BY <1>1, <1>2

LEMMA TapsInitInv == SelectionInit => TapsInv
<1> SUFFICES ASSUME SelectionInit PROVE SelectionTypeOK
  BY SelectionInitInv DEF TapsInv
<1> QED BY SelectionNumbers, SelectionAssumption DEF SelectionInit, SelectionTypeOK

LEMMA TapsStepInv == TapsInv /\ [SelectionNext]_selectionVars => TapsInv'
<1> SUFFICES ASSUME TapsInv, [SelectionNext]_selectionVars PROVE SelectionTypeOK'
  BY SelectionStepInv DEF TapsInv
<1> USE SelectionNumbers
<1>0. SelectionTypeOK /\ attachRequest \in 0 .. MaxTaps /\ current \in 0 .. MaxTaps
  BY DEF TapsInv, SelectionTypeOK
<1>01. listed \subseteq Rows /\ Unborn \subseteq Rows /\ active \in Rows \cup {NoRow}
       /\ goesBy \in Rows \cup {NoRow} /\ kept \in [Rows -> Rows \cup {NoRow}] /\ born \subseteq Rows
  BY SelectionAssumption DEF TapsInv, SelectionTypeOK
<1>1. ASSUME NEW r \in Rows, AttachSession(r) PROVE SelectionTypeOK'
  <2>1. attachRequest + 1 \in 0 .. MaxTaps /\ attachRequest + 1 \in 1 .. MaxTaps
    BY <1>0, <1>1 DEF AttachSession
  <2>2. CASE r \in listed
    <3>1. [row |-> r, request |-> attachRequest + 1] \in [row : Rows, request : 1 .. MaxTaps]
      BY <2>1
    <3> QED BY <1>0, <1>1, <2>1, <2>2, <3>1 DEF AttachSession, inventory, launches, SelectionTypeOK
  <2>3. CASE r \notin listed
    BY <1>0, <1>1, <2>1, <2>3 DEF AttachSession, inventory, launches, SelectionTypeOK
  <2> QED BY <2>2, <2>3
<1>2. ASSUME NEW t \in attempts, Selected(t) PROVE SelectionTypeOK'
  BY <1>0, <1>01, <1>2, PushTyped DEF SelectionTypeOK, Selected, inventory, launches
<1>3. ASSUME NEW t \in attempts, SelectThrows(t) PROVE SelectionTypeOK'
  <2>0. t.row \in Rows
    BY <1>0 DEF SelectionTypeOK
  <2> QED BY <1>0, <1>3, <2>0 DEF SelectThrows, FailAttach, inventory, launches, SelectionTypeOK
<1>4. ASSUME NEW t \in attempts, Superseded(t) PROVE SelectionTypeOK'
  BY <1>0, <1>4 DEF Superseded, inventory, launches, SelectionTypeOK
<1>5. CASE Release
  BY <1>0, <1>5 DEF Release, inventory, launches, SelectionTypeOK
<1>6. CASE New
  <2>1. attachRequest + 1 \in 0 .. MaxTaps
    BY <1>0, <1>6 DEF New
  <2> QED BY <1>0, <1>6, <2>1 DEF New, inventory, launches, SelectionTypeOK
<1>7. CASE ResumeHeadless
  BY <1>01, <1>7, <1>0 DEF ResumeHeadless, Mirror, inventory, launches, SelectionTypeOK
<1>8. CASE ResumeInTerminal \/ Launched
  BY <1>01, <1>8, <1>0 DEF ResumeInTerminal, Mirror, Launched, SelectionTypeOK, inventory, selection
<1>9. CASE Branch
  <2>1. active \in Rows
    BY <1>01, <1>9 DEF Branch, Mirror
  <2>2. PICK b \in Unborn \ born : born' = born \cup {b} /\ kept' = [kept EXCEPT ![active] = b]
    BY <1>9 DEF Branch
  <2>3. kept' \in [Rows -> Rows \cup {NoRow}] /\ born' \subseteq Rows
    BY <1>01, <2>1, <2>2
  <2> QED BY <1>0, <1>9, <2>3 DEF Branch, inventory, launches, SelectionTypeOK
<1>10. CASE Detach
  <2>1. kept' \in [Rows -> Rows \cup {NoRow}]
    BY <1>01, <1>10 DEF Detach
  <2> QED BY <1>0, <1>10, <2>1 DEF Detach, inventory, launches, SelectionTypeOK
<1>11. CASE WindowsChange
  BY <1>0, <1>11, <1>01 DEF WindowsChange, selection, launches, SelectionTypeOK
<1>12. CASE CatalogLists
  BY <1>01, <1>12, PushTyped, <1>0 DEF CatalogLists, launches, SelectionTypeOK
<1>13. CASE UNCHANGED selectionVars
  BY <1>0, <1>13 DEF selectionVars, inventory, selection, launches, SelectionTypeOK
<1> QED BY <1>1, <1>2, <1>3, <1>4, <1>5, <1>6, <1>7, <1>8, <1>9, <1>10, <1>11, <1>12, <1>13 DEF SelectionNext

(***************************************************************************)
(* The panel and its guests                                                *)
(***************************************************************************)

\* The rows queued last.
LastRows == IF outgoing = <<>> THEN sent.rows ELSE outgoing[Len(outgoing)].rows

\* What is queued last is what the fingerprint says, if any; the rows as they are were queued and
\* not lost; the log ends with what was sent.
QueuedIsLast ==
  lastQueued # NoState =>
    IF outgoing = <<>> THEN lastQueued[2] = sent.rows
    ELSE lastQueued = <<outgoing[Len(outgoing)].talk, outgoing[Len(outgoing)].rows>>

RowsAreQueued == "rows" \notin lost /\ lastInventory # NotQueued => LastRows = rows

LogEndsWithSent ==
  /\ log # <<>> => log[Len(log)].rows = sent.rows
  /\ (\E i \in 1 .. Len(log) : log[i].full) =>
       \E m \in 1 .. Len(log) :
         /\ log[m].full /\ log[m].talk = sent.talk
         /\ \A j \in 1 .. Len(log) : j > m => ~log[j].full

PushesAreKnown == QueuedIsLast /\ RowsAreQueued /\ LogEndsWithSent

\* A guest that is not about to ask has what was sent, but for what it has not read yet, what is
\* under way, and what a failed push left behind.
GuestFollows ==
  /\ guestSince = seqNo /\ asking = 0 /\ outgoing = <<>>
       /\ (lastQueued # NoState \/ "rows" \notin lost) => guest.rows = sent.rows
  /\ guestSince # NotStarted /\ ~FellBehind /\ asking = 0 /\ "talk" \notin lost
       /\ (\A i \in 1 .. Len(outgoing) : ~outgoing[i].full) /\ Fulls = {} => guest.talk = sent.talk

PanelInv ==
  /\ PanelTypeOK
  /\ seqNo \in Nat /\ Len(log) <= seqNo
  /\ PushesAreKnown /\ GuestFollows

LEMMA PanelNumbers ==
  PatchLog \in Nat \ {0} /\ MaxRevisions \in Nat \ {0} /\ MaxMounts \in Nat /\ MaxPushFaults \in Nat
BY PanelAssumption

LEMMA FirstRemoved ==
  ASSUME NEW S, NEW s \in Seq(S), s # <<>>
  PROVE  RemoveAt(s, 1) = Tail(s)
<1>1. SubSeq(s, 1, 1 - 1) = <<>>
  OBVIOUS
<1>2. SubSeq(s, 1 + 1, Len(s)) = Tail(s)
  OBVIOUS
<1> QED BY <1>1, <1>2 DEF RemoveAt

\* l is s with d after it, but for the first of s where the log is full.
GrownBy(l, s, d) ==
  /\ l # <<>> /\ l[Len(l)] = d
  /\ \/ Len(l) = Len(s) + 1 /\ \A i \in 1 .. Len(s) : l[i] = s[i]
     \/ Len(l) = Len(s) /\ \A i \in 1 .. Len(s) - 1 : l[i] = s[i + 1]

LEMMA LogKeepsLast ==
  ASSUME NEW S, NEW s \in Seq(S), NEW d \in S, NEW n \in Nat \ {0}, Len(s) <= n,
         NEW l, l = LastOf(Append(s, d), n)
  PROVE  l \in Seq(S) /\ Len(l) <= n /\ GrownBy(l, s, d)
<1>1. CASE n > Len(Append(s, d))
  BY <1>1 DEF LastOf, GrownBy
<1>2. CASE ~(n > Len(Append(s, d)))
  <2>1. PICK a : a = Append(s, d)
    OBVIOUS
  <2>2. a \in Seq(S) /\ Len(a) = Len(s) + 1 /\ a[Len(a)] = d /\ \A i \in 1 .. Len(s) : a[i] = s[i]
    BY <2>1
  <2>3. n = Len(s) \/ n = Len(s) + 1
    BY <1>2, <2>1, <2>2
  <2>4. l = SubSeq(a, Len(a) - n + 1, Len(a))
    BY <1>2, <2>1 DEF LastOf
  <2>5. CASE n = Len(s)
    <3>1. l = SubSeq(a, 2, n + 1)
      BY <2>2, <2>4, <2>5
    <3>2. l \in Seq(S) /\ Len(l) = n /\ \A i \in 1 .. n : l[i] = a[i + 1]
      <4>1. l = [i \in 1 .. (1 + (n + 1) - 2) |-> a[i + 2 - 1]]
        BY SMTT(20), <3>1 DEF SubSeq
      <4>2. 1 + (n + 1) - 2 = n /\ \A i \in 1 .. n : i + 2 - 1 = i + 1 /\ i + 1 \in 1 .. Len(a)
        BY <2>2, <2>5
      <4>3. l = [i \in 1 .. n |-> a[i + 1]] /\ \A i \in 1 .. n : a[i + 1] \in S
        BY <2>2, <4>1, <4>2
      <4>4. l \in Seq(S) /\ Len(l) = n
        BY <4>3
      <4> QED BY <4>3, <4>4
    <3> QED BY <2>2, <2>5, <3>2 DEF GrownBy
  <2>6. CASE n = Len(s) + 1
    BY <2>2, <2>4, <2>6 DEF GrownBy
  <2> QED BY <2>3, <2>5, <2>6
<1> QED BY <1>1, <1>2

LEMMA NoStateIsNone == \A n, m \in Revisions : <<n, m>> # NoState
BY PanelNumbers DEF Revisions, NoState, NotQueued

\* A push of the state as it is.
LEMMA QueueKeeps ==
  ASSUME PanelInv, NEW scope \in {"full", "inventory"}, Queue(scope),
         talk' \in Revisions, rows' \in Revisions, startup' \in {"connecting", "starting", "ready"},
         debounce' \in BOOLEAN, asking' \in 0 .. 2, asking' = asking \/ scope = "full",
         UNCHANGED <<guestSince, guest, patchLog, sent>>
  PROVE  PanelInv'
<1>1. PICK d : d = [full |-> scope = "full", talk |-> talk', rows |-> rows']
  OBVIOUS
<1>2. PICK b \in BOOLEAN : b = (scope = "full")
  <2>1. (scope = "full") \in BOOLEAN
    OBVIOUS
  <2> QED BY <2>1, Zenon
<1>3. d = [full |-> b, talk |-> talk', rows |-> rows']
  BY <1>1, <1>2
<1>4. d \in Deliveries /\ d.talk = talk' /\ d.rows = rows' /\ (d.full <=> scope = "full")
  BY <1>2, <1>3 DEF Deliveries
<1>5. outgoing' = Append(outgoing, d)
  BY <1>1 DEF Queue
<1>6. outgoing \in Seq(Deliveries)
  BY DEF PanelInv, PanelTypeOK
<1>7. /\ outgoing' \in Seq(Deliveries) /\ outgoing' # <<>>
      /\ outgoing'[Len(outgoing')] = d
      /\ Len(outgoing') = Len(outgoing) + 1
      /\ \A i \in 1 .. Len(outgoing) : outgoing'[i] = outgoing[i] /\ i \in 1 .. Len(outgoing')
  BY <1>4, <1>5, <1>6
<1>8. lastQueued' = <<talk', rows'>> /\ lastInventory' = rows' /\ lost' = lost \ {"rows"}
  BY DEF Queue, State
<1>9. PanelTypeOK'
  BY <1>7, <1>8 DEF PanelInv, PanelTypeOK, patchLog
<1>10. PushesAreKnown'
  BY <1>4, <1>7, <1>8 DEF PanelInv, PushesAreKnown, QueuedIsLast, RowsAreQueued, LogEndsWithSent, LastRows, patchLog
<1>11. GuestFollows'
  <2>1. CASE scope = "full"
    <3>1. Len(outgoing') \in 1 .. Len(outgoing') /\ outgoing'[Len(outgoing')].full
      BY <1>4, <1>6, <1>7, <2>1
    <3> QED BY <1>7, <3>1 DEF GuestFollows
  <2>2. CASE scope # "full"
    BY <1>7, <1>8, <2>2 DEF FellBehind, Fulls, Unread, patchLog, GuestFollows, PanelInv
  <2> QED BY <2>1, <2>2
<1> QED BY <1>9, <1>10, <1>11 DEF PanelInv, patchLog

LEMMA PushNowKeeps ==
  ASSUME PanelInv, PushNow, UNCHANGED <<talk, rows, startup, guestSide, patchLog, sent>>,
         debounce' \in BOOLEAN
  PROVE  PanelInv'
<1>0. UNCHANGED <<guestSince, guest, asking>>
  BY DEF guestSide
<1>1. CASE lastQueued = <<talk, rows>>
  <2>1. lost' = lost \ {"rows"} /\ UNCHANGED <<lastQueued, lastInventory, outgoing>>
    BY <1>1 DEF PushNow, State
  <2>2. lastQueued # NoState
    BY <1>1, NoStateIsNone DEF PanelInv, PanelTypeOK
  <2>3. PanelTypeOK'
    BY <1>0, <2>1 DEF PanelInv, PanelTypeOK, patchLog
  <2>4. LastRows = rows
    BY <1>1, <2>2 DEF PanelInv, PushesAreKnown, QueuedIsLast, RowsAreQueued, LastRows
  <2>5. PushesAreKnown'
    BY <1>0, <2>1, <2>4 DEF PanelInv, PushesAreKnown, QueuedIsLast, RowsAreQueued, LogEndsWithSent, LastRows, patchLog
  <2>6. FellBehind' = FellBehind /\ Fulls' = Fulls
    BY <1>0 DEF FellBehind, Fulls, Unread, patchLog
  <2>7. GuestFollows'
    BY <1>0, <2>1, <2>2, <2>6 DEF PanelInv, GuestFollows, patchLog
  <2> QED BY <2>3, <2>5, <2>7 DEF PanelInv, patchLog
<1>2. CASE lastQueued # <<talk, rows>>
  BY <1>2, <1>0, QueueKeeps DEF PushNow, State, PanelInv, PanelTypeOK
<1> QED BY <1>1, <1>2

\* A patch is delivered: it is the last of the log, and what was sent is what it says.
LEMMA DeliveredKeeps ==
  ASSUME PanelInv, Delivered
  PROVE  PanelInv'
<1>1. outgoing # <<>> /\ outgoing \in Seq(Deliveries) /\ log \in Seq(Deliveries) /\ Len(log) <= PatchLog
  BY DEF Delivered, NextOut, PanelInv, PanelTypeOK
<1>2. PICK d \in Deliveries : d = outgoing[1]
  BY <1>1
<1>3. /\ log' = LastOf(Append(log, d), PatchLog)
      /\ seqNo' = seqNo + 1
      /\ outgoing' = RemoveAt(outgoing, 1)
      /\ sent' = Shown(sent, d)
      /\ lost' = IF d.full THEN lost \ {"talk"} ELSE lost
      /\ UNCHANGED <<talk, rows, startup, debounce, lastQueued, lastInventory, guestSince, guest, asking>>
  BY <1>1, <1>2 DEF Delivered, NextOut, guestSide
<1>4. outgoing' = Tail(outgoing)
  BY <1>1, <1>3, FirstRemoved
<1>5. /\ outgoing' \in Seq(Deliveries) /\ Len(outgoing') = Len(outgoing) - 1
      /\ \A i \in 1 .. Len(outgoing') : outgoing'[i] = outgoing[i + 1] /\ i + 1 \in 1 .. Len(outgoing)
  BY <1>1, <1>4
<1>6. /\ log' \in Seq(Deliveries) /\ Len(log') <= PatchLog /\ log' # <<>> /\ log'[Len(log')] = d
      /\ \/ Len(log') = Len(log) + 1 /\ \A i \in 1 .. Len(log) : log'[i] = log[i]
         \/ Len(log') = Len(log) /\ \A i \in 1 .. Len(log) - 1 : log'[i] = log[i + 1]
  <2>1. PICK s : s = log
    OBVIOUS
  <2>2. PICK l : l = LastOf(Append(s, d), PatchLog)
    OBVIOUS
  <2>3. s \in Seq(Deliveries) /\ Len(s) <= PatchLog /\ PatchLog \in Nat \ {0}
    BY <1>1, <2>1, PanelNumbers
  <2>4. l \in Seq(Deliveries) /\ Len(l) <= PatchLog /\ GrownBy(l, s, d)
    BY <2>2, <2>3, LogKeepsLast
  <2> QED BY <1>3, <2>1, <2>2, <2>4 DEF GrownBy
<1>7. d.full \in BOOLEAN /\ d.talk \in Revisions /\ d.rows \in Revisions
  BY DEF Deliveries
<1>8. /\ sent' \in [talk : Revisions, rows : Revisions]
      /\ sent'.rows = d.rows
      /\ d.full => sent'.talk = d.talk
      /\ ~d.full => sent'.talk = sent.talk
  BY <1>3, <1>7 DEF Shown, PanelInv, PanelTypeOK
<1>9. seqNo \in Nat /\ seqNo' = seqNo + 1 /\ guestSince \in NotStarted .. seqNo /\ guestSince \in Int
      /\ guestSince' = guestSince /\ Len(log) \in Nat /\ Len(log') \in Nat /\ Len(log) <= seqNo /\ Len(log') >= 1
  BY <1>1, <1>3, <1>6 DEF PanelInv, PanelTypeOK, NotStarted
<1>10. PanelTypeOK'
  BY <1>9, <1>3, <1>5, <1>6, <1>8 DEF NotStarted, PanelInv, PanelTypeOK
<1>11. LastRows' = LastRows /\ QueuedIsLast'
  <2>1. CASE outgoing' = <<>>
    <3>1. Len(outgoing) = 1
      <4>1. Len(outgoing') = 0
        BY <2>1
      <4> QED BY <1>1, <1>5, <4>1
    <3>2. outgoing[Len(outgoing)] = d
      BY <1>2, <3>1
    <3>3. LastRows' = LastRows
      BY <1>1, <1>8, <2>1, <3>2 DEF LastRows
    <3>4. lastQueued # NoState => lastQueued[2] = sent'.rows
      BY <1>1, <1>8, <3>2 DEF PanelInv, PushesAreKnown, QueuedIsLast
    <3> QED BY <1>3, <2>1, <3>3, <3>4 DEF QueuedIsLast
  <2>2. CASE outgoing' # <<>>
    BY <1>1, <1>5, <2>2, <1>3 DEF LastRows, PanelInv, PushesAreKnown, QueuedIsLast
  <2> QED BY <2>1, <2>2
<1>12. RowsAreQueued'
  <2>1. "rows" \notin lost' => "rows" \notin lost
    BY <1>3
  <2> QED BY <1>3, <1>11, <2>1 DEF PanelInv, PushesAreKnown, RowsAreQueued
<1>13. LogEndsWithSent'
  <2>1. log'[Len(log')].rows = sent'.rows /\ Len(log') \in 1 .. Len(log')
    BY <1>6, <1>8, <1>9
  <2>2. CASE d.full
    BY <1>6, <1>8, <2>1, <2>2 DEF LogEndsWithSent
  <2>3. ASSUME ~d.full, NEW i \in 1 .. Len(log'), log'[i].full
        PROVE  \E m \in 1 .. Len(log') :
                 /\ log'[m].full /\ log'[m].talk = sent'.talk
                 /\ \A j \in 1 .. Len(log') : j > m => ~log'[j].full
    <3>1. i # Len(log')
      BY <1>6, <2>3
    <3>2. CASE Len(log') = Len(log) + 1 /\ \A k \in 1 .. Len(log) : log'[k] = log[k]
      <4>1. i \in 1 .. Len(log) /\ log[i].full
        BY <1>9, <2>3, <3>1, <3>2
      <4>2. PICK m \in 1 .. Len(log) : /\ log[m].full /\ log[m].talk = sent.talk
                                       /\ \A j \in 1 .. Len(log) : j > m => ~log[j].full
        BY <4>1 DEF PanelInv, PushesAreKnown, LogEndsWithSent
      <4>3. \A j \in 1 .. Len(log') : j \in 1 .. Len(log) \/ j = Len(log')
        BY <1>9, <3>2
      <4>4. \A j \in 1 .. Len(log') : j > m => ~log'[j].full
        BY <1>6, <2>3, <3>2, <4>2, <4>3
      <4>5. m \in 1 .. Len(log') /\ log'[m] = log[m]
        BY <1>9, <3>2
      <4> QED BY <1>8, <2>3, <4>2, <4>4, <4>5
    <3>3. CASE Len(log') = Len(log) /\ \A k \in 1 .. Len(log) - 1 : log'[k] = log[k + 1]
      <4>1. i + 1 \in 1 .. Len(log) /\ log[i + 1].full
        BY <1>9, <2>3, <3>1, <3>3
      <4>2. PICK m \in 1 .. Len(log) : /\ log[m].full /\ log[m].talk = sent.talk
                                       /\ \A j \in 1 .. Len(log) : j > m => ~log[j].full
        BY <4>1 DEF PanelInv, PushesAreKnown, LogEndsWithSent
      <4>3. i + 1 <= m
        BY <1>9, <4>1, <4>2
      <4>4. PICK k \in 1 .. Len(log) - 1 : m = k + 1
        BY <1>9, <4>3
      <4>5. \A j \in 1 .. Len(log') : j > k => ~log'[j].full
        <5>1. TAKE j \in 1 .. Len(log')
        <5>2. HAVE j > k
        <5>3. CASE j = Len(log')
          BY <1>6, <2>3, <5>3
        <5>4. CASE j # Len(log')
          <6>1. j \in 1 .. Len(log) - 1 /\ j + 1 \in 1 .. Len(log) /\ j + 1 > m
            BY <1>9, <3>3, <4>4, <5>2, <5>4
          <6> QED BY <3>3, <4>2, <6>1
        <5> QED BY <5>3, <5>4
      <4>6. k \in 1 .. Len(log') /\ log'[k] = log[m]
        BY <1>9, <3>3, <4>4
      <4> QED BY <1>8, <2>3, <4>2, <4>5, <4>6
    <3> QED BY <1>6, <3>2, <3>3
  <2> QED BY <2>1, <2>2, <2>3 DEF LogEndsWithSent
<1>14. GuestFollows'
  <2>1. guestSince' # seqNo'
    BY <1>9 DEF NotStarted
  <2>2. CASE d.full
    <3>1. Len(log') \in Fulls'
      BY <1>6, <1>9, <2>2 DEF Fulls, Unread, NotStarted
    <3> QED BY <2>1, <3>1 DEF GuestFollows
  <2>3. CASE ~d.full
    <3>1. ASSUME ~FellBehind', NEW i \in Fulls PROVE Fulls' # {}
      <4>1. i \in 1 .. Len(log) /\ i > Len(log) - (seqNo - guestSince) /\ log[i].full
        BY DEF Fulls, Unread
      <4>2. guestSince >= seqNo + 1 - Len(log')
        BY <1>9, <3>1 DEF FellBehind
      <4>3. CASE Len(log') = Len(log) + 1 /\ \A k \in 1 .. Len(log) : log'[k] = log[k]
        BY <1>9, <4>1, <4>3 DEF Fulls, Unread
      <4>4. CASE Len(log') = Len(log) /\ \A k \in 1 .. Len(log) - 1 : log'[k] = log[k + 1]
        <5>1. PICK k \in 1 .. Len(log) - 1 : i = k + 1
          BY <1>9, <4>1, <4>2, <4>4
        <5>2. k \in 1 .. Len(log') /\ k > Len(log') - (seqNo' - guestSince')
          BY <1>9, <4>1, <4>4, <5>1
        <5>3. log'[k].full
          BY <4>1, <4>4, <5>1
        <5>4. k \in Fulls'
          BY <5>2, <5>3 DEF Fulls, Unread
        <5> QED BY <5>4
      <4> QED BY <1>6, <4>3, <4>4
    <3>2. FellBehind => FellBehind'
      BY <1>6, <1>9 DEF FellBehind
    <3>3. (\A i \in 1 .. Len(outgoing') : ~outgoing'[i].full) => \A i \in 1 .. Len(outgoing) : ~outgoing[i].full
      <4>1. HAVE \A i \in 1 .. Len(outgoing') : ~outgoing'[i].full
      <4>2. TAKE i \in 1 .. Len(outgoing)
      <4>3. i = 1 \/ \E j \in 1 .. Len(outgoing') : i = j + 1
        BY <1>1, <1>5
      <4> QED BY <1>2, <1>5, <2>3, <4>1, <4>3
    <3>4. lost' = lost /\ guest' = guest /\ asking' = asking /\ guestSince' = guestSince /\ sent'.talk = sent.talk
      BY <1>3, <1>8, <2>3
    <3>5. guestSince' # NotStarted /\ ~FellBehind' /\ asking' = 0 /\ "talk" \notin lost'
            /\ (\A i \in 1 .. Len(outgoing') : ~outgoing'[i].full) /\ Fulls' = {} => guest'.talk = sent'.talk
      BY <3>1, <3>2, <3>3, <3>4 DEF PanelInv, GuestFollows
    <3> QED BY <2>1, <3>5 DEF GuestFollows
  <2> QED BY <1>7, <2>2, <2>3
<1> QED BY <1>9, <1>6, <1>10, <1>11, <1>12, <1>13, <1>14 DEF PanelInv, PushesAreKnown

\* A push fails: what it had is told to be lost, and its fingerprints are forgotten.
LEMMA FailureKeeps ==
  ASSUME PanelInv, PushFails
  PROVE  PanelInv'
<1>1. outgoing # <<>> /\ outgoing \in Seq(Deliveries)
  BY DEF PushFails, PanelInv, PanelTypeOK
<1>2. PICK d \in Deliveries : d = Head(outgoing) /\ d = outgoing[1]
  BY <1>1
<1>3. /\ lastQueued' = IF lastQueued = <<d.talk, d.rows>> THEN NoState ELSE lastQueued
      /\ lastInventory' = IF lastInventory = d.rows THEN NotQueued ELSE lastInventory
      /\ outgoing' = Tail(outgoing) /\ lost' = {"rows", "talk"}
      /\ UNCHANGED <<talk, rows, startup, debounce, guestSince, guest, asking, log, seqNo, sent>>
  BY <1>2 DEF PushFails, Forgotten, guestSide, patchLog
<1>4. /\ outgoing' \in Seq(Deliveries) /\ Len(outgoing') = Len(outgoing) - 1
      /\ \A i \in 1 .. Len(outgoing') : outgoing'[i] = outgoing[i + 1] /\ i + 1 \in 1 .. Len(outgoing)
  BY <1>1, <1>3
<1>5. PanelTypeOK'
  BY <1>3, <1>4 DEF PanelInv, PanelTypeOK
<1>6. QueuedIsLast' /\ (outgoing' = <<>> => lastQueued' = NoState)
  <2>1. CASE outgoing' = <<>>
    <3>1. Len(outgoing) = 1
      <4>1. Len(outgoing') = 0
        BY <2>1
      <4> QED BY <1>1, <1>4, <4>1
    <3>2. outgoing[Len(outgoing)] = d
      BY <1>2, <3>1
    <3>3. lastQueued' = NoState
      BY <1>1, <1>3, <3>2 DEF PanelInv, PushesAreKnown, QueuedIsLast
    <3> QED BY <3>3 DEF QueuedIsLast
  <2>2. CASE outgoing' # <<>>
    <3>1. outgoing'[Len(outgoing')] = outgoing[Len(outgoing)]
      BY <1>1, <1>4, <2>2
    <3> QED BY <1>1, <1>3, <2>2, <3>1 DEF PanelInv, PushesAreKnown, QueuedIsLast
  <2> QED BY <2>1, <2>2
<1>7. RowsAreQueued' /\ LogEndsWithSent'
  BY <1>3 DEF PanelInv, PushesAreKnown, RowsAreQueued, LogEndsWithSent
<1>8. GuestFollows'
  BY <1>3, <1>6 DEF GuestFollows
<1> QED BY <1>3, <1>5, <1>6, <1>7, <1>8 DEF PanelInv, PushesAreKnown

\* The guest's own steps.
LEMMA GuestMountsKeeps ==
  ASSUME PanelInv, GuestMounts
  PROVE  PanelInv'
<1>1. /\ guestSince' = NotStarted /\ guest' = [talk |-> 0, rows |-> 0]
      /\ UNCHANGED <<talk, rows, startup, debounce, lastQueued, lastInventory, outgoing, asking, log,
                     seqNo, lost, sent>>
  BY DEF GuestMounts, daemonSide, patchLog
<1>2. PanelTypeOK'
  <2>1. guestSince' \in NotStarted .. seqNo' /\ 0 \in Revisions
    BY <1>1, PanelNumbers DEF NotStarted, PanelInv, Revisions
  <2> QED BY <1>1, <2>1 DEF PanelInv, PanelTypeOK
<1>3. PushesAreKnown'
  BY <1>1 DEF PanelInv, PushesAreKnown, QueuedIsLast, RowsAreQueued, LogEndsWithSent, LastRows
<1>4. guestSince' # seqNo'
  BY <1>1 DEF PanelInv, NotStarted
<1> QED BY <1>1, <1>2, <1>3, <1>4 DEF PanelInv, GuestFollows

LEMMA PollStartsKeeps ==
  ASSUME PanelInv, PollStarts
  PROVE  PanelInv'
<1>1. /\ guestSince' = seqNo /\ asking' = asking + 1 /\ asking' \in 0 .. 2 /\ asking' # 0
      /\ UNCHANGED <<talk, rows, startup, debounce, lastQueued, lastInventory, outgoing, guest, log,
                     seqNo, lost, sent>>
  BY DEF PollStarts, daemonSide, patchLog, PanelInv, PanelTypeOK
<1>2. PanelTypeOK'
  <2>1. guestSince' \in NotStarted .. seqNo'
    BY <1>1 DEF NotStarted, PanelInv
  <2> QED BY <1>1, <2>1 DEF PanelInv, PanelTypeOK
<1>3. PushesAreKnown'
  BY <1>1 DEF PanelInv, PushesAreKnown, QueuedIsLast, RowsAreQueued, LogEndsWithSent, LastRows
<1> QED BY <1>1, <1>2, <1>3 DEF PanelInv, GuestFollows

LEMMA PollAnswersKeeps ==
  ASSUME PanelInv, PollAnswers
  PROVE  PanelInv'
<1>1. /\ guestSince' = seqNo
      /\ guest' = [talk |-> IF Fulls = {} THEN guest.talk ELSE log[Max(Fulls)].talk,
                   rows |-> log[Len(log)].rows]
      /\ guestSince # NotStarted /\ ~FellBehind /\ seqNo > guestSince
      /\ UNCHANGED <<talk, rows, startup, debounce, lastQueued, lastInventory, outgoing, asking, log,
                     seqNo, lost, sent>>
  BY DEF PollAnswers, daemonSide, patchLog
<1>2. log \in Seq(Deliveries) /\ seqNo \in Nat /\ guestSince \in Int /\ guest \in [talk : Revisions, rows : Revisions]
  BY DEF PanelInv, PanelTypeOK, NotStarted
<1>3. Len(log) \in 1 .. Len(log) /\ log # <<>>
  BY <1>1, <1>2 DEF FellBehind
<1>4. ASSUME Fulls # {}
      PROVE  Max(Fulls) \in 1 .. Len(log) /\ log[Max(Fulls)].talk = sent.talk
  <2>1. PICK i \in 1 .. Len(log) : i > Len(log) - (seqNo - guestSince) /\ log[i].full
    BY <1>4 DEF Fulls, Unread
  <2>2. PICK m \in 1 .. Len(log) : /\ log[m].full /\ log[m].talk = sent.talk
                                   /\ \A j \in 1 .. Len(log) : j > m => ~log[j].full
    BY <2>1 DEF PanelInv, PushesAreKnown, LogEndsWithSent
  <2>3. i <= m
    BY <1>2, <2>1, <2>2
  <2>4. m > Len(log) - (seqNo - guestSince)
    BY <1>2, <2>1, <2>3
  <2>5. m \in Fulls
    BY <2>2, <2>4 DEF Fulls, Unread
  <2>6. \A y \in Fulls : y \in 1 .. Len(log) /\ m >= y
    BY <1>2, <2>2 DEF Fulls, Unread
  <2>7. \A x \in Fulls : (\A y \in Fulls : x >= y) => x = m
    BY <2>5, <2>6
  <2>8. Max(Fulls) = m
    BY <2>5, <2>6, <2>7 DEF Max
  <2> QED BY <2>2, <2>8
<1>5. /\ guest' \in [talk : Revisions, rows : Revisions]
      /\ guest'.rows = sent.rows
      /\ guest'.talk = IF Fulls = {} THEN guest.talk ELSE sent.talk
  <2>1. log[Len(log)] \in Deliveries /\ (Fulls # {} => log[Max(Fulls)] \in Deliveries)
    BY <1>2, <1>3, <1>4
  <2>2. PICK n : n = IF Fulls = {} THEN guest.talk ELSE log[Max(Fulls)].talk
    OBVIOUS
  <2>3. n \in Revisions /\ n = IF Fulls = {} THEN guest.talk ELSE sent.talk
    BY <1>2, <1>4, <2>1, <2>2 DEF Deliveries
  <2>4. log[Len(log)].rows \in Revisions /\ log[Len(log)].rows = sent.rows
    BY <1>3, <2>1 DEF Deliveries, PanelInv, PushesAreKnown, LogEndsWithSent
  <2> QED BY <1>1, <2>2, <2>3, <2>4
<1>6. PanelTypeOK'
  <2>1. guestSince' \in NotStarted .. seqNo'
    BY <1>1, <1>2 DEF NotStarted
  <2> QED BY <1>1, <1>5, <2>1 DEF PanelInv, PanelTypeOK
<1>7. PushesAreKnown'
  BY <1>1 DEF PanelInv, PushesAreKnown, QueuedIsLast, RowsAreQueued, LogEndsWithSent, LastRows
<1>8. GuestFollows'
  BY <1>1, <1>5 DEF PanelInv, GuestFollows
<1> QED BY <1>1, <1>6, <1>7, <1>8 DEF PanelInv

LEMMA PanelInitInv == PanelInit => PanelInv
<1> SUFFICES ASSUME PanelInit PROVE PanelInv
  OBVIOUS
<1>1. 0 \in Revisions /\ 1 \in Revisions
  BY PanelNumbers DEF Revisions
<1>2. Len(log) = 0 /\ log = <<>> /\ outgoing = <<>> /\ seqNo = 0 /\ lost = {}
  BY DEF PanelInit
<1>3. PanelTypeOK
  <2>1. guest = [talk |-> 0, rows |-> 0] /\ sent = [talk |-> 0, rows |-> 0]
    BY DEF PanelInit
  <2>2. guest \in [talk : Revisions, rows : Revisions] /\ sent \in [talk : Revisions, rows : Revisions]
    BY <1>1, <2>1
  <2>3. log \in Seq(Deliveries) /\ outgoing \in Seq(Deliveries) /\ Len(log) <= PatchLog
    BY <1>2, PanelNumbers
  <2>4. guestSince \in NotStarted .. seqNo
    BY DEF PanelInit, NotStarted
  <2>5. talk = 1 /\ rows = 1 /\ lastQueued = NoState /\ lastInventory = NotQueued /\ startup = "connecting"
        /\ debounce = FALSE /\ asking = 0
    BY DEF PanelInit
  <2>6. asking \in 0 .. 2 /\ debounce \in BOOLEAN /\ lost \subseteq {"rows", "talk"}
    <3>1. asking \in 0 .. 2
      BY <2>5
    <3>2. debounce \in BOOLEAN
      BY <2>5, Zenon
    <3> QED BY <1>2, <3>1, <3>2
  <2>7. {talk, rows} \subseteq Revisions /\ {guest, sent} \subseteq [talk : Revisions, rows : Revisions]
    BY <1>1, <2>2, <2>5
  <2>8. lastQueued \in {NoState} \cup (Revisions \X Revisions) /\ lastInventory \in {NotQueued} \cup Revisions
    BY <2>5, Zenon
  <2>9. startup \in {"connecting", "starting", "ready"}
    BY <2>5
  <2> QED BY <2>3, <2>4, <2>6, <2>7, <2>8, <2>9, Zenon DEF PanelTypeOK
<1>4. PushesAreKnown
  BY DEF PanelInit, PushesAreKnown, QueuedIsLast, RowsAreQueued, LogEndsWithSent, LastRows
<1>5. GuestFollows
  BY DEF PanelInit, GuestFollows, NotStarted
<1> QED BY <1>2, <1>3, <1>4, <1>5 DEF PanelInv

LEMMA PanelStepInv == PanelInv /\ [PanelNext]_panelVars => PanelInv'
<1> SUFFICES ASSUME PanelInv, [PanelNext]_panelVars PROVE PanelInv'
  OBVIOUS
<1>0. talk \in Revisions /\ rows \in Revisions /\ startup \in {"connecting", "starting", "ready"}
      /\ debounce \in BOOLEAN /\ asking \in 0 .. 2
  BY DEF PanelInv, PanelTypeOK
<1>1. CASE ControllerRevises
  <2>1. /\ talk' \in Revisions /\ debounce' \in BOOLEAN
        /\ UNCHANGED <<rows, startup, lastQueued, lastInventory, outgoing, guestSince, guest, asking,
                       log, seqNo, lost, sent>>
    BY <1>0, <1>1, PanelNumbers DEF ControllerRevises, Revisions, guestSide, patchLog
  <2> QED BY <2>1 DEF PanelInv, PanelTypeOK, PushesAreKnown, QueuedIsLast, RowsAreQueued, LogEndsWithSent, LastRows,
            GuestFollows, FellBehind, Fulls, Unread
<1>2. CASE DebounceEnds \/ PushAgain
  BY <1>0, <1>2, PushNowKeeps DEF DebounceEnds, PushAgain
<1>3. CASE CatalogPublishes
  BY <1>0, <1>3, PanelNumbers, QueueKeeps DEF CatalogPublishes, guestSide, Revisions
<1>4. CASE StartupGoesOn
  BY <1>0, <1>4, PanelNumbers, QueueKeeps DEF StartupGoesOn, guestSide, Revisions
<1>5. CASE Mounted
  <2>1. asking' \in 0 .. 2 /\ UNCHANGED <<talk, rows, startup, debounce, guestSince, guest, patchLog, sent>>
    BY <1>0, <1>5 DEF Mounted
  <2> QED BY <1>0, <1>5, <2>1, QueueKeeps DEF Mounted
<1>6. CASE UNCHANGED panelVars
  BY <1>6 DEF panelVars, daemonSide, guestSide, patchLog, PanelInv, PanelTypeOK, PushesAreKnown, QueuedIsLast,
     RowsAreQueued, LogEndsWithSent, LastRows, GuestFollows, FellBehind, Fulls, Unread
<1> QED BY <1>1, <1>2, <1>3, <1>4, <1>5, <1>6, DeliveredKeeps, FailureKeeps, GuestMountsKeeps, PollStartsKeeps,
      PollAnswersKeeps DEF PanelNext

LEMMA PanelInvHolds ==
  ASSUME PanelInv PROVE QuietGuestIsCurrent
<1> SUFFICES ASSUME Quiet PROVE /\ "rows" \notin lost => guest.rows = rows
                                /\ "talk" \notin lost => guest.talk = sent.talk
  BY DEF QuietGuestIsCurrent
<1>1. outgoing = <<>> /\ asking = 0 /\ guestSince = seqNo /\ lastInventory # NotQueued
  BY DEF Quiet
<1>2. "rows" \notin lost => guest.rows = rows
  BY <1>1 DEF PanelInv, GuestFollows, PushesAreKnown, RowsAreQueued, LastRows
<1>3. guestSince # NotStarted /\ ~FellBehind /\ Fulls = {}
  BY <1>1 DEF PanelInv, PanelTypeOK, NotStarted, FellBehind, Fulls, Unread
<1>4. \A i \in 1 .. Len(outgoing) : ~outgoing[i].full
  BY <1>1
<1> QED BY <1>1, <1>2, <1>3, <1>4 DEF PanelInv, GuestFollows

THEOREM QuietGuests == PanelSpec => []QuietGuestIsCurrent
<1>1. PanelSpec => []PanelInv
  BY PanelInitInv, PanelStepInv, PTL DEF PanelSpec
<1> QED BY <1>1, PanelInvHolds, PTL

(***************************************************************************)
(* Side by side                                                            *)
(***************************************************************************)

\* A step of the sum is one of the part that moves.
LEMMA PartSteps ==
  ASSUME [ServicesNext]_<<part, ServiceVars>>
  PROVE  /\ part' = part
         /\ part = "chats" => [ChatNext]_chatVars
         /\ part = "session" => [SessionNext]_sessionVars
         /\ part = "moves" => [MovesNext]_moveVars
         /\ part = "panel" => [PanelNext]_panelVars
         /\ part = "selection" => [SelectionNext]_selectionVars
         /\ part = "link" => [LinkNext]_linkVars
         /\ part = "debugger" => [RelayNext]_relayVars
         /\ part = "ports" => [TabNext]_tabVars
         /\ part = "remote" => [RemoteNext]_remoteVars
         /\ part = "routes" => [RoutesNext]_routeVars
         /\ part = "install" => [InstallNext]_installVars
<1>1. \/ Relaying \/ Session \/ Moves \/ Shows \/ Selects \/ Links \/ Relays \/ Mounts \/ Reaches
      \/ Serves \/ Installs
      \/ UNCHANGED <<part, ServiceVars>>
  BY DEF ServicesNext
<1>2. part' = part
  BY <1>1 DEF Relaying, Session, Moves, Shows, Selects, Links, Relays, Mounts, Reaches, Serves,
              Installs, OthersRest
<1>3. CASE UNCHANGED <<part, ServiceVars>>
  BY <1>3 DEF ServiceVars
<1>4. CASE Relaying
  BY <1>2, <1>4 DEF Relaying
<1>5. CASE Session
  BY <1>2, <1>5 DEF Session
<1>6. CASE Moves
  BY <1>2, <1>6 DEF Moves
<1>7. CASE Shows
  BY <1>2, <1>7 DEF Shows
<1>8. CASE Selects
  BY <1>2, <1>8 DEF Selects
<1>9. CASE Links
  BY <1>2, <1>9 DEF Links
<1>10. CASE Relays
  BY <1>2, <1>10 DEF Relays
<1>11. CASE Mounts
  BY <1>2, <1>11 DEF Mounts
<1>12. CASE Reaches
  BY <1>2, <1>12 DEF Reaches
<1>13. CASE Serves
  BY <1>2, <1>13 DEF Serves
<1>14. CASE Installs
  BY <1>2, <1>14 DEF Installs
<1> QED BY <1>1, <1>3, <1>4, <1>5, <1>6, <1>7, <1>8, <1>9, <1>10, <1>11, <1>12, <1>13, <1>14

\* The daemon's invariant in the sum: the one of the part that moves.
DaemonInv ==
  /\ part \in {"chats", "session", "moves", "panel", "selection", "link", "debugger", "ports",
              "remote", "routes", "install"}
  /\ part = "moves" => QueueIsTried
  /\ part = "selection" => SelectionInv
  /\ part = "panel" => PanelInv

LEMMA DaemonInvHolds == ServicesSpec => []DaemonInv
<1>1. ServicesInit => DaemonInv
  BY MovesInitInv, SelectionInitInv, PanelInitInv DEF ServicesInit, DaemonInv
<1>2. DaemonInv /\ [ServicesNext]_<<part, ServiceVars>> => DaemonInv'
  BY PartSteps, MovesStepInv, SelectionStepInv, PanelStepInv DEF DaemonInv
<1> QED BY <1>1, <1>2, PTL DEF ServicesSpec

\* For every instance: a session that waits for its terminal is tried
\* (daemon.ts), the conversation tapped last is the one shown (daemon.ts), and a
\* panel nothing is on its way to shows the current state (widget-delivery.ts).
THEOREM DaemonComesToRest == ServicesSpec => []DaemonSettles
<1>1. DaemonInv => DaemonSettles
  BY QueueInvHolds, PanelInvHolds DEF DaemonInv, DaemonSettles, SelectionInv
<1> QED BY <1>1, DaemonInvHolds, PTL

\* The extension's invariant in the sum, likewise.
TablesInv ==
  /\ part \in {"chats", "session", "moves", "panel", "selection", "link", "debugger", "ports",
              "remote", "routes", "install"}
  /\ part = "link" => LinkInv
  /\ part = "debugger" => RelayTimerInv
  /\ part = "ports" => TabInv
  /\ part = "remote" => RemoteInv
  /\ part = "install" => InstallInv

LEMMA TablesInvStep ==
  ASSUME OneShell, TablesInv, [ServicesNext]_<<part, ServiceVars>>
  PROVE  TablesInv'
BY PartSteps, LinkStepInv, RelayStepInv, TabStepInv, RemoteStepInv, InstallStepInv DEF TablesInv

\* For every instance in which commands are typed in one terminal at a time: what
\* is kept about the browser is what the browser has - the panels that are open
\* and the ports of each tab and the debugger's relays (background.ts),
\* remote access (remote-access.ts) and the native manifests
\* (native-install.ts).
THEOREM TablesAreTrue ==
  ASSUME OneShell
  PROVE  ServicesSpec => []ExtensionTablesTrue
<1>1. ServicesInit => TablesInv
  BY LinkInitInv, RelayInitInv, TabInitInv, RemoteInitInv, InstallInitInv DEF ServicesInit, TablesInv
<1>2. TablesInv /\ [ServicesNext]_<<part, ServiceVars>> => TablesInv'
  BY TablesInvStep
<1>3. TablesInv => ExtensionTablesTrue
  <2>1. RelayTimerInv => UnusedRelayIsTimed
    BY DEF RelayTimerInv
  <2>2. InstallInv => ManifestHasItsLauncher
    BY DEF InstallInv
  <2> QED BY <2>1, <2>2, LinkInvHolds, TabInvHolds, RemoteInvHolds DEF TablesInv, ExtensionTablesTrue
<1> QED BY <1>1, <1>2, <1>3, PTL DEF ServicesSpec

\* What keeps every part's state typed, in the sum: its types with what else its steps
\* rely on. QueueIsTried says that the retry timer of the moves is on or off.
TypesInv ==
  /\ part \in {"chats", "session", "moves", "panel", "selection", "link", "debugger", "ports",
              "remote", "routes", "install"}
  /\ part = "chats" => RelayInv
  /\ part = "session" => SessionInv
  /\ part = "moves" => QueueIsTried /\ MovesTypesInv
  /\ part = "panel" => PanelInv
  /\ part = "selection" => TapsInv
  /\ part = "link" => PanelLinkInv
  /\ part = "debugger" => RelayTypesInv
  /\ part = "ports" => TabTypesInv
  /\ part = "remote" => RemoteTypesInv
  /\ part = "routes" => RoutesInv
  /\ part = "install" => InstallTypeOK

LEMMA TypesInvInit == ServicesInit => TypesInv
<1> SUFFICES ASSUME ServicesInit PROVE TypesInv
  OBVIOUS
<1>1. RelayInv /\ SessionInv /\ RoutesInv
  BY InitRelayInv, InvInit, RoutesInvInit DEF ServicesInit
<1>2. QueueIsTried /\ MovesTypesInv /\ PanelInv /\ TapsInv
  BY MovesInitInv, MovesTypesInit, PanelInitInv, TapsInitInv DEF ServicesInit
<1>3. PanelLinkInv /\ RelayTypesInv /\ TabTypesInv /\ RemoteTypesInv /\ InstallTypeOK
  BY PanelLinkInitInv, RelayTypesInit, TabTypesInit, RemoteTypesInit, InstallTypesInit DEF ServicesInit
<1> QED BY <1>1, <1>2, <1>3 DEF ServicesInit, TypesInv

LEMMA TypesInvStep == TypesInv /\ [ServicesNext]_<<part, ServiceVars>> => TypesInv'
<1> SUFFICES ASSUME TypesInv, [ServicesNext]_<<part, ServiceVars>>
             PROVE  TypesInv'
  OBVIOUS
<1>1. part' = part
  BY PartSteps
<1>2. ASSUME part = "chats" PROVE RelayInv'
  BY <1>2, PartSteps, NextRelayInv DEF TypesInv
<1>3. ASSUME part = "session" PROVE SessionInv'
  BY <1>3, PartSteps, InvNext DEF TypesInv
<1>4. ASSUME part = "moves" PROVE (QueueIsTried /\ MovesTypesInv)'
  BY <1>4, PartSteps, MovesStepInv, QueueTypesKept, MovesRestKept DEF TypesInv, MovesTypesInv
<1>5. ASSUME part = "panel" PROVE PanelInv'
  BY <1>5, PartSteps, PanelStepInv DEF TypesInv
<1>6. ASSUME part = "selection" PROVE TapsInv'
  BY <1>6, PartSteps, TapsStepInv DEF TypesInv
<1>7. ASSUME part = "link" PROVE PanelLinkInv'
  BY <1>7, PartSteps, PanelLinkStepInv DEF TypesInv
<1>8. ASSUME part = "debugger" PROVE RelayTypesInv'
  BY <1>8, PartSteps, RelayTypesStep DEF TypesInv
<1>9. ASSUME part = "ports" PROVE TabTypesInv'
  BY <1>9, PartSteps, TabTypesStep DEF TypesInv
<1>10. ASSUME part = "remote" PROVE RemoteTypesInv'
  BY <1>10, PartSteps, RemoteTypesStep DEF TypesInv
<1>11. ASSUME part = "routes" PROVE RoutesInv'
  BY <1>11, PartSteps, RoutesInvNext DEF TypesInv
<1>12. ASSUME part = "install" PROVE InstallTypeOK'
  BY <1>12, PartSteps, InstallTypesStep DEF TypesInv
<1> QED BY <1>1, <1>2, <1>3, <1>4, <1>5, <1>6, <1>7, <1>8, <1>9, <1>10, <1>11, <1>12 DEF TypesInv

\* For every instance the state of every service keeps its types. Those hold the
\* code's own limits: the intents kept for the host and the captures and events
\* kept for a page (background.ts), the patch log (widget-delivery.ts), a phone's
\* attempts to sign in (remote-access.ts), the redirects of a fetch and the session's
\* videos (worker.ts). A session waits once for its terminal (daemon.ts
\* terminalMoves), and of a relay's commands in flight those not yet sent are a
\* part (background.ts).
THEOREM ServicesAreTyped == ServicesSpec => []ServicesTypeOK
<1>1. TypesInv => ServicesTypeOK
  <2>1. RelayInv => ChatTypeOK
    BY DEF RelayInv
  <2>2. SessionInv => SessionTypeOK
    BY DEF SessionInv
  <2>3. PanelInv => PanelTypeOK
    BY DEF PanelInv
  <2>4. TapsInv => SelectionTypeOK
    BY DEF TapsInv
  <2>5. RoutesInv => RoutesTypeOK
    BY DEF RoutesInv, RoutesTypeOK, RequestState
  <2> SUFFICES ASSUME TypesInv PROVE ServicesTypeOK
    OBVIOUS
  <2>6. part \in {"chats", "session", "moves", "panel", "selection", "link", "debugger", "ports",
                "remote", "routes", "install"}
    BY DEF TypesInv
  <2>7. CASE part = "chats"
    BY <2>7, <2>1 DEF TypesInv, ServicesTypeOK
  <2>8. CASE part = "session"
    BY <2>8, <2>2 DEF TypesInv, ServicesTypeOK
  <2>9. CASE part = "moves"
    BY <2>9, MovesTypesHold DEF TypesInv, ServicesTypeOK
  <2>10. CASE part = "panel"
    BY <2>10, <2>3 DEF TypesInv, ServicesTypeOK
  <2>11. CASE part = "selection"
    BY <2>11, <2>4 DEF TypesInv, ServicesTypeOK
  <2>12. CASE part = "routes"
    BY <2>12, <2>5 DEF TypesInv, ServicesTypeOK
  <2>13. CASE part = "link"
    BY <2>13, PanelLinkTyped DEF TypesInv, ServicesTypeOK
  <2>14. CASE part = "debugger"
    BY <2>14, RelayTypesHold DEF TypesInv, ServicesTypeOK
  <2>15. CASE part = "ports"
    BY <2>15, TabTypesHold DEF TypesInv, ServicesTypeOK
  <2>16. CASE part = "remote"
    BY <2>16, RemoteTypesHold DEF TypesInv, ServicesTypeOK
  <2>17. CASE part = "install"
    BY <2>17 DEF TypesInv, ServicesTypeOK
  <2> QED
    BY <2>6, <2>7, <2>8, <2>9, <2>10, <2>11, <2>12, <2>13, <2>14, <2>15, <2>16, <2>17
<1> QED BY <1>1, TypesInvInit, TypesInvStep, PTL DEF ServicesSpec
=============================================================================
