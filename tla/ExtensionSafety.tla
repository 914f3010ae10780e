--------------------------- MODULE ExtensionSafety ---------------------------
(***************************************************************************)
(* Proofs, for any values of the constants, about the tables the extension *)
(* and the command line keep of the browser: the ports of a tab            *)
(* (TabPorts), the link to the native host (ExtensionLink), the debugger's *)
(* relays (DebuggerRelay), remote access (RemoteAccess) and the native     *)
(* install (NativeInstall), each with its types.                           *)
(***************************************************************************)
EXTENDS ExtensionLink, DebuggerRelay, TabPorts, RemoteAccess, NativeInstall,
        FiniteSetTheorems, SequenceTheorems, WellFoundedInduction, TLAPS

(***************************************************************************)
(* The ports of a tab                                                      *)
(***************************************************************************)
\* A set of numbers that is not empty has a least one: induction, where the sets are given.
LEMMA LeastNumber == ASSUME NEW T, T \subseteq Nat, T # {} PROVE \E x \in T : \A y \in T : x <= y
<1>1. PICK x \in T : \A y \in T : ~(<<y, x>> \in OpToRel(<, Nat))
  BY WFMin, NatLessThanWellFounded
<1>2. \A y \in T : ~(y < x)
  BY <1>1 DEF OpToRel
<1> QED BY <1>2

\* The sequence that Among builds, up to each place of s.
AmongStep(f, s, those, i) ==
  f[i] = IF i = 0 THEN <<>> ELSE IF s[i] \in those THEN Append(f[i - 1], s[i]) ELSE f[i - 1]

LEMMA AmongExists ==
  ASSUME NEW t, NEW s \in Seq(t), NEW those
  PROVE  \A n \in 0 .. Len(s) : \E f \in [0 .. n -> Seq(t)] : \A i \in 0 .. n : AmongStep(f, s, those, i)
<1> DEFINE Good(n) == \E f \in [0 .. n -> Seq(t)] : \A i \in 0 .. n : AmongStep(f, s, those, i)
           Bad == {n \in 0 .. Len(s) : ~Good(n)}
<1>0. Len(s) \in Nat
  BY LenProperties
<1>1. Good(0)
  <2> DEFINE f == [i \in 0 .. 0 |-> <<>>]
  <2>1. f \in [0 .. 0 -> Seq(t)] /\ \A i \in 0 .. 0 : AmongStep(f, s, those, i)
    BY DEF AmongStep
  <2> QED BY <2>1
<1>2. ASSUME NEW n \in 1 .. Len(s), Good(n - 1) PROVE Good(n)
  <2>1. PICK f \in [0 .. n - 1 -> Seq(t)] : \A i \in 0 .. n - 1 : AmongStep(f, s, those, i)
    BY <1>2
  <2> DEFINE e == IF s[n] \in those THEN Append(f[n - 1], s[n]) ELSE f[n - 1]
             g == [i \in 0 .. n |-> IF i = n THEN e ELSE f[i]]
  <2>2. s[n] \in t /\ f[n - 1] \in Seq(t)
    BY <1>0, ElementOfSeq
  <2>3. e \in Seq(t)
    BY <2>2, AppendProperties
  <2> HIDE DEF e
  <2>4. g \in [0 .. n -> Seq(t)]
    BY <1>0, <2>3
  <2>5. ASSUME NEW i \in 0 .. n PROVE AmongStep(g, s, those, i)
    <3>1. CASE i = n
      BY <1>0, <3>1 DEF AmongStep, e
    <3>2. CASE i # n
      <4>1. i \in 0 .. n - 1 /\ g[i] = f[i] /\ (i # 0 => g[i - 1] = f[i - 1])
        BY <1>0, <3>2
      <4> QED BY <2>1, <4>1 DEF AmongStep
    <3> QED BY <3>1, <3>2
  <2> QED BY <2>4, <2>5
<1>3. SUFFICES ASSUME Bad # {} PROVE FALSE
  OBVIOUS
<1> HIDE DEF Good
<1>4. PICK n \in Bad : \A y \in Bad : n <= y
  <2>1. Bad \subseteq Nat
    BY <1>0
  <2> HIDE DEF Bad
  <2> QED BY <1>3, <2>1, LeastNumber
<1>5. n # 0 /\ n \in 0 .. Len(s) /\ ~Good(n)
  BY <1>1, <1>4
<1>6. n - 1 \notin Bad /\ n - 1 \in 0 .. Len(s)
  BY <1>0, <1>4, <1>5
<1>7. Good(n - 1) /\ n \in 1 .. Len(s)
  BY <1>0, <1>5, <1>6
<1> QED BY <1>2, <1>5, <1>7

\* Among keeps of s what is among those, and nothing else.
LEMMA AmongKeeps ==
  ASSUME NEW t, NEW s \in Seq(t), NEW those
  PROVE  /\ Among(s, those) \in Seq(t)
         /\ \A x : (\E i \in 1 .. Len(Among(s, those)) : Among(s, those)[i] = x)
                     <=> x \in those /\ \E i \in 1 .. Len(s) : s[i] = x
<1> DEFINE upTo == CHOOSE f : f = [i \in 0 .. Len(s) |->
              IF i = 0 THEN <<>> ELSE IF s[i] \in those THEN Append(f[i - 1], s[i]) ELSE f[i - 1]]
<1>0. Len(s) \in Nat
  BY LenProperties
<1>1. Among(s, those) = upTo[Len(s)]
  BY DEF Among
<1>2. PICK g \in [0 .. Len(s) -> Seq(t)] : \A i \in 0 .. Len(s) : AmongStep(g, s, those, i)
  <2>1. Len(s) \in 0 .. Len(s)
    BY <1>0
  <2>2. \A n \in 0 .. Len(s) : \E f \in [0 .. n -> Seq(t)] : \A i \in 0 .. n : AmongStep(f, s, those, i)
    BY AmongExists
  <2> QED BY <2>1, <2>2
<1>3. g = [i \in 0 .. Len(s) |->
              IF i = 0 THEN <<>> ELSE IF s[i] \in those THEN Append(g[i - 1], s[i]) ELSE g[i - 1]]
  BY <1>2 DEF AmongStep
<1>4. upTo = [i \in 0 .. Len(s) |->
              IF i = 0 THEN <<>> ELSE IF s[i] \in those THEN Append(upTo[i - 1], s[i]) ELSE upTo[i - 1]]
  BY <1>3
<1> HIDE DEF upTo
<1> DEFINE Seen(n, x) == \E i \in 1 .. n : s[i] = x
           Got(q, x) == \E i \in 1 .. Len(q) : q[i] = x
           Good(n) == upTo[n] \in Seq(t) /\ \A x : Got(upTo[n], x) <=> x \in those /\ Seen(n, x)
           Bad == {n \in 0 .. Len(s) : ~Good(n)}
<1>5. Good(0)
  BY <1>0, <1>4
<1>6. ASSUME NEW n \in 1 .. Len(s), Good(n - 1) PROVE Good(n)
  <2> DEFINE q == upTo[n - 1]
  <2>1. upTo[n] = IF s[n] \in those THEN Append(q, s[n]) ELSE q
    <3>1. n \in 0 .. Len(s) /\ n # 0
      BY <1>0
    <3>2. upTo[n] = IF n = 0 THEN <<>> ELSE IF s[n] \in those THEN Append(upTo[n - 1], s[n]) ELSE upTo[n - 1]
      BY <1>4, <3>1
    <3> QED BY <3>1, <3>2
  <2>2. q \in Seq(t) /\ s[n] \in t /\ \A x : Got(q, x) <=> x \in those /\ Seen(n - 1, x)
    BY <1>6, ElementOfSeq
  <2>3. \A x : Seen(n, x) <=> Seen(n - 1, x) \/ x = s[n]
    BY <1>0
  <2> HIDE DEF q, Seen
  <2>4. CASE s[n] \in those
    <3>1. upTo[n] = Append(q, s[n])
      BY <2>1, <2>4
    <3>2. /\ Append(q, s[n]) \in Seq(t) /\ Len(Append(q, s[n])) = Len(q) + 1 /\ Append(q, s[n])[Len(q) + 1] = s[n]
          /\ \A i \in 1 .. Len(q) : Append(q, s[n])[i] = q[i]
          /\ Len(q) \in Nat
      BY <2>2, AppendProperties, LenProperties
    <3>3. \A x : Got(Append(q, s[n]), x) <=> Got(q, x) \/ x = s[n]
      <4> DEFINE l == Append(q, s[n])
      <4> HIDE DEF l
      <4>1. Len(l) = Len(q) + 1 /\ l[Len(q) + 1] = s[n] /\ \A i \in 1 .. Len(q) : l[i] = q[i]
        BY <3>2 DEF l
      <4>2. \A x : Got(l, x) <=> Got(q, x) \/ x = s[n]
        <5>1. ASSUME NEW x, Got(l, x) PROVE Got(q, x) \/ x = s[n]
          <6>1. PICK i \in 1 .. Len(l) : l[i] = x
            BY <5>1
          <6>2. i = Len(q) + 1 \/ i \in 1 .. Len(q)
            BY <3>2, <4>1
          <6> QED BY <4>1, <6>1, <6>2
        <5>2. ASSUME NEW x, Got(q, x) \/ x = s[n] PROVE Got(l, x)
          <6>1. CASE Got(q, x)
            <7>1. PICK i \in 1 .. Len(q) : q[i] = x
              BY <6>1
            <7>2. i \in 1 .. Len(l) /\ l[i] = x
              BY <3>2, <4>1, <7>1
            <7> QED BY <7>2
          <6>2. CASE x = s[n]
            BY <3>2, <4>1, <6>2
          <6> QED BY <5>2, <6>1, <6>2
        <5> QED BY <5>1, <5>2
      <4> QED BY <4>2 DEF l
    <3> HIDE DEF Got
    <3> QED BY <2>2, <2>3, <2>4, <3>1, <3>2, <3>3
  <2>5. CASE s[n] \notin those
    <3> HIDE DEF Got
    <3> QED BY <2>1, <2>2, <2>3, <2>5
  <2> QED BY <2>4, <2>5
<1>7. Bad = {}
  <2>1. SUFFICES ASSUME Bad # {} PROVE FALSE
    OBVIOUS
  <2> HIDE DEF Good
  <2>2. PICK n \in Bad : \A y \in Bad : n <= y
    <3>1. Bad \subseteq Nat
      BY <1>0
    <3> HIDE DEF Bad
    <3> QED BY <2>1, <3>1, LeastNumber
  <2>3. n # 0 /\ n \in 0 .. Len(s) /\ ~Good(n)
    BY <1>5, <2>2
  <2>4. n - 1 \notin Bad /\ n - 1 \in 0 .. Len(s)
    BY <1>0, <2>2, <2>3
  <2>5. Good(n - 1) /\ n \in 1 .. Len(s)
    BY <1>0, <2>3, <2>4
  <2> QED BY <1>6, <2>3, <2>5
<1>8. Good(Len(s))
  <2>1. Len(s) \in 0 .. Len(s)
    BY <1>0
  <2> HIDE DEF Good
  <2> QED BY <1>7, <2>1
<1> QED BY <1>1, <1>8
\* What travels on the wires of a tab.
TabKinds  == {"hello", "restored", "remote", "shortcut", "bye", "capture", "surface", "revoked", "cleared", "event"}
TabMail   == TabKinds \X Nat
GuestMail == ({"hello", "bye"} \X {0}) \cup ({"capture"} \X Asks)

HasKind(q, k) == \E i \in 1 .. Len(q) : q[i][1] = k
HasMail(q, m) == \E i \in 1 .. Len(q) : q[i] = m

\* A port's hello comes first and its bye last.
InOrder(q) == \A i \in 1 .. Len(q) : (q[i][1] = "hello" => i = 1) /\ (q[i][1] = "bye" => i = Len(q))
SaidBye(q) == q = <<>> \/ HasKind(q, "bye")

TabTyped ==
  /\ visits \in Seq(BOOLEAN) /\ Len(visits) <= MaxVisits
  /\ fromContent \in [Visits -> Seq(TabMail)] /\ fromGuest \in [Visits -> Seq(GuestMail)]
  /\ toContent \in [Visits -> Seq(TabMail)] /\ toGuest \in [Visits -> Seq(TabMail)]
  /\ byTab \in 0 .. Len(visits) /\ guests \subseteq 1 .. Len(visits)
  /\ captures \in Seq(Captures) /\ events \in Seq(Nat)
  /\ restoredMark \in BOOLEAN /\ asks \in Nat

\* The page shown is the last one; with no page there is no messenger, and no promise.
PagesInTurn ==
  /\ pageShown \in {0, Len(visits)} /\ framed \in {0, pageShown}
  /\ pageShown = 0 => waitingAsks = {}

\* The ports of the page shown are open, those of the others have ended.
ContentInOrder == \A v \in Visits :
  /\ InOrder(fromContent[v])
  /\ v = pageShown => ~HasKind(fromContent[v], "bye")
  /\ v # pageShown => SaidBye(fromContent[v])
  /\ v > Len(visits) => fromContent[v] = <<>>

GuestsInOrder == \A v \in Visits :
  /\ InOrder(fromGuest[v])
  /\ v = pageShown => ~HasKind(fromGuest[v], "bye")
  /\ v # pageShown => SaidBye(fromGuest[v])
  /\ v > Len(visits) => fromGuest[v] = <<>>

\* A page that was restored says so behind its hello, and no other page does.
RestoredIsSaid == \A v \in 1 .. Len(visits) :
  /\ visits[v] /\ HasKind(fromContent[v], "hello") => HasKind(fromContent[v], "restored")
  /\ HasKind(fromContent[v], "restored") => visits[v]

\* Once a page was heard, no earlier one is still mounting.
MountsInTurn == \A v \in 1 .. Len(visits) :
  ~HasKind(fromContent[v], "hello") => \A u \in 1 .. v - 1 : ~Mounting(u)

\* The tab's port is the shown page's once that page was heard; until then it may be
\* that of a page whose end is still to be heard.
PortIsThePages ==
  /\ byTab # 0 => /\ ~HasKind(fromContent[byTab], "hello")
                  /\ byTab = pageShown \/ HasKind(fromContent[byTab], "bye")
  /\ pageShown # 0 /\ ~HasKind(fromContent[pageShown], "hello") => byTab = pageShown

\* The same of the guests.
GuestsAreThePages ==
  /\ \A v \in guests : v = pageShown \/ HasKind(fromGuest[v], "bye")
  /\ pageShown # 0 /\ framed # pageShown => fromGuest[pageShown] = <<>> /\ pageShown \notin guests
  /\ pageShown # 0 /\ framed = pageShown /\ ~HasKind(fromGuest[pageShown], "hello") => pageShown \in guests

\* The mark is the page's once it has mounted; its surface is asked for with its hello.
MarkIsThePages ==
  pageShown # 0 /\ ~Mounting(pageShown) => restoredMark = visits[pageShown]
SurfaceIsAsked ==
  pageShown # 0 /\ driven /\ ~visits[pageShown] /\ ~HasKind(fromContent[pageShown], "hello")
    => surfaceOf = pageShown \/ HasKind(toContent[pageShown], "surface")

\* A pending capture was asked of the page shown, which answers, or a disconnect is
\* to come that fails it.
CapturesEnd == \A k \in 1 .. Len(captures) :
  \/ \E u \in Visits : HasKind(fromContent[u], "bye")
  \/ /\ pageShown # 0
     /\ \/ HasMail(toContent[pageShown], <<"capture", captures[k].ask>>)
        \/ HasMail(fromContent[pageShown], <<"capture", captures[k].ask>>)

\* A promise of the messenger has its request on the way, pending, or answered.
PromisesEnd == \A a \in waitingAsks :
  \/ HasMail(fromGuest[pageShown], <<"capture", a>>)
  \/ \E k \in 1 .. Len(captures) : captures[k] = [ask |-> a, guest |-> pageShown]
  \/ HasMail(toGuest[pageShown], <<"capture", a>>)

\* The inductive invariant.
TabInv ==
  /\ TabTyped /\ PagesInTurn
  /\ ContentInOrder /\ RestoredIsSaid /\ MountsInTurn /\ PortIsThePages /\ MarkIsThePages
  /\ GuestsInOrder /\ GuestsAreThePages
  /\ SurfaceIsAsked /\ CapturesEnd /\ PromisesEnd

-----------------------------------------------------------------------------
LEMMA HeadAndTail ==
  ASSUME NEW t, NEW q \in Seq(t), q # <<>>
  PROVE  /\ Len(q) \in Nat \ {0} /\ Tail(q) \in Seq(t) /\ Len(Tail(q)) = Len(q) - 1
         /\ Head(q) = q[1] /\ Head(q) \in t /\ \A i \in 1 .. Len(q) - 1 : Tail(q)[i] = q[i + 1]
BY HeadTailProperties, LenProperties, EmptySeq

\* Reading a wire.
LEMMA TailHas ==
  ASSUME NEW t, NEW q \in Seq(t), q # <<>>
  PROVE  /\ \A k : HasKind(q, k) <=> Head(q)[1] = k \/ HasKind(Tail(q), k)
         /\ \A m : HasMail(q, m) <=> Head(q) = m \/ HasMail(Tail(q), m)
<1>1. /\ Len(q) \in Nat \ {0} /\ Len(Tail(q)) = Len(q) - 1
      /\ Head(q) = q[1] /\ \A i \in 1 .. Len(q) - 1 : Tail(q)[i] = q[i + 1]
  BY HeadAndTail
<1>2. ASSUME NEW i \in 1 .. Len(q)
      PROVE  q[i] = Head(q) \/ \E j \in 1 .. Len(Tail(q)) : Tail(q)[j] = q[i]
  <2>1. CASE i = 1
    BY <1>1, <2>1
  <2>2. CASE i # 1
    BY <1>1, <2>2
  <2> QED BY <2>1, <2>2
<1>3. ASSUME NEW j \in 1 .. Len(Tail(q))
      PROVE  \E i \in 1 .. Len(q) : q[i] = Tail(q)[j]
  BY <1>1
<1>4. \E i \in 1 .. Len(q) : q[i] = Head(q)
  <2>1. 1 \in 1 .. Len(q)
    BY <1>1
  <2> QED BY <1>1, <2>1
<1>5. ASSUME NEW k PROVE HasKind(q, k) <=> Head(q)[1] = k \/ HasKind(Tail(q), k)
  BY <1>2, <1>3, <1>4 DEF HasKind
<1>6. ASSUME NEW m PROVE HasMail(q, m) <=> Head(q) = m \/ HasMail(Tail(q), m)
  BY <1>2, <1>3, <1>4 DEF HasMail
<1> QED BY <1>5, <1>6

LEMMA OneOn ==
  ASSUME NEW n \in Nat \ {0}, NEW l, l = n - 1, NEW i \in 1 .. l
  PROVE  i \in 1 .. n - 1 /\ i + 1 \in 1 .. n /\ i + 1 # 1 /\ (i + 1 = n => i = l)
OBVIOUS

LEMMA TailInOrder ==
  ASSUME NEW t, NEW q \in Seq(t), q # <<>>, InOrder(q)
  PROVE  /\ InOrder(Tail(q)) /\ ~HasKind(Tail(q), "hello")
         /\ Head(q)[1] = "bye" => Tail(q) = <<>>
         /\ SaidBye(q) => SaidBye(Tail(q))
<1>1. /\ Len(q) \in Nat \ {0} /\ Len(Tail(q)) = Len(q) - 1 /\ Tail(q) \in Seq(t)
      /\ Head(q) = q[1] /\ \A i \in 1 .. Len(q) - 1 : Tail(q)[i] = q[i + 1]
  BY HeadAndTail
<1>2. ASSUME NEW i \in 1 .. Len(Tail(q))
      PROVE  Tail(q)[i][1] # "hello" /\ (Tail(q)[i][1] = "bye" => i = Len(Tail(q)))
  <2>0. /\ i \in 1 .. Len(q) - 1 /\ i + 1 \in 1 .. Len(q) /\ i + 1 # 1
        /\ i + 1 = Len(q) => i = Len(Tail(q))
    BY <1>1, OneOn
  <2>1. i + 1 \in 1 .. Len(q) /\ i + 1 # 1 /\ Tail(q)[i] = q[i + 1]
    BY <1>1, <2>0
  <2>2. q[i + 1][1] # "hello" /\ (q[i + 1][1] = "bye" => i + 1 = Len(q))
    BY <2>1 DEF InOrder
  <2>4. Tail(q)[i][1] # "hello"
    BY <2>1, <2>2
  <2>5. Tail(q)[i][1] = "bye" => i = Len(Tail(q))
    BY <2>0, <2>1, <2>2
  <2> QED BY <2>4, <2>5
<1>3. InOrder(Tail(q)) /\ ~HasKind(Tail(q), "hello")
  BY <1>2 DEF InOrder, HasKind
<1>4. ASSUME Head(q)[1] = "bye" PROVE Tail(q) = <<>>
  <2>1. 1 \in 1 .. Len(q)
    BY <1>1
  <2>2. Len(q) = 1
    BY <1>1, <1>4, <2>1 DEF InOrder
  <2>3. Len(Tail(q)) = 0
    BY <1>1, <2>2
  <2> QED BY <1>1, <2>3, EmptySeq
<1>5. SaidBye(q) => SaidBye(Tail(q))
  BY <1>4, TailHas DEF SaidBye
<1> QED BY <1>3, <1>4, <1>5

\* Sending on a wire.
LEMMA ConcatHas ==
  ASSUME NEW t, NEW q \in Seq(t), NEW ms \in Seq(t)
  PROVE  /\ q \o ms \in Seq(t)
         /\ \A k : HasKind(q \o ms, k) <=> HasKind(q, k) \/ HasKind(ms, k)
         /\ \A m : HasMail(q \o ms, m) <=> HasMail(q, m) \/ HasMail(ms, m)
<1> DEFINE l == q \o ms
<1>1. /\ l \in Seq(t) /\ Len(l) = Len(q) + Len(ms) /\ Len(q) \in Nat /\ Len(ms) \in Nat
      /\ \A i \in 1 .. Len(l) : l[i] = IF i <= Len(q) THEN q[i] ELSE ms[i - Len(q)]
  BY ConcatProperties, LenProperties
<1> HIDE DEF l
<1>2. ASSUME NEW i \in 1 .. Len(l)
      PROVE  (\E j \in 1 .. Len(q) : q[j] = l[i]) \/ (\E j \in 1 .. Len(ms) : ms[j] = l[i])
  <2>1. CASE i <= Len(q)
    BY <1>1, <2>1
  <2>2. CASE ~(i <= Len(q))
    BY <1>1, <2>2
  <2> QED BY <2>1, <2>2
<1>3. ASSUME NEW j \in 1 .. Len(q) PROVE \E i \in 1 .. Len(l) : l[i] = q[j]
  BY <1>1
<1>4. ASSUME NEW j \in 1 .. Len(ms) PROVE \E i \in 1 .. Len(l) : l[i] = ms[j]
  <2>1. Len(q) + j \in 1 .. Len(l) /\ ~(Len(q) + j <= Len(q)) /\ (Len(q) + j) - Len(q) = j
    BY <1>1
  <2>2. l[Len(q) + j] = ms[j]
    BY <1>1, <2>1
  <2> QED BY <2>1, <2>2
<1>5. ASSUME NEW k, HasKind(l, k) PROVE HasKind(q, k) \/ HasKind(ms, k)
  <2>1. PICK i \in 1 .. Len(l) : l[i][1] = k
    BY <1>5 DEF HasKind
  <2> QED BY <1>2, <2>1 DEF HasKind
<1>6. ASSUME NEW k, HasKind(q, k) \/ HasKind(ms, k) PROVE HasKind(l, k)
  BY <1>3, <1>4, <1>6 DEF HasKind
<1>7. ASSUME NEW m, HasMail(l, m) PROVE HasMail(q, m) \/ HasMail(ms, m)
  <2>1. PICK i \in 1 .. Len(l) : l[i] = m
    BY <1>7 DEF HasMail
  <2> QED BY <1>2, <2>1 DEF HasMail
<1>8. ASSUME NEW m, HasMail(q, m) \/ HasMail(ms, m) PROVE HasMail(l, m)
  BY <1>3, <1>4, <1>8 DEF HasMail
<1>9. \A k : HasKind(l, k) <=> HasKind(q, k) \/ HasKind(ms, k)
  BY <1>5, <1>6
<1>10. \A m : HasMail(l, m) <=> HasMail(q, m) \/ HasMail(ms, m)
  BY <1>7, <1>8
<1> QED BY <1>1, <1>9, <1>10 DEF l

LEMMA OneHas ==
  ASSUME NEW m
  PROVE  /\ \A k : HasKind(<<m>>, k) <=> m[1] = k
         /\ \A x : HasMail(<<m>>, x) <=> m = x
         /\ \A k : ~HasKind(<<>>, k)
         /\ \A x : ~HasMail(<<>>, x)
BY EmptySeq DEF HasKind, HasMail

\* One message more, of which a bye only comes once.
LEMMA SentInOrder ==
  ASSUME NEW t, NEW q \in Seq(t), NEW m \in t, InOrder(q), ~HasKind(q, "bye"), m[1] # "hello" \/ q = <<>>
  PROVE  InOrder(q \o <<m>>)
<1>1. /\ Len(q \o <<m>>) = Len(q) + 1 /\ Len(q) \in Nat
      /\ (q \o <<m>>)[Len(q) + 1] = m /\ \A i \in 1 .. Len(q) : (q \o <<m>>)[i] = q[i]
  BY AppendIsConcat, AppendProperties, LenProperties
<1>2. q = <<>> => Len(q) = 0
  BY EmptySeq
<1>3. ASSUME NEW i \in 1 .. Len(q \o <<m>>)
      PROVE  /\ (q \o <<m>>)[i][1] = "hello" => i = 1
             /\ (q \o <<m>>)[i][1] = "bye" => i = Len(q \o <<m>>)
  <2>1. CASE i = Len(q) + 1
    BY <1>1, <1>2, <2>1
  <2>2. CASE i # Len(q) + 1
    <3>1. i \in 1 .. Len(q)
      BY <1>1, <2>2
    <3> QED BY <1>1, <3>1 DEF InOrder, HasKind
  <2> QED BY <2>1, <2>2
<1> QED BY <1>3 DEF InOrder

LEMMA SendsOn ==
  ASSUME NEW t, NEW wire \in [Visits -> Seq(t)], NEW v \in Visits, NEW ms \in Seq(t)
  PROVE  /\ Sends(wire, v, ms) \in [Visits -> Seq(t)]
         /\ Sends(wire, v, ms)[v] = wire[v] \o ms
         /\ \A u \in Visits : u # v => Sends(wire, v, ms)[u] = wire[u]
         /\ \A u \in Visits : \A m : HasMail(wire[u], m) => HasMail(Sends(wire, v, ms)[u], m)
         /\ \A u \in Visits : \A k : HasKind(wire[u], k) => HasKind(Sends(wire, v, ms)[u], k)
         /\ \A m : HasMail(ms, m) => HasMail(Sends(wire, v, ms)[v], m)
         /\ \A k : HasKind(Sends(wire, v, ms)[v], k) <=> HasKind(wire[v], k) \/ HasKind(ms, k)
BY ConcatHas DEF Sends

\* What a wire carries once it was read from.
IsRead(new, wire, v) ==
  /\ new[v] = Tail(wire[v])
  /\ \A u \in Visits : u # v => new[u] = wire[u]
  /\ \A k : HasKind(wire[v], k) <=> Head(wire[v])[1] = k \/ HasKind(new[v], k)
  /\ \A m : HasMail(wire[v], m) <=> Head(wire[v]) = m \/ HasMail(new[v], m)

LEMMA ReadsFrom ==
  ASSUME NEW t, NEW wire \in [Visits -> Seq(t)], NEW v \in Visits, wire[v] # <<>>,
         NEW new, new = [wire EXCEPT ![v] = Tail(@)]
  PROVE  new \in [Visits -> Seq(t)] /\ Head(wire[v]) \in t /\ IsRead(new, wire, v)
BY HeadAndTail, TailHas DEF IsRead

LEMMA TabFacts ==
  /\ MaxVisits \in Nat /\ MaxAsks \in Nat /\ CaptureLimit \in Nat \ {0} /\ EventLimit \in Nat \ {0}
  /\ Visits \subseteq Nat /\ 0 \notin Visits
BY TabPortsAssumption DEF Visits

LEMMA NumbersOfPages ==
  ASSUME TabTyped, PagesInTurn
  PROVE  /\ Len(visits) \in Nat /\ 1 .. Len(visits) \subseteq Visits /\ guests \subseteq Visits
         /\ pageShown # 0 => pageShown \in Visits /\ pageShown = Len(visits)
         /\ byTab # 0 => byTab \in Visits /\ byTab \in 1 .. Len(visits)
<1>1. Len(visits) \in Nat /\ Len(visits) <= MaxVisits /\ MaxVisits \in Nat
  BY TabFacts, LenProperties DEF TabTyped
<1>2. 1 .. Len(visits) \subseteq Visits
  BY <1>1 DEF Visits
<1>3. pageShown # 0 => pageShown \in 1 .. Len(visits) /\ pageShown = Len(visits)
  BY <1>1 DEF PagesInTurn
<1>4. byTab # 0 => byTab \in 1 .. Len(visits)
  BY <1>1 DEF TabTyped
<1> QED BY <1>1, <1>2, <1>3, <1>4 DEF TabTyped

LEMMA MountingMeans ==
  ASSUME TabTyped, NEW v \in Visits
  PROVE  Mounting(v) <=> HasKind(fromContent[v], "hello") \/ HasKind(fromContent[v], "restored")
BY LenProperties DEF TabTyped, Mounting, HasKind

LEMMA MountingNext ==
  ASSUME TabTyped', NEW v \in Visits
  PROVE  Mounting(v)' <=> HasKind(fromContent'[v], "hello") \/ HasKind(fromContent'[v], "restored")
BY LenProperties DEF TabTyped, Mounting, HasKind

\* What the worker posts.
LEMMA GuestsTold ==
  ASSUME TabTyped, PagesInTurn, NEW ms \in Seq(TabMail)
  PROVE  /\ ToGuests(ms) \in [Visits -> Seq(TabMail)]
         /\ \A u \in Visits : \A m : HasMail(toGuest[u], m) => HasMail(ToGuests(ms)[u], m)
<1>0. toGuest \in [Visits -> Seq(TabMail)]
  BY DEF TabTyped
<1>1. CASE pageShown \in guests
  BY <1>1, NumbersOfPages, <1>0, SendsOn DEF ToGuests
<1>2. CASE pageShown \notin guests
  BY <1>0, <1>2 DEF ToGuests
<1> QED BY <1>1, <1>2

LEMMA CaptureParts ==
  ASSUME NEW c \in Captures
  PROVE  c.ask \in Asks /\ c.guest \in Visits /\ c.ask \in Nat
BY DEF Captures, Asks

LEMMA CaptureIsOf ==
  ASSUME NEW c \in Captures
  PROVE  /\ \A v : c \in Of(v) <=> c.guest = v
         /\ \A a : c \in [ask : {a}, guest : Visits] <=> c.ask = a
BY DEF Captures, Of

LEMMA CaptureMail ==
  ASSUME NEW a \in Nat
  PROVE  <<"capture", a>> \in TabMail /\ <<"capture", a>>[1] = "capture" /\ <<"capture", a>>[2] = a
BY DEF TabMail, TabKinds

LEMMA AmongCaptures ==
  ASSUME NEW s \in Seq(Captures), NEW those
  PROVE  /\ Among(s, those) \in Seq(Captures)
         /\ \A x : (\E i \in 1 .. Len(Among(s, those)) : Among(s, those)[i] = x)
                     <=> x \in those /\ \E i \in 1 .. Len(s) : s[i] = x
<1>1. Among(s, those) \in Seq(Captures)
  BY AmongKeeps
<1>2. \A x : (\E i \in 1 .. Len(Among(s, those)) : Among(s, those)[i] = x)
              <=> x \in those /\ \E i \in 1 .. Len(s) : s[i] = x
  BY AmongKeeps
<1> QED BY <1>1, <1>2

LEMMA AnsweredSends ==
  ASSUME TabTyped, PagesInTurn, NEW s \in Seq(Captures)
  PROVE  /\ Answered(s) \in [Visits -> Seq(TabMail)]
         /\ \A u \in Visits : \A m : HasMail(toGuest[u], m) => HasMail(Answered(s)[u], m)
         /\ \A u \in Visits : \A k : HasKind(toGuest[u], k) => HasKind(Answered(s)[u], k)
         /\ \A k \in 1 .. Len(s) : s[k].guest = pageShown
              => HasMail(Answered(s)[pageShown], <<"capture", s[k].ask>>)
<1> DEFINE heard == Among(s, Of(pageShown))
           mail  == [i \in DOMAIN heard |-> <<"capture", heard[i].ask>>]
<1>0. toGuest \in [Visits -> Seq(TabMail)]
  BY DEF TabTyped
<1>1. /\ heard \in Seq(Captures)
      /\ \A x : (\E i \in 1 .. Len(heard) : heard[i] = x)
                  <=> x \in Of(pageShown) /\ \E i \in 1 .. Len(s) : s[i] = x
  <2>1. heard \in Seq(Captures)
    BY AmongCaptures
  <2>2. \A x : (\E i \in 1 .. Len(heard) : heard[i] = x)
                <=> x \in Of(pageShown) /\ \E i \in 1 .. Len(s) : s[i] = x
    BY AmongCaptures
  <2> QED BY <2>1, <2>2
<1>2. Answered(s) = IF heard = <<>> THEN toGuest ELSE Sends(toGuest, pageShown, mail)
  BY DEF Answered
<1> HIDE DEF heard
<1>3. /\ Len(heard) \in Nat /\ DOMAIN heard = 1 .. Len(heard)
      /\ \A i \in 1 .. Len(heard) : heard[i] \in Captures
      /\ \A k \in 1 .. Len(s) : s[k] \in Captures
      /\ heard = <<>> => Len(heard) = 0
      /\ Len(heard) = 0 => heard = <<>>
  BY <1>1, LenProperties, ElementOfSeq, EmptySeq
<1>4. CASE heard = <<>>
  <2>1. ASSUME NEW k \in 1 .. Len(s), s[k].guest = pageShown PROVE FALSE
    <3>1. s[k] \in Of(pageShown)
      BY <1>3, <2>1, CaptureIsOf
    <3>2. PICK i \in 1 .. Len(heard) : heard[i] = s[k]
      BY <1>1, <3>1
    <3> QED BY <1>3, <1>4, <3>2
  <2> QED BY <1>0, <1>2, <1>4, <2>1
<1>5. CASE heard # <<>>
  <2>1. 1 \in 1 .. Len(heard)
    BY <1>3, <1>5
  <2>2. heard[1] \in Of(pageShown) /\ heard[1] \in Captures
    BY <1>1, <1>3, <2>1
  <2>3. pageShown \in Visits
    BY <2>2, CaptureIsOf, CaptureParts
  <2>4. ASSUME NEW i \in 1 .. Len(heard) PROVE mail[i] \in TabMail
    BY <1>3, CaptureParts, CaptureMail
  <2>5. mail \in Seq(TabMail) /\ Len(mail) = Len(heard)
    BY <1>3, <2>4, IsASeq, LenProperties
  <2> HIDE DEF mail
  <2>6. /\ Sends(toGuest, pageShown, mail) \in [Visits -> Seq(TabMail)]
        /\ \A u \in Visits : \A m : HasMail(toGuest[u], m) => HasMail(Sends(toGuest, pageShown, mail)[u], m)
        /\ \A u \in Visits : \A k : HasKind(toGuest[u], k) => HasKind(Sends(toGuest, pageShown, mail)[u], k)
        /\ \A m : HasMail(mail, m) => HasMail(Sends(toGuest, pageShown, mail)[pageShown], m)
    BY <1>0, <2>3, <2>5, SendsOn
  <2>7. ASSUME NEW k \in 1 .. Len(s), s[k].guest = pageShown
        PROVE  HasMail(mail, <<"capture", s[k].ask>>)
    <3>1. s[k] \in Of(pageShown)
      BY <1>3, <2>7, CaptureIsOf
    <3>2. PICK i \in 1 .. Len(heard) : heard[i] = s[k]
      BY <1>1, <3>1
    <3>3. mail[i] = <<"capture", s[k].ask>>
      BY <1>3, <3>2 DEF mail
    <3> QED BY <2>5, <3>3 DEF HasMail
  <2> QED BY <1>2, <1>5, <2>6, <2>7
<1> QED BY <1>4, <1>5

LEMMA OneMail ==
  ASSUME NEW t, NEW m \in t
  PROVE  <<m>> \in Seq(t)
OBVIOUS

-----------------------------------------------------------------------------
\* What a step keeps that does not touch it.
ContentHalf == ContentInOrder /\ RestoredIsSaid /\ MountsInTurn /\ PortIsThePages /\ MarkIsThePages
GuestHalf   == GuestsInOrder /\ GuestsAreThePages

LEMMA ContentStays ==
  ASSUME ContentHalf, UNCHANGED <<pageShown, visits, byTab, restoredMark, fromContent>>
  PROVE  ContentHalf'
BY DEF ContentHalf, ContentInOrder, RestoredIsSaid, MountsInTurn, PortIsThePages, MarkIsThePages, Mounting

LEMMA GuestStays ==
  ASSUME GuestHalf, UNCHANGED <<pageShown, visits, framed, guests, fromGuest>>
  PROVE  GuestHalf'
BY DEF GuestHalf, GuestsInOrder, GuestsAreThePages

\* The page shown says something that is not of its mounting or its end.
LEMMA ContentSays ==
  ASSUME TabInv, TabTyped', UNCHANGED <<pageShown, visits, byTab, restoredMark>>, pageShown # 0,
         NEW m \in TabMail, m[1] \notin {"hello", "restored", "bye"},
         fromContent' = Sends(fromContent, pageShown, <<m>>)
  PROVE  ContentHalf'
<1> DEFINE ms == <<m>>
<1>0. fromContent \in [Visits -> Seq(TabMail)] /\ pageShown \in Visits /\ Len(visits) \in Nat
      /\ pageShown = Len(visits) /\ 1 .. Len(visits) \subseteq Visits
  BY NumbersOfPages DEF TabInv, TabTyped
<1>01. ms \in Seq(TabMail) /\ fromContent' = Sends(fromContent, pageShown, ms)
  BY OneMail
<1>02. \A k : HasKind(ms, k) <=> m[1] = k
  BY OneHas
<1>03. fromContent' = Sends(fromContent, pageShown, ms)
  OBVIOUS
<1>04. \A q : q \o ms = q \o <<m>>
  OBVIOUS
<1> HIDE DEF ms
<1>1. /\ fromContent'[pageShown] = fromContent[pageShown] \o ms
      /\ \A u \in Visits : u # pageShown => fromContent'[u] = fromContent[u]
      /\ \A k : HasKind(fromContent'[pageShown], k) <=> HasKind(fromContent[pageShown], k) \/ HasKind(ms, k)
  <2>1. Sends(fromContent, pageShown, ms)[pageShown] = fromContent[pageShown] \o ms
    BY <1>0 DEF Sends
  <2>2. \A u \in Visits : u # pageShown => Sends(fromContent, pageShown, ms)[u] = fromContent[u]
    BY <1>0 DEF Sends
  <2>3. \A k : HasKind(Sends(fromContent, pageShown, ms)[pageShown], k)
                <=> HasKind(fromContent[pageShown], k) \/ HasKind(ms, k)
    BY <1>0, <1>01, SendsOn
  <2> QED BY <1>01, <2>1, <2>2, <2>3
<1>2. \A u \in Visits : \A k \in {"hello", "restored", "bye"} :
        HasKind(fromContent'[u], k) <=> HasKind(fromContent[u], k)
  BY <1>1, <1>02
<1>3. InOrder(fromContent'[pageShown])
  <2>1. InOrder(fromContent[pageShown]) /\ ~HasKind(fromContent[pageShown], "bye")
    BY <1>0 DEF TabInv, ContentInOrder
  <2>2. InOrder(fromContent[pageShown] \o <<m>>)
    BY <1>0, <2>1, SentInOrder
  <2> QED BY <1>1, <1>04, <2>2
<1>4. \A u \in Visits : Mounting(u)' <=> Mounting(u)
  BY <1>2, MountingMeans, MountingNext DEF TabInv
<1>5. ContentInOrder'
  <2> SUFFICES ASSUME NEW v \in Visits
               PROVE  /\ InOrder(fromContent'[v])
                      /\ v = pageShown => ~HasKind(fromContent'[v], "bye")
                      /\ v # pageShown => SaidBye(fromContent'[v])
                      /\ v > Len(visits) => fromContent'[v] = <<>>
    BY DEF ContentInOrder
  <2> QED BY SMTT(20), <1>0, <1>1, <1>2, <1>3 DEF TabInv, ContentInOrder
<1>6. RestoredIsSaid'
  BY <1>0, <1>2 DEF TabInv, RestoredIsSaid
<1>7. MountsInTurn'
  <2> SUFFICES ASSUME NEW v \in 1 .. Len(visits), ~HasKind(fromContent'[v], "hello"), NEW u \in 1 .. v - 1
               PROVE  ~Mounting(u)'
    BY DEF MountsInTurn
  <2>1. v \in Visits /\ u \in 1 .. Len(visits)
    BY <1>0
  <2> QED BY <1>0, <1>2, <1>4, <2>1 DEF TabInv, MountsInTurn
<1>8. PortIsThePages'
  BY NumbersOfPages, <1>0, <1>2 DEF TabInv, PortIsThePages
<1>9. MarkIsThePages'
  BY <1>0, <1>4 DEF TabInv, MarkIsThePages
<1> QED BY <1>5, <1>6, <1>7, <1>8, <1>9 DEF ContentHalf

LEMMA SurfaceStays ==
  ASSUME TabInv, UNCHANGED <<pageShown, visits, driven>>,
         pageShown # 0 => /\ HasKind(fromContent[pageShown], "hello") => HasKind(fromContent'[pageShown], "hello")
                          /\ HasKind(toContent[pageShown], "surface") => HasKind(toContent'[pageShown], "surface"),
         surfaceOf' = surfaceOf
  PROVE  SurfaceIsAsked'
BY DEF TabInv, SurfaceIsAsked

LEMMA CapturesStay ==
  ASSUME TabInv, pageShown' = pageShown,
         \A u \in Visits : HasKind(fromContent[u], "bye") => HasKind(fromContent'[u], "bye"),
         pageShown # 0 => \A a :
            HasMail(toContent[pageShown], <<"capture", a>>) \/ HasMail(fromContent[pageShown], <<"capture", a>>)
            => HasMail(toContent'[pageShown], <<"capture", a>>) \/ HasMail(fromContent'[pageShown], <<"capture", a>>),
         captures' = captures
  PROVE  CapturesEnd'
BY DEF TabInv, CapturesEnd

LEMMA PromisesStay ==
  ASSUME TabInv, pageShown' = pageShown, waitingAsks' \subseteq waitingAsks, captures' = captures,
         pageShown # 0 => \A a :
            /\ HasMail(fromGuest[pageShown], <<"capture", a>>) => HasMail(fromGuest'[pageShown], <<"capture", a>>)
            /\ HasMail(toGuest[pageShown], <<"capture", a>>) => HasMail(toGuest'[pageShown], <<"capture", a>>)
  PROVE  PromisesEnd'
BY DEF TabInv, PagesInTurn, PromisesEnd

\* What a wire carries once it was sent on.
IsSent(new, wire, v, ms) ==
  /\ new[v] = wire[v] \o ms
  /\ \A u \in Visits : u # v => new[u] = wire[u]
  /\ \A u \in Visits : \A m : HasMail(wire[u], m) => HasMail(new[u], m)
  /\ \A u \in Visits : \A k : HasKind(wire[u], k) => HasKind(new[u], k)
  /\ \A m : HasMail(ms, m) => HasMail(new[v], m)
  /\ \A k : HasKind(new[v], k) <=> HasKind(wire[v], k) \/ HasKind(ms, k)

LEMMA SentOn ==
  ASSUME NEW t, NEW wire \in [Visits -> Seq(t)], NEW v \in Visits, NEW ms \in Seq(t),
         NEW new, new = Sends(wire, v, ms)
  PROVE  new \in [Visits -> Seq(t)] /\ IsSent(new, wire, v, ms)
BY SendsOn, ConcatHas DEF Sends, IsSent

\* The kinds a message can be of, and its number.
LEMMA TabMails ==
  /\ \A k \in TabKinds : <<k, 0>> \in TabMail /\ <<k, 0>>[1] = k
  /\ \A k \in {"hello", "bye"} : <<k, 0>> \in GuestMail /\ <<k, 0>>[1] = k
  /\ \A a \in Asks : <<"capture", a>> \in GuestMail /\ <<"capture", a>>[1] = "capture"
  /\ \A m \in GuestMail : m[1] = "capture" => m[2] \in Asks /\ m = <<"capture", m[2]>>
  /\ \A m \in TabMail : m[1] \in TabKinds /\ m = <<m[1], m[2]>>
  /\ \A v \in Nat : <<"event", v>> \in TabMail /\ <<"event", v>>[1] = "event"
BY DEF TabMail, TabKinds, GuestMail

-----------------------------------------------------------------------------
\* The page.
LEMMA MountKeepsInv ==
  ASSUME TabInv, NEW restored \in BOOLEAN, Mount(restored)
  PROVE  TabInv'
<1> DEFINE v  == Len(visits) + 1
           ms == IF restored THEN <<Say("hello"), Say("restored")>> ELSE <<Say("hello")>>
<1>1. /\ pageShown = 0 /\ Len(visits) < MaxVisits
      /\ pageShown' = v /\ visits' = Append(visits, restored)
      /\ fromContent' = Sends(fromContent, v, ms)
      /\ UNCHANGED <<framed, surfaceOf, waitingAsks, fromGuest, toContent, toGuest, asks, nudges>>
      /\ UNCHANGED <<byTab, guests, captures, events, raOpen, restoredMark, driven>>
  BY DEF Mount, workerSide
<1>2. /\ Len(visits) \in Nat /\ visits \in Seq(BOOLEAN) /\ v \in Visits /\ v \in Nat \ {0}
      /\ 1 .. Len(visits) \subseteq Visits /\ v \notin 1 .. Len(visits)
      /\ 1 .. v = 1 .. Len(visits) \cup {v}
      /\ \A u \in Visits : u > v => u > Len(visits) /\ u # v
  <2>1. Len(visits) \in Nat /\ MaxVisits \in Nat /\ visits \in Seq(BOOLEAN)
    BY NumbersOfPages, TabFacts DEF TabInv, TabTyped
  <2> QED BY <1>1, <2>1 DEF Visits
<1>3. /\ visits' \in Seq(BOOLEAN) /\ Len(visits') = v /\ visits'[v] = restored
      /\ \A u \in 1 .. Len(visits) : visits'[u] = visits[u]
  BY <1>1, <1>2, AppendProperties
<1>4. /\ Say("hello") \in TabMail /\ Say("restored") \in TabMail /\ Say("hello")[1] = "hello"
      /\ Say("restored")[1] = "restored"
  BY TabMails DEF Say, TabKinds
<1>5. /\ ms \in Seq(TabMail) /\ ms # <<>> /\ HasKind(ms, "hello") /\ ~HasKind(ms, "bye")
      /\ HasKind(ms, "restored") <=> restored
      /\ InOrder(ms)
  <2>1. CASE restored
    <3>1. ms = <<Say("hello"), Say("restored")>>
      BY <2>1
    <3>2. ms \in Seq(TabMail) /\ Len(ms) = 2 /\ ms[1] = Say("hello") /\ ms[2] = Say("restored")
      BY <1>4, <3>1
    <3> HIDE DEF ms
    <3>3. 1 .. Len(ms) = {1, 2}
      BY <3>2
    <3>4. HasKind(ms, "hello") /\ ~HasKind(ms, "bye") /\ HasKind(ms, "restored")
      BY <1>4, <3>2, <3>3 DEF HasKind
    <3>5. InOrder(ms)
      BY <1>4, <3>2, <3>3 DEF InOrder
    <3>6. ms # <<>>
      BY <3>2, EmptySeq
    <3> QED BY <2>1, <3>2, <3>4, <3>5, <3>6
  <2>2. CASE ~restored
    <3>1. ms = <<Say("hello")>>
      BY <2>2
    <3>2. ms \in Seq(TabMail) /\ Len(ms) = 1 /\ ms[1] = Say("hello")
      BY <1>4, <3>1
    <3> HIDE DEF ms
    <3>3. 1 .. Len(ms) = {1}
      BY <3>2
    <3>4. HasKind(ms, "hello") /\ ~HasKind(ms, "bye") /\ ~HasKind(ms, "restored")
      BY <1>4, <3>2, <3>3 DEF HasKind
    <3>5. InOrder(ms)
      BY <1>4, <3>2, <3>3 DEF InOrder
    <3>6. ms # <<>>
      BY <3>2, EmptySeq
    <3> QED BY <2>2, <3>2, <3>4, <3>5, <3>6
  <2> QED BY <2>1, <2>2
<1> HIDE DEF ms, v
<1>6. fromContent \in [Visits -> Seq(TabMail)] /\ fromContent[v] = <<>> /\ fromGuest[v] = <<>>
      /\ v \notin guests /\ guests \subseteq 1 .. Len(visits)
  <2>1. v > Len(visits)
    BY <1>2 DEF v
  <2> QED BY <1>2, <2>1 DEF TabInv, TabTyped, ContentInOrder, GuestsInOrder
<1>7. /\ fromContent' \in [Visits -> Seq(TabMail)]
      /\ fromContent'[v] = ms
      /\ \A u \in Visits : u # v => fromContent'[u] = fromContent[u]
      /\ \A u \in Visits : \A k : HasKind(fromContent[u], k) => HasKind(fromContent'[u], k)
  <2>1. fromContent' \in [Visits -> Seq(TabMail)] /\ IsSent(fromContent', fromContent, v, ms)
    BY <1>1, <1>2, <1>5, <1>6, SentOn
  <2>2. <<>> \o ms = ms
    BY <1>5, ConcatEmptySeq
  <2> QED BY <1>6, <2>1, <2>2 DEF IsSent
<1>8. TabTyped'
  <2>1. v <= MaxVisits /\ 0 .. Len(visits) \subseteq 0 .. v
    BY <1>1, <1>2, TabFacts DEF v
  <2>2. visits' \in Seq(BOOLEAN) /\ Len(visits') <= MaxVisits
    BY <1>3, <2>1
  <2>3. byTab' \in 0 .. Len(visits') /\ guests' \subseteq 1 .. Len(visits')
    BY <1>1, <1>2, <1>3, <2>1 DEF TabInv, TabTyped
  <2> QED BY <1>1, <1>7, <2>2, <2>3 DEF TabInv, TabTyped
<1>9. PagesInTurn'
  BY <1>1, <1>2, <1>3 DEF TabInv, PagesInTurn
<1>10. \A u \in 1 .. Len(visits) : fromContent'[u] = fromContent[u] /\ (Mounting(u)' <=> Mounting(u))
  BY <1>2, <1>7 DEF Mounting
<1>11. ContentInOrder'
  BY <1>1, <1>3, TabFacts, <1>2, <1>5, <1>7 DEF ContentInOrder, TabInv
<1>12. RestoredIsSaid'
  BY <1>3, <1>2, <1>5, <1>7, <1>10 DEF RestoredIsSaid, TabInv
<1>13. MountsInTurn'
  <2> SUFFICES ASSUME NEW w \in 1 .. v, ~HasKind(fromContent'[w], "hello"), NEW u \in 1 .. w - 1
               PROVE  ~Mounting(u)'
    BY <1>3 DEF MountsInTurn
  <2>1. w \in 1 .. Len(visits)
    BY <1>2, <1>5, <1>7
  <2>2. u \in 1 .. Len(visits)
    BY <1>2, <2>1
  <2> QED BY <1>10, <2>1, <2>2 DEF TabInv, MountsInTurn
<1>14. PortIsThePages'
  BY NumbersOfPages, <1>1, <1>5, <1>7, <1>10 DEF TabInv, PortIsThePages
<1>15. MarkIsThePages'
  <2>1. HasKind(fromContent'[v], "hello") /\ v \in Visits
    BY <1>2, <1>5, <1>7
  <2>2. \A u \in Visits : HasKind(fromContent'[u], "hello") => Mounting(u)'
    BY <1>8, MountingNext
  <2>3. pageShown' # 0 => Mounting(pageShown)'
    BY <1>1, <2>1, <2>2 DEF Mounting
  <2> QED BY <2>3 DEF MarkIsThePages
<1>16. GuestsInOrder'
  <2> SUFFICES ASSUME NEW u \in Visits
               PROVE  /\ InOrder(fromGuest[u])
                      /\ u = v => ~HasKind(fromGuest[u], "bye")
                      /\ u # v => SaidBye(fromGuest[u])
                      /\ u > v => fromGuest[u] = <<>>
    BY <1>1, <1>3 DEF GuestsInOrder
  <2>1. u # 0
    BY TabFacts
  <2>2. ~HasKind(<<>>, "bye")
    BY OneHas
  <2>3. u > v => u > Len(visits)
    BY <1>2
  <2> QED BY <1>1, <1>6, <2>1, <2>2, <2>3 DEF TabInv, GuestsInOrder
<1>17. GuestsAreThePages'
  BY <1>1, <1>2, <1>6 DEF TabInv, PagesInTurn, GuestsAreThePages
<1>18. SurfaceIsAsked'
  BY <1>1, <1>5, <1>7 DEF SurfaceIsAsked
<1>19. CapturesEnd'
  BY <1>1, <1>7 DEF TabInv, CapturesEnd
<1>20. PromisesEnd'
  BY <1>1 DEF TabInv, PagesInTurn, PromisesEnd
<1> QED BY <1>8, <1>9, <1>11, <1>12, <1>13, <1>14, <1>15, <1>16, <1>17, <1>18, <1>19, <1>20 DEF TabInv

LEMMA LeaveKeepsInv ==
  ASSUME TabInv, Leave, UNCHANGED <<workerSide, asks, nudges>>
  PROVE  TabInv'
<1> DEFINE v  == pageShown
           ms == <<Say("bye")>>
<1>1. /\ v # 0 /\ pageShown' = 0 /\ framed' = 0 /\ surfaceOf' = 0 /\ waitingAsks' = {}
      /\ fromContent' = Sends(fromContent, v, ms)
      /\ fromGuest' = IF framed = 0 THEN fromGuest ELSE Sends(fromGuest, v, ms)
      /\ toContent' = [toContent EXCEPT ![v] = <<>>]
      /\ toGuest' = [toGuest EXCEPT ![v] = <<>>]
      /\ UNCHANGED <<visits, asks, nudges>>
      /\ UNCHANGED <<byTab, guests, captures, events, raOpen, restoredMark, driven>>
  BY DEF Leave, workerSide
<1>2. /\ Len(visits) \in Nat /\ v \in Visits /\ v = Len(visits) /\ v \in Nat
      /\ 1 .. Len(visits) \subseteq Visits
      /\ \A u \in Visits : u > v => u # v
  BY <1>1, NumbersOfPages, TabFacts DEF TabInv, Visits
<1>3. /\ Say("bye") \in TabMail /\ Say("bye") \in GuestMail /\ Say("bye")[1] = "bye"
  BY TabMails DEF Say, TabKinds
<1>4. ms \in Seq(TabMail) /\ ms \in Seq(GuestMail) /\ HasKind(ms, "bye")
      /\ \A k : k # "bye" => ~HasKind(ms, k)
  BY <1>3, OneHas, OneMail
<1>5. \A q \in Seq(TabMail) : InOrder(q) /\ ~HasKind(q, "bye") => InOrder(q \o ms)
  BY <1>3, SentInOrder
<1>6. \A q \in Seq(GuestMail) : InOrder(q) /\ ~HasKind(q, "bye") => InOrder(q \o ms)
  BY <1>3, SentInOrder
<1> HIDE DEF ms
<1>7. /\ fromContent' \in [Visits -> Seq(TabMail)]
      /\ fromContent'[v] = fromContent[v] \o ms
      /\ \A u \in Visits : u # v => fromContent'[u] = fromContent[u]
      /\ \A u \in Visits : \A k : HasKind(fromContent[u], k) => HasKind(fromContent'[u], k)
      /\ \A k : HasKind(fromContent'[v], k) <=> HasKind(fromContent[v], k) \/ HasKind(ms, k)
  <2>1. fromContent \in [Visits -> Seq(TabMail)]
    BY DEF TabInv, TabTyped
  <2>2. fromContent' \in [Visits -> Seq(TabMail)] /\ IsSent(fromContent', fromContent, v, ms)
    BY <1>1, <1>2, <1>4, <2>1, SentOn
  <2> QED BY <2>2 DEF IsSent
<1>8. \A u \in Visits : \A k : k # "bye" => (HasKind(fromContent'[u], k) <=> HasKind(fromContent[u], k))
  BY <1>4, <1>7
<1>9. /\ fromGuest' \in [Visits -> Seq(GuestMail)]
      /\ \A u \in Visits : u # v => fromGuest'[u] = fromGuest[u]
      /\ \A u \in Visits : \A k : HasKind(fromGuest[u], k) => HasKind(fromGuest'[u], k)
      /\ InOrder(fromGuest'[v]) /\ SaidBye(fromGuest'[v])
      /\ v \in guests => HasKind(fromGuest'[v], "bye")
  <2>1. fromGuest \in [Visits -> Seq(GuestMail)] /\ InOrder(fromGuest[v]) /\ ~HasKind(fromGuest[v], "bye")
        /\ fromGuest[v] \in Seq(GuestMail)
    BY <1>2 DEF TabInv, TabTyped, GuestsInOrder
  <2>2. CASE framed = 0
    BY <1>1, <2>2, <2>1 DEF TabInv, GuestsAreThePages, SaidBye
  <2>3. CASE framed # 0
    <3>1. fromGuest' = Sends(fromGuest, v, ms)
      BY <1>1, <2>3
    <3>2. fromGuest' \in [Visits -> Seq(GuestMail)] /\ IsSent(fromGuest', fromGuest, v, ms)
      BY <1>2, <1>4, <2>1, <3>1, SentOn
    <3> QED BY <1>4, <1>6, <2>1, <3>2 DEF SaidBye, IsSent
  <2> QED BY <2>2, <2>3
<1>10. TabTyped'
  BY EmptySeq, <1>1, <1>7, <1>9 DEF TabInv, TabTyped
<1>11. PagesInTurn'
  BY <1>1 DEF PagesInTurn
<1>12. \A u \in Visits : Mounting(u)' <=> Mounting(u)
  BY MountingMeans, <1>10, MountingNext, <1>8 DEF TabInv
<1>13. ContentInOrder'
  <2> SUFFICES ASSUME NEW u \in Visits
               PROVE  /\ InOrder(fromContent'[u])
                      /\ u # 0 => SaidBye(fromContent'[u])
                      /\ u > v => fromContent'[u] = <<>>
    BY <1>1, <1>2, TabFacts DEF ContentInOrder
  <2>1. CASE u = v
    BY <1>2, <1>4, <1>5, <1>7, <2>1 DEF TabInv, TabTyped, ContentInOrder, SaidBye
  <2>2. CASE u # v
    BY <1>2, <1>7, <2>2 DEF TabInv, ContentInOrder
  <2> QED BY <2>1, <2>2
<1>14. RestoredIsSaid'
  BY <1>1, <1>2, <1>8 DEF TabInv, RestoredIsSaid
<1>15. MountsInTurn'
  <2> SUFFICES ASSUME NEW w \in 1 .. Len(visits), ~HasKind(fromContent'[w], "hello"), NEW u \in 1 .. w - 1
               PROVE  ~Mounting(u)'
    BY <1>1 DEF MountsInTurn
  <2>1. w \in Visits /\ u \in Visits
    BY <1>2
  <2> QED BY <1>8, <1>12, <2>1 DEF TabInv, MountsInTurn
<1>16. PortIsThePages'
  BY NumbersOfPages, <1>1, <1>4, <1>7, <1>8 DEF TabInv, PortIsThePages
<1>17. MarkIsThePages' /\ SurfaceIsAsked' /\ PromisesEnd'
  BY <1>1 DEF MarkIsThePages, SurfaceIsAsked, PromisesEnd
<1>18. GuestsInOrder'
  BY <1>1, <1>2, TabFacts, <1>9 DEF GuestsInOrder, TabInv
<1>19. GuestsAreThePages'
  BY NumbersOfPages, <1>1, <1>9 DEF TabInv, GuestsAreThePages
<1>20. CapturesEnd'
  <2>1. HasKind(fromContent'[v], "bye")
    BY <1>4, <1>7
  <2> QED BY <1>2, <2>1 DEF CapturesEnd
<1> QED BY <1>10, <1>11, <1>13, <1>14, <1>15, <1>16, <1>17, <1>18, <1>19, <1>20 DEF TabInv

\* The guest's port when the page does nothing to it that counts.
LEMMA GuestOpensKeepsInv ==
  ASSUME TabInv, GuestOpens
  PROVE  TabInv'
<1> DEFINE v  == pageShown
           ms == <<Say("hello")>>
<1>1. /\ framed # v /\ framed' = v /\ fromGuest' = Sends(fromGuest, v, ms)
      /\ UNCHANGED <<pageShown, visits, surfaceOf, waitingAsks, fromContent, toContent, toGuest, asks, nudges>>
      /\ UNCHANGED <<byTab, guests, captures, events, raOpen, restoredMark, driven>>
  BY DEF GuestOpens, workerSide
<1>2. v # 0
  BY <1>1 DEF TabInv, PagesInTurn
<1>3. /\ Len(visits) \in Nat /\ v \in Visits /\ v = Len(visits)
      /\ fromGuest[v] = <<>> /\ v \notin guests
      /\ \A u \in Visits : u > v => u # v
  BY <1>1, <1>2, NumbersOfPages, TabFacts DEF TabInv, GuestsAreThePages
<1>4. Say("hello") \in GuestMail /\ Say("hello")[1] = "hello"
  BY TabMails DEF Say
<1>5. ms \in Seq(GuestMail) /\ HasKind(ms, "hello") /\ ~HasKind(ms, "bye") /\ ~HasKind(ms, "capture")
  BY <1>4, OneHas, OneMail
<1>6. InOrder(<<>> \o ms)
  BY EmptySeq, <1>4, SentInOrder DEF InOrder, HasKind
<1> HIDE DEF ms
<1>7. fromGuest' \in [Visits -> Seq(GuestMail)] /\ IsSent(fromGuest', fromGuest, v, ms)
  BY <1>1, <1>3, <1>5, SentOn DEF TabInv, TabTyped
<1>8. TabTyped' /\ PagesInTurn'
  BY <1>1, <1>7 DEF TabInv, TabTyped, PagesInTurn
<1>9. ContentHalf' /\ SurfaceIsAsked' /\ CapturesEnd'
  BY <1>1, ContentStays DEF TabInv, ContentHalf, SurfaceIsAsked, CapturesEnd
<1>10. GuestsInOrder'
  <2> SUFFICES ASSUME NEW u \in Visits
               PROVE  /\ InOrder(fromGuest'[u])
                      /\ u = v => ~HasKind(fromGuest'[u], "bye")
                      /\ u # v => SaidBye(fromGuest'[u])
                      /\ u > Len(visits) => fromGuest'[u] = <<>>
    BY <1>1 DEF GuestsInOrder
  <2>1. CASE u = v
    BY <1>3, <1>5, <1>6, <1>7, <2>1, OneHas DEF IsSent
  <2>2. CASE u # v
    BY <1>3, <1>7, <2>2 DEF TabInv, GuestsInOrder, IsSent
  <2> QED BY <2>1, <2>2
<1>11. GuestsAreThePages'
  BY NumbersOfPages, <1>5, <1>7, <1>1, <1>3 DEF TabInv, IsSent, GuestsAreThePages
<1>12. PromisesEnd'
  BY <1>3, <1>7, <1>1, PromisesStay DEF IsSent
<1> QED BY <1>8, <1>9, <1>10, <1>11, <1>12 DEF TabInv, ContentHalf

LEMMA AsksCaptureKeepsInv ==
  ASSUME TabInv, AsksCapture
  PROVE  TabInv'
<1> DEFINE v  == pageShown
           ms == <<<<"capture", asks + 1>>>>
<1>1. /\ asks < MaxAsks /\ framed # 0 /\ asks' = asks + 1 /\ waitingAsks' = waitingAsks \cup {asks + 1}
      /\ fromGuest' = Sends(fromGuest, v, ms)
      /\ UNCHANGED <<pageShown, visits, framed, surfaceOf, fromContent, toContent, toGuest, nudges>>
      /\ UNCHANGED <<byTab, guests, captures, events, raOpen, restoredMark, driven>>
  BY DEF AsksCapture, workerSide
<1>2. v # 0 /\ framed = v
  BY <1>1 DEF TabInv, PagesInTurn
<1>3. /\ Len(visits) \in Nat /\ v \in Visits /\ v = Len(visits)
      /\ \A u \in Visits : u > v => u # v
  BY <1>1, <1>2, NumbersOfPages, TabFacts DEF TabInv
<1>4. asks + 1 \in Asks /\ asks + 1 \in Nat
  BY <1>1, TabFacts DEF TabInv, TabTyped, Asks
<1>5. <<"capture", asks + 1>> \in GuestMail /\ <<"capture", asks + 1>>[1] = "capture"
  BY <1>4, TabMails
<1>6. /\ ms \in Seq(GuestMail) /\ ~HasKind(ms, "hello") /\ ~HasKind(ms, "bye")
      /\ HasMail(ms, <<"capture", asks + 1>>)
  BY <1>5, OneHas, OneMail
<1>7. \A q \in Seq(GuestMail) : InOrder(q) /\ ~HasKind(q, "bye") => InOrder(q \o ms)
  BY <1>5, SentInOrder
<1> HIDE DEF ms
<1>8. fromGuest' \in [Visits -> Seq(GuestMail)] /\ IsSent(fromGuest', fromGuest, v, ms)
  BY <1>1, <1>3, <1>6, SentOn DEF TabInv, TabTyped
<1>9. TabTyped' /\ PagesInTurn'
  BY <1>1, <1>4, <1>8, <1>2 DEF TabInv, TabTyped, PagesInTurn
<1>10. ContentHalf' /\ SurfaceIsAsked' /\ CapturesEnd'
  BY <1>1, ContentStays DEF TabInv, ContentHalf, SurfaceIsAsked, CapturesEnd
<1>11. \A u \in Visits : \A k \in {"hello", "bye"} : HasKind(fromGuest'[u], k) <=> HasKind(fromGuest[u], k)
  BY <1>6, <1>8 DEF IsSent
<1>12. GuestsInOrder'
  <2> SUFFICES ASSUME NEW u \in Visits
               PROVE  /\ InOrder(fromGuest'[u])
                      /\ u = v => ~HasKind(fromGuest'[u], "bye")
                      /\ u # v => SaidBye(fromGuest'[u])
                      /\ u > Len(visits) => fromGuest'[u] = <<>>
    BY <1>1 DEF GuestsInOrder
  <2>1. CASE u = v
    BY <1>3, <1>7, <1>8, <2>1, <1>11 DEF TabInv, TabTyped, GuestsInOrder, IsSent
  <2>2. CASE u # v
    BY <1>3, <1>8, <2>2 DEF TabInv, GuestsInOrder, IsSent
  <2> QED BY <2>1, <2>2
<1>13. GuestsAreThePages'
  BY NumbersOfPages, <1>1, <1>2, <1>3, <1>11 DEF TabInv, GuestsAreThePages
<1>14. PromisesEnd'
  BY <1>3, <1>8, <1>6, <1>1 DEF IsSent, TabInv, PromisesEnd
<1> QED BY <1>9, <1>10, <1>12, <1>13, <1>14 DEF TabInv, ContentHalf

LEMMA OpensRemoteKeepsInv ==
  ASSUME TabInv, OpensRemote
  PROVE  TabInv'
<1> DEFINE v == pageShown
           m == Say("remote")
<1>1. /\ v # 0 /\ fromContent' = Sends(fromContent, v, <<m>>)
      /\ UNCHANGED <<pageShown, visits, framed, surfaceOf, waitingAsks, fromGuest, toContent, toGuest, asks>>
      /\ UNCHANGED <<byTab, guests, captures, events, raOpen, restoredMark, driven>>
  BY DEF OpensRemote, workerSide, pageSide
<1>2. m \in TabMail /\ m[1] = "remote"
  BY TabMails DEF Say, TabKinds
<1>3. v \in Visits /\ fromContent \in [Visits -> Seq(TabMail)]
  BY <1>1, NumbersOfPages DEF TabInv, TabTyped
<1> HIDE DEF m
<1>4. fromContent' \in [Visits -> Seq(TabMail)] /\ IsSent(fromContent', fromContent, v, <<m>>)
  BY <1>1, <1>2, <1>3, SentOn, OneMail
<1>5. TabTyped' /\ PagesInTurn'
  BY <1>1, <1>4 DEF TabInv, TabTyped, PagesInTurn
<1>6. ContentHalf'
  BY <1>1, <1>2, <1>5, ContentSays
<1>7. GuestHalf'
  BY <1>1, GuestStays DEF TabInv, GuestHalf
<1>8. SurfaceIsAsked' /\ CapturesEnd'
  BY <1>1, <1>3, <1>4 DEF TabInv, SurfaceIsAsked, CapturesEnd, IsSent
<1>9. PromisesEnd'
  BY <1>1, PromisesStay
<1> QED BY <1>5, <1>6, <1>7, <1>8, <1>9 DEF TabInv, ContentHalf, GuestHalf

LEMMA ContentReadsKeepsInv ==
  ASSUME TabInv, ContentReads
  PROVE  TabInv'
<1> DEFINE v == pageShown
           m == Head(toContent[v])
<1>1. /\ v # 0 /\ toContent[v] # <<>>
      /\ UNCHANGED <<byTab, guests, captures, events, raOpen, restoredMark, driven, asks, nudges>>
      /\ \/ /\ m[1] \in {"capture", "shortcut"}
            /\ fromContent' = Sends(fromContent, v, <<m>>)
            /\ toContent' = [toContent EXCEPT ![v] = Tail(@)]
            /\ UNCHANGED <<pageShown, visits, framed, surfaceOf, waitingAsks, fromGuest, toGuest>>
         \/ /\ m[1] = "surface"
            /\ surfaceOf' = IF visits[v] THEN surfaceOf ELSE v
            /\ toContent' = [toContent EXCEPT ![v] = Tail(@)]
            /\ UNCHANGED <<pageShown, visits, framed, waitingAsks, fromContent, fromGuest, toGuest>>
         \/ Leave
  BY DEF ContentReads, workerSide, pageSide
<1>2. v \in Visits /\ fromContent \in [Visits -> Seq(TabMail)] /\ toContent \in [Visits -> Seq(TabMail)]
  BY <1>1, NumbersOfPages DEF TabInv, TabTyped
<1>3. m \in TabMail
  <2>1. toContent[v] \in Seq(TabMail)
    BY <1>2
  <2> QED BY <1>1, <2>1, HeadAndTail
<1>4. ASSUME toContent' = [toContent EXCEPT ![v] = Tail(@)]
      PROVE  /\ toContent' \in [Visits -> Seq(TabMail)]
             /\ \A k : HasKind(toContent[v], k) <=> m[1] = k \/ HasKind(toContent'[v], k)
             /\ \A x : HasMail(toContent[v], x) <=> m = x \/ HasMail(toContent'[v], x)
  <2>1. toContent' \in [Visits -> Seq(TabMail)] /\ IsRead(toContent', toContent, v)
    BY <1>1, <1>2, <1>4, ReadsFrom
  <2> QED BY <2>1 DEF IsRead
<1> HIDE DEF m
<1>5. CASE /\ m[1] \in {"capture", "shortcut"}
           /\ fromContent' = Sends(fromContent, v, <<m>>)
           /\ toContent' = [toContent EXCEPT ![v] = Tail(@)]
           /\ UNCHANGED <<pageShown, visits, framed, surfaceOf, waitingAsks, fromGuest, toGuest>>
  <2>1. fromContent' \in [Visits -> Seq(TabMail)] /\ IsSent(fromContent', fromContent, v, <<m>>)
    BY ZenonT(30), <1>2, <1>3, <1>5, SentOn, OneMail
  <2>2. TabTyped'
    BY <1>1, <1>4, <1>5, <2>1 DEF TabInv, TabTyped
  <2>3. PagesInTurn'
    BY <1>5 DEF TabInv, PagesInTurn
  <2>4. ContentHalf'
    BY <1>1, <1>3, <1>5, <2>2, ContentSays
  <2>5. GuestHalf'
    BY <1>1, <1>5, GuestStays DEF TabInv, GuestHalf
  <2>6. SurfaceIsAsked'
    BY <1>1, <1>2, <1>4, <1>5, <2>1, SurfaceStays DEF IsSent
  <2>7. CapturesEnd'
    BY OneHas, <2>1, <1>2, <1>4, <1>5, <1>1, CapturesStay DEF IsSent
  <2>8. PromisesEnd'
    BY <1>1, <1>5, PromisesStay
  <2> QED BY <2>2, <2>3, <2>4, <2>5, <2>6, <2>7, <2>8 DEF TabInv, ContentHalf, GuestHalf
<1>6. CASE /\ m[1] = "surface"
           /\ surfaceOf' = IF visits[v] THEN surfaceOf ELSE v
           /\ toContent' = [toContent EXCEPT ![v] = Tail(@)]
           /\ UNCHANGED <<pageShown, visits, framed, waitingAsks, fromContent, fromGuest, toGuest>>
  <2>1. TabTyped' /\ PagesInTurn'
    BY <1>1, <1>4, <1>6 DEF TabInv, TabTyped, PagesInTurn
  <2>2. ContentHalf'
    BY <1>1, <1>6, ContentStays DEF TabInv, ContentHalf
  <2>3. GuestHalf'
    BY <1>1, <1>6, GuestStays DEF TabInv, GuestHalf
  <2>4. SurfaceIsAsked'
    BY <1>1, <1>6 DEF SurfaceIsAsked
  <2>5. CapturesEnd'
    BY <1>6, <1>4, <1>1, CapturesStay
  <2>6. PromisesEnd'
    BY <1>1, <1>6, PromisesStay
  <2> QED BY <2>1, <2>2, <2>3, <2>4, <2>5, <2>6 DEF TabInv, ContentHalf, GuestHalf
<1>7. CASE Leave
  BY <1>1, <1>7, LeaveKeepsInv DEF workerSide
<1> QED BY <1>1, <1>5, <1>6, <1>7

LEMMA GuestReadsKeepsInv ==
  ASSUME TabInv, GuestReads
  PROVE  TabInv'
<1> DEFINE v == pageShown
           m == Head(toGuest[v])
<1>1. /\ v # 0 /\ toGuest[v] # <<>>
      /\ waitingAsks' = IF m[1] = "capture" THEN waitingAsks \ {m[2]} ELSE waitingAsks
      /\ toGuest' = [toGuest EXCEPT ![v] = Tail(@)]
      /\ UNCHANGED <<pageShown, visits, framed, surfaceOf, fromContent, fromGuest, toContent, asks, nudges>>
      /\ UNCHANGED <<byTab, guests, captures, events, raOpen, restoredMark, driven>>
  BY DEF GuestReads, workerSide
<1>2. v \in Visits /\ toGuest \in [Visits -> Seq(TabMail)]
  BY <1>1, NumbersOfPages DEF TabInv, TabTyped
<1>3. /\ toGuest' \in [Visits -> Seq(TabMail)]
      /\ \A x : HasMail(toGuest[v], x) <=> m = x \/ HasMail(toGuest'[v], x)
  <2>1. toGuest' \in [Visits -> Seq(TabMail)] /\ IsRead(toGuest', toGuest, v)
    BY <1>1, <1>2, ReadsFrom
  <2> QED BY <2>1 DEF IsRead
<1> HIDE DEF m
<1>4. TabTyped' /\ PagesInTurn'
  BY <1>1, <1>3 DEF TabInv, TabTyped, PagesInTurn
<1>5. ContentHalf'
  BY <1>1, ContentStays DEF TabInv, ContentHalf
<1>6. GuestHalf'
  BY <1>1, GuestStays DEF TabInv, GuestHalf
<1>7. SurfaceIsAsked' /\ CapturesEnd'
  BY <1>1 DEF TabInv, SurfaceIsAsked, CapturesEnd
<1>8. PromisesEnd'
  <2> SUFFICES ASSUME NEW a \in waitingAsks'
               PROVE  \/ HasMail(fromGuest[v], <<"capture", a>>)
                      \/ \E k \in 1 .. Len(captures) : captures[k] = [ask |-> a, guest |-> v]
                      \/ HasMail(toGuest'[v], <<"capture", a>>)
    BY <1>1 DEF PromisesEnd
  <2>1. a \in waitingAsks
    BY <1>1
  <2>2. m # <<"capture", a>>
    BY <1>1
  <2> QED BY <1>3, <2>1, <2>2 DEF TabInv, PromisesEnd
<1> QED BY <1>4, <1>5, <1>6, <1>7, <1>8 DEF TabInv, ContentHalf, GuestHalf

LEMMA CaptureTimesOutKeepsInv ==
  ASSUME TabInv, CaptureTimesOut
  PROVE  TabInv'
<1>1. /\ waitingAsks' \subseteq waitingAsks
      /\ UNCHANGED <<pageShown, visits, framed, surfaceOf, asks, nudges>>
      /\ UNCHANGED <<byTab, guests, captures, events, raOpen, restoredMark, driven>>
      /\ UNCHANGED <<fromContent, fromGuest, toContent, toGuest>>
  BY DEF CaptureTimesOut, workerSide, tabWires
<1>2. TabTyped' /\ PagesInTurn'
  BY <1>1 DEF TabInv, TabTyped, PagesInTurn
<1>3. ContentHalf' /\ GuestHalf'
  BY <1>1, ContentStays, GuestStays DEF TabInv, ContentHalf, GuestHalf
<1>4. SurfaceIsAsked' /\ CapturesEnd' /\ PromisesEnd'
  BY <1>1, PromisesStay DEF TabInv, SurfaceIsAsked, CapturesEnd
<1> QED BY <1>2, <1>3, <1>4 DEF TabInv, ContentHalf, GuestHalf

-----------------------------------------------------------------------------
\* The worker.

\* What a wire gains reaches the page shown only.
Gains(new, wire) ==
  \A u \in Visits : /\ \A m : HasMail(wire[u], m) => HasMail(new[u], m)
                    /\ \A k : HasKind(wire[u], k) => HasKind(new[u], k)

LEMMA ReachSends ==
  ASSUME NEW wire \in [Visits -> Seq(TabMail)], NEW v \in Visits, NEW ms \in Seq(TabMail),
         NEW new, new = Sends(wire, v, Reach(v, ms))
  PROVE  /\ new \in [Visits -> Seq(TabMail)] /\ Gains(new, wire)
         /\ v = pageShown => IsSent(new, wire, v, ms)
<1> DEFINE mail == Reach(v, ms)
<1>1. mail \in Seq(TabMail) /\ (v = pageShown => mail = ms)
  BY EmptySeq DEF Reach
<1> HIDE DEF mail
<1>2. new = Sends(wire, v, mail)
  BY DEF mail
<1>3. new \in [Visits -> Seq(TabMail)] /\ IsSent(new, wire, v, mail)
  BY <1>1, <1>2, SentOn
<1>4. Gains(new, wire)
  BY <1>3 DEF Gains, IsSent
<1>5. v = pageShown => IsSent(new, wire, v, ms)
  BY <1>1, <1>3
<1> QED BY <1>3, <1>4, <1>5

LEMMA GainsNothing == \A wire : Gains(wire, wire)
BY DEF Gains

LEMMA GuestsGain ==
  ASSUME TabTyped, PagesInTurn, NEW ms \in Seq(TabMail)
  PROVE  ToGuests(ms) \in [Visits -> Seq(TabMail)] /\ Gains(ToGuests(ms), toGuest)
<1>0. toGuest \in [Visits -> Seq(TabMail)]
  BY DEF TabTyped
<1>1. CASE pageShown \in guests
  BY <1>1, NumbersOfPages, <1>0, SentOn DEF ToGuests, Gains, IsSent
<1>2. CASE pageShown \notin guests
  BY <1>0, <1>2 DEF ToGuests, Gains
<1> QED BY <1>1, <1>2

LEMMA AnsweredGains ==
  ASSUME TabTyped, PagesInTurn, NEW s \in Seq(Captures), NEW new, new = Answered(s)
  PROVE  /\ new \in [Visits -> Seq(TabMail)] /\ Gains(new, toGuest)
         /\ \A k \in 1 .. Len(s) : s[k].guest = pageShown
              => HasMail(new[pageShown], <<"capture", s[k].ask>>)
BY AnsweredSends DEF Gains

\* A promise keeps its capture while the wires gain, and what is dropped is answered.
LEMMA PromisesKept ==
  ASSUME TabInv, UNCHANGED <<pageShown, waitingAsks>>, Gains(toGuest', toGuest),
         pageShown # 0 => \A a : HasMail(fromGuest[pageShown], <<"capture", a>>) =>
            \/ HasMail(fromGuest'[pageShown], <<"capture", a>>)
            \/ \E k \in 1 .. Len(captures') : captures'[k] = [ask |-> a, guest |-> pageShown]
            \/ HasMail(toGuest'[pageShown], <<"capture", a>>),
         \A k \in 1 .. Len(captures) : captures[k].guest = pageShown =>
            \/ \E j \in 1 .. Len(captures') : captures'[j] = captures[k]
            \/ HasMail(toGuest'[pageShown], <<"capture", captures[k].ask>>)
  PROVE  PromisesEnd'
<1> SUFFICES ASSUME NEW a \in waitingAsks
             PROVE  \/ HasMail(fromGuest'[pageShown], <<"capture", a>>)
                    \/ \E k \in 1 .. Len(captures') : captures'[k] = [ask |-> a, guest |-> pageShown]
                    \/ HasMail(toGuest'[pageShown], <<"capture", a>>)
  BY DEF PromisesEnd
<1>0. pageShown # 0 /\ pageShown \in Visits
  BY NumbersOfPages DEF TabInv, PagesInTurn
<1>1. CASE HasMail(fromGuest[pageShown], <<"capture", a>>)
  BY <1>0, <1>1
<1>2. CASE HasMail(toGuest[pageShown], <<"capture", a>>)
  BY <1>0, <1>2 DEF Gains
<1>3. ASSUME NEW k \in 1 .. Len(captures), captures[k] = [ask |-> a, guest |-> pageShown]
      PROVE  \/ \E j \in 1 .. Len(captures') : captures'[j] = [ask |-> a, guest |-> pageShown]
             \/ HasMail(toGuest'[pageShown], <<"capture", a>>)
  BY <1>3
<1> QED BY <1>1, <1>2, <1>3 DEF TabInv, PromisesEnd

\* The captures of the tab, and what is left of them.
LEMMA CapturesTyped ==
  ASSUME TabTyped
  PROVE  captures \in Seq(Captures) /\ \A k \in 1 .. Len(captures) : captures[k] \in Captures
BY ElementOfSeq DEF TabTyped

LEMMA NudgeKeepsInv ==
  ASSUME TabInv, Nudge
  PROVE  TabInv'
<1>1. /\ byTab # 0 /\ (driven' = driven \/ driven' = TRUE)
      /\ UNCHANGED <<pageShown, visits, framed, surfaceOf, waitingAsks, fromContent, fromGuest, asks>>
      /\ UNCHANGED <<byTab, guests, captures, events, raOpen, restoredMark, toGuest>>
      /\ \E k \in {"shortcut", "surface", "revoked"} :
           /\ toContent' = Sends(toContent, byTab, Reach(byTab, <<Say(k)>>))
           /\ k # "surface" => driven' = driven
  BY DEF Nudge, Shortcut, Drive, Revoke, pageSide
<1>2. PICK k \in {"shortcut", "surface", "revoked"} :
           /\ toContent' = Sends(toContent, byTab, Reach(byTab, <<Say(k)>>))
           /\ k # "surface" => driven' = driven
  BY <1>1
<1>3. byTab \in Visits /\ toContent \in [Visits -> Seq(TabMail)] /\ pageShown \in Visits \cup {0}
  BY <1>1, NumbersOfPages DEF TabInv, TabTyped
<1>4. Say(k) \in TabMail /\ Say(k)[1] = k
  BY TabMails DEF Say, TabKinds
<1> DEFINE ms == <<Say(k)>>
<1>5. ms \in Seq(TabMail) /\ HasKind(ms, k)
  BY <1>4, OneHas, OneMail
<1>6. toContent' = Sends(toContent, byTab, Reach(byTab, ms))
  BY <1>2
<1> HIDE DEF ms
<1>7. /\ toContent' \in [Visits -> Seq(TabMail)] /\ Gains(toContent', toContent)
      /\ byTab = pageShown => IsSent(toContent', toContent, byTab, ms)
  BY <1>3, <1>5, <1>6, ReachSends
<1>8. TabTyped' /\ PagesInTurn'
  BY <1>1, <1>7 DEF TabInv, TabTyped, PagesInTurn
<1>9. ContentHalf' /\ GuestHalf'
  BY <1>1, ContentStays, GuestStays DEF TabInv, ContentHalf, GuestHalf
<1>10. SurfaceIsAsked'
  BY <1>1, <1>5, <1>7, <1>2, <1>3 DEF SurfaceIsAsked, TabInv, PortIsThePages, IsSent, Gains
<1>11. CapturesEnd'
  BY <1>3, <1>7, <1>1, CapturesStay DEF Gains
<1>12. PromisesEnd'
  BY <1>1, PromisesStay
<1> QED BY <1>8, <1>9, <1>10, <1>11, <1>12 DEF TabInv, ContentHalf, GuestHalf

-----------------------------------------------------------------------------
\* A content script is heard: what holds whatever it says.
Heard(v) ==
  /\ v \in Visits /\ fromContent[v] # <<>> /\ \A u \in 1 .. v - 1 : ~Mounting(u)
  /\ fromContent' = [fromContent EXCEPT ![v] = Tail(@)]
  /\ UNCHANGED <<pageShown, visits, framed, surfaceOf, waitingAsks, fromGuest, asks, nudges>>

LEMMA HeardFacts ==
  ASSUME TabInv, NEW v, Heard(v)
  PROVE  /\ fromContent' \in [Visits -> Seq(TabMail)] /\ Head(fromContent[v]) \in TabMail
         /\ IsRead(fromContent', fromContent, v)
         /\ v \in 1 .. Len(visits) /\ 1 .. Len(visits) \subseteq Visits
         /\ InOrder(fromContent'[v]) /\ ~HasKind(fromContent'[v], "hello")
         /\ Head(fromContent[v])[1] = "bye" => fromContent'[v] = <<>> /\ v # pageShown
         /\ v # pageShown /\ Head(fromContent[v])[1] # "bye" => HasKind(fromContent'[v], "bye")
         /\ v # pageShown => SaidBye(fromContent'[v])
<1>1. /\ v \in Visits /\ fromContent \in [Visits -> Seq(TabMail)] /\ fromContent[v] # <<>>
      /\ fromContent[v] \in Seq(TabMail) /\ InOrder(fromContent[v])
      /\ v = pageShown => ~HasKind(fromContent[v], "bye")
      /\ v # pageShown => SaidBye(fromContent[v])
      /\ fromContent' = [fromContent EXCEPT ![v] = Tail(@)]
  BY DEF Heard, TabInv, TabTyped, ContentInOrder
<1>2. /\ fromContent' \in [Visits -> Seq(TabMail)] /\ Head(fromContent[v]) \in TabMail
      /\ IsRead(fromContent', fromContent, v)
  BY <1>1, ReadsFrom
<1>3. v \in 1 .. Len(visits) /\ 1 .. Len(visits) \subseteq Visits
  BY <1>1, NumbersOfPages, TabFacts DEF TabInv, ContentInOrder
<1>4. /\ InOrder(Tail(fromContent[v])) /\ ~HasKind(Tail(fromContent[v]), "hello")
      /\ Head(fromContent[v])[1] = "bye" => Tail(fromContent[v]) = <<>>
      /\ SaidBye(fromContent[v]) => SaidBye(Tail(fromContent[v]))
  BY <1>1, TailInOrder
<1>5. Head(fromContent[v])[1] = "bye" => v # pageShown
  BY <1>1, <1>2 DEF IsRead
<1>6. v # pageShown /\ Head(fromContent[v])[1] # "bye" => HasKind(fromContent'[v], "bye")
  BY <1>1, <1>2 DEF IsRead, SaidBye
<1> QED BY <1>1, <1>2, <1>3, <1>4, <1>5, <1>6 DEF IsRead

LEMMA HeardInTurn ==
  ASSUME TabInv, NEW v, Heard(v), TabTyped'
  PROVE  /\ ContentInOrder' /\ RestoredIsSaid' /\ MountsInTurn'
         /\ \A u \in Visits : Mounting(u)' => Mounting(u)
<1>0. v \in Visits /\ UNCHANGED <<pageShown, visits>> /\ \A u \in 1 .. v - 1 : ~Mounting(u)
  BY DEF Heard
<1>1. /\ IsRead(fromContent', fromContent, v)
      /\ v \in 1 .. Len(visits) /\ 1 .. Len(visits) \subseteq Visits
      /\ InOrder(fromContent'[v]) /\ ~HasKind(fromContent'[v], "hello")
      /\ v # pageShown => SaidBye(fromContent'[v])
  BY HeardFacts
<1>2. \A u \in Visits : \A k : HasKind(fromContent'[u], k) => HasKind(fromContent[u], k)
  BY <1>1 DEF IsRead
<1>3. Len(visits) \in Nat /\ ~(v > Len(visits))
  BY <1>1, NumbersOfPages DEF TabInv
<1>4. ContentInOrder'
  <2> SUFFICES ASSUME NEW u \in Visits
               PROVE  /\ InOrder(fromContent'[u])
                      /\ u = pageShown => ~HasKind(fromContent'[u], "bye")
                      /\ u # pageShown => SaidBye(fromContent'[u])
                      /\ u > Len(visits) => fromContent'[u] = <<>>
    BY <1>0 DEF ContentInOrder
  <2>1. CASE u = v
    BY <1>2, <2>1, <1>1, <1>3 DEF TabInv, ContentInOrder
  <2>2. CASE u # v
    BY <1>1, <2>2 DEF TabInv, ContentInOrder, IsRead
  <2> QED BY <2>1, <2>2
<1>5. RestoredIsSaid'
  BY <1>0, <1>1, <1>2 DEF RestoredIsSaid, TabInv, IsRead
<1>6. \A u \in Visits : Mounting(u)' => Mounting(u)
  BY MountingMeans, MountingNext, <1>2 DEF TabInv
<1>7. MountsInTurn'
  <2> SUFFICES ASSUME NEW w \in 1 .. Len(visits), ~HasKind(fromContent'[w], "hello"), NEW u \in 1 .. w - 1
               PROVE  ~Mounting(u)'
    BY <1>0 DEF MountsInTurn
  <2>1. w \in Visits /\ u \in Visits
    BY <1>1, <1>3
  <2>2. CASE w = v
    BY <1>0, <1>6, <2>1, <2>2
  <2>3. CASE w # v
    BY <1>1, <2>1, <2>3, <1>6 DEF IsRead, TabInv, MountsInTurn
  <2> QED BY <2>2, <2>3
<1> QED BY <1>4, <1>5, <1>6, <1>7

\* While a page is still mounting, no later one was heard.
LEMMA NotHeardBefore ==
  ASSUME TabInv, NEW v \in 1 .. Len(visits), Mounting(v), pageShown # 0, v # pageShown
  PROVE  HasKind(fromContent[pageShown], "hello")
<1>1. pageShown \in 1 .. Len(visits) /\ v \in 1 .. pageShown - 1
  BY NumbersOfPages DEF TabInv
<1> QED BY <1>1 DEF TabInv, MountsInTurn

\* A page that says neither: the port and the mark are still the page's.
LEMMA OtherwiseHeard ==
  ASSUME TabInv, NEW v, Heard(v), TabTyped', UNCHANGED <<byTab, restoredMark>>,
         Head(fromContent[v])[1] \notin {"hello", "restored", "bye"}
  PROVE  PortIsThePages' /\ MarkIsThePages'
<1>0. v \in Visits /\ UNCHANGED <<pageShown, visits>>
  BY DEF Heard
<1>1. IsRead(fromContent', fromContent, v)
  BY HeardFacts
<1>2. \A u \in Visits : \A k \in {"hello", "restored", "bye"} :
        HasKind(fromContent'[u], k) <=> HasKind(fromContent[u], k)
  BY <1>1 DEF IsRead
<1>3. (byTab # 0 => byTab \in Visits) /\ (pageShown # 0 => pageShown \in Visits)
  BY NumbersOfPages DEF TabInv
<1>4. PortIsThePages'
  BY <1>0, <1>2, <1>3 DEF TabInv, PortIsThePages
<1>5. \A u \in Visits : Mounting(u)' <=> Mounting(u)
  BY MountingMeans, MountingNext, <1>2 DEF TabInv
<1>6. MarkIsThePages'
  BY <1>0, <1>3, <1>5 DEF TabInv, MarkIsThePages
<1> QED BY <1>4, <1>6

\* What a heard page leaves to wait for.
LEMMA HeardLeaves ==
  ASSUME TabInv, NEW v, Heard(v)
  PROVE  /\ Head(fromContent[v])[1] # "bye" =>
              \A u \in Visits : HasKind(fromContent[u], "bye") => HasKind(fromContent'[u], "bye")
         /\ \A a : Head(fromContent[v]) # <<"capture", a>> =>
              \A u \in Visits : HasMail(fromContent[u], <<"capture", a>>)
                                  => HasMail(fromContent'[u], <<"capture", a>>)
         /\ Head(fromContent[v])[1] # "hello" =>
              \A u \in Visits : HasKind(fromContent[u], "hello") => HasKind(fromContent'[u], "hello")
BY HeardFacts DEF IsRead

LEMMA HelloHeardKeepsInv ==
  ASSUME TabInv, NEW v, Heard(v), Head(fromContent[v])[1] = "hello", ContentConnects(v)
  PROVE  TabInv'
<1> DEFINE ms == <<Say("surface")>>
           cs == <<Say("cleared")>>
<1>0. /\ v \in Visits /\ fromContent[v] # <<>>
      /\ UNCHANGED <<pageShown, visits, framed, surfaceOf, waitingAsks, fromGuest, asks, nudges>>
      /\ byTab' = v /\ restoredMark' = FALSE
      /\ toGuest' = IF restoredMark THEN ToGuests(cs) ELSE toGuest
      /\ toContent' = IF driven THEN Sends(toContent, v, Reach(v, ms)) ELSE toContent
      /\ UNCHANGED <<guests, captures, events, raOpen, driven>>
  BY DEF Heard, ContentConnects
<1>1. /\ fromContent' \in [Visits -> Seq(TabMail)]
      /\ IsRead(fromContent', fromContent, v)
      /\ v \in 1 .. Len(visits) /\ 1 .. Len(visits) \subseteq Visits
      /\ ~HasKind(fromContent'[v], "hello")
      /\ v # pageShown => HasKind(fromContent'[v], "bye")
  BY HeardFacts
<1>2. Say("surface") \in TabMail /\ Say("surface")[1] = "surface" /\ Say("cleared") \in TabMail
  BY TabMails DEF Say, TabKinds
<1>3. ms \in Seq(TabMail) /\ HasKind(ms, "surface") /\ cs \in Seq(TabMail)
  BY <1>2, OneHas, OneMail
<1> HIDE DEF ms, cs
<1>4. toGuest' \in [Visits -> Seq(TabMail)] /\ Gains(toGuest', toGuest)
  BY GainsNothing, <1>3, GuestsGain, <1>0 DEF TabInv, TabTyped
<1>5. /\ toContent' \in [Visits -> Seq(TabMail)] /\ Gains(toContent', toContent)
      /\ driven /\ v = pageShown => HasKind(toContent'[v], "surface")
  <2>1. toContent \in [Visits -> Seq(TabMail)] /\ Gains(toContent, toContent)
    BY GainsNothing DEF TabInv, TabTyped
  <2>2. CASE driven
    BY <1>0, <2>2, <1>3, <2>1, ReachSends DEF IsSent
  <2>3. CASE ~driven
    BY <1>0, <2>1, <2>3
  <2> QED BY <2>2, <2>3
<1>6. TabTyped'
  <2>1. byTab' \in 0 .. Len(visits')
    BY <1>0, <1>1
  <2> QED BY <1>0, <1>1, <1>4, <1>5, <2>1 DEF TabInv, TabTyped
<1>7. PagesInTurn'
  BY <1>0 DEF TabInv, PagesInTurn
<1>8. /\ ContentInOrder' /\ RestoredIsSaid' /\ MountsInTurn'
      /\ \A u \in Visits : Mounting(u)' => Mounting(u)
  BY <1>6, HeardInTurn
<1>9. HasKind(fromContent[v], "hello") /\ Mounting(v)
  BY <1>1, <1>0, MountingMeans DEF IsRead, TabInv
<1>10. pageShown # 0 => pageShown \in Visits /\ (v = pageShown \/ HasKind(fromContent[pageShown], "hello"))
  BY <1>1, <1>9, NotHeardBefore, NumbersOfPages DEF TabInv
<1>11. pageShown # 0 /\ v # pageShown => HasKind(fromContent'[pageShown], "hello")
  BY <1>1, <1>10 DEF IsRead
<1>12. PortIsThePages'
  BY <1>0, <1>1, <1>11, TabFacts DEF PortIsThePages
<1>13. MarkIsThePages'
  <2> SUFFICES ASSUME pageShown # 0, ~Mounting(pageShown)' PROVE ~visits[pageShown] /\ visits[pageShown] \in BOOLEAN
    BY <1>0 DEF MarkIsThePages
  <2>1. pageShown \in Visits /\ ~HasKind(fromContent'[pageShown], "hello")
        /\ ~HasKind(fromContent'[pageShown], "restored")
    BY <1>0, <1>6, MountingNext, <1>10 DEF Mounting
  <2>2. v = pageShown
    BY <1>11, <2>1
  <2>3. ~HasKind(fromContent[v], "restored")
    BY <1>1, <2>1, <2>2 DEF IsRead
  <2>4. visits[v] \in BOOLEAN
    BY <1>1, ElementOfSeq DEF TabInv, TabTyped
  <2> QED BY <1>1, <1>9, <2>2, <2>3, <2>4 DEF TabInv, RestoredIsSaid
<1>14. GuestHalf'
  BY <1>0, GuestStays DEF TabInv, GuestHalf
<1>15. SurfaceIsAsked'
  BY <1>0, <1>5, <1>11 DEF SurfaceIsAsked
<1>16. CapturesEnd'
  <2>1. \A u \in Visits : HasKind(fromContent[u], "bye") => HasKind(fromContent'[u], "bye")
    BY HeardLeaves
  <2>2. \A a : Head(fromContent[v]) # <<"capture", a>>
    BY DEF HasMail
  <2>3. pageShown # 0 => \A a : HasMail(fromContent[pageShown], <<"capture", a>>)
                                => HasMail(fromContent'[pageShown], <<"capture", a>>)
    BY <1>10, <2>2, HeardLeaves
  <2>4. pageShown # 0 => \A a : HasMail(toContent[pageShown], <<"capture", a>>)
                                => HasMail(toContent'[pageShown], <<"capture", a>>)
    BY <1>5, <1>10 DEF Gains
  <2> QED BY <1>0, <2>1, <2>3, <2>4, CapturesStay
<1>17. PromisesEnd'
  BY <1>0, <1>4, PromisesKept
<1> QED BY <1>6, <1>7, <1>8, <1>12, <1>13, <1>14, <1>15, <1>16, <1>17 DEF TabInv, GuestHalf

LEMMA ByeHeardKeepsInv ==
  ASSUME TabInv, NEW v, Heard(v), Head(fromContent[v])[1] = "bye", ContentEnds(v)
  PROVE  TabInv'
<1>0. /\ v \in Visits
      /\ UNCHANGED <<pageShown, visits, framed, surfaceOf, waitingAsks, fromGuest, asks, nudges>>
      /\ byTab' = (IF byTab = v THEN 0 ELSE byTab) /\ raOpen' = FALSE
      /\ captures' = <<>> /\ toGuest' = Answered(captures)
      /\ UNCHANGED <<guests, events, restoredMark, driven, toContent>>
  BY DEF Heard, ContentEnds, TabKeeps
<1>1. /\ fromContent' \in [Visits -> Seq(TabMail)]
      /\ IsRead(fromContent', fromContent, v)
      /\ v \in 1 .. Len(visits) /\ 1 .. Len(visits) \subseteq Visits
      /\ fromContent'[v] = <<>> /\ v # pageShown
  BY HeardFacts
<1>2. pageShown # 0 => pageShown \in Visits /\ fromContent'[pageShown] = fromContent[pageShown]
  BY <1>1, NumbersOfPages DEF TabInv, IsRead
<1>3. captures \in Seq(Captures)
  BY DEF TabInv, TabTyped
<1>4. /\ toGuest' \in [Visits -> Seq(TabMail)]
      /\ Gains(toGuest', toGuest)
      /\ \A k \in 1 .. Len(captures) : captures[k].guest = pageShown
           => HasMail(toGuest'[pageShown], <<"capture", captures[k].ask>>)
  BY <1>0, <1>3, AnsweredGains DEF TabInv
<1>5. TabTyped'
  <2>1. byTab' \in 0 .. Len(visits')
    BY NumbersOfPages, <1>0 DEF TabInv, TabTyped
  <2>2. captures' \in Seq(Captures) /\ raOpen' \in BOOLEAN
    BY <1>0, EmptySeq
  <2> QED BY <1>0, <1>1, <1>4, <2>1, <2>2 DEF TabInv, TabTyped
<1>6. PagesInTurn'
  BY <1>0 DEF TabInv, PagesInTurn
<1>7. ContentInOrder' /\ RestoredIsSaid' /\ MountsInTurn'
  BY <1>5, HeardInTurn
<1>8. PortIsThePages'
  BY NumbersOfPages, <1>0, <1>1, <1>2 DEF TabInv, IsRead, PortIsThePages
<1>9. MarkIsThePages'
  BY <1>0, <1>2 DEF Mounting, TabInv, MarkIsThePages
<1>10. GuestHalf'
  BY <1>0, GuestStays DEF TabInv, GuestHalf
<1>11. SurfaceIsAsked'
  BY <1>0, <1>2 DEF TabInv, SurfaceIsAsked
<1>12. CapturesEnd'
  <2>1. Len(captures') = 0
    BY <1>0, EmptySeq
  <2> QED BY <2>1 DEF CapturesEnd
<1>13. PromisesEnd'
  BY <1>0, <1>4, PromisesKept
<1> QED BY <1>5, <1>6, <1>7, <1>8, <1>9, <1>10, <1>11, <1>12, <1>13 DEF TabInv, GuestHalf

LEMMA RestoredHeardKeepsInv ==
  ASSUME TabInv, NEW v, Heard(v), Head(fromContent[v])[1] = "restored", SaysRestored
  PROVE  TabInv'
<1> DEFINE ms == <<Say("restored")>>
<1>0. /\ v \in Visits /\ fromContent[v] # <<>>
      /\ UNCHANGED <<pageShown, visits, framed, surfaceOf, waitingAsks, fromGuest, asks, nudges>>
      /\ restoredMark' = TRUE /\ toGuest' = ToGuests(ms)
      /\ UNCHANGED <<byTab, guests, captures, events, raOpen, driven, toContent>>
  BY DEF Heard, SaysRestored
<1>1. /\ fromContent' \in [Visits -> Seq(TabMail)]
      /\ IsRead(fromContent', fromContent, v)
      /\ v \in 1 .. Len(visits) /\ 1 .. Len(visits) \subseteq Visits
      /\ ~HasKind(fromContent'[v], "hello")
  BY HeardFacts
<1>2. Say("restored") \in TabMail
  BY TabMails DEF Say, TabKinds
<1>3. ms \in Seq(TabMail)
  BY <1>2, OneMail
<1> HIDE DEF ms
<1>4. toGuest' \in [Visits -> Seq(TabMail)] /\ Gains(toGuest', toGuest)
  BY <1>0, <1>3, GuestsGain DEF TabInv
<1>5. TabTyped'
  BY <1>0, <1>1, <1>4 DEF TabInv, TabTyped
<1>6. PagesInTurn'
  BY <1>0 DEF TabInv, PagesInTurn
<1>7. /\ ContentInOrder' /\ RestoredIsSaid' /\ MountsInTurn'
      /\ \A u \in Visits : Mounting(u)' => Mounting(u)
  BY <1>5, HeardInTurn
<1>8. HasKind(fromContent[v], "restored") /\ Mounting(v) /\ visits[v]
  BY <1>1, <1>0, MountingMeans DEF IsRead, TabInv, RestoredIsSaid
<1>9. \A u \in Visits : /\ HasKind(fromContent'[u], "hello") <=> HasKind(fromContent[u], "hello")
                        /\ HasKind(fromContent'[u], "bye") <=> HasKind(fromContent[u], "bye")
  BY <1>1 DEF IsRead
<1>10. (byTab # 0 => byTab \in Visits) /\ (pageShown # 0 => pageShown \in Visits)
  BY NumbersOfPages DEF TabInv
<1>11. PortIsThePages'
  BY <1>0, <1>9, <1>10 DEF TabInv, PortIsThePages
<1>12. MarkIsThePages'
  <2> SUFFICES ASSUME pageShown # 0, ~Mounting(pageShown)' PROVE visits[pageShown] = TRUE
    BY <1>0 DEF MarkIsThePages
  <2>1. ~HasKind(fromContent'[pageShown], "hello")
    BY <1>0, <1>5, MountingNext, <1>10 DEF Mounting
  <2>2. v = pageShown
    BY <1>1, <1>8, <1>9, <1>10, <2>1, NotHeardBefore
  <2>3. visits[v] \in BOOLEAN
    BY <1>1, ElementOfSeq DEF TabInv, TabTyped
  <2> QED BY <1>8, <2>2, <2>3
<1>13. GuestHalf'
  BY <1>0, GuestStays DEF TabInv, GuestHalf
<1>14. SurfaceIsAsked'
  BY <1>0, <1>9, <1>10, SurfaceStays
<1>15. CapturesEnd'
  BY <1>10, HeardLeaves, <1>0, <1>9, CapturesStay
<1>16. PromisesEnd'
  BY <1>0, <1>4, PromisesKept
<1> QED BY <1>5, <1>6, <1>7, <1>11, <1>12, <1>13, <1>14, <1>15, <1>16 DEF TabInv, GuestHalf

\* Remote access or a shortcut: only wires and what waits for a messenger change.
LEMMA SpokenHeardKeepsInv ==
  ASSUME TabInv, NEW v, Heard(v), Head(fromContent[v])[1] \in {"remote", "shortcut"},
         UNCHANGED <<byTab, guests, captures, restoredMark, driven, toContent>>,
         raOpen' \in {TRUE, FALSE, raOpen}, events' \in Seq(Nat),
         toGuest' \in [Visits -> Seq(TabMail)], Gains(toGuest', toGuest)
  PROVE  TabInv'
<1>0. /\ v \in Visits
      /\ UNCHANGED <<pageShown, visits, framed, surfaceOf, waitingAsks, fromGuest, asks, nudges>>
  BY DEF Heard
<1>1. fromContent' \in [Visits -> Seq(TabMail)] /\ IsRead(fromContent', fromContent, v)
  BY HeardFacts
<1>2. TabTyped'
  BY <1>0, <1>1 DEF TabInv, TabTyped
<1>3. PagesInTurn'
  BY <1>0 DEF TabInv, PagesInTurn
<1>4. ContentHalf'
  BY <1>2, HeardInTurn, OtherwiseHeard DEF ContentHalf
<1>5. GuestHalf'
  BY <1>0, GuestStays DEF TabInv, GuestHalf
<1>6. pageShown # 0 => pageShown \in Visits
  BY NumbersOfPages DEF TabInv
<1>7. SurfaceIsAsked'
  BY <1>0, <1>6, HeardLeaves, SurfaceStays
<1>8. CapturesEnd'
  <2>1. \A a : Head(fromContent[v]) # <<"capture", a>>
    OBVIOUS
  <2>2. \A u \in Visits : HasKind(fromContent[u], "bye") => HasKind(fromContent'[u], "bye")
    BY HeardLeaves
  <2>3. pageShown # 0 => \A a : HasMail(fromContent[pageShown], <<"capture", a>>)
                                => HasMail(fromContent'[pageShown], <<"capture", a>>)
    BY <1>6, <2>1, HeardLeaves
  <2> QED BY <1>0, <2>2, <2>3, CapturesStay
<1>9. PromisesEnd'
  BY <1>0, PromisesKept
<1> QED BY <1>2, <1>3, <1>4, <1>5, <1>7, <1>8, <1>9 DEF TabInv, ContentHalf, GuestHalf

LEMMA CaptureHeardKeepsInv ==
  ASSUME TabInv, NEW v, Heard(v), NEW a, Head(fromContent[v]) = <<"capture", a>>, SaysCapture(a)
  PROVE  TabInv'
<1> DEFINE asked == [ask : {a}, guest : Visits]
           others == Captures \ asked
           gone == Among(captures, asked)
           remain == Among(captures, others)
<1>0. /\ v \in Visits /\ Head(fromContent[v])[1] = "capture"
      /\ UNCHANGED <<pageShown, visits, framed, surfaceOf, waitingAsks, fromGuest, asks, nudges>>
      /\ captures' = remain /\ toGuest' = Answered(gone)
      /\ UNCHANGED <<byTab, guests, events, raOpen, restoredMark, driven, toContent>>
  BY DEF Heard, SaysCapture
<1>1. fromContent' \in [Visits -> Seq(TabMail)] /\ IsRead(fromContent', fromContent, v)
  BY HeardFacts
<1>2. captures \in Seq(Captures) /\ \A k \in 1 .. Len(captures) : captures[k] \in Captures
  BY CapturesTyped DEF TabInv
<1>02. \A c \in Captures : (c \in asked <=> c.ask = a) /\ (c \in others <=> c.ask # a)
  BY CaptureIsOf
<1> HIDE DEF asked, others
<1>3. /\ gone \in Seq(Captures)
      /\ \A x : (\E i \in 1 .. Len(gone) : gone[i] = x)
                  <=> x \in asked /\ \E i \in 1 .. Len(captures) : captures[i] = x
  BY <1>2, AmongCaptures
<1>4. /\ remain \in Seq(Captures)
      /\ \A x : (\E i \in 1 .. Len(remain) : remain[i] = x)
                  <=> x \in others /\ \E i \in 1 .. Len(captures) : captures[i] = x
  BY <1>2, AmongCaptures
<1> HIDE DEF gone, remain
<1>5. /\ toGuest' \in [Visits -> Seq(TabMail)] /\ Gains(toGuest', toGuest)
      /\ \A k \in 1 .. Len(gone) : gone[k].guest = pageShown
           => HasMail(toGuest'[pageShown], <<"capture", gone[k].ask>>)
  BY <1>0, <1>3, AnsweredGains DEF TabInv
<1>6. TabTyped'
  BY <1>0, <1>1, <1>4, <1>5 DEF TabInv, TabTyped
<1>7. PagesInTurn'
  BY <1>0 DEF TabInv, PagesInTurn
<1>8. ContentHalf'
  BY <1>0, <1>6, HeardInTurn, OtherwiseHeard DEF ContentHalf
<1>9. GuestHalf'
  BY <1>0, GuestStays DEF TabInv, GuestHalf
<1>10. pageShown # 0 => pageShown \in Visits
  BY NumbersOfPages DEF TabInv
<1>11. SurfaceIsAsked'
  BY <1>0, <1>10, HeardLeaves, SurfaceStays
<1>12. ASSUME NEW k \in 1 .. Len(remain)
       PROVE  remain[k].ask # a /\ \E j \in 1 .. Len(captures) : captures[j] = remain[k]
  BY <1>4, <1>02
<1>13. CapturesEnd'
  <2> SUFFICES ASSUME NEW k \in 1 .. Len(remain)
               PROVE  \/ \E u \in Visits : HasKind(fromContent'[u], "bye")
                      \/ /\ pageShown # 0
                         /\ \/ HasMail(toContent[pageShown], <<"capture", remain[k].ask>>)
                            \/ HasMail(fromContent'[pageShown], <<"capture", remain[k].ask>>)
    BY <1>0 DEF CapturesEnd
  <2>1. PICK j \in 1 .. Len(captures) : captures[j] = remain[k]
    BY <1>12
  <2>2. remain[k].ask # a
    BY <1>12
  <2>3. \/ \E u \in Visits : HasKind(fromContent[u], "bye")
        \/ /\ pageShown # 0
           /\ \/ HasMail(toContent[pageShown], <<"capture", remain[k].ask>>)
              \/ HasMail(fromContent[pageShown], <<"capture", remain[k].ask>>)
    BY <2>1 DEF TabInv, CapturesEnd
  <2>4. \A u \in Visits : HasKind(fromContent[u], "bye") => HasKind(fromContent'[u], "bye")
    BY <1>0, HeardLeaves
  <2>5. Head(fromContent[v]) # <<"capture", remain[k].ask>>
    BY <2>2
  <2>6. \A u \in Visits : HasMail(fromContent[u], <<"capture", remain[k].ask>>)
                            => HasMail(fromContent'[u], <<"capture", remain[k].ask>>)
    BY <2>5, HeardLeaves
  <2> QED BY <1>10, <2>3, <2>4, <2>6
<1>14. PromisesEnd'
  <2>1. ASSUME NEW k \in 1 .. Len(captures), captures[k].guest = pageShown
        PROVE  \/ \E j \in 1 .. Len(captures') : captures'[j] = captures[k]
               \/ HasMail(toGuest'[pageShown], <<"capture", captures[k].ask>>)
    <3>1. CASE captures[k].ask = a
      <4>1. captures[k] \in asked
        BY <1>02, <1>2, <3>1
      <4>2. PICK i \in 1 .. Len(gone) : gone[i] = captures[k]
        BY <1>3, <4>1
      <4>3. gone[i].guest = pageShown
        BY <2>1, <4>2
      <4>4. HasMail(toGuest'[pageShown], <<"capture", gone[i].ask>>)
        BY <1>5, <4>3
      <4> QED BY <4>2, <4>4
    <3>2. CASE captures[k].ask # a
      <4>1. captures[k] \in others
        BY <1>02, <1>2, <3>2
      <4> QED BY <1>0, <1>4, <4>1
    <3> QED BY <3>1, <3>2
  <2> QED BY <1>0, <1>5, <2>1, PromisesKept
<1> QED BY <1>6, <1>7, <1>8, <1>9, <1>11, <1>13, <1>14 DEF TabInv, ContentHalf, GuestHalf

LEMMA ContentIsHeardKeepsInv ==
  ASSUME TabInv, NEW v \in Visits, ContentIsHeard(v)
  PROVE  TabInv'
<1> DEFINE m == Head(fromContent[v])
<1>1. Heard(v)
  BY DEF ContentIsHeard, Heard, pageSide
<1>2. m \in TabMail
  BY <1>1, HeardFacts
<1>3. \/ m[1] = "hello" /\ ContentConnects(v)
      \/ m[1] = "bye" /\ ContentEnds(v)
      \/ m[1] = "restored" /\ SaysRestored
      \/ m[1] = "remote" /\ SaysRemote
      \/ m[1] = "shortcut" /\ SaysShortcut(v)
      \/ m[1] = "capture" /\ SaysCapture(m[2])
  BY DEF ContentIsHeard
<1>4. CASE m[1] = "hello" /\ ContentConnects(v)
  BY <1>1, <1>4, HelloHeardKeepsInv
<1>5. CASE m[1] = "bye" /\ ContentEnds(v)
  BY <1>1, <1>5, ByeHeardKeepsInv
<1>6. CASE m[1] = "restored" /\ SaysRestored
  BY <1>1, <1>6, RestoredHeardKeepsInv
<1>7. CASE m[1] = "remote" /\ SaysRemote
  <2> DEFINE ms == <<Say("remote")>>
  <2>1. ms \in Seq(TabMail)
    <3>1. Say("remote") \in TabMail
      BY TabMails DEF Say, TabKinds
    <3> QED BY <3>1, OneMail
  <2>2. toGuest' = ToGuests(ms) /\ raOpen' = (raOpen \/ guests = {})
        /\ UNCHANGED <<byTab, guests, captures, events, restoredMark, driven, toContent>>
    BY <1>7 DEF SaysRemote
  <2> HIDE DEF ms
  <2>3. toGuest' \in [Visits -> Seq(TabMail)] /\ Gains(toGuest', toGuest)
    BY <2>1, <2>2, GuestsGain DEF TabInv
  <2>4. events' \in Seq(Nat)
    BY <2>2 DEF TabInv, TabTyped
  <2>5. raOpen' \in {TRUE, FALSE, raOpen}
    BY <2>2
  <2> QED BY <1>1, <1>7, <2>2, <2>3, <2>4, <2>5, SpokenHeardKeepsInv
<1>8. CASE m[1] = "shortcut" /\ SaysShortcut(v)
  <2> DEFINE ms == <<<<"event", v>>>>
  <2>0. v \in Nat
    BY TabFacts
  <2>1. ms \in Seq(TabMail)
    <3>1. <<"event", v>> \in TabMail
      BY <2>0, TabMails
    <3> QED BY <3>1, OneMail
  <2>2. toGuest' = ToGuests(ms)
        /\ UNCHANGED <<byTab, guests, captures, raOpen, restoredMark, driven, toContent>>
    BY <1>8 DEF SaysShortcut
  <2> HIDE DEF ms
  <2>3. toGuest' \in [Visits -> Seq(TabMail)] /\ Gains(toGuest', toGuest)
    BY <2>1, <2>2, GuestsGain DEF TabInv
  <2>4. events' \in Seq(Nat)
    BY TabFacts, EmptySeq, <2>0, AppendProperties, HeadAndTail, <1>8 DEF TabInv, TabTyped, SaysShortcut
  <2>5. raOpen' \in {TRUE, FALSE, raOpen}
    BY <2>2
  <2> QED BY <1>1, <1>8, <2>2, <2>3, <2>4, <2>5, SpokenHeardKeepsInv
<1>9. CASE m[1] = "capture" /\ SaysCapture(m[2])
  <2>1. m = <<"capture", m[2]>>
    BY <1>2, <1>9, TabMails
  <2> QED BY <1>1, <1>9, <2>1, CaptureHeardKeepsInv
<1> QED BY <1>3, <1>4, <1>5, <1>6, <1>7, <1>8, <1>9

-----------------------------------------------------------------------------
\* A messenger is heard: what holds whatever it says.
Spoken(v) ==
  /\ v \in Visits /\ fromGuest[v] # <<>> /\ ~Mounting(v)
  /\ fromGuest' = [fromGuest EXCEPT ![v] = Tail(@)]
  /\ UNCHANGED <<pageShown, visits, framed, surfaceOf, waitingAsks, restoredMark, driven, byTab, fromContent,
                 asks, nudges>>

LEMMA SpokenFacts ==
  ASSUME TabInv, NEW v, Spoken(v)
  PROVE  /\ fromGuest' \in [Visits -> Seq(GuestMail)] /\ Head(fromGuest[v]) \in GuestMail
         /\ IsRead(fromGuest', fromGuest, v)
         /\ v \in 1 .. Len(visits) /\ 1 .. Len(visits) \subseteq Visits
         /\ InOrder(fromGuest'[v]) /\ ~HasKind(fromGuest'[v], "hello")
         /\ Head(fromGuest[v])[1] = "bye" => fromGuest'[v] = <<>> /\ v # pageShown
         /\ v # pageShown /\ Head(fromGuest[v])[1] # "bye" => HasKind(fromGuest'[v], "bye")
         /\ v # pageShown => SaidBye(fromGuest'[v])
<1>1. /\ v \in Visits /\ fromGuest \in [Visits -> Seq(GuestMail)] /\ fromGuest[v] # <<>>
      /\ fromGuest[v] \in Seq(GuestMail) /\ InOrder(fromGuest[v])
      /\ v = pageShown => ~HasKind(fromGuest[v], "bye")
      /\ v # pageShown => SaidBye(fromGuest[v])
      /\ fromGuest' = [fromGuest EXCEPT ![v] = Tail(@)]
  BY DEF Spoken, TabInv, TabTyped, GuestsInOrder
<1>2. /\ fromGuest' \in [Visits -> Seq(GuestMail)] /\ Head(fromGuest[v]) \in GuestMail
      /\ IsRead(fromGuest', fromGuest, v)
  BY <1>1, ReadsFrom
<1>3. v \in 1 .. Len(visits) /\ 1 .. Len(visits) \subseteq Visits
  BY <1>1, NumbersOfPages, TabFacts DEF TabInv, GuestsInOrder
<1>4. /\ InOrder(Tail(fromGuest[v])) /\ ~HasKind(Tail(fromGuest[v]), "hello")
      /\ Head(fromGuest[v])[1] = "bye" => Tail(fromGuest[v]) = <<>>
      /\ SaidBye(fromGuest[v]) => SaidBye(Tail(fromGuest[v]))
  BY <1>1, TailInOrder
<1>5. Head(fromGuest[v])[1] = "bye" => v # pageShown
  BY <1>1, <1>2 DEF IsRead
<1>6. v # pageShown /\ Head(fromGuest[v])[1] # "bye" => HasKind(fromGuest'[v], "bye")
  BY <1>1, <1>2 DEF IsRead, SaidBye
<1> QED BY <1>1, <1>2, <1>3, <1>4, <1>5, <1>6 DEF IsRead

LEMMA SpokenInTurn ==
  ASSUME TabInv, NEW v, Spoken(v)
  PROVE  PagesInTurn' /\ ContentHalf' /\ GuestsInOrder'
<1>0. /\ v \in Visits
      /\ UNCHANGED <<pageShown, visits, framed, waitingAsks, restoredMark, byTab, fromContent>>
  BY DEF Spoken
<1>1. /\ IsRead(fromGuest', fromGuest, v)
      /\ v \in 1 .. Len(visits) /\ 1 .. Len(visits) \subseteq Visits
      /\ InOrder(fromGuest'[v])
      /\ v # pageShown => SaidBye(fromGuest'[v])
  BY SpokenFacts
<1>2. Len(visits) \in Nat /\ ~(v > Len(visits))
  BY <1>1, NumbersOfPages DEF TabInv
<1>3. ContentHalf'
  BY <1>0, ContentStays DEF TabInv, ContentHalf
<1>4. PagesInTurn'
  BY <1>0 DEF TabInv, PagesInTurn
<1>5. GuestsInOrder'
  <2> SUFFICES ASSUME NEW u \in Visits
               PROVE  /\ InOrder(fromGuest'[u])
                      /\ u = pageShown => ~HasKind(fromGuest'[u], "bye")
                      /\ u # pageShown => SaidBye(fromGuest'[u])
                      /\ u > Len(visits) => fromGuest'[u] = <<>>
    BY <1>0 DEF GuestsInOrder
  <2>1. CASE u = v
    BY <1>1, <2>1, <1>2 DEF TabInv, GuestsInOrder, IsRead
  <2>2. CASE u # v
    BY <1>1, <2>2 DEF TabInv, GuestsInOrder, IsRead
  <2> QED BY <2>1, <2>2
<1> QED BY <1>3, <1>4, <1>5

\* The page shown, when its messenger is heard.
LEMMA SpokenOfThePage ==
  ASSUME TabInv, NEW v, Spoken(v)
  PROVE  /\ v = pageShown => byTab = v /\ framed = v
         /\ v = pageShown /\ Head(fromGuest[v])[1] # "hello" => v \in guests
         /\ pageShown # 0 => pageShown \in Visits
<1>0. v \in Visits /\ fromGuest[v] # <<>> /\ ~Mounting(v) /\ v # 0
  BY TabFacts DEF Spoken
<1>1. v = pageShown => byTab = v
  BY <1>0, MountingMeans DEF TabInv, PortIsThePages
<1>2. v = pageShown => framed = v
  BY <1>0 DEF TabInv, GuestsAreThePages
<1>3. v = pageShown /\ Head(fromGuest[v])[1] # "hello" => v \in guests
  BY SpokenFacts, <1>0, <1>2 DEF IsRead, TabInv, GuestsAreThePages
<1>4. pageShown # 0 => pageShown \in Visits
  BY NumbersOfPages DEF TabInv
<1> QED BY <1>1, <1>2, <1>3, <1>4

\* While the tab's messengers stay those the worker has.
LEMMA GuestsStay ==
  ASSUME TabInv, NEW v, Spoken(v), guests' = guests,
         Head(fromGuest[v])[1] # "bye",
         v = pageShown => v \in guests
  PROVE  GuestsAreThePages'
BY SpokenFacts, SpokenOfThePage, NumbersOfPages DEF Spoken, IsRead, TabInv, GuestsAreThePages

LEMMA GuestConnectsKeepsInv ==
  ASSUME TabInv, NEW v, Spoken(v), Head(fromGuest[v])[1] = "hello", byTab # 0, GuestConnects(v)
  PROVE  TabInv'
<1> DEFINE es == [i \in DOMAIN events |-> <<"event", events[i]>>]
           rs == IF raOpen THEN <<Say("remote")>> ELSE <<>>
           bs == IF restoredMark THEN <<Say("restored")>> ELSE <<>>
           ms == rs \o es \o bs
<1>0. /\ v \in Visits
      /\ UNCHANGED <<pageShown, visits, framed, surfaceOf, waitingAsks, restoredMark, driven, byTab,
                     fromContent, asks, nudges>>
      /\ guests' = guests \cup {v}
      /\ toGuest' = Sends(toGuest, v, Reach(v, ms))
      /\ raOpen' = FALSE /\ events' = <<>>
      /\ UNCHANGED <<captures, toContent>>
  BY DEF Spoken, GuestConnects
<1>1. /\ fromGuest' \in [Visits -> Seq(GuestMail)]
      /\ IsRead(fromGuest', fromGuest, v)
      /\ v \in 1 .. Len(visits)
      /\ v # pageShown => HasKind(fromGuest'[v], "bye")
  BY SpokenFacts
<1>2. ms \in Seq(TabMail)
  <2>1. Say("remote") \in TabMail /\ Say("restored") \in TabMail
    BY TabMails DEF Say, TabKinds
  <2>2. rs \in Seq(TabMail) /\ bs \in Seq(TabMail)
    BY <2>1, OneMail, EmptySeq
  <2>3. es \in Seq(TabMail)
    <3>1. events \in Seq(Nat)
      BY DEF TabInv, TabTyped
    <3>2. Len(events) \in Nat /\ DOMAIN events = 1 .. Len(events) /\ \A i \in 1 .. Len(events) : events[i] \in Nat
      BY <3>1, LenProperties, ElementOfSeq
    <3>3. es \in [1 .. Len(events) -> TabMail]
      BY <3>2, TabMails
    <3> QED BY <3>2, <3>3, IsASeq
  <2> HIDE DEF es, rs, bs
  <2>4. rs \o es \in Seq(TabMail)
    BY <2>2, <2>3, ConcatProperties
  <2> QED BY <2>2, <2>4, ConcatProperties
<1> HIDE DEF ms
<1>3. toGuest' \in [Visits -> Seq(TabMail)] /\ Gains(toGuest', toGuest)
  BY <1>0, <1>2, ReachSends DEF TabInv, TabTyped
<1>4. TabTyped'
  BY <1>0, EmptySeq, <1>1, <1>3 DEF TabInv, TabTyped
<1>5. PagesInTurn' /\ ContentHalf' /\ GuestsInOrder'
  BY SpokenInTurn
<1>6. GuestsAreThePages'
  BY <1>1, SpokenOfThePage, NumbersOfPages, <1>0 DEF IsRead, TabInv, GuestsAreThePages
<1>7. SurfaceIsAsked' /\ CapturesEnd'
  BY <1>0 DEF TabInv, SurfaceIsAsked, CapturesEnd
<1>8. PromisesEnd'
  <2>1. \A a : Head(fromGuest[v]) # <<"capture", a>>
    OBVIOUS
  <2>2. pageShown # 0 => \A a : HasMail(fromGuest[pageShown], <<"capture", a>>)
                                => HasMail(fromGuest'[pageShown], <<"capture", a>>)
    BY <1>1, <2>1, SpokenOfThePage DEF IsRead
  <2> QED BY <1>0, <1>3, <2>2, PromisesKept
<1> QED BY <1>4, <1>5, <1>6, <1>7, <1>8 DEF TabInv, ContentHalf

\* A messenger that is not the tab's changes nothing.
LEMMA UnheardKeepsInv ==
  ASSUME TabInv, NEW v, Spoken(v), v # pageShown, Head(fromGuest[v])[1] # "bye",
         UNCHANGED <<guests, captures, events, raOpen, toGuest, toContent>>
  PROVE  TabInv'
<1>0. /\ v \in Visits
      /\ UNCHANGED <<pageShown, visits, framed, surfaceOf, waitingAsks, restoredMark, driven, byTab,
                     fromContent, asks, nudges>>
  BY DEF Spoken
<1>1. fromGuest' \in [Visits -> Seq(GuestMail)] /\ IsRead(fromGuest', fromGuest, v)
  BY SpokenFacts
<1>2. TabTyped'
  BY <1>0, <1>1 DEF TabInv, TabTyped
<1>3. PagesInTurn' /\ ContentHalf' /\ GuestsInOrder'
  BY SpokenInTurn
<1>4. GuestsAreThePages'
  BY GuestsStay
<1>5. SurfaceIsAsked' /\ CapturesEnd'
  BY <1>0 DEF TabInv, SurfaceIsAsked, CapturesEnd
<1>6. PromisesEnd'
  BY <1>1, SpokenOfThePage, <1>0, PromisesStay DEF IsRead
<1> QED BY <1>2, <1>3, <1>4, <1>5, <1>6 DEF TabInv, ContentHalf

LEMMA GuestAsksKeepsInv ==
  ASSUME TabInv, NEW v, Spoken(v), NEW a \in Asks, Head(fromGuest[v]) = <<"capture", a>>,
         v \in guests, GuestAsks(v, a)
  PROVE  TabInv'
<1> DEFINE ms   == <<<<"capture", a>>>>
           full == Len(captures) = CaptureLimit
           rest == IF full THEN Tail(captures) ELSE captures
           c    == [ask |-> a, guest |-> v]
<1>0. /\ v \in Visits /\ Head(fromGuest[v])[1] = "capture"
      /\ UNCHANGED <<pageShown, visits, framed, surfaceOf, waitingAsks, restoredMark, driven, byTab,
                     fromContent, asks, nudges>>
      /\ UNCHANGED <<guests, raOpen, events>>
      /\ byTab = 0 => /\ toGuest' = Sends(toGuest, v, Reach(v, ms))
                      /\ UNCHANGED <<captures, toContent>>
      /\ byTab # 0 => /\ captures' = Append(rest, c)
                      /\ toGuest' = IF full THEN Answered(<<Head(captures)>>) ELSE toGuest
                      /\ toContent' = Sends(toContent, byTab, Reach(byTab, ms))
  BY DEF Spoken, GuestAsks
<1>1. fromGuest' \in [Visits -> Seq(GuestMail)] /\ IsRead(fromGuest', fromGuest, v)
  BY SpokenFacts
<1>2. a \in Nat /\ <<"capture", a>> \in TabMail /\ ms \in Seq(TabMail) /\ HasMail(ms, <<"capture", a>>)
  BY CaptureMail, OneHas, OneMail DEF Asks
<1>3. c \in Captures /\ c.ask = a /\ c.guest = v
  BY <1>0 DEF Captures
<1>4. /\ captures \in Seq(Captures) /\ \A k \in 1 .. Len(captures) : captures[k] \in Captures
      /\ toGuest \in [Visits -> Seq(TabMail)] /\ toContent \in [Visits -> Seq(TabMail)]
      /\ byTab # 0 => byTab \in Visits
      /\ pageShown # 0 => pageShown \in Visits
      /\ Len(captures) \in Nat
  BY CapturesTyped, NumbersOfPages, LenProperties DEF TabInv, TabTyped
<1>5. full => captures # <<>>
  BY TabFacts, EmptySeq
<1> HIDE DEF ms, full, c
\* What is asked of the page, and what is remain to wait.
<1>6. /\ rest \in Seq(Captures)
      /\ \A k \in 1 .. Len(captures) : (full /\ k = 1) \/ \E j \in 1 .. Len(rest) : rest[j] = captures[k]
      /\ \A j \in 1 .. Len(rest) : \E k \in 1 .. Len(captures) : rest[j] = captures[k]
  <2>1. CASE full
    <3>1. /\ Len(captures) \in Nat \ {0} /\ Tail(captures) \in Seq(Captures)
          /\ Len(Tail(captures)) = Len(captures) - 1
          /\ \A i \in 1 .. Len(captures) - 1 : Tail(captures)[i] = captures[i + 1]
      BY <1>4, <1>5, <2>1, HeadAndTail
    <3>2. ASSUME NEW k \in 1 .. Len(captures), k # 1
          PROVE  \E j \in 1 .. Len(Tail(captures)) : Tail(captures)[j] = captures[k]
      BY <3>1, <3>2
    <3>3. ASSUME NEW j \in 1 .. Len(Tail(captures))
          PROVE  \E k \in 1 .. Len(captures) : Tail(captures)[j] = captures[k]
      BY <3>1
    <3>4. rest = Tail(captures)
      BY <2>1
    <3> HIDE DEF rest
    <3> QED BY <2>1, <3>1, <3>2, <3>3, <3>4
  <2>2. CASE ~full
    BY <1>4, <2>2
  <2> QED BY <2>1, <2>2
<1> HIDE DEF rest
<1>7. byTab # 0 =>
        /\ captures' \in Seq(Captures)
        /\ \A j \in 1 .. Len(rest) : \E k \in 1 .. Len(captures') : captures'[k] = rest[j]
        /\ \E k \in 1 .. Len(captures') : captures'[k] = c
        /\ \A k \in 1 .. Len(captures') : captures'[k] = c \/ \E j \in 1 .. Len(rest) : captures'[k] = rest[j]
  <2> SUFFICES ASSUME byTab # 0
               PROVE  /\ captures' \in Seq(Captures)
                      /\ \A j \in 1 .. Len(rest) : \E k \in 1 .. Len(captures') : captures'[k] = rest[j]
                      /\ \E k \in 1 .. Len(captures') : captures'[k] = c
                      /\ \A k \in 1 .. Len(captures') : captures'[k] = c \/ \E j \in 1 .. Len(rest) : captures'[k] = rest[j]
    OBVIOUS
  <2>1. captures' = Append(rest, c)
    BY <1>0
  <2>2. /\ captures' \in Seq(Captures) /\ Len(captures') = Len(rest) + 1 /\ Len(rest) \in Nat
        /\ captures'[Len(rest) + 1] = c
        /\ \A i \in 1 .. Len(rest) : captures'[i] = rest[i]
    BY <1>3, <1>6, <2>1, AppendProperties, LenProperties
  <2>3. \A k \in 1 .. Len(captures') : k = Len(rest) + 1 \/ k \in 1 .. Len(rest)
    BY <2>2
  <2>4. Len(rest) + 1 \in 1 .. Len(captures') /\ \A j \in 1 .. Len(rest) : j \in 1 .. Len(captures')
    BY <2>2
  <2> QED BY <2>2, <2>3, <2>4
<1>8. /\ toContent' \in [Visits -> Seq(TabMail)] /\ Gains(toContent', toContent)
      /\ byTab # 0 /\ byTab = pageShown => HasMail(toContent'[pageShown], <<"capture", a>>)
  <2>1. CASE byTab = 0
    BY <1>0, <1>4, <2>1, GainsNothing
  <2>2. CASE byTab # 0
    <3>1. toContent' = Sends(toContent, byTab, Reach(byTab, ms)) /\ byTab \in Visits
      BY <1>0, <1>4, <2>2
    <3>2. /\ toContent' \in [Visits -> Seq(TabMail)] /\ Gains(toContent', toContent)
          /\ byTab = pageShown => IsSent(toContent', toContent, byTab, ms)
      BY <1>2, <1>4, <3>1, ReachSends
    <3> QED BY <1>2, <3>2 DEF IsSent
  <2> QED BY <2>1, <2>2
<1>9. /\ toGuest' \in [Visits -> Seq(TabMail)] /\ Gains(toGuest', toGuest)
      /\ byTab = 0 /\ v = pageShown => HasMail(toGuest'[pageShown], <<"capture", a>>)
      /\ byTab # 0 /\ full /\ captures[1].guest = pageShown
           => HasMail(toGuest'[pageShown], <<"capture", captures[1].ask>>)
  <2>1. CASE byTab = 0
    <3>1. toGuest' = Sends(toGuest, v, Reach(v, ms))
      BY <1>0, <2>1
    <3>2. /\ toGuest' \in [Visits -> Seq(TabMail)] /\ Gains(toGuest', toGuest)
          /\ v = pageShown => IsSent(toGuest', toGuest, v, ms)
      BY <1>0, <1>2, <1>4, <3>1, ReachSends
    <3> QED BY <1>2, <2>1, <3>2 DEF IsSent
  <2>2. CASE byTab # 0 /\ full
    <3> DEFINE s == <<Head(captures)>>
    <3>1. Head(captures) = captures[1] /\ Head(captures) \in Captures
      BY <1>4, <1>5, <2>2, HeadAndTail
    <3>2. s \in Seq(Captures) /\ Len(s) = 1 /\ s[1] = captures[1] /\ 1 \in 1 .. Len(s)
      BY <3>1, OneMail
    <3>3. toGuest' = Answered(s)
      BY <1>0, <2>2
    <3> HIDE DEF s
    <3>4. /\ toGuest' \in [Visits -> Seq(TabMail)] /\ Gains(toGuest', toGuest)
          /\ \A k \in 1 .. Len(s) : s[k].guest = pageShown
               => HasMail(toGuest'[pageShown], <<"capture", s[k].ask>>)
      BY <3>2, <3>3, AnsweredGains DEF TabInv
    <3>5. s[1].guest = pageShown => HasMail(toGuest'[pageShown], <<"capture", s[1].ask>>)
      BY <3>2, <3>4
    <3> QED BY <2>2, <3>2, <3>4, <3>5
  <2>3. CASE byTab # 0 /\ ~full
    BY <1>0, <1>4, <2>3, GainsNothing
  <2> QED BY <2>1, <2>2, <2>3
<1>10. TabTyped'
  BY <1>0, <1>4, <1>7, <1>1, <1>8, <1>9 DEF TabInv, TabTyped
<1>11. PagesInTurn' /\ ContentHalf' /\ GuestsInOrder'
  BY SpokenInTurn
<1>12. GuestsAreThePages'
  BY <1>0, GuestsStay
<1>13. SurfaceIsAsked'
  BY <1>0, <1>4, <1>8, SurfaceStays DEF Gains
<1>14. CapturesEnd'
  <2>1. CASE byTab = 0
    BY <1>0, <2>1 DEF TabInv, CapturesEnd
  <2>2. CASE byTab # 0
    <3> SUFFICES ASSUME NEW k \in 1 .. Len(captures')
                 PROVE  \/ \E u \in Visits : HasKind(fromContent[u], "bye")
                        \/ /\ pageShown # 0
                           /\ \/ HasMail(toContent'[pageShown], <<"capture", captures'[k].ask>>)
                              \/ HasMail(fromContent[pageShown], <<"capture", captures'[k].ask>>)
      BY <1>0 DEF CapturesEnd
    <3>1. CASE captures'[k] = c
      BY <2>2, <1>3, <1>4, <1>8, <3>1 DEF TabInv, PortIsThePages
    <3>2. ASSUME NEW i \in 1 .. Len(captures), captures'[k] = captures[i]
          PROVE  \/ \E u \in Visits : HasKind(fromContent[u], "bye")
                 \/ /\ pageShown # 0
                    /\ \/ HasMail(toContent'[pageShown], <<"capture", captures'[k].ask>>)
                       \/ HasMail(fromContent[pageShown], <<"capture", captures'[k].ask>>)
      BY <1>4, <1>8, <3>2 DEF TabInv, CapturesEnd, Gains
    <3>3. captures'[k] = c \/ \E i \in 1 .. Len(captures) : captures'[k] = captures[i]
      <4>1. captures'[k] = c \/ \E j \in 1 .. Len(rest) : captures'[k] = rest[j]
        BY <1>7, <2>2
      <4>2. \A j \in 1 .. Len(rest) : \E i \in 1 .. Len(captures) : rest[j] = captures[i]
        BY <1>6
      <4> QED BY <4>1, <4>2
    <3> QED BY <3>1, <3>2, <3>3
  <2> QED BY <2>1, <2>2
<1>15. PromisesEnd'
  <2>1. ASSUME pageShown # 0, NEW b, HasMail(fromGuest[pageShown], <<"capture", b>>)
        PROVE  \/ HasMail(fromGuest'[pageShown], <<"capture", b>>)
               \/ \E k \in 1 .. Len(captures') : captures'[k] = [ask |-> b, guest |-> pageShown]
               \/ HasMail(toGuest'[pageShown], <<"capture", b>>)
    <3>1. CASE v = pageShown /\ b = a
      BY <3>1, <1>7, <1>9 DEF c
    <3>2. CASE v # pageShown
      BY <1>1, <1>4, <2>1, <3>2 DEF IsRead
    <3>3. CASE v = pageShown /\ b # a
      BY <3>3, <1>1, <2>1 DEF IsRead
    <3> QED BY <3>1, <3>2, <3>3
  <2>2. ASSUME NEW k \in 1 .. Len(captures), captures[k].guest = pageShown
        PROVE  \/ \E j \in 1 .. Len(captures') : captures'[j] = captures[k]
               \/ HasMail(toGuest'[pageShown], <<"capture", captures[k].ask>>)
    <3>1. CASE byTab = 0
      BY <1>0, <3>1
    <3>2. CASE byTab # 0 /\ full /\ k = 1
      BY <1>9, <2>2, <3>2
    <3>3. CASE byTab # 0 /\ ~(full /\ k = 1)
      <4>1. PICK j \in 1 .. Len(rest) : rest[j] = captures[k]
        BY <1>6, <3>3
      <4> QED BY <1>7, <3>3, <4>1
    <3> QED BY <3>1, <3>2, <3>3
  <2> QED BY <1>0, <1>9, <2>1, <2>2, PromisesKept
<1> QED BY <1>10, <1>11, <1>12, <1>13, <1>14, <1>15 DEF TabInv, ContentHalf

LEMMA GuestEndsKeepsInv ==
  ASSUME TabInv, NEW v, Spoken(v), Head(fromGuest[v])[1] = "bye", GuestEnds(v)
  PROVE  TabInv'
<1> DEFINE others == Captures \ Of(v)
           remain   == Among(captures, others)
<1>0. /\ v \in Visits
      /\ UNCHANGED <<pageShown, visits, framed, surfaceOf, waitingAsks, restoredMark, driven, byTab,
                     fromContent, asks, nudges>>
      /\ guests' = guests \ {v} /\ captures' = remain
      /\ UNCHANGED <<toGuest, toContent, raOpen, events>>
  BY DEF Spoken, GuestEnds
<1>1. fromGuest' \in [Visits -> Seq(GuestMail)] /\ IsRead(fromGuest', fromGuest, v) /\ v # pageShown
  BY SpokenFacts
<1>2. captures \in Seq(Captures) /\ \A k \in 1 .. Len(captures) : captures[k] \in Captures
  BY CapturesTyped DEF TabInv
<1>3. \A c \in Captures : c \in others <=> c.guest # v
  BY CaptureIsOf
<1> HIDE DEF others
<1>4. remain \in Seq(Captures)
  BY <1>2, AmongCaptures
<1>5. \A x : (\E i \in 1 .. Len(remain) : remain[i] = x) <=> x \in others /\ \E i \in 1 .. Len(captures) : captures[i] = x
  BY <1>2, AmongCaptures
<1> HIDE DEF remain
<1>6. TabTyped'
  BY <1>0, <1>1, <1>4 DEF TabInv, TabTyped
<1>7. PagesInTurn' /\ ContentHalf' /\ GuestsInOrder'
  BY SpokenInTurn
<1>8. pageShown # 0 => pageShown \in Visits /\ fromGuest'[pageShown] = fromGuest[pageShown]
  BY <1>1, SpokenOfThePage DEF IsRead
<1>9. GuestsAreThePages'
  BY NumbersOfPages, <1>0, <1>1, <1>8 DEF TabInv, GuestsAreThePages, IsRead
<1>10. SurfaceIsAsked'
  BY <1>0 DEF TabInv, SurfaceIsAsked
<1>11. CapturesEnd'
  <2> SUFFICES ASSUME NEW k \in 1 .. Len(remain)
               PROVE  \/ \E u \in Visits : HasKind(fromContent[u], "bye")
                      \/ /\ pageShown # 0
                         /\ \/ HasMail(toContent[pageShown], <<"capture", remain[k].ask>>)
                            \/ HasMail(fromContent[pageShown], <<"capture", remain[k].ask>>)
    BY <1>0 DEF CapturesEnd
  <2>1. PICK j \in 1 .. Len(captures) : captures[j] = remain[k]
    BY <1>5
  <2> QED BY <2>1 DEF TabInv, CapturesEnd
<1>12. PromisesEnd'
  <2>1. ASSUME NEW k \in 1 .. Len(captures), captures[k].guest = pageShown
        PROVE  \E j \in 1 .. Len(captures') : captures'[j] = captures[k]
    <3>1. captures[k] \in others
      BY <1>1, <1>2, <1>3, <2>1
    <3> QED BY <1>0, <1>5, <3>1
  <2>2. Gains(toGuest', toGuest)
    BY <1>0, GainsNothing
  <2> QED BY <1>0, <1>8, <2>1, <2>2, PromisesKept
<1> QED BY <1>6, <1>7, <1>9, <1>10, <1>11, <1>12 DEF TabInv, ContentHalf

LEMMA GuestIsHeardKeepsInv ==
  ASSUME TabInv, NEW v \in Visits, GuestIsHeard(v)
  PROVE  TabInv'
<1> DEFINE m == Head(fromGuest[v])
<1>1. Spoken(v)
  BY DEF GuestIsHeard, GuestConnects, GuestAsks, GuestEnds, Spoken, pageSide
<1>2. m \in GuestMail
  BY <1>1, SpokenFacts
<1>3. \/ m[1] = "hello" /\ byTab # 0 /\ GuestConnects(v)
      \/ m[1] = "hello" /\ byTab = 0 /\ UNCHANGED <<guests, captures, events, byTab, raOpen, toGuest, toContent>>
      \/ m[1] = "capture" /\ v \in guests /\ GuestAsks(v, m[2])
      \/ m[1] = "capture" /\ v \notin guests /\ UNCHANGED <<guests, captures, events, byTab, raOpen, toGuest, toContent>>
      \/ m[1] = "bye" /\ GuestEnds(v)
  BY DEF GuestIsHeard
<1>4. v # 0
  BY TabFacts
<1>5. CASE m[1] = "hello" /\ byTab # 0 /\ GuestConnects(v)
  BY <1>1, <1>5, GuestConnectsKeepsInv
<1>6. CASE m[1] = "hello" /\ byTab = 0 /\ UNCHANGED <<guests, captures, events, byTab, raOpen, toGuest, toContent>>
  <2>1. v # pageShown
    BY <1>1, <1>4, <1>6, SpokenOfThePage
  <2> QED BY <1>1, <1>6, <2>1, UnheardKeepsInv
<1>7. CASE m[1] = "capture" /\ v \in guests /\ GuestAsks(v, m[2])
  BY <1>2, <1>7, TabMails, <1>1, GuestAsksKeepsInv
<1>8. CASE m[1] = "capture" /\ v \notin guests /\ UNCHANGED <<guests, captures, events, byTab, raOpen, toGuest, toContent>>
  <2>1. v # pageShown
    BY <1>1, <1>8, SpokenOfThePage
  <2> QED BY <1>1, <1>8, <2>1, UnheardKeepsInv
<1>9. CASE m[1] = "bye" /\ GuestEnds(v)
  BY <1>1, <1>9, GuestEndsKeepsInv
<1> QED BY <1>3, <1>5, <1>6, <1>7, <1>8, <1>9

-----------------------------------------------------------------------------
LEMMA TabInitInv == TabInit => TabInv
<1> SUFFICES ASSUME TabInit PROVE TabInv
  OBVIOUS
<1>1. /\ pageShown = 0 /\ visits = <<>> /\ framed = 0 /\ waitingAsks = {}
      /\ byTab = 0 /\ guests = {} /\ captures = <<>> /\ events = <<>>
      /\ raOpen = FALSE /\ restoredMark = FALSE /\ driven = FALSE /\ asks = 0
      /\ \A v \in Visits : fromContent[v] = <<>> /\ fromGuest[v] = <<>>
  BY DEF TabInit
<1>2. Len(<<>>) = 0 /\ MaxVisits \in Nat
  BY EmptySeq, TabFacts
<1>3. TabTyped
  <2>1. /\ \A t : <<>> \in Seq(t)
    BY EmptySeq
  <2>2. /\ fromContent \in [Visits -> Seq(TabMail)] /\ fromGuest \in [Visits -> Seq(GuestMail)]
        /\ toContent \in [Visits -> Seq(TabMail)] /\ toGuest \in [Visits -> Seq(TabMail)]
    BY <2>1 DEF TabInit
  <2>3. visits \in Seq(BOOLEAN) /\ captures \in Seq(Captures) /\ events \in Seq(Nat)
    BY <1>1, <2>1
  <2>4. Len(visits) <= MaxVisits /\ byTab \in 0 .. Len(visits) /\ guests \subseteq 1 .. Len(visits)
    BY <1>1, <1>2
  <2> QED BY <1>1, <2>2, <2>3, <2>4 DEF TabTyped
<1>4. PagesInTurn
  BY <1>1 DEF PagesInTurn
<1>5. InOrder(<<>>) /\ SaidBye(<<>>) /\ (\A k : ~HasKind(<<>>, k)) /\ 0 \notin Visits
  BY <1>2, TabFacts DEF InOrder, SaidBye, HasKind
<1>6. ContentInOrder /\ GuestsInOrder
  BY <1>1, <1>5 DEF ContentInOrder, GuestsInOrder
<1>7. RestoredIsSaid /\ MountsInTurn
  BY <1>1, <1>2 DEF RestoredIsSaid, MountsInTurn
<1>8. PortIsThePages /\ MarkIsThePages /\ SurfaceIsAsked /\ PromisesEnd
  BY <1>1 DEF PortIsThePages, MarkIsThePages, SurfaceIsAsked, PromisesEnd
<1>9. GuestsAreThePages /\ CapturesEnd
  BY <1>1, <1>2 DEF GuestsAreThePages, CapturesEnd
<1> QED BY <1>3, <1>4, <1>6, <1>7, <1>8, <1>9 DEF TabInv

LEMMA TabStepInv == TabInv /\ [TabNext]_tabVars => TabInv'
<1> SUFFICES ASSUME TabInv, [TabNext]_tabVars PROVE TabInv'
  OBVIOUS
<1>1. CASE \E restored \in BOOLEAN : Mount(restored)
  BY <1>1, MountKeepsInv
<1>2. CASE GuestOpens
  BY <1>2, GuestOpensKeepsInv
<1>3. CASE Leaves
  BY <1>3, LeaveKeepsInv DEF Leaves
<1>4. CASE AsksCapture
  BY <1>4, AsksCaptureKeepsInv
<1>5. CASE OpensRemote
  BY <1>5, OpensRemoteKeepsInv
<1>6. CASE ContentReads
  BY <1>6, ContentReadsKeepsInv
<1>7. CASE GuestReads
  BY <1>7, GuestReadsKeepsInv
<1>8. CASE CaptureTimesOut
  BY <1>8, CaptureTimesOutKeepsInv
<1>9. CASE Nudge
  BY <1>9, NudgeKeepsInv
<1>10. CASE \E v \in Visits : ContentIsHeard(v) \/ GuestIsHeard(v)
  BY <1>10, ContentIsHeardKeepsInv, GuestIsHeardKeepsInv
<1>11. CASE UNCHANGED tabVars
  BY <1>11 DEF TabInv, TabTyped, PagesInTurn, ContentInOrder, GuestsInOrder, RestoredIsSaid, MountsInTurn,
     PortIsThePages, MarkIsThePages, GuestsAreThePages, SurfaceIsAsked, CapturesEnd, PromisesEnd, Mounting,
     tabVars, pageSide, workerSide, tabWires
<1> QED BY <1>1, <1>2, <1>3, <1>4, <1>5, <1>6, <1>7, <1>8, <1>9, <1>10, <1>11 DEF TabNext

LEMMA TabInvHolds == TabInv => TablesAreThePages
<1> SUFFICES ASSUME TabInv, TabIsQuiet
             PROVE  /\ byTab = pageShown
                    /\ guests \subseteq {pageShown}
                    /\ captures = <<>> /\ waitingAsks = {}
                    /\ pageShown # 0 =>
                         /\ restoredMark = visits[pageShown]
                         /\ driven /\ ~visits[pageShown] => surfaceOf = pageShown
  BY DEF TablesAreThePages
<1>0. (\A k : ~HasKind(<<>>, k)) /\ (\A m : ~HasMail(<<>>, m))
  <2>1. Len(<<>>) = 0
    BY EmptySeq
  <2> QED BY <2>1 DEF HasKind, HasMail
<1>1. \A v \in Visits : \A k : /\ ~HasKind(fromContent[v], k) /\ ~HasKind(fromGuest[v], k)
                               /\ ~HasKind(toContent[v], k)
  BY <1>0 DEF TabIsQuiet
<1>2. \A v \in Visits : \A m : /\ ~HasMail(fromContent[v], m) /\ ~HasMail(fromGuest[v], m)
                               /\ ~HasMail(toContent[v], m) /\ ~HasMail(toGuest[v], m)
  BY <1>0 DEF TabIsQuiet
<1>3. (byTab # 0 => byTab \in Visits) /\ (pageShown # 0 => pageShown \in Visits) /\ guests \subseteq Visits
  BY NumbersOfPages DEF TabInv
<1>4. byTab = pageShown
  BY <1>1, <1>3 DEF TabInv, PortIsThePages
<1>5. guests \subseteq {pageShown}
  BY <1>1, <1>3 DEF TabInv, GuestsAreThePages
<1>6. captures = <<>>
  <2>1. \A k \in 1 .. Len(captures) : FALSE
    BY <1>1, <1>2, <1>3 DEF TabInv, CapturesEnd
  <2>2. captures \in Seq(Captures) /\ Len(captures) \in Nat
    BY LenProperties DEF TabInv, TabTyped
  <2>3. Len(captures) = 0
    BY <2>2, <2>1
  <2> QED BY <2>2, <2>3, EmptySeq
<1>7. waitingAsks = {}
  <2>1. \A k \in 1 .. Len(captures) : FALSE
    BY <1>6, EmptySeq
  <2>2. waitingAsks # {} => pageShown \in Visits
    BY <1>3 DEF TabInv, PagesInTurn
  <2> QED BY <1>2, <2>1, <2>2 DEF TabInv, PromisesEnd
<1>8. pageShown # 0 => /\ restoredMark = visits[pageShown]
                       /\ driven /\ ~visits[pageShown] => surfaceOf = pageShown
  BY <1>1, <1>3, MountingMeans DEF TabInv, MarkIsThePages, SurfaceIsAsked
<1> QED BY <1>4, <1>5, <1>6, <1>7, <1>8

\* Whatever order the ports of successive pages are heard in, once nothing is on its
\* way the worker's tables are those of the page shown (background.ts).
THEOREM TablesFollowThePages == TabSpec => []TablesAreThePages
<1>1. TabInit => TabInv
  BY TabInitInv
<1>2. TabInv /\ [TabNext]_tabVars => TabInv'
  BY TabStepInv
<1>3. TabInv => TablesAreThePages
  BY TabInvHolds
<1> QED BY <1>1, <1>2, <1>3, PTL DEF TabSpec

\* Induction up to N, where the exceptions are given.
LEMMA UpToEach ==
  ASSUME NEW N \in Nat, NEW Bad, Bad \subseteq 0 .. N, 0 \notin Bad,
         \A n \in 1 .. N : n - 1 \notin Bad => n \notin Bad
  PROVE  Bad = {}
<1> SUFFICES ASSUME Bad # {} PROVE FALSE
  OBVIOUS
<1>0. Bad \subseteq Nat
  OBVIOUS
<1>1. PICK n \in Bad : \A y \in Bad : n <= y
  BY <1>0, LeastNumber
<1>2. n \in 1 .. N /\ n - 1 \notin Bad
  BY <1>1
<1> QED BY <1>1, <1>2

LEMMA AmongUnfolds ==
  ASSUME NEW t, NEW s \in Seq(t), NEW those
  PROVE  \E f \in [0 .. Len(s) -> Seq(t)] :
            /\ Among(s, those) = f[Len(s)]
            /\ \A i \in 0 .. Len(s) : AmongStep(f, s, those, i)
<1> DEFINE upTo == CHOOSE f : f = [i \in 0 .. Len(s) |->
              IF i = 0 THEN <<>> ELSE IF s[i] \in those THEN Append(f[i - 1], s[i]) ELSE f[i - 1]]
<1>0. Len(s) \in Nat
  BY LenProperties
<1>1. Among(s, those) = upTo[Len(s)]
  BY DEF Among
<1>2. PICK g \in [0 .. Len(s) -> Seq(t)] : \A i \in 0 .. Len(s) : AmongStep(g, s, those, i)
  <2>1. Len(s) \in 0 .. Len(s)
    BY <1>0
  <2>2. \A n \in 0 .. Len(s) : \E f \in [0 .. n -> Seq(t)] : \A i \in 0 .. n : AmongStep(f, s, those, i)
    BY AmongExists
  <2> QED BY <2>1, <2>2
<1>3. g = [i \in 0 .. Len(s) |->
              IF i = 0 THEN <<>> ELSE IF s[i] \in those THEN Append(g[i - 1], s[i]) ELSE g[i - 1]]
  BY <1>2 DEF AmongStep
<1>4. upTo = [i \in 0 .. Len(s) |->
              IF i = 0 THEN <<>> ELSE IF s[i] \in those THEN Append(upTo[i - 1], s[i]) ELSE upTo[i - 1]]
  BY <1>3
<1> HIDE DEF upTo
<1>5. \A i \in 0 .. Len(s) : AmongStep(upTo, s, those, i)
  BY <1>4 DEF AmongStep
<1>6. upTo = g
  <2> DEFINE Bad == {i \in 0 .. Len(s) : upTo[i] # g[i]}
  <2>1. 0 \notin Bad
    <3>1. 0 \in 0 .. Len(s)
      BY <1>0
    <3> QED BY <1>2, <1>5, <3>1 DEF AmongStep
  <2>2. ASSUME NEW n \in 1 .. Len(s), n - 1 \notin Bad PROVE n \notin Bad
    <3>1. n \in 0 .. Len(s) /\ n # 0 /\ n - 1 \in 0 .. Len(s)
      BY <1>0
    <3>2. upTo[n - 1] = g[n - 1]
      BY <2>2, <3>1
    <3> QED BY <1>2, <1>5, <3>1, <3>2 DEF AmongStep
  <2> HIDE DEF Bad
  <2>3. Bad = {}
    <3>1. Bad \subseteq 0 .. Len(s)
      BY DEF Bad
    <3> QED BY <1>0, <2>1, <2>2, <3>1, UpToEach
  <2>4. \A i \in 0 .. Len(s) : upTo[i] = g[i]
    BY <2>3 DEF Bad
  <2>5. DOMAIN upTo = 0 .. Len(s) /\ upTo = [i \in 0 .. Len(s) |-> upTo[i]]
    BY <1>4
  <2> QED BY <2>4, <2>5
<1> QED BY <1>1, <1>5, <1>6

\* Among is not longer than what it was taken of.
LEMMA AmongIsShort ==
  ASSUME NEW t, NEW s \in Seq(t), NEW those
  PROVE  Len(Among(s, those)) <= Len(s)
<1>0. Len(s) \in Nat
  BY LenProperties
<1>1. PICK f \in [0 .. Len(s) -> Seq(t)] :
            /\ Among(s, those) = f[Len(s)]
            /\ \A i \in 0 .. Len(s) : AmongStep(f, s, those, i)
  BY AmongUnfolds
<1> DEFINE Bad == {i \in 0 .. Len(s) : ~(Len(f[i]) <= i)}
<1>2. 0 \notin Bad
  BY <1>0, <1>1, EmptySeq DEF AmongStep
<1>3. ASSUME NEW n \in 1 .. Len(s), n - 1 \notin Bad PROVE n \notin Bad
  <2>1. n \in 0 .. Len(s) /\ n # 0 /\ n - 1 \in 0 .. Len(s) /\ n \in Nat
    BY <1>0
  <2>2. f[n - 1] \in Seq(t) /\ Len(f[n - 1]) <= n - 1 /\ Len(f[n - 1]) \in Nat /\ s[n] \in t
    <3>1. f[n - 1] \in Seq(t)
      BY <2>1
    <3> QED BY <1>3, <2>1, <3>1, LenProperties, ElementOfSeq
  <2>3. f[n] = IF s[n] \in those THEN Append(f[n - 1], s[n]) ELSE f[n - 1]
    BY <1>1, <2>1 DEF AmongStep
  <2>4. Len(f[n]) = Len(f[n - 1]) + 1 \/ Len(f[n]) = Len(f[n - 1])
    BY <2>2, <2>3, AppendProperties
  <2> QED BY <2>1, <2>2, <2>4
<1> HIDE DEF Bad
<1>4. Bad = {}
  <2>1. Bad \subseteq 0 .. Len(s)
    BY DEF Bad
  <2> QED BY <1>0, <1>2, <1>3, <2>1, UpToEach
<1>5. Len(s) \in 0 .. Len(s)
  BY <1>0
<1> QED BY <1>1, <1>4, <1>5 DEF Bad

\* What the wires of the tab carry.
ContentMails == Says({"hello", "restored", "remote", "shortcut", "bye"})
SiteMails    == Says({"surface", "shortcut", "revoked"})
GuestPosts   == Says({"remote", "restored", "cleared"}) \cup ({"event"} \X Visits)

\* What the proofs about the tables had no need of.
TabRest ==
  /\ surfaceOf \in {0, pageShown} /\ waitingAsks \subseteq Asks
  /\ fromContent \in [Visits -> Seq(ContentMails)]
  /\ toContent \in [Visits -> Seq(SiteMails)]
  /\ toGuest \in [Visits -> Seq(GuestPosts)]
  /\ Len(captures) <= CaptureLimit
  /\ events \in Seq(Visits) /\ Len(events) <= EventLimit
  /\ raOpen \in BOOLEAN /\ driven \in BOOLEAN
  /\ asks \in 0 .. MaxAsks /\ nudges \in 0 .. MaxNudges

\* The types of the tab's ports, with what the tables are true by.
TabTypesInv == TabInv /\ TabRest

LEMMA TabBounds ==
  /\ MaxVisits \in Nat /\ MaxAsks \in Nat /\ MaxNudges \in Nat
  /\ CaptureLimit \in Nat \ {0} /\ EventLimit \in Nat \ {0}
BY TabPortsAssumption

LEMMA WiresKept ==
  ASSUME NEW t, NEW wire \in [Visits -> Seq(t)], NEW v \in Visits
  PROVE  /\ \A ms \in Seq(t) : Sends(wire, v, ms) \in [Visits -> Seq(t)]
         /\ [wire EXCEPT ![v] = <<>>] \in [Visits -> Seq(t)]
         /\ wire[v] # <<>> => /\ [wire EXCEPT ![v] = Tail(@)] \in [Visits -> Seq(t)]
                              /\ Head(wire[v]) \in t
BY SendsOn, ReadsFrom

LEMMA KindsOfMail ==
  /\ \A k \in {"hello", "restored", "remote", "shortcut", "bye"} : Say(k) \in ContentMails
  /\ \A k \in {"surface", "shortcut", "revoked"} : Say(k) \in SiteMails
  /\ \A k \in {"remote", "restored", "cleared"} : Say(k) \in GuestPosts
  /\ \A a \in Asks : /\ <<"capture", a>> \in ContentMails /\ <<"capture", a>> \in SiteMails
                     /\ <<"capture", a>> \in GuestPosts
  /\ \A v \in Visits : <<"event", v>> \in GuestPosts
  /\ \A m \in SiteMails : m[1] \in {"capture", "shortcut"} => m \in ContentMails
  /\ \A m \in ContentMails : m[1] = "capture" => m[2] \in Asks
BY DEF ContentMails, SiteMails, GuestPosts, Says, Say

LEMMA TypedReach ==
  ASSUME NEW t, NEW wire \in [Visits -> Seq(t)], NEW v \in Visits, NEW ms \in Seq(t)
  PROVE  Sends(wire, v, Reach(v, ms)) \in [Visits -> Seq(t)]
<1>1. Reach(v, ms) \in Seq(t)
  BY EmptySeq DEF Reach
<1> QED BY <1>1, WiresKept

LEMMA TypedPosts ==
  ASSUME TabTypesInv, NEW ms \in Seq(GuestPosts)
  PROVE  ToGuests(ms) \in [Visits -> Seq(GuestPosts)]
BY NumbersOfPages, WiresKept DEF TabTypesInv, TabRest, TabInv, ToGuests

LEMMA TypedAnswers ==
  ASSUME TabTypesInv, NEW s \in Seq(Captures)
  PROVE  Answered(s) \in [Visits -> Seq(GuestPosts)]
<1> DEFINE heard == Among(s, Of(pageShown))
           mail  == [i \in DOMAIN heard |-> <<"capture", heard[i].ask>>]
<1>0. toGuest \in [Visits -> Seq(GuestPosts)]
  BY DEF TabTypesInv, TabRest
<1>1. heard \in Seq(Captures)
  BY AmongCaptures
<1>11. \A x : (\E i \in 1 .. Len(heard) : heard[i] = x)
                <=> x \in Of(pageShown) /\ \E i \in 1 .. Len(s) : s[i] = x
  BY AmongCaptures
<1>2. Answered(s) = IF heard = <<>> THEN toGuest ELSE Sends(toGuest, pageShown, mail)
  BY DEF Answered
<1> HIDE DEF heard
<1>3. /\ Len(heard) \in Nat /\ DOMAIN heard = 1 .. Len(heard)
      /\ \A i \in 1 .. Len(heard) : heard[i] \in Captures
      /\ Len(heard) = 0 => heard = <<>>
  BY <1>1, LenProperties, ElementOfSeq, EmptySeq
<1>4. CASE heard # <<>>
  <2>1. 1 \in 1 .. Len(heard)
    BY <1>3, <1>4
  <2>2. heard[1] \in Of(pageShown) /\ heard[1] \in Captures
    BY <1>11, <1>3, <2>1
  <2>3. pageShown \in Visits
    BY <2>2, CaptureIsOf, CaptureParts
  <2>4. ASSUME NEW i \in 1 .. Len(heard) PROVE mail[i] \in GuestPosts
    BY <1>3, CaptureParts, KindsOfMail
  <2>5. mail \in Seq(GuestPosts)
    BY <1>3, <2>4, IsASeq
  <2> HIDE DEF mail
  <2>6. Sends(toGuest, pageShown, mail) \in [Visits -> Seq(GuestPosts)]
    BY <1>0, <2>3, <2>5, WiresKept
  <2>7. Answered(s) = Sends(toGuest, pageShown, mail)
    BY <1>2, <1>4
  <2> QED BY <2>6, <2>7
<1>5. CASE heard = <<>>
  <2> HIDE DEF mail
  <2> QED BY <1>0, <1>2, <1>5
<1> QED BY <1>4, <1>5

-----------------------------------------------------------------------------
LEMMA TabTypesInit == TabInit => TabTypesInv
<1> SUFFICES ASSUME TabInit PROVE TabRest
  BY TabInitInv DEF TabTypesInv
<1>1. 0 \in 0 .. MaxAsks /\ 0 \in 0 .. MaxNudges /\ 0 <= CaptureLimit /\ 0 <= EventLimit
  BY TabBounds
<1>2. \A S : <<>> \in Seq(S)
  BY EmptySeq
<1>3. Len(captures) = 0 /\ Len(events) = 0 /\ events = <<>>
  BY EmptySeq DEF TabInit
<1>4. /\ fromContent \in [Visits -> Seq(ContentMails)] /\ toContent \in [Visits -> Seq(SiteMails)]
      /\ toGuest \in [Visits -> Seq(GuestPosts)]
  BY <1>2 DEF TabInit
<1>5. surfaceOf = 0 /\ waitingAsks = {} /\ raOpen = FALSE /\ driven = FALSE /\ asks = 0 /\ nudges = 0
  BY DEF TabInit
<1> QED BY <1>1, <1>2, <1>3, <1>4, <1>5 DEF TabRest

\* The page and its messenger.
LEMMA PageTypesKept ==
  ASSUME TabTypesInv,
         \/ \E restored \in BOOLEAN : Mount(restored)
         \/ GuestOpens \/ Leaves \/ AsksCapture \/ OpensRemote \/ ContentReads \/ GuestReads \/ CaptureTimesOut
  PROVE  TabRest'
<1>0. /\ surfaceOf \in {0, pageShown} /\ waitingAsks \subseteq Asks
      /\ fromContent \in [Visits -> Seq(ContentMails)]
      /\ toContent \in [Visits -> Seq(SiteMails)]
      /\ toGuest \in [Visits -> Seq(GuestPosts)]
      /\ Len(captures) <= CaptureLimit
      /\ events \in Seq(Visits) /\ Len(events) <= EventLimit
      /\ raOpen \in BOOLEAN /\ driven \in BOOLEAN
      /\ asks \in 0 .. MaxAsks /\ nudges \in 0 .. MaxNudges
  BY DEF TabTypesInv, TabRest
<1>1. pageShown # 0 => pageShown \in Visits
  BY NumbersOfPages DEF TabTypesInv, TabInv
<1>01. UNCHANGED <<captures, events, raOpen, driven>>
  BY DEF Mount, GuestOpens, Leaves, AsksCapture, OpensRemote, ContentReads, GuestReads, CaptureTimesOut, workerSide
<1>k. \A k \in {"hello", "restored", "remote", "shortcut", "bye"} : <<Say(k)>> \in Seq(ContentMails)
  BY KindsOfMail, OneMail
\* The page goes.
<1>a. ASSUME Leave
      PROVE  /\ surfaceOf' \in {0, pageShown'} /\ waitingAsks' \subseteq Asks
             /\ fromContent' \in [Visits -> Seq(ContentMails)]
             /\ toContent' \in [Visits -> Seq(SiteMails)]
             /\ toGuest' \in [Visits -> Seq(GuestPosts)]
  BY <1>1, <1>a, <1>0, <1>k, WiresKept DEF Leave
<1>2. ASSUME NEW restored \in BOOLEAN, Mount(restored) PROVE TabRest'
  <2> DEFINE v  == Len(visits) + 1
             ms == IF restored THEN <<Say("hello"), Say("restored")>> ELSE <<Say("hello")>>
  <2>1. v \in Visits
    BY NumbersOfPages, <1>2, TabBounds DEF TabTypesInv, TabInv, Mount, Visits
  <2>2. ms \in Seq(ContentMails)
    BY KindsOfMail
  <2>3. fromContent' = Sends(fromContent, v, ms) /\ pageShown = 0
        /\ UNCHANGED <<surfaceOf, waitingAsks, toContent, toGuest, asks, nudges>>
    BY <1>2 DEF Mount
  <2> HIDE DEF v, ms
  <2>4. fromContent' \in [Visits -> Seq(ContentMails)]
    BY <1>0, <2>1, <2>2, <2>3, WiresKept
  <2> QED BY <1>0, <1>01, <2>3, <2>4 DEF TabRest
<1>3. CASE GuestOpens
  BY <1>0, <1>01, <1>3 DEF GuestOpens, TabRest
<1>4. CASE Leaves
  BY <1>0, <1>01, <1>4, <1>a DEF Leaves, TabRest
<1>5. CASE AsksCapture
  BY <1>0, <1>5, TabBounds, <1>01 DEF AsksCapture, Asks, TabRest
<1>6. CASE OpensRemote
  <2>1. nudges' \in 0 .. MaxNudges
    BY <1>0, <1>6, TabBounds DEF OpensRemote
  <2>2. fromContent' \in [Visits -> Seq(ContentMails)]
    BY <1>0, <1>1, <1>k, <1>6, WiresKept DEF OpensRemote
  <2> QED BY <1>0, <1>01, <1>6, <2>1, <2>2 DEF OpensRemote, pageSide, TabRest
<1>7. CASE ContentReads
  <2> DEFINE m == Head(toContent[pageShown])
  <2>1. pageShown \in Visits /\ toContent[pageShown] # <<>>
    BY <1>1, <1>7 DEF ContentReads
  <2>2. m \in SiteMails /\ [toContent EXCEPT ![pageShown] = Tail(@)] \in [Visits -> Seq(SiteMails)]
    BY <1>0, <2>1, WiresKept
  <2>3. UNCHANGED <<asks, nudges>>
    BY <1>7 DEF ContentReads
  <2> HIDE DEF m
  <2>4. CASE /\ m[1] \in {"capture", "shortcut"}
             /\ fromContent' = Sends(fromContent, pageShown, <<m>>)
             /\ toContent' = [toContent EXCEPT ![pageShown] = Tail(@)]
             /\ UNCHANGED <<pageSide, fromGuest, toGuest>>
    BY <2>2, <2>4, KindsOfMail, OneMail, <1>0, <2>1, WiresKept, <1>01, <2>3 DEF pageSide, TabRest
  <2>5. CASE /\ surfaceOf' = (IF visits[pageShown] THEN surfaceOf ELSE pageShown)
             /\ toContent' = [toContent EXCEPT ![pageShown] = Tail(@)]
             /\ UNCHANGED <<pageShown, visits, framed, waitingAsks, fromContent, fromGuest, toGuest>>
    BY <1>0, <1>01, <2>2, <2>3, <2>5 DEF TabRest
  <2>6. CASE Leave
    BY <1>0, <1>01, <1>a, <2>3, <2>6 DEF TabRest
  <2> QED BY <1>7, <2>4, <2>5, <2>6 DEF ContentReads, m
<1>8. CASE GuestReads
  BY <1>1, <1>8, <1>0, WiresKept, <1>01 DEF GuestReads, TabRest
<1>9. CASE CaptureTimesOut
  BY <1>9, <1>0, <1>01 DEF CaptureTimesOut, tabWires, TabRest
<1> QED BY <1>2, <1>3, <1>4, <1>5, <1>6, <1>7, <1>8, <1>9

LEMMA NudgeTypesKept ==
  ASSUME TabTypesInv, Nudge
  PROVE  TabRest'
<1>0. /\ toContent \in [Visits -> Seq(SiteMails)] /\ driven \in BOOLEAN /\ nudges \in 0 .. MaxNudges
  BY DEF TabTypesInv, TabRest
<1>1. byTab # 0 => byTab \in Visits
  BY NumbersOfPages DEF TabTypesInv, TabInv
<1>2. nudges' \in 0 .. MaxNudges
  BY <1>0, TabBounds DEF Nudge
<1>3. /\ UNCHANGED <<pageShown, surfaceOf, waitingAsks, fromContent, toGuest, captures, events, raOpen, asks>>
      /\ byTab # 0 /\ (driven' = driven \/ driven' = TRUE)
      /\ \E k \in {"surface", "shortcut", "revoked"} :
            toContent' = Sends(toContent, byTab, Reach(byTab, <<Say(k)>>))
  BY DEF Nudge, Shortcut, Drive, Revoke, pageSide
<1>4. toContent' \in [Visits -> Seq(SiteMails)]
  <2>1. PICK k \in {"surface", "shortcut", "revoked"} :
               toContent' = Sends(toContent, byTab, Reach(byTab, <<Say(k)>>))
    BY <1>3
  <2>2. <<Say(k)>> \in Seq(SiteMails)
    BY KindsOfMail, OneMail
  <2> QED BY <1>0, <1>1, <1>3, <2>1, <2>2, TypedReach
<1> QED BY <1>0, <1>2, <1>3, <1>4 DEF TabTypesInv, TabRest

LEMMA HeardTypesKept ==
  ASSUME TabTypesInv, NEW v \in Visits, ContentIsHeard(v)
  PROVE  TabRest'
<1> DEFINE m == Head(fromContent[v])
<1>0. /\ surfaceOf \in {0, pageShown} /\ waitingAsks \subseteq Asks
      /\ fromContent \in [Visits -> Seq(ContentMails)]
      /\ toContent \in [Visits -> Seq(SiteMails)]
      /\ toGuest \in [Visits -> Seq(GuestPosts)]
      /\ Len(captures) <= CaptureLimit /\ CaptureLimit \in Nat
      /\ events \in Seq(Visits) /\ Len(events) <= EventLimit /\ EventLimit \in Nat \ {0}
      /\ raOpen \in BOOLEAN /\ driven \in BOOLEAN
      /\ asks \in 0 .. MaxAsks /\ nudges \in 0 .. MaxNudges
      /\ captures \in Seq(Captures)
  BY TabBounds DEF TabTypesInv, TabRest, TabInv, TabTyped
<1>1. /\ m \in ContentMails /\ fromContent' \in [Visits -> Seq(ContentMails)]
      /\ UNCHANGED <<pageShown, surfaceOf, waitingAsks, asks, nudges>>
  BY <1>0, WiresKept DEF ContentIsHeard, pageSide
<1>k. \A k \in {"remote", "restored", "cleared"} : <<Say(k)>> \in Seq(GuestPosts)
  BY KindsOfMail, OneMail
<1>s. <<Say("surface")>> \in Seq(SiteMails) /\ <<<<"event", v>>>> \in Seq(GuestPosts)
  BY KindsOfMail, OneMail
<1>2. \/ ContentConnects(v) \/ ContentEnds(v) \/ SaysRestored \/ SaysRemote \/ SaysShortcut(v)
      \/ m[1] = "capture" /\ SaysCapture(m[2])
  BY DEF ContentIsHeard
<1> HIDE DEF m
<1>3. CASE ContentConnects(v)
  BY <1>0, <1>k, <1>3, TypedPosts, <1>s, TypedReach, <1>1 DEF ContentConnects, TabRest
<1>4. CASE ContentEnds(v)
  <2>1. toGuest' \in [Visits -> Seq(GuestPosts)]
    BY <1>0, <1>4, TypedAnswers DEF ContentEnds
  <2>2. Len(captures') <= CaptureLimit
    BY <1>0, <1>4, EmptySeq DEF ContentEnds
  <2> QED BY <1>0, <1>1, <1>4, <2>1, <2>2 DEF ContentEnds, TabRest
<1>5. CASE SaysRestored
  BY <1>k, <1>5, TypedPosts, <1>0, <1>1 DEF SaysRestored, TabRest
<1>6. CASE SaysRemote
  BY <1>k, <1>6, TypedPosts, <1>0, <1>1 DEF SaysRemote, TabRest
<1>7. CASE SaysShortcut(v)
  <2>1. toGuest' \in [Visits -> Seq(GuestPosts)]
    BY <1>s, <1>7, TypedPosts DEF SaysShortcut
  <2>2. events' \in Seq(Visits) /\ Len(events') <= EventLimit
    <3>0. Len(events) \in Nat /\ (events = <<>> => Len(events) = 0)
      BY <1>0, LenProperties, EmptySeq
    <3>1. CASE guests # {}
      BY <1>0, <1>7, <3>1 DEF SaysShortcut
    <3>2. CASE guests = {} /\ Len(events) = EventLimit
      BY <1>0, <3>0, <3>2, HeadAndTail, <1>7, AppendProperties DEF SaysShortcut
    <3>3. CASE guests = {} /\ Len(events) # EventLimit
      BY <1>7, <3>3, <1>0, AppendProperties, <3>0 DEF SaysShortcut
    <3> QED BY <3>1, <3>2, <3>3
  <2> QED BY <1>0, <1>1, <1>7, <2>1, <2>2 DEF SaysShortcut, TabRest
<1>8. CASE m[1] = "capture" /\ SaysCapture(m[2])
  <2> DEFINE a == m[2]
  <2>1. captures' = Among(captures, Captures \ [ask : {a}, guest : Visits])
        /\ toGuest' = Answered(Among(captures, [ask : {a}, guest : Visits]))
        /\ UNCHANGED <<events, raOpen, driven, toContent>>
    BY <1>8 DEF SaysCapture
  <2> HIDE DEF a
  <2>2. Len(captures') <= Len(captures) /\ captures' \in Seq(Captures)
    BY <1>0, <2>1, AmongIsShort, AmongCaptures
  <2>3. Among(captures, [ask : {a}, guest : Visits]) \in Seq(Captures)
    BY <1>0, AmongCaptures
  <2>4. toGuest' \in [Visits -> Seq(GuestPosts)]
    BY <2>1, <2>3, TypedAnswers
  <2>5. Len(captures') <= CaptureLimit
    BY <1>0, <2>2, LenProperties
  <2> QED BY <1>0, <1>1, <2>1, <2>4, <2>5 DEF TabRest
<1> QED BY <1>2, <1>3, <1>4, <1>5, <1>6, <1>7, <1>8

LEMMA SpokenTypesKept ==
  ASSUME TabTypesInv, NEW v \in Visits, GuestIsHeard(v)
  PROVE  TabRest'
<1> DEFINE m == Head(fromGuest[v])
<1>0. /\ surfaceOf \in {0, pageShown} /\ waitingAsks \subseteq Asks
      /\ fromContent \in [Visits -> Seq(ContentMails)] /\ fromGuest \in [Visits -> Seq(GuestMail)]
      /\ toContent \in [Visits -> Seq(SiteMails)]
      /\ toGuest \in [Visits -> Seq(GuestPosts)]
      /\ Len(captures) <= CaptureLimit /\ CaptureLimit \in Nat \ {0}
      /\ events \in Seq(Visits) /\ Len(events) <= EventLimit /\ EventLimit \in Nat \ {0}
      /\ raOpen \in BOOLEAN /\ driven \in BOOLEAN
      /\ asks \in 0 .. MaxAsks /\ nudges \in 0 .. MaxNudges
      /\ captures \in Seq(Captures)
  BY TabBounds DEF TabTypesInv, TabRest, TabInv, TabTyped
<1>1. m \in GuestMail
  <2>1. fromGuest[v] # <<>>
    BY DEF GuestIsHeard
  <2> QED BY <1>0, <2>1, WiresKept
<1>2. UNCHANGED <<pageShown, surfaceOf, waitingAsks, asks, nudges, driven, fromContent>>
  BY DEF GuestIsHeard, pageSide
<1>3. \/ GuestConnects(v)
      \/ UNCHANGED <<captures, events, raOpen, toGuest, toContent>>
      \/ m[1] = "capture" /\ GuestAsks(v, m[2])
      \/ GuestEnds(v)
  BY DEF GuestIsHeard
<1> HIDE DEF m
<1>4. CASE GuestConnects(v)
  <2> DEFINE ms1 == IF raOpen THEN <<Say("remote")>> ELSE <<>>
             ms2 == [i \in DOMAIN events |-> <<"event", events[i]>>]
             ms3 == IF restoredMark THEN <<Say("restored")>> ELSE <<>>
             ms  == ms1 \o ms2 \o ms3
  <2>1. toGuest' = Sends(toGuest, v, Reach(v, ms))
    BY <1>4 DEF GuestConnects
  <2>2. ms1 \in Seq(GuestPosts) /\ ms3 \in Seq(GuestPosts)
    BY KindsOfMail, OneMail, EmptySeq
  <2>3. ms2 \in Seq(GuestPosts)
    <3>1. /\ Len(events) \in Nat /\ DOMAIN events = 1 .. Len(events)
          /\ \A i \in 1 .. Len(events) : events[i] \in Visits
      BY <1>0, LenProperties, ElementOfSeq
    <3>2. ms2 \in [1 .. Len(events) -> GuestPosts]
      BY <3>1, KindsOfMail
    <3> QED BY <3>1, <3>2, IsASeq
  <2> HIDE DEF ms1, ms2, ms3
  <2>4. ms \in Seq(GuestPosts)
    BY <2>2, <2>3, ConcatProperties
  <2> HIDE DEF ms
  <2>5. toGuest' \in [Visits -> Seq(GuestPosts)]
    BY <1>0, <2>1, <2>4, TypedReach
  <2>6. events' = <<>> /\ raOpen' = FALSE /\ UNCHANGED <<captures, toContent>>
    BY <1>4 DEF GuestConnects
  <2>7. events' \in Seq(Visits) /\ Len(events') <= EventLimit
    BY <1>0, <2>6, EmptySeq
  <2> QED BY <1>0, <1>2, <2>5, <2>6, <2>7 DEF TabRest
<1>5. CASE UNCHANGED <<captures, events, raOpen, toGuest, toContent>>
  BY <1>0, <1>2, <1>5 DEF TabRest
<1>6. CASE m[1] = "capture" /\ GuestAsks(v, m[2])
  <2> DEFINE a == m[2]
             ms == <<<<"capture", a>>>>
  <2>1. a \in Asks
    BY <1>1, <1>6, TabMails
  <2>2. ms \in Seq(GuestPosts) /\ ms \in Seq(SiteMails)
    BY <2>1, KindsOfMail, OneMail
  <2>3. UNCHANGED <<raOpen, events>>
    BY <1>6 DEF GuestAsks
  <2>4. CASE byTab = 0
    <3>1. toGuest' = Sends(toGuest, v, Reach(v, ms)) /\ UNCHANGED <<captures, toContent>>
      BY <1>6, <2>4 DEF GuestAsks
    <3> HIDE DEF ms
    <3>2. toGuest' \in [Visits -> Seq(GuestPosts)]
      BY <1>0, <2>2, <3>1, TypedReach
    <3> QED BY <1>0, <1>2, <2>3, <3>1, <3>2 DEF TabRest
  <2>5. CASE byTab # 0
    <3> DEFINE full == Len(captures) = CaptureLimit
               c    == [ask |-> a, guest |-> v]
    <3>0. byTab \in Visits
      BY <2>5, NumbersOfPages DEF TabTypesInv, TabInv
    <3>1. /\ captures' = Append(IF full THEN Tail(captures) ELSE captures, c)
          /\ toGuest' = IF full THEN Answered(<<Head(captures)>>) ELSE toGuest
          /\ toContent' = Sends(toContent, byTab, Reach(byTab, ms))
      BY <1>6, <2>5 DEF GuestAsks
    <3>2. c \in Captures
      BY <2>1 DEF Captures
    <3> HIDE DEF ms, c
    <3>3. toContent' \in [Visits -> Seq(SiteMails)]
      BY <1>0, <2>2, <3>0, <3>1, TypedReach
    <3>4. Len(captures) \in Nat /\ (captures = <<>> => Len(captures) = 0)
      BY <1>0, LenProperties, EmptySeq
    <3>5. Len(captures') <= CaptureLimit /\ toGuest' \in [Visits -> Seq(GuestPosts)]
      <4>1. CASE full
        <5>1. /\ Tail(captures) \in Seq(Captures) /\ Len(Tail(captures)) = Len(captures) - 1
              /\ Head(captures) \in Captures
          BY <1>0, <3>4, <4>1, HeadAndTail
        <5>2. Len(captures') = Len(captures)
          BY <3>1, <3>2, <3>4, <4>1, <5>1, AppendProperties
        <5>3. <<Head(captures)>> \in Seq(Captures)
          BY <5>1, OneMail
        <5>4. toGuest' \in [Visits -> Seq(GuestPosts)]
          BY <3>1, <4>1, <5>3, TypedAnswers
        <5> QED BY <1>0, <5>2, <5>4
      <4>2. CASE ~full
        BY <3>1, <4>2, <1>0, <3>2, AppendProperties, <3>4
      <4> QED BY <4>1, <4>2
    <3> QED BY <1>0, <1>2, <2>3, <3>3, <3>5 DEF TabRest
  <2> QED BY <2>4, <2>5
<1>7. CASE GuestEnds(v)
  BY <1>7, <1>0, AmongIsShort, AmongCaptures, LenProperties, <1>2 DEF GuestEnds, TabRest
<1> QED BY <1>3, <1>4, <1>5, <1>6, <1>7

LEMMA TabTypesStep == TabTypesInv /\ [TabNext]_tabVars => TabTypesInv'
BY TabStepInv, PageTypesKept, NudgeTypesKept, HeardTypesKept, SpokenTypesKept DEF TabTypesInv, TabNext,
   tabVars, pageSide, workerSide, tabWires, TabRest

LEMMA TabTypesHold == TabTypesInv => TabTypeOK
<1> SUFFICES ASSUME TabTypesInv PROVE TabTypeOK
  OBVIOUS
<1>1. TabTyped /\ PagesInTurn /\ TabRest
  BY DEF TabTypesInv, TabInv
<1>2. /\ Len(visits) \in Nat /\ guests \subseteq Visits /\ MaxVisits \in Nat /\ Len(visits) <= MaxVisits
      /\ pageShown \in 0 .. MaxVisits /\ byTab \in 0 .. MaxVisits
  BY <1>1, NumbersOfPages, TabBounds DEF TabTyped, PagesInTurn
<1>3. GuestMail = Says({"hello", "bye"})
  BY DEF GuestMail, Says
<1>4. {surfaceOf, framed} \subseteq {0, pageShown}
  BY <1>1 DEF PagesInTurn, TabRest
<1> QED BY <1>1, <1>2, <1>3, <1>4 DEF TabTyped, TabRest, ContentMails, SiteMails, GuestPosts, TabTypeOK

(***************************************************************************)
(* The extension and its native host                                       *)
(***************************************************************************)

\* What travels to the host, and the intents after which the daemon holds the panel for closed.
HostMail  == Starts \cup {<<i, 0>> : i \in Intents}
Closers   == {"panelHidden", "mounted"}
CloserMsg == {<<i, 0>> : i \in Closers}

\* Whatever opens in a queue is closed again by something behind it.
ClosedAgain(q, open, closing) ==
  \A i \in 1 .. Len(q) : q[i] = open => \E j \in 1 .. Len(q) : j > i /\ q[j] \in closing

LinkTyped ==
  /\ messengers \in [LinkTabs -> {"none", "hidden", "visible"}]
  /\ port \in {"none", "open"} /\ ready \in BOOLEAN /\ panelVisible \in BOOLEAN
  /\ saved \in 1 .. MaxSaves + 1
  /\ connecting \in {NotConnecting} \cup (1 .. MaxSaves + 1)
  /\ pendingIntents \in Seq(Intents) /\ toHost \in Seq(HostMail) /\ toWorker \in Seq(Messages)

\* A port that is not open carries nothing, and the one to be opened is not open yet.
ClosedPortIsEmpty ==
  /\ port = "none" => ~ready /\ toHost = <<>> /\ toWorker = <<>> /\ host = 0 /\ ~panelVisible
  /\ connecting # NotConnecting => port = "none"

\* A host that is not known to be ready was sent its start alone, has said nothing
\* before it handles it, and says that it is ready last.
StartComesFirst ==
  ~ready => /\ ~panelVisible
            /\ \A i \in 1 .. Len(toHost) : toHost[i] \in Starts
            /\ toHost # <<>> => Len(toHost) = 1 /\ toWorker = <<>> /\ host = 0
            /\ \A i \in 1 .. Len(toWorker) : toWorker[i] = "ready" => i = Len(toWorker)

\* A ready host is sent no start, says nothing more of its start, and nothing is kept from it.
ReadyIsForGood ==
  ready => /\ \A i \in 1 .. Len(toHost) : toHost[i] \notin Starts
           /\ \A i \in 1 .. Len(toWorker) : toWorker[i] \in {"state", "note"}
           /\ pendingIntents = <<>>

\* While no messenger shows, whatever tells the host of a panel is followed by
\* what tells it of none.
ClosingIsOnItsWay ==
  VisibleIn(messengers) = 0 =>
    /\ ClosedAgain(pendingIntents, "panelVisible", Closers)
    /\ ready => ClosedAgain(toHost, <<"panelVisible", 0>>, CloserMsg)
    /\ panelVisible => \E j \in 1 .. Len(toHost) : toHost[j] \in CloserMsg

\* The inductive invariant.
LinkInv == LinkTyped /\ ClosedPortIsEmpty /\ StartComesFirst /\ ReadyIsForGood /\ ClosingIsOnItsWay

LEMMA NoneVisible ==
  ASSUME NEW g
  PROVE  VisibleIn(g) = 0 <=> \A t \in LinkTabs : g[t] # "visible"
<1> DEFINE X == {t \in LinkTabs : g[t] = "visible"}
<1>1. IsFiniteSet(X)
  <2>1. IsFiniteSet(LinkTabs)
    BY LinkAssumption
  <2> QED BY <2>1, FS_Subset
<1>2. Cardinality(X) = 0 <=> X = {}
  BY <1>1, FS_EmptySet
<1> QED BY <1>2 DEF VisibleIn

LEMMA LimitIsPositive == PendingLimit \in Nat \ {0}
  BY LinkAssumption

\* Something that closes, put last, closes all that came before it.
LEMMA ClosedByTheLast ==
  ASSUME NEW t, NEW q \in Seq(t), NEW open, NEW closing, NEW e \in t,
         e \in closing, open \notin closing
  PROVE  /\ ClosedAgain(Append(q, e), open, closing)
         /\ \E j \in 1 .. Len(Append(q, e)) : Append(q, e)[j] \in closing
<1> DEFINE l == Append(q, e)
<1>1. Len(q) \in Nat /\ Len(l) = Len(q) + 1 /\ l[Len(q) + 1] = e /\ \A i \in 1 .. Len(q) : l[i] = q[i]
  BY AppendProperties, LenProperties
<1> HIDE DEF l
<1>2. ASSUME NEW i \in 1 .. Len(l), l[i] = open
      PROVE  \E j \in 1 .. Len(l) : j > i /\ l[j] \in closing
  BY <1>1, <1>2
<1>3. \E j \in 1 .. Len(l) : l[j] \in closing
  BY <1>1
<1> QED BY <1>2, <1>3 DEF ClosedAgain, l

\* Nothing closed comes open by the loss of the oldest.
LEMMA ClosedTail ==
  ASSUME NEW t, NEW q \in Seq(t), q # <<>>, NEW open, NEW closing, ClosedAgain(q, open, closing)
  PROVE  /\ ClosedAgain(Tail(q), open, closing)
         /\ Head(q) = open => \E j \in 1 .. Len(Tail(q)) : Tail(q)[j] \in closing
<1> DEFINE l == Tail(q)
<1>1. /\ Len(q) \in Nat \ {0} /\ Len(l) = Len(q) - 1 /\ Head(q) = q[1]
      /\ \A i \in 1 .. Len(q) - 1 : l[i] = q[i + 1]
  BY HeadTailProperties, LenProperties, EmptySeq
<1> HIDE DEF l
<1>2. ASSUME NEW i \in 0 .. Len(l), q[i + 1] = open
      PROVE  \E j \in 1 .. Len(l) : j > i /\ l[j] \in closing
  <2>1. i + 1 \in 1 .. Len(q)
    BY <1>1
  <2>2. PICK k \in 1 .. Len(q) : k > i + 1 /\ q[k] \in closing
    BY <1>2, <2>1 DEF ClosedAgain
  <2>3. k - 1 \in 1 .. Len(l) /\ k - 1 > i /\ (k - 1) + 1 = k
    BY <1>1, <2>2
  <2>4. l[k - 1] \in closing
    BY <1>1, <2>2, <2>3
  <2> QED BY <2>3, <2>4
<1>3. ClosedAgain(l, open, closing)
  <2>1. ASSUME NEW i \in 1 .. Len(l), l[i] = open
        PROVE  \E j \in 1 .. Len(l) : j > i /\ l[j] \in closing
    BY <1>1, <2>1, <1>2
  <2> QED BY <2>1 DEF ClosedAgain
<1>4. ASSUME Head(q) = open PROVE \E j \in 1 .. Len(l) : l[j] \in closing
  BY <1>1, <1>4, <1>2
<1> QED BY <1>3, <1>4 DEF l

\* What closes and is not handled now is still to come.
LEMMA CloserStays ==
  ASSUME NEW t, NEW q \in Seq(t), q # <<>>, NEW closing, Head(q) \notin closing,
         \E j \in 1 .. Len(q) : q[j] \in closing
  PROVE  \E j \in 1 .. Len(Tail(q)) : Tail(q)[j] \in closing
<1>1. /\ Len(q) \in Nat \ {0} /\ Len(Tail(q)) = Len(q) - 1 /\ Head(q) = q[1]
      /\ \A i \in 1 .. Len(q) - 1 : Tail(q)[i] = q[i + 1]
  BY HeadTailProperties, LenProperties, EmptySeq
<1>2. PICK j \in 1 .. Len(q) : q[j] \in closing
  OBVIOUS
<1>3. j - 1 \in 1 .. Len(q) - 1 /\ (j - 1) + 1 = j
  BY <1>1, <1>2
<1> QED BY <1>1, <1>2, <1>3

\* A message on its way is a start, or an intent with nothing to it.
LEMMA MailKinds ==
  /\ \A i \in Intents : <<i, 0>> \in HostMail /\ <<i, 0>> \notin Starts
  /\ CloserMsg \subseteq HostMail
  /\ <<"panelVisible", 0>> \notin CloserMsg /\ "panelVisible" \notin Closers
  /\ \A i \in Closers : <<i, 0>> \in CloserMsg /\ i \in Intents
  /\ \A m \in HostMail : m \in Starts \/ \E i \in Intents : m = <<i, 0>>
  /\ \A i \in Intents : <<i, 0>> \in CloserMsg => i \in Closers
BY DEF HostMail, Starts, Intents, CloserMsg, Closers

LEMMA LinkInitInv == LinkInit => LinkInv
<1> SUFFICES ASSUME LinkInit PROVE LinkInv
  OBVIOUS
<1>1. /\ messengers \in [LinkTabs -> {"none", "hidden", "visible"}]
      /\ port = "none" /\ connecting = NotConnecting /\ ready = FALSE /\ panelVisible = FALSE
      /\ pendingIntents = <<>> /\ saved = 1 /\ toHost = <<>> /\ toWorker = <<>> /\ host = 0
  BY DEF LinkInit
<1>2. MaxSaves \in Nat
  BY LinkAssumption
<1>3. LinkTyped
  <2>1. pendingIntents \in Seq(Intents) /\ toHost \in Seq(HostMail) /\ toWorker \in Seq(Messages)
    BY <1>1
  <2>2. saved \in 1 .. MaxSaves + 1
    BY <1>1, <1>2
  <2>3. connecting \in {NotConnecting} \cup (1 .. MaxSaves + 1)
    BY <1>1
  <2>4. port \in {"none", "open"} /\ ready \in BOOLEAN /\ panelVisible \in BOOLEAN
    BY <1>1
  <2> QED BY <1>1, <2>1, <2>2, <2>3, <2>4 DEF LinkTyped
<1>4. ClosingIsOnItsWay
  BY <1>1 DEF ClosingIsOnItsWay, ClosedAgain
<1> QED BY <1>1, <1>3, <1>4 DEF LinkInv, ClosedPortIsEmpty, StartComesFirst, ReadyIsForGood

-----------------------------------------------------------------------------
\* The messengers changed and nobody was told: no messenger had shown if none does.
LEMMA UntoldKeepsInv ==
  ASSUME LinkInv, messengers' \in [LinkTabs -> {"none", "hidden", "visible"}],
         VisibleIn(messengers') = 0 => VisibleIn(messengers) = 0,
         UNCHANGED <<port, connecting, ready, pendingIntents, saved, toHost, toWorker, host, panelVisible>>
  PROVE  LinkInv'
BY DEF LinkInv, LinkTyped, ClosedPortIsEmpty, StartComesFirst, ReadyIsForGood, ClosingIsOnItsWay

\* sendIntent, of an intent that closes unless some messenger shows.
LEMMA SentIntentKeepsInv ==
  ASSUME LinkInv, messengers' \in [LinkTabs -> {"none", "hidden", "visible"}],
         NEW intent \in Intents, SendsIntent(intent),
         VisibleIn(messengers') = 0 => intent \in Closers,
         UNCHANGED <<port, connecting, ready, saved, toWorker, host, panelVisible>>
  PROVE  LinkInv'
<1>0. LinkTyped /\ ClosedPortIsEmpty /\ StartComesFirst /\ ReadyIsForGood
  BY DEF LinkInv
<1>1. CASE port = "open" /\ ready
  <2>1. toHost' = Append(toHost, <<intent, 0>>) /\ UNCHANGED pendingIntents /\ toHost \in Seq(HostMail)
    BY <1>0, <1>1 DEF SendsIntent, LinkTyped
  <2>2. <<intent, 0>> \in HostMail /\ <<intent, 0>> \notin Starts
    BY MailKinds
  <2>3. /\ toHost' \in Seq(HostMail) /\ Len(toHost') = Len(toHost) + 1 /\ Len(toHost) \in Nat
        /\ toHost'[Len(toHost) + 1] = <<intent, 0>> /\ \A i \in 1 .. Len(toHost) : toHost'[i] = toHost[i]
    BY <2>1, <2>2, AppendProperties, LenProperties
  <2>4. LinkTyped'
    BY <1>0, <2>1, <2>3 DEF LinkTyped
  <2>5. ClosedPortIsEmpty' /\ StartComesFirst'
    BY <1>0, <1>1 DEF ClosedPortIsEmpty, StartComesFirst
  <2>6. \A i \in 1 .. Len(toHost') : toHost'[i] \notin Starts
    BY SMTT(20), <1>0, <1>1, <2>2, <2>3 DEF ReadyIsForGood
  <2>7. ReadyIsForGood'
    BY <1>0, <1>1, <2>1, <2>6 DEF ReadyIsForGood
  <2>8. ASSUME VisibleIn(messengers') = 0 PROVE ClosingIsOnItsWay'
    BY <2>8, MailKinds, <2>1, <2>2, ClosedByTheLast, <1>0, <1>1 DEF ReadyIsForGood, ClosedAgain,
       ClosingIsOnItsWay
  <2>9. ClosingIsOnItsWay'
    BY <2>8 DEF ClosingIsOnItsWay
  <2> QED BY <2>4, <2>5, <2>7, <2>9 DEF LinkInv
<1>2. CASE ~(port = "open" /\ ready)
  <2> DEFINE all == Append(pendingIntents, intent)
  <2>1. UNCHANGED toHost /\ pendingIntents' = (IF Len(all) > PendingLimit THEN Tail(all) ELSE all)
    BY <1>2 DEF SendsIntent
  <2>2. ~ready
    BY <1>0, <1>2 DEF LinkTyped, ClosedPortIsEmpty
  <2>3. pendingIntents \in Seq(Intents)
    BY <1>0 DEF LinkTyped
  <2>4. all \in Seq(Intents) /\ Len(all) = Len(pendingIntents) + 1 /\ Len(pendingIntents) \in Nat
    BY <2>3, AppendProperties, LenProperties
  <2>5. all # <<>>
    BY <2>4, EmptySeq
  <2>6. Tail(all) \in Seq(Intents)
    BY <2>4, <2>5, HeadTailProperties
  <2>7. LinkTyped'
    BY <2>1, <2>4, <2>6, <1>0 DEF LinkTyped
  <2>8. ClosedPortIsEmpty' /\ StartComesFirst' /\ ReadyIsForGood'
    BY <1>0, <2>1, <2>2 DEF ClosedPortIsEmpty, StartComesFirst, ReadyIsForGood
  <2>9. ASSUME VisibleIn(messengers') = 0 PROVE ClosingIsOnItsWay'
    <3>1. ClosedAgain(all, "panelVisible", Closers)
      BY <2>3, <2>9, ClosedByTheLast, MailKinds
    <3>2. ClosedAgain(Tail(all), "panelVisible", Closers)
      <4> HIDE DEF all
      <4> QED BY <2>4, <2>5, <3>1, ClosedTail
    <3>3. ClosedAgain(pendingIntents', "panelVisible", Closers)
      BY <2>1, <3>1, <3>2
    <3>4. ~panelVisible' /\ ~ready'
      BY <1>0, <2>2 DEF StartComesFirst
    <3> QED BY <3>3, <3>4 DEF ClosingIsOnItsWay
  <2>10. ClosingIsOnItsWay'
    BY <2>9 DEF ClosingIsOnItsWay
  <2> QED BY <2>7, <2>8, <2>10 DEF LinkInv
<1> QED BY <1>1, <1>2

\* A step of a messenger.
MessengerSteps ==
  \E t \in LinkTabs : MessengerMounts(t) \/ GuestShows(t) \/ GuestHides(t) \/ GuestLeaves(t) \/ GuestSends(t)

\* The last messenger to hide is told, and one that hides among others is not.
LEMMA HidingKeepsInv ==
  ASSUME LinkInv, messengers' \in [LinkTabs -> {"none", "hidden", "visible"}],
         SendsVisibility("panelHidden", messengers'),
         UNCHANGED <<port, connecting, ready, saved, toWorker, host, panelVisible>>
  PROVE  LinkInv'
<1>1. "panelHidden" \in Intents /\ "panelHidden" \in Closers
  BY DEF Intents, Closers
<1>2. CASE (VisibleIn(messengers) = 0) # (VisibleIn(messengers') = 0)
  <2>1. SendsIntent("panelHidden")
    BY <1>2 DEF SendsVisibility
  <2> QED BY <1>1, <2>1, SentIntentKeepsInv
<1>3. CASE (VisibleIn(messengers) = 0) = (VisibleIn(messengers') = 0)
  BY <1>3, UntoldKeepsInv DEF SendsVisibility
<1> QED BY <1>2, <1>3

LEMMA MessengerStepKeepsInv == LinkInv /\ MessengerSteps => LinkInv'
<1> SUFFICES ASSUME LinkInv, MessengerSteps PROVE LinkInv'
  OBVIOUS
<1>0. /\ messengers \in [LinkTabs -> {"none", "hidden", "visible"}]
      /\ {"mounted", "panelVisible", "panelHidden", "other"} \subseteq Intents
      /\ "mounted" \in Closers
  BY DEF LinkInv, LinkTyped, Intents, Closers
<1>1. ASSUME NEW t \in LinkTabs, MessengerMounts(t) PROVE LinkInv'
  BY <1>0, <1>1, SentIntentKeepsInv DEF MessengerMounts, GuestUnchanged
<1>2. ASSUME NEW t \in LinkTabs, GuestShows(t) PROVE LinkInv'
  BY <1>2, <1>0, NoneVisible, SentIntentKeepsInv, UntoldKeepsInv DEF GuestShows, GuestUnchanged,
     SendsVisibility
<1>3. ASSUME NEW t \in LinkTabs, GuestHides(t) PROVE LinkInv'
  BY <1>0, <1>3, HidingKeepsInv DEF GuestHides, GuestUnchanged
<1>4. ASSUME NEW t \in LinkTabs, GuestLeaves(t) PROVE LinkInv'
  <2>1. /\ messengers' = [messengers EXCEPT ![t] = "none"]
        /\ IF messengers[t] = "visible" THEN SendsVisibility("panelHidden", messengers')
                                        ELSE UNCHANGED <<toHost, pendingIntents>>
        /\ UNCHANGED <<port, connecting, ready, saved, toWorker, host, panelVisible>>
    BY <1>4 DEF GuestLeaves, GuestUnchanged, Gone
  <2>2. messengers' \in [LinkTabs -> {"none", "hidden", "visible"}]
    BY <1>0, <2>1
  <2>3. CASE messengers[t] = "visible"
    BY <2>1, <2>2, <2>3, HidingKeepsInv
  <2>4. CASE messengers[t] # "visible"
    BY <1>0, <2>1, <2>4, NoneVisible, <2>2, UntoldKeepsInv
  <2> QED BY <2>3, <2>4
<1>5. ASSUME NEW t \in LinkTabs, GuestSends(t) PROVE LinkInv'
  BY <1>5, NoneVisible, <1>0, SentIntentKeepsInv DEF GuestSends, GuestUnchanged
<1> QED BY <1>1, <1>2, <1>3, <1>4, <1>5 DEF MessengerSteps

-----------------------------------------------------------------------------
\* A port opens, or closes.
PortSteps == EnsureNative \/ Connects \/ HostEnds \/ SettingsChange

\* Everything of the port is gone; what was kept is kept or forgotten.
LEMMA DisconnectedKeepsInv ==
  ASSUME LinkInv, Disconnected, port' = "none", ready' = FALSE,
         UNCHANGED <<connecting, messengers>>, saved' \in 1 .. MaxSaves + 1,
         pendingIntents' = <<>> \/ UNCHANGED pendingIntents
  PROVE  LinkInv'
<1>1. toHost' = <<>> /\ toWorker' = <<>> /\ host' = 0 /\ panelVisible' = FALSE
  BY DEF Disconnected
<1>2. LinkTyped'
  <2>1. toHost' \in Seq(HostMail) /\ toWorker' \in Seq(Messages) /\ pendingIntents' \in Seq(Intents)
    <3>1. pendingIntents \in Seq(Intents)
      BY DEF LinkInv, LinkTyped
    <3>2. toHost' \in Seq(HostMail) /\ toWorker' \in Seq(Messages)
      BY <1>1
    <3>3. CASE pendingIntents' = <<>>
      BY <3>2, <3>3
    <3>4. CASE UNCHANGED pendingIntents
      BY <3>1, <3>2, <3>4
    <3> QED BY <3>3, <3>4
  <2> QED BY <1>1, <2>1 DEF LinkInv, LinkTyped
<1>3. ClosedPortIsEmpty' /\ StartComesFirst' /\ ReadyIsForGood'
  BY <1>1 DEF ClosedPortIsEmpty, StartComesFirst, ReadyIsForGood
<1>4. ClosingIsOnItsWay'
  <2>1. ASSUME VisibleIn(messengers') = 0 PROVE ClosedAgain(pendingIntents', "panelVisible", Closers)
    BY <2>1 DEF ClosedAgain, LinkInv, ClosingIsOnItsWay
  <2> QED BY <1>1, <2>1 DEF ClosingIsOnItsWay
<1> QED BY <1>2, <1>3, <1>4 DEF LinkInv

LEMMA PortStepKeepsInv == LinkInv /\ PortSteps => LinkInv'
<1> SUFFICES ASSUME LinkInv, PortSteps PROVE LinkInv'
  OBVIOUS
<1>0. MaxSaves \in Nat /\ saved \in 1 .. MaxSaves + 1
  BY LinkAssumption DEF LinkInv, LinkTyped
<1>1. ASSUME EnsureNative PROVE LinkInv'
  BY <1>1 DEF EnsureNative, pages, hostSide, LinkInv, LinkTyped, ClosedPortIsEmpty, StartComesFirst,
     ReadyIsForGood, ClosingIsOnItsWay
<1>2. ASSUME Connects PROVE LinkInv'
  <2>1. /\ connecting # NotConnecting /\ connecting' = NotConnecting /\ port' = "open" /\ ready' = FALSE
        /\ toHost' = <<<<"start", connecting>>>>
        /\ UNCHANGED <<messengers, pendingIntents, saved, toWorker, host, panelVisible>>
    BY <1>2 DEF Connects, pages
  <2>2. toWorker = <<>> /\ ~panelVisible /\ host = 0
    BY <2>1 DEF LinkInv, ClosedPortIsEmpty
  <2>3. <<"start", connecting>> \in Starts
    BY <2>1 DEF LinkInv, LinkTyped, Starts
  <2>4. /\ toHost' \in Seq(HostMail) /\ Len(toHost') = 1 /\ toHost'[1] \in Starts
    BY <2>1, <2>3 DEF HostMail
  <2>5. LinkTyped'
    BY <2>1, <2>4 DEF LinkInv, LinkTyped
  <2>6. StartComesFirst'
    BY <2>1, <2>2, <2>4, EmptySeq DEF StartComesFirst
  <2>7. ClosedPortIsEmpty' /\ ReadyIsForGood'
    BY <2>1 DEF ClosedPortIsEmpty, ReadyIsForGood
  <2>8. ClosingIsOnItsWay'
    BY <2>1, <2>2 DEF LinkInv, ClosingIsOnItsWay
  <2> QED BY <2>5, <2>6, <2>7, <2>8 DEF LinkInv
<1>3. ASSUME HostEnds PROVE LinkInv'
  BY <1>3, <1>0, DisconnectedKeepsInv DEF HostEnds, pages
<1>4. ASSUME SettingsChange PROVE LinkInv'
  <2>1. /\ Disconnected /\ port' = "none" /\ ready' = FALSE /\ UNCHANGED <<connecting, messengers>>
        /\ pendingIntents' = <<>> /\ saved <= MaxSaves /\ saved' = saved + 1
    BY <1>4 DEF SettingsChange, pages
  <2>2. saved' \in 1 .. MaxSaves + 1
    BY <1>0, <2>1
  <2> QED BY <2>1, <2>2, DisconnectedKeepsInv
<1> QED BY <1>1, <1>2, <1>3, <1>4 DEF PortSteps

-----------------------------------------------------------------------------
\* The head of a queue, and what is left of it.
LEMMA QueueTail ==
  ASSUME NEW t, NEW q \in Seq(t), q # <<>>
  PROVE  /\ Len(q) \in Nat \ {0} /\ Tail(q) \in Seq(t) /\ Len(Tail(q)) = Len(q) - 1
         /\ Head(q) = q[1] /\ Head(q) \in t /\ \A i \in 1 .. Len(q) - 1 : Tail(q)[i] = q[i + 1]
BY HeadTailProperties, LenProperties, EmptySeq

\* What was kept is sent to the host that says it is ready.
LEMMA KeptIsSent ==
  ASSUME pendingIntents \in Seq(Intents),
         toHost' = <<>> \o [i \in DOMAIN pendingIntents |-> <<pendingIntents[i], 0>>]
  PROVE  /\ toHost' \in Seq(HostMail) /\ Len(toHost') = Len(pendingIntents)
         /\ \A i \in 1 .. Len(pendingIntents) : toHost'[i] = <<pendingIntents[i], 0>>
<1> DEFINE f == [i \in DOMAIN pendingIntents |-> <<pendingIntents[i], 0>>]
<1>1. Len(pendingIntents) \in Nat /\ DOMAIN pendingIntents = 1 .. Len(pendingIntents)
      /\ \A i \in 1 .. Len(pendingIntents) : pendingIntents[i] \in Intents
  BY LenProperties, ElementOfSeq
<1>2. f \in Seq(HostMail) /\ Len(f) = Len(pendingIntents)
  <2>1. \A i \in 1 .. Len(pendingIntents) : f[i] \in HostMail
    BY <1>1, MailKinds
  <2>2. f = [i \in 1 .. Len(pendingIntents) |-> f[i]]
    BY <1>1
  <2> HIDE DEF f
  <2> QED BY <1>1, <2>1, <2>2, IsASeq
<1>3. <<>> \o f = f
  BY <1>2, ConcatEmptySeq
<1> QED BY <1>1, <1>2, <1>3

LEMMA ReceiveKeepsInv == LinkInv /\ Receives => LinkInv'
<1> SUFFICES ASSUME LinkInv, Receives PROVE LinkInv'
  OBVIOUS
<1> DEFINE m == Head(toWorker)
<1>0. LinkTyped /\ ClosedPortIsEmpty /\ StartComesFirst /\ ReadyIsForGood /\ ClosingIsOnItsWay
  BY DEF LinkInv
<1>1. /\ toWorker # <<>> /\ toWorker' = Tail(toWorker)
      /\ UNCHANGED <<messengers, port, connecting, saved, host, panelVisible>>
  BY DEF Receives
<1>2. toWorker \in Seq(Messages)
  BY <1>0 DEF LinkTyped
<1>3. /\ Len(toWorker) \in Nat \ {0} /\ toWorker' \in Seq(Messages) /\ Len(toWorker') = Len(toWorker) - 1
      /\ m = toWorker[1] /\ m \in Messages /\ \A i \in 1 .. Len(toWorker) - 1 : toWorker'[i] = toWorker[i + 1]
  BY <1>1, <1>2, QueueTail
<1>4. port # "none"
  BY <1>0, <1>1 DEF ClosedPortIsEmpty
<1>7. 1 \in 1 .. Len(toWorker)
  BY <1>3
<1> HIDE DEF m
<1>5. CASE m # "ready"
  <2>1. /\ UNCHANGED <<pendingIntents, toHost>>
        /\ (ready' = ready) \/ (m \in {"starting", "error"} /\ ready' = FALSE)
    BY <1>3, <1>5 DEF Receives, m, Messages
  <2>2. ready' = ready
    BY <1>0, <1>3, <1>7, <2>1 DEF ReadyIsForGood, LinkTyped
  <2>3. LinkTyped'
    BY <1>0, <1>1, <1>3, <2>1, <2>2 DEF LinkTyped
  <2>4. ClosedPortIsEmpty'
    BY <1>0, <1>1, <1>4 DEF ClosedPortIsEmpty
  <2>5. StartComesFirst'
    <3>1. SUFFICES ASSUME ~ready PROVE StartComesFirst'
      BY <2>2 DEF StartComesFirst
    <3>2. toHost = <<>>
      BY <1>0, <1>1, <3>1 DEF StartComesFirst
    <3>3. ASSUME NEW i \in 1 .. Len(toWorker'), toWorker'[i] = "ready" PROVE i = Len(toWorker')
      BY <1>3, <3>3, <1>0, <3>1 DEF StartComesFirst
    <3> QED BY <1>0, <1>1, <2>1, <3>1, <3>2, <3>3 DEF StartComesFirst
  <2>6. ReadyIsForGood'
    <3>1. ASSUME ready, NEW i \in 1 .. Len(toWorker') PROVE toWorker'[i] \in {"state", "note"}
      BY <1>3, <1>0, <3>1 DEF ReadyIsForGood
    <3> QED BY <1>0, <2>1, <2>2, <3>1 DEF ReadyIsForGood
  <2>7. ClosingIsOnItsWay'
    BY <1>0, <1>1, <2>1, <2>2 DEF ClosingIsOnItsWay
  <2> QED BY <2>3, <2>4, <2>5, <2>6, <2>7 DEF LinkInv
<1>6. CASE m = "ready"
  <2>1. /\ ready' = TRUE /\ pendingIntents' = <<>>
        /\ toHost' = toHost \o [i \in DOMAIN pendingIntents |-> <<pendingIntents[i], 0>>]
    BY <1>6 DEF Receives, m
  <2>2. ~ready
    BY <1>0, <1>3, <1>6, <1>7 DEF ReadyIsForGood
  <2>3. toHost = <<>> /\ ~panelVisible /\ Len(toWorker) = 1
    BY <1>0, <1>1, <1>3, <1>6, <1>7, <2>2 DEF StartComesFirst
  <2>4. pendingIntents \in Seq(Intents)
    BY <1>0 DEF LinkTyped
  <2>5. /\ toHost' \in Seq(HostMail) /\ Len(toHost') = Len(pendingIntents) /\ Len(pendingIntents) \in Nat
        /\ \A i \in 1 .. Len(pendingIntents) : toHost'[i] = <<pendingIntents[i], 0>>
        /\ \A i \in 1 .. Len(pendingIntents) : pendingIntents[i] \in Intents
    BY <2>1, <2>3, <2>4, KeptIsSent, LenProperties, ElementOfSeq
  <2>6. LinkTyped'
    BY <2>1, <1>0, <1>1, <1>3, <2>5 DEF LinkTyped
  <2>7. ClosedPortIsEmpty' /\ StartComesFirst'
    BY <1>0, <1>1, <1>4, <2>1 DEF ClosedPortIsEmpty, StartComesFirst
  <2>8. ReadyIsForGood'
    BY <2>5, MailKinds, <1>3, <2>3, <2>1 DEF ReadyIsForGood
  <2>9. ASSUME VisibleIn(messengers') = 0 PROVE ClosedAgain(toHost', <<"panelVisible", 0>>, CloserMsg)
    <3>1. ClosedAgain(pendingIntents, "panelVisible", Closers)
      BY <1>0, <1>1, <2>9 DEF ClosingIsOnItsWay
    <3>2. ASSUME NEW i \in 1 .. Len(toHost'), toHost'[i] = <<"panelVisible", 0>>
          PROVE  \E j \in 1 .. Len(toHost') : j > i /\ toHost'[j] \in CloserMsg
      <4>1. pendingIntents[i] = "panelVisible" /\ i \in 1 .. Len(pendingIntents)
        BY <2>5, <3>2
      <4>2. PICK j \in 1 .. Len(pendingIntents) : j > i /\ pendingIntents[j] \in Closers
        BY <3>1, <4>1 DEF ClosedAgain
      <4>3. toHost'[j] \in CloserMsg
        BY <2>5, <4>2, MailKinds
      <4> QED BY <2>5, <4>2, <4>3
    <3> QED BY <3>2 DEF ClosedAgain
  <2>10. ClosedAgain(pendingIntents', "panelVisible", Closers)
    BY <2>1 DEF ClosedAgain
  <2>11. ClosingIsOnItsWay'
    BY <1>1, <2>3, <2>9, <2>10 DEF ClosingIsOnItsWay
  <2> QED BY <2>6, <2>7, <2>8, <2>11 DEF LinkInv
<1> QED BY <1>5, <1>6

\* The host handles its start.
LEMMA HostStartKeepsInv == LinkInv /\ HostStarts => LinkInv'
<1> SUFFICES ASSUME LinkInv, HostStarts PROVE LinkInv'
  OBVIOUS
<1>0. LinkTyped /\ ClosedPortIsEmpty /\ StartComesFirst /\ ReadyIsForGood /\ ClosingIsOnItsWay
  BY DEF LinkInv
<1>1. /\ toHost # <<>> /\ Head(toHost) \in Starts /\ toHost' = Tail(toHost) /\ panelVisible' = FALSE
      /\ UNCHANGED <<messengers, port, connecting, ready, pendingIntents, saved>>
      /\ \/ toWorker' = toWorker \o <<"starting", "state", "ready">>
         \/ toWorker' = toWorker \o <<"starting", "error">>
  BY DEF HostStarts, workerLink, pages
<1>2. toHost \in Seq(HostMail)
  BY <1>0 DEF LinkTyped
<1>3. /\ Len(toHost) \in Nat \ {0} /\ toHost' \in Seq(HostMail) /\ Len(toHost') = Len(toHost) - 1
      /\ Head(toHost) = toHost[1]
  BY <1>1, <1>2, QueueTail
<1>4. ~ready
  <2>1. 1 \in 1 .. Len(toHost)
    BY <1>3
  <2> QED BY <1>0, <1>1, <1>3, <2>1 DEF ReadyIsForGood
<1>5. Len(toHost') = 0 /\ toWorker = <<>>
  BY <1>0, <1>1, <1>3, <1>4 DEF StartComesFirst
<1>6. toHost' = <<>>
  BY <1>3, <1>5, EmptySeq
<1>7. \/ toWorker' = <<"starting", "state", "ready">>
      \/ toWorker' = <<"starting", "error">>
  <2>1. /\ <<>> \o <<"starting", "state", "ready">> = <<"starting", "state", "ready">>
        /\ <<>> \o <<"starting", "error">> = <<"starting", "error">>
    BY ConcatEmptySeq DEF Messages
  <2> QED BY <1>1, <1>5, <2>1
<1>8. /\ toWorker' \in Seq(Messages)
      /\ \A i \in 1 .. Len(toWorker') : toWorker'[i] = "ready" => i = Len(toWorker')
  <2>1. CASE toWorker' = <<"starting", "state", "ready">>
    BY <2>1 DEF Messages
  <2>2. CASE toWorker' = <<"starting", "error">>
    BY <2>2 DEF Messages
  <2> QED BY <1>7, <2>1, <2>2
<1>9. port # "none"
  BY <1>0, <1>1 DEF ClosedPortIsEmpty
<1>10. LinkTyped'
  BY <1>0, <1>1, <1>3, <1>8 DEF LinkTyped
<1>11. ClosedPortIsEmpty' /\ ReadyIsForGood'
  BY <1>0, <1>1, <1>4, <1>9 DEF ClosedPortIsEmpty, ReadyIsForGood
<1>12. StartComesFirst'
  <2>1. ~panelVisible' /\ toHost' = <<>> /\ Len(toHost') = 0
    BY <1>1, <1>5, <1>6
  <2>2. \A i \in 1 .. Len(toHost') : toHost'[i] \in Starts
    BY <2>1
  <2> QED BY <1>8, <2>1, <2>2 DEF StartComesFirst
<1>13. ClosingIsOnItsWay'
  BY <1>0, <1>1, <1>4 DEF ClosingIsOnItsWay
<1> QED BY <1>10, <1>11, <1>12, <1>13 DEF LinkInv

\* What a host says once it is ready leaves its port as it should be.
LEMMA SaidStaysInOrder ==
  ASSUME NEW said \in Seq({"state", "note"}), toWorker \in Seq(Messages),
         \A i \in 1 .. Len(toWorker) : toWorker[i] \in {"state", "note"},
         toWorker' = toWorker \o said
  PROVE  toWorker' \in Seq(Messages) /\ \A i \in 1 .. Len(toWorker') : toWorker'[i] \in {"state", "note"}
<1>1. Len(toWorker) \in Nat /\ Len(said) \in Nat /\ \A i \in 1 .. Len(said) : said[i] \in {"state", "note"}
  BY LenProperties, ElementOfSeq
<1>2. said \in Seq(Messages)
  BY SeqMonotonic DEF Messages
<1>3. /\ toWorker' \in Seq(Messages) /\ Len(toWorker') = Len(toWorker) + Len(said)
      /\ \A i \in 1 .. Len(toWorker') :
           toWorker'[i] = IF i <= Len(toWorker) THEN toWorker[i] ELSE said[i - Len(toWorker)]
  BY <1>2, ConcatProperties
<1>4. ASSUME NEW i \in 1 .. Len(toWorker') PROVE toWorker'[i] \in {"state", "note"}
  <2>1. CASE i <= Len(toWorker)
    BY <1>1, <1>3, <2>1
  <2>2. CASE ~(i <= Len(toWorker))
    BY <1>1, <1>3, <2>2
  <2> QED BY <2>1, <2>2
<1> QED BY <1>3, <1>4

\* The host handles an intent.
LEMMA HostHandlesKeepsInv == LinkInv /\ HostHandles => LinkInv'
<1> SUFFICES ASSUME LinkInv, HostHandles PROVE LinkInv'
  OBVIOUS
<1> DEFINE m == Head(toHost)
<1>0. LinkTyped /\ ClosedPortIsEmpty /\ StartComesFirst /\ ReadyIsForGood /\ ClosingIsOnItsWay
  BY DEF LinkInv
<1>1. /\ toHost # <<>> /\ m \notin Starts /\ toHost' = Tail(toHost)
      /\ UNCHANGED <<messengers, port, connecting, ready, pendingIntents, saved, host>>
  BY DEF HostHandles, workerLink, pages
<1>2. toHost \in Seq(HostMail) /\ toWorker \in Seq(Messages)
  BY <1>0 DEF LinkTyped
<1>3. /\ Len(toHost) \in Nat \ {0} /\ toHost' \in Seq(HostMail) /\ Len(toHost') = Len(toHost) - 1
      /\ m = toHost[1] /\ m \in HostMail /\ \A i \in 1 .. Len(toHost) - 1 : toHost'[i] = toHost[i + 1]
  BY <1>1, <1>2, QueueTail
<1>4. PICK intent \in Intents : m = <<intent, 0>>
  BY <1>1, <1>3, MailKinds
<1>5. /\ panelVisible' = CASE intent = "panelVisible" -> TRUE
                           [] intent \in {"panelHidden", "mounted"} -> FALSE
                           [] OTHER -> panelVisible
      /\ toWorker' = toWorker \o (CASE intent \in {"mounted", "panelVisible"} -> <<"note", "state">>
                                    [] intent = "panelHidden" -> <<"note">>
                                    [] OTHER -> <<"note", "note">>)
  <2>1. Head(toHost)[1] = intent
    BY <1>4
  <2> QED BY <2>1 DEF HostHandles
<1> HIDE DEF m
<1>6. ready
  <2>1. 1 \in 1 .. Len(toHost)
    BY <1>3
  <2> QED BY <1>0, <1>1, <1>3, <2>1 DEF StartComesFirst
<1>7. PICK said \in Seq({"state", "note"}) : toWorker' = toWorker \o said
  <2>1. /\ <<"note", "state">> \in Seq({"state", "note"}) /\ <<"note">> \in Seq({"state", "note"})
        /\ <<"note", "note">> \in Seq({"state", "note"})
    OBVIOUS
  <2> QED BY <1>5, <2>1
<1>8. toWorker' \in Seq(Messages) /\ \A i \in 1 .. Len(toWorker') : toWorker'[i] \in {"state", "note"}
  BY <1>0, <1>2, <1>6, <1>7, SaidStaysInOrder DEF ReadyIsForGood
<1>9. panelVisible' \in BOOLEAN
  BY <1>0, <1>5 DEF LinkTyped
<1>10. LinkTyped'
  BY <1>0, <1>1, <1>3, <1>8, <1>9 DEF LinkTyped
<1>11. ClosedPortIsEmpty' /\ StartComesFirst'
  BY <1>0, <1>1, <1>6 DEF ClosedPortIsEmpty, StartComesFirst
<1>12. ReadyIsForGood'
  <2>1. ASSUME NEW i \in 1 .. Len(toHost') PROVE toHost'[i] \notin Starts
    BY <1>3, <1>0, <1>6 DEF ReadyIsForGood
  <2> QED BY <1>0, <1>1, <1>6, <1>8, <2>1 DEF ReadyIsForGood
<1>13. ASSUME VisibleIn(messengers') = 0 PROVE ClosingIsOnItsWay'
  <2>1. /\ ClosedAgain(pendingIntents, "panelVisible", Closers)
        /\ ClosedAgain(toHost, <<"panelVisible", 0>>, CloserMsg)
        /\ panelVisible => \E j \in 1 .. Len(toHost) : toHost[j] \in CloserMsg
    BY <1>0, <1>1, <1>6, <1>13 DEF ClosingIsOnItsWay
  <2>2. /\ ClosedAgain(toHost', <<"panelVisible", 0>>, CloserMsg)
        /\ m = <<"panelVisible", 0>> => \E j \in 1 .. Len(toHost') : toHost'[j] \in CloserMsg
    BY <1>1, <1>2, <2>1, ClosedTail DEF m
  <2>3. ASSUME panelVisible' PROVE \E j \in 1 .. Len(toHost') : toHost'[j] \in CloserMsg
    <3>1. CASE intent = "panelVisible"
      BY <1>4, <2>2, <3>1
    <3>2. CASE intent # "panelVisible"
      BY <1>5, <2>3, <3>2, <1>4, MailKinds, <1>1, <1>2, <2>1, CloserStays DEF Closers, m
    <3> QED BY <3>1, <3>2
  <2> QED BY <1>1, <2>1, <2>2, <2>3 DEF ClosingIsOnItsWay
<1>14. ClosingIsOnItsWay'
  BY <1>13 DEF ClosingIsOnItsWay
<1> QED BY <1>10, <1>11, <1>12, <1>14 DEF LinkInv

LEMMA HostPushKeepsInv == LinkInv /\ HostPushes => LinkInv'
BY DEF LinkInv, HostPushes, workerLink, pages, Messages, LinkTyped, ClosedPortIsEmpty, ReadyIsForGood,
   ClosingIsOnItsWay, StartComesFirst

LEMMA LinkStepInv == LinkInv /\ [LinkNext]_linkVars => LinkInv'
<1> SUFFICES ASSUME LinkInv, [LinkNext]_linkVars PROVE LinkInv'
  OBVIOUS
<1>1. MessengerSteps \/ PortSteps \/ Receives \/ HostStarts \/ HostHandles \/ HostPushes \/ UNCHANGED linkVars
  BY DEF LinkNext, MessengerSteps, PortSteps
<1>2. ASSUME UNCHANGED linkVars PROVE LinkInv'
  BY <1>2, UntoldKeepsInv DEF linkVars, workerLink, pages, hostSide, LinkInv, LinkTyped
<1> QED BY <1>1, <1>2, MessengerStepKeepsInv, PortStepKeepsInv, ReceiveKeepsInv, HostStartKeepsInv,
           HostHandlesKeepsInv, HostPushKeepsInv

LEMMA LinkInvHolds == LinkInv => OpenPanelIsReal
<1> SUFFICES ASSUME LinkInv, LinkSettled, panelVisible, VisibleIn(messengers) = 0 PROVE FALSE
  <2>1. VisibleIn(messengers) \in Nat
    <3>1. IsFiniteSet({t \in LinkTabs : messengers[t] = "visible"})
      <4>1. IsFiniteSet(LinkTabs)
        BY LinkAssumption
      <4> QED BY <4>1, FS_Subset
    <3> QED BY <3>1, FS_CardinalityType DEF VisibleIn
  <2> QED BY <2>1 DEF OpenPanelIsReal
<1>1. toHost = <<>>
  BY DEF LinkSettled
<1> QED BY <1>1 DEF LinkInv, ClosingIsOnItsWay

\* For every number of tabs and every limit of kept intents: a daemon nothing is on
\* its way to believes a panel open only while a messenger shows (background.ts,
\* native-host.ts).
THEOREM OpenPanelsAreReal == LinkSpec => []OpenPanelIsReal
<1> QED BY LinkInitInv, LinkStepInv, LinkInvHolds, PTL DEF LinkSpec

\* What the proofs about the open panel had no need of.
LinkRest ==
  /\ launcher \in [LinkTabs -> BOOLEAN] /\ named \in BOOLEAN
  /\ lastPatch \in {"none", "state", "note"} /\ host \in 0 .. MaxSaves + 1
  /\ Len(pendingIntents) <= PendingLimit

\* The types of the extension's link, with what the panel is real by.
PanelLinkInv == LinkInv /\ LinkRest

\* The link's bounds are numbers.
LEMMA LinkNumbers == MaxSaves \in Nat /\ PendingLimit \in Nat /\ PendingLimit # 0
  BY LinkAssumption

\* What is kept for a host that is not ready is never more than the limit.
LEMMA KeptWithinLimit ==
  ASSUME LinkTyped, LinkRest, NEW i \in Intents, SendsIntent(i)
  PROVE  Len(pendingIntents') <= PendingLimit
<1> USE LinkNumbers
<1> DEFINE all == Append(pendingIntents, i)
<1>0. pendingIntents \in Seq(Intents) /\ Len(pendingIntents) \in Nat /\ Len(pendingIntents) <= PendingLimit
  BY DEF LinkTyped, LinkRest
<1>1. all \in Seq(Intents) /\ Len(all) = Len(pendingIntents) + 1
  BY <1>0
<1>2. Len(all) > 0 /\ all # <<>>
  BY <1>0, <1>1
<1>3. Len(Tail(all)) = Len(pendingIntents)
  BY <1>0, <1>1, <1>2
<1>4. \/ UNCHANGED pendingIntents
      \/ pendingIntents' = IF Len(all) > PendingLimit THEN Tail(all) ELSE all
  BY DEF SendsIntent
<1>5. CASE UNCHANGED pendingIntents
  BY <1>0, <1>5
<1>6. CASE pendingIntents' = IF Len(all) > PendingLimit THEN Tail(all) ELSE all
  BY <1>0, <1>3, <1>6, <1>1
<1> QED BY <1>4, <1>5, <1>6

\* So it is whoever shows.
LEMMA ShownWithinLimit ==
  ASSUME LinkTyped, LinkRest, NEW i \in Intents, NEW g, SendsVisibility(i, g)
  PROVE  Len(pendingIntents') <= PendingLimit
BY KeptWithinLimit DEF SendsVisibility, LinkRest

LEMMA PanelLinkInitInv == LinkInit => PanelLinkInv
<1> SUFFICES ASSUME LinkInit PROVE LinkRest
  BY LinkInitInv DEF PanelLinkInv
<1>1. 0 \in 0 .. MaxSaves + 1 /\ Len(<<>>) <= PendingLimit
  BY LinkNumbers
<1> QED BY <1>1 DEF LinkInit, LinkRest

LEMMA PanelLinkStepInv == PanelLinkInv /\ [LinkNext]_linkVars => PanelLinkInv'
<1> SUFFICES ASSUME PanelLinkInv, [LinkNext]_linkVars PROVE LinkRest'
  BY LinkStepInv DEF PanelLinkInv
<1>0. LinkTyped /\ LinkRest /\ Intents = {"mounted", "panelVisible", "panelHidden", "other"}
  BY DEF PanelLinkInv, LinkInv, Intents
<1>1. ASSUME NEW t \in LinkTabs,
             MessengerMounts(t) \/ GuestShows(t) \/ GuestHides(t) \/ GuestLeaves(t) \/ GuestSends(t)
      PROVE  LinkRest'
  <2>1. Len(pendingIntents') <= PendingLimit
    BY <1>0, KeptWithinLimit, ShownWithinLimit, <1>1 DEF MessengerMounts, GuestShows, GuestHides,
       GuestLeaves, Gone, LinkRest, GuestSends
  <2>2. UNCHANGED <<named, lastPatch, host>>
    BY <1>1 DEF MessengerMounts, GuestShows, GuestHides, GuestLeaves, GuestSends, GuestUnchanged
  <2>3. launcher' = launcher \/ launcher' = [launcher EXCEPT ![t] = lastPatch = "state"]
    BY <1>1 DEF MessengerMounts, GuestShows, GuestHides, GuestLeaves, GuestSends
  <2>4. launcher' \in [LinkTabs -> BOOLEAN]
    BY <1>0, <2>3 DEF LinkRest
  <2> QED BY <1>0, <2>1, <2>2, <2>4 DEF LinkRest
<1>2. CASE EnsureNative \/ Connects
  BY <1>0, <1>2 DEF EnsureNative, Connects, pages, hostSide, LinkRest
<1>3. CASE HostEnds \/ SettingsChange
  BY LinkNumbers, <1>0, <1>3 DEF HostEnds, SettingsChange, Disconnected, pages, LinkRest
<1>4. CASE Receives
  <2>1. toWorker # <<>> /\ Head(toWorker) \in Messages
    BY <1>0, <1>4 DEF Receives, LinkTyped
  <2>2. host' = host
    BY <1>4 DEF Receives
  <2>3. CASE Head(toWorker) \in {"state", "note"}
    BY <1>4, <2>3, <1>0, <2>2 DEF Receives, LinkRest
  <2>4. CASE Head(toWorker) \in {"starting", "error"}
    BY <1>4, <2>4, <1>0, <2>2 DEF Receives, LinkRest
  <2>5. CASE Head(toWorker) = "ready"
    <3>1. UNCHANGED <<lastPatch, launcher, named>> /\ pendingIntents' = <<>>
      BY <1>4, <2>5 DEF Receives
    <3>2. Len(<<>>) <= PendingLimit
      BY LinkNumbers
    <3> QED BY <1>0, <2>2, <3>1, <3>2 DEF LinkRest
  <2> QED BY <2>1, <2>3, <2>4, <2>5 DEF Messages
<1>5. CASE HostStarts
  <2>1. PICK n \in 1 .. MaxSaves + 1 : Head(toHost) = <<"start", n>>
    BY <1>5 DEF HostStarts, Starts
  <2>2. host' = n \/ host' = 0
    BY <1>5, <2>1 DEF HostStarts
  <2>3. host' \in 0 .. MaxSaves + 1
    BY <2>2, LinkNumbers
  <2> QED BY <1>0, <1>5, <2>3 DEF HostStarts, workerLink, pages, LinkRest
<1>6. CASE HostHandles \/ HostPushes
  BY <1>0, <1>6 DEF HostHandles, HostPushes, workerLink, pages, LinkRest
<1>7. CASE UNCHANGED linkVars
  BY <1>0, <1>7 DEF linkVars, workerLink, pages, hostSide, LinkRest
<1> QED BY <1>1, <1>2, <1>3, <1>4, <1>5, <1>6, <1>7 DEF LinkNext

LEMMA PanelLinkTyped == PanelLinkInv => LinkTypeOK
BY LinkNumbers DEF PanelLinkInv, LinkInv, LinkTyped, NotConnecting, LinkRest, LinkTypeOK, HostMail

(***************************************************************************)
(* The debugger's relays                                                   *)
(***************************************************************************)

\* How many of a queue's messages are in v.
CountIn(v, q) == Cardinality({i \in 1 .. Len(q) : q[i] \in v})

LEMMA CountsAreNumbers ==
  ASSUME NEW t, NEW q \in Seq(t), NEW v
  PROVE  /\ CountIn(v, q) \in Nat
         /\ (\E i \in 1 .. Len(q) : q[i] \in v) => CountIn(v, q) > 0
         /\ IsFiniteSet({i \in 1 .. Len(q) : q[i] \in v})
<1> DEFINE X == {i \in 1 .. Len(q) : q[i] \in v}
<1>1. Len(q) \in Nat
  BY LenProperties
<1>2. IsFiniteSet(1 .. Len(q))
  BY <1>1, FS_Interval
<1>3. IsFiniteSet(X)
  BY <1>2, FS_Subset
<1>4. Cardinality(X) \in Nat
  BY <1>3, FS_CardinalityType
<1>5. (\E i \in 1 .. Len(q) : q[i] \in v) => X # {}
  OBVIOUS
<1>6. X # {} => Cardinality(X) # 0
  BY <1>3, FS_EmptySet
<1> HIDE DEF X
<1>7. (\E i \in 1 .. Len(q) : q[i] \in v) => Cardinality(X) > 0
  BY <1>4, <1>5, <1>6
<1> QED BY <1>3, <1>4, <1>7 DEF CountIn, X

LEMMA CountAppended ==
  ASSUME NEW t, NEW q \in Seq(t), NEW v, NEW e \in t
  PROVE  CountIn(v, Append(q, e)) = CountIn(v, q) + (IF e \in v THEN 1 ELSE 0)
<1> DEFINE X == {i \in 1 .. Len(q) : q[i] \in v}
           l == Append(q, e)
<1>1. Len(q) \in Nat /\ Len(l) = Len(q) + 1 /\ l[Len(q) + 1] = e /\ \A i \in 1 .. Len(q) : l[i] = q[i]
  BY AppendProperties, LenProperties
<1>2. IsFiniteSet(X)
  BY CountsAreNumbers
<1>3. CASE e \in v
  <2>1. {i \in 1 .. Len(l) : l[i] \in v} = X \cup {Len(q) + 1}
    BY <1>1, <1>3
  <2>2. Len(q) + 1 \notin X
    BY <1>1
  <2>3. Cardinality(X \cup {Len(q) + 1}) = Cardinality(X) + 1
    BY <1>2, <2>2, FS_AddElement
  <2> HIDE DEF X, l
  <2> QED BY <2>1, <2>3, <1>3 DEF CountIn, X, l
<1>4. CASE e \notin v
  <2>1. {i \in 1 .. Len(l) : l[i] \in v} = X
    BY <1>1, <1>4
  <2>2. CountIn(v, q) \in Nat
    BY CountsAreNumbers
  <2>3. CountIn(v, l) = CountIn(v, q)
    BY <2>1 DEF CountIn
  <2> QED BY <2>2, <2>3, <1>4
<1> QED BY <1>3, <1>4

LEMMA CountTail ==
  ASSUME NEW t, NEW q \in Seq(t), NEW v, q # <<>>
  PROVE  CountIn(v, q) = CountIn(v, Tail(q)) + (IF Head(q) \in v THEN 1 ELSE 0)
<1> DEFINE X == {i \in 1 .. Len(q) : q[i] \in v}
           l == Tail(q)
           Y == {i \in 1 .. Len(l) : l[i] \in v}
           Z == {i \in 2 .. Len(q) : q[i] \in v}
<1>1. /\ Len(q) \in Nat \ {0} /\ Len(l) = Len(q) - 1 /\ l \in Seq(t) /\ Head(q) = q[1]
      /\ \A i \in 1 .. Len(q) - 1 : l[i] = q[i + 1]
  BY HeadTailProperties, LenProperties, EmptySeq
<1>2. IsFiniteSet(X) /\ IsFiniteSet(Y) /\ CountIn(v, l) \in Nat
  BY <1>1, CountsAreNumbers
<1>3. Cardinality(Y) = Cardinality(Z)
  <2> DEFINE f == [i \in Y |-> i + 1]
  <2>1. f \in [Y -> Z]
    BY <1>1
  <2>2. \A i, j \in Y : f[i] = f[j] => i = j
    BY <1>1
  <2>3. \A z \in Z : \E y \in Y : f[y] = z
    <3> SUFFICES ASSUME NEW z \in Z PROVE z - 1 \in Y /\ f[z - 1] = z
      OBVIOUS
    <3>1. z \in 2 .. Len(q) /\ z - 1 \in 1 .. Len(l) /\ l[z - 1] = q[z]
      BY <1>1
    <3> QED BY <3>1
  <2> HIDE DEF f, Y, Z
  <2>4. f \in Bijection(Y, Z)
    BY <2>1, <2>2, <2>3 DEF Bijection, Injection, Surjection, IsInjective
  <2> QED BY <2>4, <1>2, FS_Bijection DEF ExistsBijection
<1>4. Z \subseteq X /\ 1 \notin Z
  BY <1>1
<1>5. IsFiniteSet(Z)
  BY <1>2, <1>4, FS_Subset
<1>6. CASE Head(q) \in v
  <2>1. X = Z \cup {1}
    BY <1>1, <1>6
  <2>2. Cardinality(Z \cup {1}) = Cardinality(Z) + 1
    BY <1>4, <1>5, FS_AddElement
  <2> HIDE DEF X, Y, Z
  <2>3. Cardinality(X) = Cardinality(Y) + 1
    BY <2>1, <2>2, <1>3
  <2> QED BY <2>3, <1>6 DEF CountIn, X, Y
<1>7. CASE Head(q) \notin v
  <2>1. X = Z
    BY <1>1, <1>7
  <2> HIDE DEF X, Y, Z
  <2>2. Cardinality(X) = Cardinality(Y)
    BY <2>1, <1>3
  <2>3. CountIn(v, q) = CountIn(v, Tail(q))
    BY <2>2 DEF CountIn, X, Y, l
  <2> QED BY <2>3, <1>2, <1>7 DEF l
<1> QED BY <1>6, <1>7

\* What travels between the worker and the offscreen document.
WorkerMail    == ({"attach", "data", "gone"} \X Nat) \cup {<<"done", 0>>}
OffscreenMail == ({"close", "gone"} \X Nat) \cup {<<"op", 0>>}

\* The worker's count of operations in flight is that of the operations themselves:
\* those not sent yet, on their way, at the host, or answered.
InFlightIsTrue ==
  inFlight = routed + CountIn({<<"op", 0>>}, toOffscreenQ) + hostOps + CountIn({<<"done", 0>>}, toWorkerQ)

\* An operation for which a port attached is not over when the worker hears of the port.
AttachHasAnOperation ==
  \A i \in 1 .. Len(toWorkerQ) : toWorkerQ[i][1] = "attach" =>
    hostOps > 0 \/ \E j \in 1 .. Len(toWorkerQ) : j > i /\ toWorkerQ[j] = <<"done", 0>>

\* The inductive invariant.
RelayTimerInv ==
  /\ {relayPort, offTarget, inFlight, routed, hostOps, offPort.last} \subseteq Nat
  /\ toWorkerQ \in Seq(WorkerMail) /\ toOffscreenQ \in Seq(OffscreenMail)
  /\ InFlightIsTrue
  /\ AttachHasAnOperation
  /\ UnusedRelayIsTimed

LEMMA RelayInitInv == RelayInit => RelayTimerInv
<1> SUFFICES ASSUME RelayInit PROVE RelayTimerInv
  OBVIOUS
<1>1. \A v : CountIn(v, <<>>) = 0
  BY FS_EmptySet DEF CountIn
<1>2. toWorkerQ = <<>> /\ toOffscreenQ = <<>> /\ inFlight = 0 /\ routed = 0 /\ hostOps = 0 /\ relayPort = 0
  BY DEF RelayInit
<1>3. InFlightIsTrue
  BY <1>1, <1>2 DEF InFlightIsTrue
<1>4. AttachHasAnOperation /\ UnusedRelayIsTimed
  BY <1>2 DEF AttachHasAnOperation, UnusedRelayIsTimed
<1>5. offTarget = 0 /\ offPort.last = 0
  BY DEF RelayInit
<1> QED BY <1>2, <1>3, <1>4, <1>5 DEF RelayTimerInv

\* The counts are numbers, and one of them that is not 0 leaves an operation in flight.
LEMMA InFlightFacts ==
  ASSUME RelayTimerInv
  PROVE  /\ CountIn({<<"op", 0>>}, toOffscreenQ) \in Nat /\ CountIn({<<"done", 0>>}, toWorkerQ) \in Nat
         /\ relayPort \in Nat /\ offTarget \in Nat /\ inFlight \in Nat /\ routed \in Nat /\ hostOps \in Nat
         /\ offPort.last \in Nat
         /\ toWorkerQ \in Seq(WorkerMail) /\ toOffscreenQ \in Seq(OffscreenMail)
BY CountsAreNumbers DEF RelayTimerInv

LEMMA WorkerMails ==
  ASSUME NEW k \in {"attach", "data", "gone"}, NEW n \in Nat
  PROVE  \E e \in WorkerMail : e = <<k, n>> /\ e # <<"done", 0>> /\ e[1] = k
<1>1. <<k, n>> \in WorkerMail /\ <<k, n>> # <<"done", 0>> /\ <<k, n>>[1] = k
  BY DEF WorkerMail
<1>2. PICK e : e = <<k, n>>
  BY Zenon
<1> QED BY <1>1, <1>2

LEMMA DoneMail == \E e \in WorkerMail : e = <<"done", 0>> /\ e[1] = "done"
<1>1. <<"done", 0>> \in WorkerMail /\ <<"done", 0>>[1] = "done"
  BY DEF WorkerMail
<1>2. PICK e : e = <<"done", 0>>
  BY Zenon
<1> QED BY <1>1, <1>2

LEMMA OffscreenMails ==
  ASSUME NEW k \in {"close", "gone"}, NEW n \in Nat
  PROVE  \E e \in OffscreenMail : e = <<k, n>> /\ e # <<"op", 0>>
<1>1. <<k, n>> \in OffscreenMail /\ <<k, n>> # <<"op", 0>>
  BY DEF OffscreenMail
<1>2. PICK e : e = <<k, n>>
  BY Zenon
<1> QED BY <1>1, <1>2

\* More mail, or less, to the worker.
LEMMA WorkerMailAdded ==
  ASSUME toWorkerQ \in Seq(WorkerMail), NEW e \in WorkerMail, toWorkerQ' = Append(toWorkerQ, e),
         hostOps \in Nat, hostOps' \in Nat,
         e[1] = "attach" => hostOps' > 0,
         e # <<"done", 0>> => hostOps' >= hostOps,
         AttachHasAnOperation
  PROVE  /\ toWorkerQ' \in Seq(WorkerMail) /\ AttachHasAnOperation'
         /\ CountIn({<<"done", 0>>}, toWorkerQ') =
              CountIn({<<"done", 0>>}, toWorkerQ) + (IF e = <<"done", 0>> THEN 1 ELSE 0)
<1> DEFINE n == Len(toWorkerQ)
<1>1. n \in Nat /\ Len(toWorkerQ') = n + 1 /\ toWorkerQ'[n + 1] = e /\ \A i \in 1 .. n : toWorkerQ'[i] = toWorkerQ[i]
  BY AppendProperties, LenProperties
<1>2. toWorkerQ' \in Seq(WorkerMail)
  BY AppendProperties
<1>3. ASSUME NEW i \in 1 .. n + 1, toWorkerQ'[i][1] = "attach", ~(hostOps' > 0)
      PROVE  \E j \in 1 .. n + 1 : j > i /\ toWorkerQ'[j] = <<"done", 0>>
  <2>1. i # n + 1
    BY <1>1, <1>3
  <2>2. i \in 1 .. n /\ toWorkerQ[i][1] = "attach"
    BY <1>1, <1>3, <2>1
  <2>3. CASE e = <<"done", 0>>
    BY <1>1, <2>2, <2>3
  <2>4. CASE e # <<"done", 0>>
    <3>1. ~(hostOps > 0)
      BY <1>3, <2>4
    <3>2. PICK j \in 1 .. n : j > i /\ toWorkerQ[j] = <<"done", 0>>
      BY <2>2, <3>1 DEF AttachHasAnOperation
    <3> QED BY <1>1, <3>2
  <2> QED BY <2>3, <2>4
<1>4. AttachHasAnOperation'
  BY <1>1, <1>3 DEF AttachHasAnOperation
<1> QED BY <1>2, <1>4, CountAppended

LEMMA WorkerMailTaken ==
  ASSUME toWorkerQ \in Seq(WorkerMail), toWorkerQ # <<>>, toWorkerQ' = Tail(toWorkerQ),
         hostOps \in Nat, hostOps' = hostOps, AttachHasAnOperation
  PROVE  /\ toWorkerQ' \in Seq(WorkerMail) /\ AttachHasAnOperation' /\ Head(toWorkerQ) \in WorkerMail
         /\ CountIn({<<"done", 0>>}, toWorkerQ) =
              CountIn({<<"done", 0>>}, toWorkerQ') + (IF Head(toWorkerQ) = <<"done", 0>> THEN 1 ELSE 0)
         /\ Head(toWorkerQ)[1] = "attach" => hostOps > 0 \/ CountIn({<<"done", 0>>}, toWorkerQ) > 0
<1> DEFINE n == Len(toWorkerQ)
<1>1. /\ n \in Nat \ {0} /\ Len(toWorkerQ') = n - 1 /\ toWorkerQ' \in Seq(WorkerMail)
      /\ Head(toWorkerQ) = toWorkerQ[1] /\ \A i \in 1 .. n - 1 : toWorkerQ'[i] = toWorkerQ[i + 1]
      /\ Head(toWorkerQ) \in WorkerMail
  BY HeadTailProperties, LenProperties, EmptySeq
<1>2. ASSUME NEW i \in 1 .. n - 1, toWorkerQ'[i][1] = "attach", ~(hostOps > 0)
      PROVE  \E j \in 1 .. n - 1 : j > i /\ toWorkerQ'[j] = <<"done", 0>>
  <2>1. i + 1 \in 1 .. n /\ toWorkerQ[i + 1][1] = "attach"
    BY <1>1, <1>2
  <2>2. PICK j \in 1 .. n : j > i + 1 /\ toWorkerQ[j] = <<"done", 0>>
    BY <1>2, <2>1 DEF AttachHasAnOperation
  <2>3. j - 1 \in 1 .. n - 1 /\ j - 1 > i /\ toWorkerQ'[j - 1] = toWorkerQ[(j - 1) + 1] /\ (j - 1) + 1 = j
    BY <1>1, <2>2
  <2> QED BY <2>2, <2>3
<1>3. AttachHasAnOperation'
  BY <1>1, <1>2 DEF AttachHasAnOperation
<1>4. Head(toWorkerQ)[1] = "attach" => hostOps > 0 \/ \E j \in 1 .. n : toWorkerQ[j] \in {<<"done", 0>>}
  <2> SUFFICES ASSUME Head(toWorkerQ)[1] = "attach", ~(hostOps > 0)
               PROVE  \E j \in 1 .. n : toWorkerQ[j] = <<"done", 0>>
    OBVIOUS
  <2>1. 1 \in 1 .. n /\ toWorkerQ[1][1] = "attach"
    BY <1>1
  <2> QED BY <2>1 DEF AttachHasAnOperation
<1>5. (\E j \in 1 .. n : toWorkerQ[j] \in {<<"done", 0>>}) => CountIn({<<"done", 0>>}, toWorkerQ) > 0
  BY CountsAreNumbers
<1>6. CountIn({<<"done", 0>>}, toWorkerQ) =
        CountIn({<<"done", 0>>}, toWorkerQ') + (IF Head(toWorkerQ) \in {<<"done", 0>>} THEN 1 ELSE 0)
  BY CountTail
<1> QED BY <1>1, <1>3, <1>4, <1>5, <1>6

\* Mail to the offscreen document that is no operation.
LEMMA OffscreenMailAdded ==
  ASSUME toOffscreenQ \in Seq(OffscreenMail), NEW e \in OffscreenMail
  PROVE  /\ Append(toOffscreenQ, e) \in Seq(OffscreenMail)
         /\ CountIn({<<"op", 0>>}, Append(toOffscreenQ, e)) =
              CountIn({<<"op", 0>>}, toOffscreenQ) + (IF e = <<"op", 0>> THEN 1 ELSE 0)
BY AppendProperties, CountAppended

LEMMA CloseRelayMail ==
  ASSUME toOffscreenQ \in Seq(OffscreenMail), relayPort \in Nat,
         NEW d \in BOOLEAN, NEW b \in BOOLEAN, CloseRelay(d, b)
  PROVE  /\ toOffscreenQ' \in Seq(OffscreenMail)
         /\ CountIn({<<"op", 0>>}, toOffscreenQ') = CountIn({<<"op", 0>>}, toOffscreenQ)
         /\ relayPort' = 0
<1>1. relayPort' = 0
  BY DEF CloseRelay
<1>2. PICK x, y : x = <<"close", relayPort>> /\ y = <<"gone", relayPort>>
  BY Zenon
<1>3. x \in OffscreenMail /\ y \in OffscreenMail /\ x # <<"op", 0>> /\ y # <<"op", 0>>
  BY <1>2 DEF OffscreenMail
<1>4. PICK q : q = Append(toOffscreenQ, x)
  BY Zenon
<1>5. q \in Seq(OffscreenMail) /\ CountIn({<<"op", 0>>}, q) = CountIn({<<"op", 0>>}, toOffscreenQ) + 0
  BY <1>3, <1>4, OffscreenMailAdded
<1>6. Append(q, y) \in Seq(OffscreenMail)
      /\ CountIn({<<"op", 0>>}, Append(q, y)) = CountIn({<<"op", 0>>}, q) + (IF y \in {<<"op", 0>>} THEN 1 ELSE 0)
  BY <1>3, <1>5, AppendProperties, CountAppended
<1>7. toOffscreenQ \o <<x, y>> = Append(q, y)
  BY <1>3, <1>4, <1>5
<1>8. CountIn({<<"op", 0>>}, toOffscreenQ) \in Nat
  BY CountsAreNumbers
<1>9. toOffscreenQ' = toOffscreenQ \/ toOffscreenQ' = Append(q, y)
  BY <1>2, <1>7 DEF CloseRelay
<1>10. CountIn({<<"op", 0>>}, Append(q, y)) = CountIn({<<"op", 0>>}, toOffscreenQ)
  BY <1>3, <1>5, <1>6, <1>8
<1>11. CASE toOffscreenQ' = toOffscreenQ
  BY <1>1, <1>11
<1>12. CASE toOffscreenQ' = Append(q, y)
  BY <1>1, <1>6, <1>10, <1>12
<1> QED BY <1>9, <1>11, <1>12
\* Mail and operations settled, the invariant is kept.
LEMMA RelayTimerKept ==
  ASSUME RelayTimerInv,
         {relayPort', offTarget', inFlight', routed', hostOps', offPort'.last} \subseteq Nat,
         toWorkerQ' \in Seq(WorkerMail), toOffscreenQ' \in Seq(OffscreenMail),
         InFlightIsTrue', AttachHasAnOperation', UnusedRelayIsTimed'
  PROVE  RelayTimerInv'
BY DEF RelayTimerInv

LEMMA RelayStepInv == RelayTimerInv /\ [RelayNext]_relayVars => RelayTimerInv'
<1> SUFFICES ASSUME RelayTimerInv, [RelayNext]_relayVars PROVE RelayTimerInv'
  OBVIOUS
<1> DEFINE ops == CountIn({<<"op", 0>>}, toOffscreenQ)
           dones == CountIn({<<"done", 0>>}, toWorkerQ)
           ops1 == CountIn({<<"op", 0>>}, toOffscreenQ')
           dones1 == CountIn({<<"done", 0>>}, toWorkerQ')
<1>0. /\ ops \in Nat /\ dones \in Nat
      /\ relayPort \in Nat /\ offTarget \in Nat /\ inFlight \in Nat /\ routed \in Nat /\ hostOps \in Nat
      /\ offPort.last \in Nat
      /\ toWorkerQ \in Seq(WorkerMail) /\ toOffscreenQ \in Seq(OffscreenMail)
  BY InFlightFacts
<1>00. inFlight = routed + ops + hostOps + dones /\ AttachHasAnOperation /\ UnusedRelayIsTimed
  BY DEF RelayTimerInv, InFlightIsTrue
<1> HIDE DEF ops, dones, ops1, dones1
\* A step that touches neither the queue to the worker nor the host's operations.
<1>a. (UNCHANGED <<toWorkerQ, hostOps>>) => dones1 = dones /\ AttachHasAnOperation'
  BY <1>00 DEF dones, dones1, AttachHasAnOperation
<1>b. (UNCHANGED toOffscreenQ) => ops1 = ops
  BY DEF ops, ops1
<1>c. inFlight' = routed' + ops1 + hostOps' + dones1 => InFlightIsTrue'
  BY DEF ops1, dones1, InFlightIsTrue
\* The relay is closed, or there is none to close.
<1>d. ASSUME NEW d \in BOOLEAN, NEW b \in BOOLEAN, CloseRelay(d, b)
      PROVE  toOffscreenQ' \in Seq(OffscreenMail) /\ ops1 = ops /\ relayPort' = 0 /\ UnusedRelayIsTimed'
  BY <1>0, <1>d, CloseRelayMail DEF ops, ops1, UnusedRelayIsTimed
<1>1. CASE OperationBegins
  BY <1>1, <1>a, <1>b, <1>0, <1>00, <1>c, RelayTimerKept DEF OperationBegins, offscreenSide,
     UnusedRelayIsTimed
\* The last operation starts the timer.
<1>e. ASSUME OperationEnds, UNCHANGED relayPort, inFlight > 0
      PROVE  inFlight' = inFlight - 1 /\ inFlight' \in Nat /\ UnusedRelayIsTimed'
  <2>1. inFlight' = inFlight - 1 /\ inFlight' \in Nat
    BY <1>e, <1>0 DEF OperationEnds
  <2>2. inFlight' = 0 => inFlight = 1
    BY <2>1, <1>0
  <2>3. inFlight = 1 /\ relayPort # 0 => idleTimer'
    BY <1>e DEF OperationEnds
  <2> QED BY <2>1, <2>2, <2>3, <1>e DEF UnusedRelayIsTimed
<1>2. CASE OperationIsSent
  <2>1. /\ routed > 0 /\ routed' = routed - 1
        /\ UNCHANGED <<relayPort, offTarget, offPort, hostOps, toWorkerQ>>
    BY <1>2 DEF OperationIsSent, offscreenSide
  <2>2. dones1 = dones /\ AttachHasAnOperation' /\ routed' \in Nat /\ inFlight > 0
    BY <2>1, <1>a, <1>0, <1>00
  <2>3. CASE toOffscreenQ' = Append(toOffscreenQ, <<"op", 0>>) /\ UNCHANGED <<inFlight, idleTimer>>
    <3>1. PICK e \in OffscreenMail : e = <<"op", 0>>
      BY DEF OffscreenMail
    <3>2. toOffscreenQ' \in Seq(OffscreenMail) /\ ops1 = ops + 1
      BY <2>3, <3>1, <1>0, OffscreenMailAdded DEF ops, ops1
    <3>3. InFlightIsTrue'
      BY <2>1, <2>2, <2>3, <3>2, <1>0, <1>00, <1>c
    <3>4. UnusedRelayIsTimed'
      BY <2>1, <2>3, <1>00 DEF UnusedRelayIsTimed
    <3> QED BY <2>1, <2>2, <2>3, <3>2, <3>3, <3>4, <1>0, RelayTimerKept
  <2>4. CASE OperationEnds /\ UNCHANGED toOffscreenQ
    BY <2>1, <2>2, <2>4, <1>b, <1>e, <1>0, <1>00, <1>c, RelayTimerKept
  <2> QED BY <1>2, <2>3, <2>4 DEF OperationIsSent
\* What closes the relay and counts nothing.
<1>f. ASSUME NEW d \in BOOLEAN, NEW b \in BOOLEAN, CloseRelay(d, b),
             UNCHANGED <<inFlight, routed, offTarget, offPort, hostOps, toWorkerQ>>
      PROVE  RelayTimerInv'
  BY <1>f, <1>d, <1>a, <1>00, <1>c, <1>0, RelayTimerKept
<1>3. CASE IdleTimeout \/ AccessEnds
  BY <1>3, <1>f DEF IdleTimeout, AccessEnds, workerOps, offscreenSide
<1>4. CASE WorkerReceives
  <2> DEFINE m == Head(toWorkerQ)
  <2>1. /\ toWorkerQ # <<>> /\ toWorkerQ' = Tail(toWorkerQ)
        /\ UNCHANGED <<routed, offTarget, offPort, hostOps>>
    BY <1>4 DEF WorkerReceives, offscreenSide
  <2>2. /\ toWorkerQ' \in Seq(WorkerMail) /\ AttachHasAnOperation' /\ m \in WorkerMail
        /\ dones = dones1 + (IF m = <<"done", 0>> THEN 1 ELSE 0)
        /\ m[1] = "attach" => hostOps > 0 \/ dones > 0
    BY <2>1, <1>0, <1>00, WorkerMailTaken DEF dones, dones1
  <2>3. /\ m = <<"done", 0>> <=> m[1] = "done"
        /\ m[1] # "done" => m[2] \in Nat
    BY <2>2 DEF WorkerMail
  <2>4. dones1 \in Nat
    BY <2>2, CountsAreNumbers DEF dones1
  <2> HIDE DEF m
  <2>5. CASE m[1] = "attach" /\ PortAttaches(m[2]) /\ UNCHANGED inFlight
    <3>1. inFlight # 0
      BY <2>2, <2>5, <1>0, <1>00
    <3>2. relayPort' \in Nat
      BY <2>5, <2>3, <1>0 DEF PortAttaches
    <3>3. PICK e \in OffscreenMail : e = <<"gone", m[2]>> /\ e # <<"op", 0>>
      BY <2>3, <2>5, OffscreenMails
    <3>4. toOffscreenQ' = toOffscreenQ \/ toOffscreenQ' = Append(toOffscreenQ, e)
      BY <2>5, <3>3 DEF PortAttaches
    <3>5. toOffscreenQ' \in Seq(OffscreenMail) /\ ops1 = ops
      <4>1. CASE toOffscreenQ' = toOffscreenQ
        BY <4>1, <1>0, <1>b
      <4>2. CASE toOffscreenQ' = Append(toOffscreenQ, e)
        BY <4>2, <3>3, <1>0, OffscreenMailAdded DEF ops, ops1
      <4> QED BY <3>4, <4>1, <4>2
    <3>6. InFlightIsTrue'
      BY <2>1, <2>2, <2>3, <2>4, <2>5, <3>5, <1>0, <1>00, <1>c
    <3>7. UnusedRelayIsTimed'
      BY <2>5, <3>1 DEF UnusedRelayIsTimed
    <3> QED BY <2>1, <2>2, <2>5, <3>2, <3>5, <3>6, <3>7, <1>0, RelayTimerKept
  <2>6. CASE m[1] = "data" /\ PortCommands(m[2]) /\ UNCHANGED inFlight
    BY <2>6, <2>1, <2>2, <2>3, <2>4, <1>0, <1>00, <1>b, <1>c, RelayTimerKept DEF PortCommands,
       UnusedRelayIsTimed
  <2>7. CASE m[1] = "gone" /\ PortCloses(m[2]) /\ UNCHANGED inFlight
    <3>1. CASE CloseRelay(TRUE, FALSE)
      <4>1. toOffscreenQ' \in Seq(OffscreenMail) /\ ops1 = ops /\ relayPort' = 0 /\ UnusedRelayIsTimed'
        BY <3>1, <1>d
      <4>2. InFlightIsTrue'
        BY <2>1, <2>2, <2>3, <2>4, <2>7, <4>1, <1>0, <1>00, <1>c
      <4> QED BY <2>1, <2>2, <2>7, <4>1, <4>2, <1>0, RelayTimerKept
    <3>2. CASE UNCHANGED <<relayPort, attach, idleTimer, toChrome, toOffscreenQ>>
      BY <2>1, <2>2, <2>3, <2>4, <2>7, <3>2, <1>0, <1>00, <1>b, <1>c, RelayTimerKept DEF
         UnusedRelayIsTimed
    <3> QED BY <2>7, <3>1, <3>2 DEF PortCloses
  <2>8. CASE m[1] = "done" /\ OperationEnds /\ UNCHANGED <<relayPort, attach, toChrome, toOffscreenQ>>
    BY <2>2, <2>3, <2>8, <2>4, <1>0, <1>00, <1>b, <1>e, <2>1, <1>c, RelayTimerKept
  <2> QED BY <1>4, <2>5, <2>6, <2>7, <2>8 DEF WorkerReceives, m
<1>5. CASE OffscreenReceives
  <2> DEFINE m == Head(toOffscreenQ)
  <2>1. /\ toOffscreenQ # <<>> /\ toOffscreenQ' = Tail(toOffscreenQ)
        /\ UNCHANGED <<relayPort, idleTimer, inFlight, routed>>
    BY <1>5 DEF OffscreenReceives, workerOps
  <2>2. toOffscreenQ' \in Seq(OffscreenMail) /\ m \in OffscreenMail
    BY <2>1, <1>0, HeadTailProperties
  <2>3. ops = ops1 + (IF m \in {<<"op", 0>>} THEN 1 ELSE 0) /\ ops1 \in Nat
    BY <2>1, <2>2, <1>0, CountTail, CountsAreNumbers DEF ops, ops1
  <2>4. m = <<"op", 0>> <=> m[1] = "op"
    BY <2>2 DEF OffscreenMail
  <2> HIDE DEF m
  <2>5. UnusedRelayIsTimed'
    BY <2>1, <1>00 DEF UnusedRelayIsTimed
  <2>6. CASE m[1] = "op" /\ OperationArrives
    <3>1. hostOps' = hostOps + 1 /\ hostOps' \in Nat /\ hostOps' > 0
      BY <2>6, <1>0 DEF OperationArrives
    <3>2. CASE UNCHANGED <<offTarget, offPort, toWorkerQ>>
      <4>1. dones1 = dones
        BY <3>2 DEF dones, dones1
      <4>2. AttachHasAnOperation'
        BY <3>1, <3>2 DEF AttachHasAnOperation
      <4>3. InFlightIsTrue'
        BY <2>1, <2>3, <2>4, <2>6, <3>1, <4>1, <1>0, <1>00, <1>c
      <4> QED BY <2>1, <2>2, <2>5, <3>1, <3>2, <4>2, <4>3, <1>0, RelayTimerKept
    <3>3. CASE ~UNCHANGED <<offTarget, offPort, toWorkerQ>>
      <4>1. PICK n \in Nat : n = offPort.last + 1
        BY <1>0
      <4>2. /\ offTarget' = n /\ offPort' = [last |-> n, open |-> TRUE]
            /\ toWorkerQ' = Append(toWorkerQ, <<"attach", n>>)
        BY <2>6, <3>3, <4>1 DEF OperationArrives
      <4>3. offTarget' \in Nat /\ offPort'.last \in Nat
        BY <4>1, <4>2
      <4>4. PICK e \in WorkerMail : e = <<"attach", n>> /\ e # <<"done", 0>> /\ e[1] = "attach"
        BY <4>1, WorkerMails
      <4>5. toWorkerQ' \in Seq(WorkerMail) /\ AttachHasAnOperation' /\ dones1 = dones + 0
        <5>1. hostOps' \in Nat /\ hostOps' > 0 /\ hostOps' >= hostOps
          BY <3>1, <1>0
        <5>2. toWorkerQ' = Append(toWorkerQ, e)
          BY <4>2, <4>4
        <5> QED BY <4>4, <5>1, <5>2, <1>0, <1>00, WorkerMailAdded DEF dones, dones1
      <4>6. InFlightIsTrue'
        BY <2>1, <2>3, <2>4, <2>6, <3>1, <4>5, <1>0, <1>00, <1>c
      <4> QED BY <2>1, <2>2, <2>5, <3>1, <4>3, <4>5, <4>6, <1>0, RelayTimerKept
    <3> QED BY <3>2, <3>3
  <2>7. CASE m[1] \in {"close", "gone"} /\ PortIsOver(m[2])
    BY <2>7, <1>0, <2>1, <2>3, <2>4, <1>00, <1>a, <1>c, <2>2, <2>5, RelayTimerKept DEF PortIsOver
  <2> QED BY <1>5, <2>6, <2>7 DEF OffscreenReceives, m
<1>6. CASE HostStep
  <2>1. UNCHANGED <<relayPort, idleTimer, inFlight, routed, toOffscreenQ>>
    BY <1>6 DEF HostStep, workerOps
  <2>2. UnusedRelayIsTimed' /\ ops1 = ops
    BY <2>1, <1>00, <1>b DEF UnusedRelayIsTimed
  <2>3. CASE HostCommands
    <3>1. UNCHANGED <<offTarget, offPort, hostOps>> /\ toWorkerQ' = Append(toWorkerQ, <<"data", offTarget>>)
      BY <2>3 DEF HostCommands, offscreenSide
    <3>2. PICK e \in WorkerMail : e = <<"data", offTarget>> /\ e # <<"done", 0>> /\ e[1] = "data"
      BY <1>0, WorkerMails
    <3>3. toWorkerQ' \in Seq(WorkerMail) /\ AttachHasAnOperation' /\ dones1 = dones + 0
      <4>1. hostOps' \in Nat /\ hostOps' >= hostOps
        BY <3>1, <1>0
      <4>2. toWorkerQ' = Append(toWorkerQ, e)
        BY <3>1, <3>2
      <4> QED BY <3>2, <4>1, <4>2, <1>0, <1>00, WorkerMailAdded DEF dones, dones1
    <3>4. InFlightIsTrue'
      BY <2>1, <2>2, <3>1, <3>3, <1>0, <1>00, <1>c
    <3> QED BY <2>1, <2>2, <3>1, <3>3, <3>4, <1>0, RelayTimerKept
  <2>4. CASE HostCuts
    <3>1. /\ offTarget' = 0 /\ offPort' = [offPort EXCEPT !.open = FALSE] /\ UNCHANGED hostOps
          /\ toWorkerQ' = Append(toWorkerQ, <<"gone", offTarget>>)
      BY <2>4 DEF HostCuts
    <3>2. PICK e \in WorkerMail : e = <<"gone", offTarget>> /\ e # <<"done", 0>> /\ e[1] = "gone"
      BY <1>0, WorkerMails
    <3>3. toWorkerQ' \in Seq(WorkerMail) /\ AttachHasAnOperation' /\ dones1 = dones + 0
      <4>1. hostOps' \in Nat /\ hostOps' >= hostOps
        BY <3>1, <1>0
      <4>2. toWorkerQ' = Append(toWorkerQ, e)
        BY <3>1, <3>2
      <4> QED BY <3>2, <4>1, <4>2, <1>0, <1>00, WorkerMailAdded DEF dones, dones1
    <3>4. InFlightIsTrue'
      BY <2>1, <2>2, <3>1, <3>3, <1>0, <1>00, <1>c
    <3>5. offPort'.last \in Nat
      BY <3>1, <1>0
    <3> QED BY <2>1, <2>2, <3>1, <3>3, <3>4, <3>5, <1>0, RelayTimerKept
  <2>5. CASE HostIsDone
    <3>1. /\ hostOps > 0 /\ hostOps' = hostOps - 1 /\ UNCHANGED <<offTarget, offPort>>
          /\ toWorkerQ' = Append(toWorkerQ, <<"done", 0>>)
      BY <2>5 DEF HostIsDone
    <3>2. PICK e \in WorkerMail : e = <<"done", 0>> /\ e[1] = "done"
      BY DoneMail
    <3>3. hostOps' \in Nat
      BY <3>1, <1>0
    <3>4. toWorkerQ' \in Seq(WorkerMail) /\ AttachHasAnOperation' /\ dones1 = dones + 1
      BY <3>1, <3>2, <3>3, <1>0, <1>00, WorkerMailAdded DEF dones, dones1
    <3>5. InFlightIsTrue'
      BY <2>1, <2>2, <3>1, <3>4, <1>0, <1>00, <1>c
    <3> QED BY <2>1, <2>2, <3>1, <3>3, <3>4, <3>5, <1>0, RelayTimerKept
  <2> QED BY <1>6, <2>3, <2>4, <2>5 DEF HostStep
\* What changes nothing that counts.
<1>7. ASSUME UNCHANGED <<relayPort, idleTimer, inFlight, routed, offTarget, offPort, hostOps, toWorkerQ, toOffscreenQ>>
      PROVE  RelayTimerInv'
  BY <1>7, <1>00, <1>a, <1>b, <1>c, <1>0, RelayTimerKept DEF UnusedRelayIsTimed
<1>8. CASE ChromeTakes \/ PersonCancels
  BY <1>8, <1>7 DEF ChromeTakes, PersonCancels, workerOps, offscreenSide
<1>9. CASE DetachIsHeard
  BY <1>9, <1>f, <1>7 DEF DetachIsHeard, workerOps, offscreenSide
<1>10. CASE UNCHANGED relayVars
  BY <1>10, <1>7 DEF relayVars
<1> QED BY <1>1, <1>2, <1>3, <1>4, <1>5, <1>6, <1>8, <1>9, <1>10 DEF RelayNext

\* For any number of operations and cuts: a relay of the debugger that no
\* operation uses has a timer that ends it (background.ts, debuggerIdle).
THEOREM RelaysAreTimed == RelaySpec => []UnusedRelayIsTimed
<1>1. RelayTimerInv => UnusedRelayIsTimed
  BY DEF RelayTimerInv
<1> QED BY <1>1, RelayInitInv, RelayStepInv, PTL DEF RelaySpec

\* What the offscreen document is sent, of ports that were opened.
PortMail == ({"close", "gone"} \X Ports) \cup {<<"op", 0>>}

RelayPortsTyped ==
  /\ relayPort \in 0 .. MaxOperations /\ offTarget \in 0 .. MaxOperations
  /\ offPort \in [last : 0 .. MaxOperations, open : BOOLEAN]
  /\ toWorkerQ \in Seq(RelayMessages) /\ toOffscreenQ \in Seq(PortMail)

\* Chrome's side; and only a relay that is there has a timer.
ChromeTyped ==
  /\ attach \in {"none", "asked", "done", "failed"} /\ idleTimer \in BOOLEAN /\ attached \in BOOLEAN
  /\ toChrome \in Seq({"attach", "detach"}) /\ fromChrome \in Seq({"detached"})
  /\ opCount \in 0 .. MaxOperations /\ cuts \in 0 .. MaxCuts
  /\ idleTimer => relayPort # 0

\* Every port was opened by an operation that arrived, so the ports, with the operations
\* that did not arrive yet, are no more than the operations.
PortsAreOperations ==
  /\ inFlight <= opCount
  /\ offPort.last + routed + CountIn({<<"op", 0>>}, toOffscreenQ) <= opCount

\* The types of the debugger's relays, with what they rest on.
RelayTypesInv == RelayTimerInv /\ RelayPortsTyped /\ ChromeTyped /\ PortsAreOperations

LEMMA RelayBounds == MaxOperations \in Nat /\ MaxCuts \in Nat
BY DebuggerAssumption

LEMMA PortMails ==
  ASSUME NEW k \in {"close", "gone"}, NEW n \in Ports
  PROVE  \E e \in PortMail : e = <<k, n>>
<1>1. <<k, n>> \in PortMail
  BY DEF PortMail
<1>2. PICK e : e = <<k, n>>
  BY Zenon
<1> QED BY <1>1, <1>2

LEMMA RelayMails ==
  ASSUME NEW k \in {"attach", "data", "gone"}, NEW n \in Ports
  PROVE  \E e \in RelayMessages : e = <<k, n>>
<1>1. <<k, n>> \in RelayMessages
  BY DEF RelayMessages
<1>2. PICK e : e = <<k, n>>
  BY Zenon
<1> QED BY <1>1, <1>2

\* A relay that is closed tells its own port.
LEMMA CloseRelayTyped ==
  ASSUME RelayPortsTyped, NEW d \in BOOLEAN, NEW b \in BOOLEAN, CloseRelay(d, b), b => relayPort # 0
  PROVE  /\ toOffscreenQ' \in Seq(PortMail) /\ relayPort' \in 0 .. MaxOperations
         /\ relayPort' = 0 /\ ~idleTimer'
<1>0. toOffscreenQ \in Seq(PortMail) /\ relayPort \in 0 .. MaxOperations /\ MaxOperations \in Nat
  BY RelayBounds DEF RelayPortsTyped
<1>1. relayPort' = 0 /\ ~idleTimer' /\ relayPort' \in 0 .. MaxOperations
  BY <1>0 DEF CloseRelay
<1>2. CASE b
  <2>1. relayPort \in Ports
    BY <1>0, <1>2 DEF Ports
  <2>2. PICK x \in PortMail : x = <<"close", relayPort>>
    BY <2>1, PortMails
  <2>3. PICK y \in PortMail : y = <<"gone", relayPort>>
    BY <2>1, PortMails
  <2>4. toOffscreenQ' = toOffscreenQ \o <<x, y>>
    BY <1>2, <2>2, <2>3 DEF CloseRelay
  <2>5. <<x, y>> \in Seq(PortMail)
    OBVIOUS
  <2>6. toOffscreenQ' \in Seq(PortMail)
    BY <1>0, <2>4, <2>5, ConcatProperties
  <2> QED BY <1>1, <2>6
<1>3. CASE ~b
  BY <1>0, <1>1, <1>3 DEF CloseRelay
<1> QED BY <1>2, <1>3

\* An operation on its way leaves a port that was not opened yet.
LEMMA PortsLeft ==
  ASSUME RelayTypesInv, toOffscreenQ # <<>>, Head(toOffscreenQ) = <<"op", 0>>
  PROVE  offPort.last + 1 \in Ports
<1>1. CountIn({<<"op", 0>>}, toOffscreenQ) = CountIn({<<"op", 0>>}, Tail(toOffscreenQ)) + 1
  BY CountTail DEF RelayTypesInv, RelayTimerInv
<1>2. CountIn({<<"op", 0>>}, Tail(toOffscreenQ)) \in Nat
  BY HeadTailProperties, CountsAreNumbers DEF RelayTypesInv, RelayTimerInv
<1>3. offPort.last \in Nat /\ routed \in Nat /\ opCount \in 0 .. MaxOperations
  BY InFlightFacts DEF RelayTypesInv, ChromeTyped
<1>4. offPort.last + routed + CountIn({<<"op", 0>>}, toOffscreenQ) <= opCount
  BY DEF RelayTypesInv, PortsAreOperations
<1> QED BY <1>1, <1>2, <1>3, <1>4, RelayBounds DEF Ports

\* One message more keeps a queue typed.
LEMMA AppendedTyped ==
  ASSUME NEW S, NEW q \in Seq(S), NEW e \in S, NEW q2, q2 = q \/ q2 = Append(q, e)
  PROVE  q2 \in Seq(S)
BY AppendProperties

LEMMA RelayPortsKept == RelayTypesInv /\ [RelayNext]_relayVars => RelayPortsTyped'
<1> SUFFICES ASSUME RelayTypesInv, [RelayNext]_relayVars PROVE RelayPortsTyped'
  OBVIOUS
<1>0. RelayPortsTyped /\ ChromeTyped
  BY DEF RelayTypesInv
<1>00. /\ relayPort \in 0 .. MaxOperations /\ offTarget \in 0 .. MaxOperations
       /\ offPort \in [last : 0 .. MaxOperations, open : BOOLEAN]
       /\ toWorkerQ \in Seq(RelayMessages) /\ toOffscreenQ \in Seq(PortMail)
       /\ MaxOperations \in Nat /\ 0 \in 0 .. MaxOperations
  BY <1>0, RelayBounds DEF RelayPortsTyped
<1>1. CASE OperationBegins
  BY <1>1, <1>00 DEF OperationBegins, offscreenSide, RelayPortsTyped
<1>2. CASE OperationIsSent
  <2>1. UNCHANGED <<relayPort, offTarget, offPort, toWorkerQ>>
    BY <1>2 DEF OperationIsSent, offscreenSide
  <2>2. PICK e \in PortMail : e = <<"op", 0>>
    BY DEF PortMail
  <2>3. toOffscreenQ' = toOffscreenQ \/ toOffscreenQ' = Append(toOffscreenQ, e)
    BY <1>2, <2>2 DEF OperationIsSent
  <2>4. toOffscreenQ' \in Seq(PortMail)
    BY <1>00, <2>3, AppendedTyped
  <2> QED BY <1>00, <2>1, <2>4 DEF RelayPortsTyped
\* The relay is closed and nothing else sent.
<1>a. ASSUME NEW d \in BOOLEAN, NEW b \in BOOLEAN, CloseRelay(d, b), b => relayPort # 0,
             UNCHANGED <<offTarget, offPort>>, toWorkerQ' \in Seq(RelayMessages)
      PROVE  RelayPortsTyped'
  BY <1>0, <1>a, CloseRelayTyped, <1>00 DEF RelayPortsTyped
<1>3. CASE IdleTimeout \/ AccessEnds
  BY <1>0, <1>3, <1>00, <1>a DEF IdleTimeout, AccessEnds, offscreenSide, ChromeTyped
<1>4. CASE WorkerReceives
  <2> DEFINE m == Head(toWorkerQ)
  <2>1. toWorkerQ # <<>> /\ toWorkerQ' = Tail(toWorkerQ) /\ UNCHANGED <<offTarget, offPort>>
    BY <1>4 DEF WorkerReceives, offscreenSide
  <2>2. toWorkerQ' \in Seq(RelayMessages) /\ m \in RelayMessages
    BY <1>00, <2>1, HeadTailProperties
  <2>3. m[1] # "done" => m[2] \in Ports
    BY <2>2 DEF RelayMessages
  <2> HIDE DEF m
  <2>4. CASE m[1] = "attach" /\ PortAttaches(m[2])
    <3>1. m[2] \in Ports /\ m[2] \in 0 .. MaxOperations
      BY <1>00, <2>3, <2>4 DEF Ports
    <3>2. PICK e \in PortMail : e = <<"gone", m[2]>>
      BY <3>1, PortMails
    <3>3. toOffscreenQ' = toOffscreenQ \/ toOffscreenQ' = Append(toOffscreenQ, e)
      BY <2>4, <3>2 DEF PortAttaches
    <3>4. toOffscreenQ' \in Seq(PortMail)
      BY <1>00, <3>3, AppendedTyped
    <3>5. relayPort' \in 0 .. MaxOperations
      BY <1>00, <2>4, <3>1 DEF PortAttaches
    <3> QED BY <1>00, <2>1, <2>2, <3>4, <3>5 DEF RelayPortsTyped
  <2>5. CASE UNCHANGED <<relayPort, toOffscreenQ>>
    BY <1>00, <2>1, <2>2, <2>5 DEF RelayPortsTyped
  <2>6. CASE CloseRelay(TRUE, FALSE)
    BY <1>a, <2>1, <2>2, <2>6
  <2> QED BY <1>4, <2>4, <2>5, <2>6 DEF WorkerReceives, PortCommands, PortCloses, m
<1>5. CASE OffscreenReceives
  <2> DEFINE m == Head(toOffscreenQ)
  <2>1. toOffscreenQ # <<>> /\ toOffscreenQ' = Tail(toOffscreenQ) /\ UNCHANGED relayPort
    BY <1>5 DEF OffscreenReceives
  <2>2. toOffscreenQ' \in Seq(PortMail) /\ m \in PortMail
    BY <1>00, <2>1, HeadTailProperties
  <2>3. m[1] = "op" => m = <<"op", 0>>
    BY <2>2 DEF PortMail
  <2>4. CASE m[1] = "op" /\ OperationArrives
    <3>1. CASE UNCHANGED <<offTarget, offPort, toWorkerQ>>
      BY <1>00, <2>1, <2>2, <3>1 DEF RelayPortsTyped
    <3>2. CASE ~UNCHANGED <<offTarget, offPort, toWorkerQ>>
      <4>1. offPort.last + 1 \in Ports
        BY <2>1, <2>3, <2>4, PortsLeft DEF RelayTypesInv
      <4>2. PICK n \in Ports : n = offPort.last + 1
        BY <4>1
      <4>3. /\ offTarget' = n /\ offPort' = [last |-> n, open |-> TRUE]
            /\ toWorkerQ' = Append(toWorkerQ, <<"attach", n>>)
        BY <2>4, <3>2, <4>2 DEF OperationArrives
      <4>4. PICK e \in RelayMessages : e = <<"attach", n>>
        BY RelayMails
      <4>5. toWorkerQ' \in Seq(RelayMessages)
        BY <1>00, <4>3, <4>4, AppendProperties
      <4>6. n \in 0 .. MaxOperations
        BY <1>00 DEF Ports
      <4> QED BY <1>00, <2>1, <2>2, <4>3, <4>5, <4>6 DEF RelayPortsTyped
    <3> QED BY <3>1, <3>2
  <2>5. CASE PortIsOver(m[2])
    BY <1>00, <2>1, <2>2, <2>5 DEF PortIsOver, RelayPortsTyped
  <2> QED BY <1>5, <2>4, <2>5 DEF OffscreenReceives
<1>6. CASE HostStep
  <2>1. UNCHANGED <<relayPort, toOffscreenQ>>
    BY <1>6 DEF HostStep
  <2>2. offTarget # 0 => offTarget \in Ports
    BY <1>00 DEF Ports
  <2>3. CASE HostCommands
    <3>1. PICK e \in RelayMessages : e = <<"data", offTarget>>
      BY <2>2, <2>3, RelayMails DEF HostCommands
    <3>2. toWorkerQ' \in Seq(RelayMessages)
      BY <1>00, <2>3, <3>1, AppendProperties DEF HostCommands
    <3> QED BY <1>00, <2>1, <2>3, <3>2 DEF HostCommands, offscreenSide, RelayPortsTyped
  <2>4. CASE HostCuts
    <3>1. PICK e \in RelayMessages : e = <<"gone", offTarget>>
      BY <2>2, <2>4, RelayMails DEF HostCuts
    <3>2. toWorkerQ' \in Seq(RelayMessages)
      BY <1>00, <2>4, <3>1, AppendProperties DEF HostCuts
    <3>3. offTarget' \in 0 .. MaxOperations /\ offPort' \in [last : 0 .. MaxOperations, open : BOOLEAN]
      BY <1>00, <2>4 DEF HostCuts
    <3> QED BY <1>00, <2>1, <3>2, <3>3 DEF RelayPortsTyped
  <2>5. CASE HostIsDone
    <3>1. PICK e \in RelayMessages : e = <<"done", 0>>
      BY DEF RelayMessages
    <3>2. toWorkerQ' \in Seq(RelayMessages)
      BY <1>00, <2>5, <3>1, AppendProperties DEF HostIsDone
    <3> QED BY <1>00, <2>1, <2>5, <3>2 DEF HostIsDone, RelayPortsTyped
  <2> QED BY <1>6, <2>3, <2>4, <2>5 DEF HostStep
<1>7. CASE ChromeTakes \/ PersonCancels
  BY <1>7, <1>00 DEF ChromeTakes, PersonCancels, offscreenSide, RelayPortsTyped
<1>8. CASE DetachIsHeard
  BY <1>8, <1>00, <1>a DEF DetachIsHeard, offscreenSide, RelayPortsTyped
<1>9. CASE UNCHANGED relayVars
  BY <1>9, <1>00 DEF relayVars, RelayPortsTyped
<1> QED BY <1>1, <1>2, <1>3, <1>4, <1>5, <1>6, <1>7, <1>8, <1>9 DEF RelayNext

LEMMA ChromeKept == RelayTypesInv /\ [RelayNext]_relayVars => ChromeTyped'
<1> SUFFICES ASSUME RelayTypesInv, [RelayNext]_relayVars PROVE ChromeTyped'
  OBVIOUS
<1>0. /\ attach \in {"none", "asked", "done", "failed"} /\ idleTimer \in BOOLEAN /\ attached \in BOOLEAN
      /\ toChrome \in Seq({"attach", "detach"}) /\ fromChrome \in Seq({"detached"})
      /\ opCount \in 0 .. MaxOperations /\ cuts \in 0 .. MaxCuts
      /\ (idleTimer => relayPort # 0)
      /\ MaxOperations \in Nat /\ MaxCuts \in Nat
  BY RelayBounds DEF RelayTypesInv, ChromeTyped
<1>1. CASE OperationBegins
  <2>1. opCount' \in 0 .. MaxOperations
    BY <1>0, <1>1 DEF OperationBegins
  <2> QED BY <1>0, <1>1, <2>1 DEF OperationBegins, ChromeTyped
<1>2. CASE OperationIsSent
  <2>1. UNCHANGED <<relayPort, attach, toChrome, fromChrome, attached, opCount, cuts>>
    BY <1>2 DEF OperationIsSent
  <2>2. CASE OperationEnds
    BY <2>2, <1>0, <2>1 DEF OperationEnds, ChromeTyped
  <2>3. CASE UNCHANGED idleTimer
    BY <1>0, <2>1, <2>3 DEF ChromeTyped
  <2> QED BY <1>2, <2>2, <2>3 DEF OperationIsSent
\* The relay is closed.
<1>a. ASSUME NEW d \in BOOLEAN, NEW b \in BOOLEAN, CloseRelay(d, b)
      PROVE  /\ attach' = "none" /\ idleTimer' = FALSE /\ toChrome' \in Seq({"attach", "detach"})
  BY <1>a, <1>0, AppendProperties DEF CloseRelay
<1>3. CASE IdleTimeout
  BY <1>3, <1>a, <1>0 DEF IdleTimeout, workerOps, ChromeTyped
<1>4. CASE AccessEnds
  <2>1. attach' = "none" /\ idleTimer' = FALSE /\ toChrome' \in Seq({"attach", "detach"})
    BY <1>4, <1>a DEF AccessEnds
  <2>2. cuts' \in 0 .. MaxCuts
    BY <1>0, <1>4 DEF AccessEnds
  <2> QED BY <1>0, <1>4, <2>1, <2>2 DEF AccessEnds, workerOps, ChromeTyped
<1>5. CASE WorkerReceives
  <2> DEFINE m == Head(toWorkerQ)
  <2>1. UNCHANGED <<opCount, fromChrome, attached, cuts>>
    BY <1>5 DEF WorkerReceives
  <2>2. m[1] \in {"attach", "data", "gone"} => m[2] # 0
    BY <1>5, HeadTailProperties, <1>0 DEF WorkerReceives, RelayTypesInv, RelayPortsTyped, RelayMessages,
       Ports
  <2> HIDE DEF m
  <2>3. CASE m[1] = "attach" /\ PortAttaches(m[2])
    BY <2>2, <2>3, <1>0, <2>1 DEF PortAttaches, ChromeTyped
  <2>4. CASE PortCommands(m[2])
    <3>1. UNCHANGED <<relayPort, idleTimer>>
      BY <2>4 DEF PortCommands
    <3>2. \/ attach' = "asked" /\ toChrome' = Append(toChrome, "attach")
          \/ UNCHANGED <<attach, toChrome>>
      BY <2>4 DEF PortCommands
    <3>3. attach' \in {"none", "asked", "done", "failed"} /\ toChrome' \in Seq({"attach", "detach"})
      BY <1>0, <3>2, AppendProperties
    <3> QED BY <1>0, <2>1, <3>1, <3>3 DEF ChromeTyped
  <2>5. CASE PortCloses(m[2])
    <3>1. CASE CloseRelay(TRUE, FALSE)
      BY <3>1, <1>a, <1>0, <2>1 DEF ChromeTyped
    <3>2. CASE UNCHANGED <<relayPort, attach, idleTimer, toChrome, toOffscreenQ>>
      BY <1>0, <2>1, <3>2 DEF ChromeTyped
    <3> QED BY <2>5, <3>1, <3>2 DEF PortCloses
  <2>6. CASE OperationEnds /\ UNCHANGED <<relayPort, attach, toChrome, toOffscreenQ>>
    BY <2>6, <1>0, <2>1 DEF OperationEnds, ChromeTyped
  <2> QED BY <1>5, <2>3, <2>4, <2>5, <2>6 DEF WorkerReceives, m
<1>6. CASE OffscreenReceives
  BY <1>0, <1>6 DEF OffscreenReceives, workerOps, ChromeTyped
<1>7. CASE HostStep
  BY <1>7, <1>0 DEF HostStep, workerOps, HostCommands, HostCuts, HostIsDone, ChromeTyped
<1>8. CASE ChromeTakes
  BY <1>8, <1>0, HeadTailProperties DEF ChromeTakes, workerOps, ChromeTyped
<1>9. CASE PersonCancels
  <2>1. UNCHANGED <<relayPort, attach, idleTimer, opCount, toChrome>> /\ attached' = FALSE
        /\ fromChrome' = Append(fromChrome, "detached") /\ cuts' = cuts + 1 /\ cuts < MaxCuts
    BY <1>9 DEF PersonCancels, workerOps
  <2>2. fromChrome' \in Seq({"detached"}) /\ cuts' \in 0 .. MaxCuts
    BY <1>0, <2>1, AppendProperties
  <2> QED BY <1>0, <2>1, <2>2 DEF ChromeTyped
<1>10. CASE DetachIsHeard
  <2>1. UNCHANGED <<opCount, attached, cuts>> /\ fromChrome # <<>> /\ fromChrome' = Tail(fromChrome)
    BY <1>10 DEF DetachIsHeard, workerOps
  <2>2. fromChrome' \in Seq({"detached"})
    BY <1>0, <2>1, HeadTailProperties
  <2>3. CASE CloseRelay(FALSE, TRUE)
    BY <2>3, <1>a, <1>0, <2>1, <2>2 DEF ChromeTyped
  <2>4. CASE UNCHANGED <<relayPort, attach, idleTimer, toChrome, toOffscreenQ>>
    BY <1>0, <2>1, <2>2, <2>4 DEF ChromeTyped
  <2> QED BY <1>10, <2>3, <2>4 DEF DetachIsHeard
<1>11. CASE UNCHANGED relayVars
  BY <1>0, <1>11 DEF relayVars, ChromeTyped
<1> QED BY <1>1, <1>2, <1>3, <1>4, <1>5, <1>6, <1>7, <1>8, <1>9, <1>10, <1>11 DEF RelayNext

LEMMA OperationsKept == RelayTypesInv /\ [RelayNext]_relayVars => PortsAreOperations'
<1> SUFFICES ASSUME RelayTypesInv, [RelayNext]_relayVars PROVE PortsAreOperations'
  OBVIOUS
<1> DEFINE ops == CountIn({<<"op", 0>>}, toOffscreenQ)
           ops1 == CountIn({<<"op", 0>>}, toOffscreenQ')
<1>0. /\ ops \in Nat /\ inFlight \in Nat /\ routed \in Nat /\ offPort.last \in Nat /\ opCount \in Nat
      /\ relayPort \in Nat /\ toOffscreenQ \in Seq(OffscreenMail)
      /\ inFlight <= opCount /\ offPort.last + routed + ops <= opCount
  BY InFlightFacts, RelayBounds DEF RelayTypesInv, PortsAreOperations, ChromeTyped
<1>01. toWorkerQ \in Seq(RelayMessages) /\ RelayPortsTyped
  BY DEF RelayTypesInv, RelayPortsTyped
<1>a. inFlight' <= opCount' /\ offPort'.last + routed' + ops1 <= opCount' => PortsAreOperations'
  BY DEF PortsAreOperations
<1>b. (UNCHANGED toOffscreenQ) => ops1 = ops
  OBVIOUS
<1>c. ASSUME NEW d \in BOOLEAN, NEW b \in BOOLEAN, CloseRelay(d, b) PROVE ops1 = ops
  BY <1>0, <1>c, CloseRelayMail
<1> HIDE DEF ops, ops1
\* A step that brings no operation and no port.
<1>d. ASSUME UNCHANGED <<routed, opCount, offPort>>, ops1 = ops, inFlight' = inFlight \/ inFlight' = inFlight - 1
      PROVE  PortsAreOperations'
  BY <1>0, <1>a, <1>d
<1>1. CASE OperationBegins
  BY <1>1, <1>0, <1>a, <1>b DEF OperationBegins, offscreenSide
<1>2. CASE OperationIsSent
  <2>1. routed' = routed - 1 /\ routed > 0 /\ UNCHANGED <<offPort, opCount>>
    BY <1>2 DEF OperationIsSent, offscreenSide
  <2>2. CASE toOffscreenQ' = Append(toOffscreenQ, <<"op", 0>>) /\ UNCHANGED inFlight
    <3>1. PICK e \in OffscreenMail : e = <<"op", 0>>
      BY DEF OffscreenMail
    <3>2. ops1 = ops + 1
      BY <1>0, <2>2, <3>1, OffscreenMailAdded DEF ops, ops1
    <3> QED BY <1>0, <1>a, <2>1, <2>2, <3>2
  <2>3. CASE inFlight' = inFlight - 1 /\ UNCHANGED toOffscreenQ
    BY <1>0, <1>a, <1>b, <2>1, <2>3
  <2> QED BY <1>2, <2>2, <2>3 DEF OperationIsSent, OperationEnds
<1>3. CASE IdleTimeout \/ AccessEnds
  BY <1>3, <1>c, <1>d DEF IdleTimeout, AccessEnds, workerOps, offscreenSide
<1>4. CASE WorkerReceives
  <2> DEFINE m == Head(toWorkerQ)
  <2>1. UNCHANGED <<routed, opCount, offPort>> /\ toWorkerQ # <<>>
    BY <1>4 DEF WorkerReceives, offscreenSide
  <2>2. m \in RelayMessages
    BY <1>01, <2>1, HeadTailProperties
  <2>3. inFlight' = inFlight \/ inFlight' = inFlight - 1
    BY <1>4 DEF WorkerReceives, OperationEnds
  <2>4. ops1 = ops
    <3>1. CASE m[1] = "attach" /\ PortAttaches(m[2])
      <4>1. m[2] \in Nat
        BY <2>2, <3>1 DEF RelayMessages, Ports
      <4>2. PICK e \in OffscreenMail : e = <<"gone", m[2]>> /\ e # <<"op", 0>>
        BY <4>1, OffscreenMails
      <4>3. toOffscreenQ' = toOffscreenQ \/ toOffscreenQ' = Append(toOffscreenQ, e)
        BY <3>1, <4>2 DEF PortAttaches
      <4>4. CASE toOffscreenQ' = Append(toOffscreenQ, e)
        BY <1>0, <4>2, <4>4, OffscreenMailAdded DEF ops, ops1
      <4> QED BY <1>b, <4>3, <4>4
    <3>2. CASE UNCHANGED toOffscreenQ
      BY <1>b, <3>2
    <3>3. CASE CloseRelay(TRUE, FALSE)
      BY <1>c, <3>3
    <3> QED BY <1>4, <3>1, <3>2, <3>3 DEF WorkerReceives, PortCommands, PortCloses
  <2> QED BY <1>d, <2>1, <2>3, <2>4
<1>5. CASE OffscreenReceives
  <2> DEFINE m == Head(toOffscreenQ)
  <2>1. toOffscreenQ # <<>> /\ toOffscreenQ' = Tail(toOffscreenQ) /\ UNCHANGED <<inFlight, routed, opCount>>
    BY <1>5 DEF OffscreenReceives, workerOps
  <2>2. toOffscreenQ' \in Seq(OffscreenMail) /\ m \in OffscreenMail
    BY <2>1, <1>0, HeadTailProperties
  <2>3. ops = ops1 + (IF m \in {<<"op", 0>>} THEN 1 ELSE 0) /\ ops1 \in Nat
    BY <2>1, <2>2, <1>0, CountTail, CountsAreNumbers DEF ops, ops1
  <2>4. m[1] = "op" => m = <<"op", 0>>
    BY <2>2 DEF OffscreenMail
  <2> HIDE DEF m
  <2>5. CASE m[1] = "op" /\ OperationArrives
    <3>1. offPort'.last = offPort.last \/ offPort'.last = offPort.last + 1
      BY <2>5 DEF OperationArrives
    <3>2. ops = ops1 + 1
      BY <2>3, <2>4, <2>5
    <3> QED BY <1>0, <1>a, <2>1, <2>3, <3>1, <3>2, SMTT(30)
  <2>6. CASE PortIsOver(m[2])
    BY <1>0, <2>3, <2>6, <1>a, <2>1 DEF PortIsOver
  <2> QED BY <1>5, <2>5, <2>6 DEF OffscreenReceives, m
<1>6. CASE HostStep
  <2>1. UNCHANGED <<inFlight, routed, opCount, toOffscreenQ>>
    BY <1>6 DEF HostStep, workerOps
  <2>2. offPort'.last = offPort.last
    BY <1>6, <1>01 DEF HostStep, HostCommands, HostCuts, HostIsDone, offscreenSide, RelayPortsTyped
  <2> QED BY <1>0, <1>a, <1>b, <2>1, <2>2
<1>7. CASE ChromeTakes \/ PersonCancels
  BY <1>7, <1>b, <1>d DEF ChromeTakes, PersonCancels, workerOps, offscreenSide
<1>8. CASE DetachIsHeard
  BY <1>8, <1>b, <1>c, <1>d DEF DetachIsHeard, workerOps, offscreenSide
<1>9. CASE UNCHANGED relayVars
  BY <1>9, <1>b, <1>d DEF relayVars
<1> QED BY <1>1, <1>2, <1>3, <1>4, <1>5, <1>6, <1>7, <1>8, <1>9 DEF RelayNext

LEMMA RelayTypesInit == RelayInit => RelayTypesInv
<1> SUFFICES ASSUME RelayInit PROVE RelayPortsTyped /\ ChromeTyped /\ PortsAreOperations
  BY RelayInitInv DEF RelayTypesInv
<1>1. 0 \in 0 .. MaxOperations /\ 0 \in 0 .. MaxCuts
  BY RelayBounds
<1>2. RelayPortsTyped
  BY <1>1 DEF RelayInit, RelayPortsTyped
<1>5. ChromeTyped
  <2>1. idleTimer \in BOOLEAN /\ (idleTimer => relayPort # 0) /\ attached \in BOOLEAN
    BY DEF RelayInit
  <2> QED BY <1>1, <2>1 DEF RelayInit, ChromeTyped
<1>3. inFlight = 0 /\ routed = 0 /\ opCount = 0 /\ offPort.last = 0
  BY DEF RelayInit
<1>4. CountIn({<<"op", 0>>}, toOffscreenQ) = 0
  BY FS_EmptySet DEF RelayInit, CountIn
<1> QED BY <1>2, <1>3, <1>4, <1>5 DEF PortsAreOperations

LEMMA RelayTypesStep == RelayTypesInv /\ [RelayNext]_relayVars => RelayTypesInv'
BY RelayStepInv, RelayPortsKept, ChromeKept, OperationsKept DEF RelayTypesInv

LEMMA RelayTypesHold == RelayTypesInv => RelayTypeOK
<1> SUFFICES ASSUME RelayTypesInv PROVE RelayTypeOK
  OBVIOUS
<1>1. RelayPortsTyped /\ ChromeTyped /\ PortsAreOperations /\ InFlightIsTrue
  BY DEF RelayTypesInv, RelayTimerInv
<1>2. /\ CountIn({<<"op", 0>>}, toOffscreenQ) \in Nat /\ CountIn({<<"done", 0>>}, toWorkerQ) \in Nat
      /\ inFlight \in Nat /\ routed \in Nat /\ hostOps \in Nat
  BY InFlightFacts DEF RelayTypesInv
<1>3. inFlight \in 0 .. MaxOperations /\ routed \in 0 .. inFlight /\ hostOps \in 0 .. MaxOperations
  BY <1>1, <1>2, RelayBounds DEF InFlightIsTrue, PortsAreOperations, ChromeTyped
<1>4. toOffscreenQ \in Seq(({"close", "gone"} \X Ports) \cup {<<"op", 0>>})
  BY <1>1 DEF RelayPortsTyped, PortMail
<1> QED BY <1>1, <1>3, <1>4 DEF RelayPortsTyped, ChromeTyped, RelayTypeOK

(***************************************************************************)
(* Remote access                                                           *)
(***************************************************************************)

\* What a report may say: its counts are those of some sessions and sockets.
Counts ==
  {DeviceSnapshot(st, open) : st \in [PhoneSessions -> {"free", "live", "ended"}], open \in SUBSET PhoneSessions}
Reports == [status : Statuses, devices : Counts, code : Codes \cup {NoCode}]
HostAsks    == {"start", "on", "off", "pairing", "revoke"}
Panels  == [status : Statuses, devices : Counts, code : Codes \cup {NoCode}, open : BOOLEAN, timed : BOOLEAN]
Kept    == [status : Statuses, devices : Counts, code : Codes \cup {NoCode}, seen : BOOLEAN]

\* What the extension knows once every report has arrived.
ToldStatus  == IF reports = <<>> THEN last.status ELSE reports[Len(reports)].status
ToldDevices == IF reports = <<>> THEN last.devices ELSE reports[Len(reports)].devices

\* Something on its way ends in a report: a report, a command that is answered by one, or
\* the end of remote access, which the companion awaits.
ReportIsComing ==
  \/ reports # <<>>
  \/ \E i \in 1 .. Len(commands) : commands[i] # "start"
  \/ awaited = "off"

RemoteTyped ==
  /\ companion \in BOOLEAN /\ tunnel \in Statuses /\ suppress \in BOOLEAN /\ awaited \in {"none", "on", "off"}
  /\ phoneSession \in [PhoneSessions -> {"free", "live", "ended"}] /\ phones \in SUBSET PhoneSessions
  /\ reports \in Seq(Reports) /\ commands \in Seq(HostAsks)
  /\ last \in Kept /\ panel \in Panels

\* The companion counts the sessions its server has, and none once it is gone.
CountsAreTheServers ==
  /\ devices = DeviceSnapshot(phoneSession, phones)
  /\ ~companion => tunnel = "off" /\ devices = NoDevices /\ ~suppress

\* The last report tells the tunnel's state, and the devices unless the companion keeps quiet
\* about them, which it does only while it ends remote access.
ReportsAreTrue ==
  /\ companion => ToldStatus = tunnel
  /\ companion /\ ~suppress => ToldDevices = devices
  /\ suppress => awaited = "off"

\* The panel shows the devices of the last report; its status is the last one's, and it is
\* timed, unless a report is to come.
PanelFollows ==
  /\ panel.devices = last.devices
  /\ ~last.seen => last = NothingSeen
  /\ companion =>
       \/ ReportIsComing
       \/ /\ panel.status = last.status
          /\ panel.open /\ panel.status = "connected" => panel.timed

\* The inductive invariant.
RemoteInv == RemoteTyped /\ CountsAreTheServers /\ ReportsAreTrue /\ PanelFollows

LEMMA NobodyIsCounted ==
  ASSUME NEW st \in [PhoneSessions -> {"free", "live", "ended"}], LiveSessions(st) = {}
  PROVE  DeviceSnapshot(st, {}) = NoDevices /\ NoDevices \in Counts
BY FS_EmptySet DEF DeviceSnapshot, NoDevices, Counts

LEMMA NoDevicesCount == NoDevices \in Counts
<1> DEFINE st == [s \in PhoneSessions |-> "free"]
<1>1. st \in [PhoneSessions -> {"free", "live", "ended"}] /\ LiveSessions(st) = {}
  BY DEF LiveSessions
<1> QED BY <1>1, NobodyIsCounted

\* revokeRemoteSessions leaves no session.
LEMMA RevokedCountsNobody ==
  ASSUME phoneSession \in [PhoneSessions -> {"free", "live", "ended"}]
  PROVE  /\ Revoked \in [PhoneSessions -> {"free", "live", "ended"}]
         /\ DeviceSnapshot(Revoked, {}) = NoDevices
BY NobodyIsCounted DEF Revoked, Ended, LiveSessions

\* A publication is one more report.
LEMMA PublishAddsAReport ==
  ASSUME NEW withCode \in BOOLEAN, NEW status \in Statuses, NEW counts \in Counts, NEW known,
         reports \in Seq(Reports), Publish(withCode, status, counts, known)
  PROVE  \E r \in Reports : /\ r.status = status /\ r.devices = counts
                            /\ reports' = Append(reports, r)
<1>1. CASE withCode /\ status = "connected"
  <2>1. PICK c \in FreshCodes : reports' = Append(reports, [status |-> status, devices |-> counts, code |-> c])
    BY <1>1 DEF Publish
  <2>2. c \in Codes
    BY DEF FreshCodes
  <2>3. [status |-> status, devices |-> counts, code |-> c] \in Reports
    BY <2>2 DEF Reports
  <2> QED BY <2>1, <2>3
<1>2. CASE ~(withCode /\ status = "connected")
  BY <1>2 DEF Publish, Reports
<1> QED BY <1>1, <1>2

\* After a report the extension is to know what it says, whatever it knew.
LEMMA ReportedIsTold ==
  ASSUME NEW r \in Reports, reports \in Seq(Reports), reports' = Append(reports, r)
  PROVE  /\ reports' \in Seq(Reports)
         /\ ToldStatus' = r.status /\ ToldDevices' = r.devices
         /\ ReportIsComing'
BY AppendProperties, LenProperties DEF ToldStatus, ToldDevices, ReportIsComing

LEMMA PublishedIsTold ==
  ASSUME NEW withCode \in BOOLEAN, NEW status \in Statuses, NEW counts \in Counts, NEW known,
         reports \in Seq(Reports), Publish(withCode, status, counts, known)
  PROVE  /\ reports' \in Seq(Reports)
         /\ ToldStatus' = status /\ ToldDevices' = counts
         /\ ReportIsComing'
<1>1. PICK r \in Reports : /\ r.status = status /\ r.devices = counts
                           /\ reports' = Append(reports, r)
  BY PublishAddsAReport
<1> QED BY <1>1, ReportedIsTold

\* Nothing was said and the panel rests: what was told and what the panel shows stay.
LEMMA SilentStepKeeps ==
  ASSUME UNCHANGED <<reports, last, panel>>
  PROVE  ToldStatus' = ToldStatus /\ ToldDevices' = ToldDevices
  BY DEF ToldStatus, ToldDevices

\* publishDeviceSnapshot
LEMMA DevicesChangeKeepsInv ==
  ASSUME RemoteInv, companion,
         NEW st \in [PhoneSessions -> {"free", "live", "ended"}], NEW open \in SUBSET PhoneSessions, NEW known,
         DevicesChange(st, open, known),
         UNCHANGED <<companion, tunnel, awaited, suppress, commands, last, panel>>
  PROVE  RemoteInv'
<1>1. /\ phoneSession' = st /\ phones' = open /\ devices' = DeviceSnapshot(st, open)
      /\ devices' \in Counts
  BY DEF DevicesChange, Counts
<1>2. CountsAreTheServers'
  BY <1>1 DEF RemoteInv, CountsAreTheServers
<1>3. CASE suppress
  BY <1>3, <1>1, SilentStepKeeps, <1>2 DEF DevicesChange, RemoteInv, RemoteTyped, ReportsAreTrue,
     PanelFollows, ReportIsComing
<1>4. CASE ~suppress
  <2> DEFINE d == devices'
  <2>1. d \in Counts /\ Publish(FALSE, tunnel, d, known)
    BY <1>1, <1>4 DEF DevicesChange
  <2>2. reports \in Seq(Reports) /\ tunnel \in Statuses
    BY DEF RemoteInv, RemoteTyped
  <2> HIDE DEF d
  <2>3. /\ reports' \in Seq(Reports) /\ ToldStatus' = tunnel /\ ToldDevices' = d /\ ReportIsComing'
    BY <2>1, <2>2, PublishedIsTold
  <2>4. RemoteTyped'
    BY <1>1, <2>3 DEF RemoteInv, RemoteTyped
  <2>5. ReportsAreTrue'
    BY <1>4, <2>3 DEF RemoteInv, ReportsAreTrue, d
  <2>6. PanelFollows'
    BY <2>3 DEF RemoteInv, PanelFollows
  <2> QED BY <1>2, <2>4, <2>5, <2>6 DEF RemoteInv
<1> QED BY <1>3, <1>4

LEMMA LetInKeepsInv ==
  ASSUME RemoteInv, companion, NEW known, LetIn(known),
         UNCHANGED <<companion, tunnel, awaited, suppress, commands, last, panel>>
  PROVE  RemoteInv'
<1>1. PICK s \in PhoneSessions : DevicesChange([phoneSession EXCEPT ![s] = "live"], phones, known)
  BY DEF LetIn
<1>2. [phoneSession EXCEPT ![s] = "live"] \in [PhoneSessions -> {"free", "live", "ended"}]
      /\ phones \in SUBSET PhoneSessions
  BY DEF RemoteInv, RemoteTyped
<1> QED BY <1>1, <1>2, DevicesChangeKeepsInv

\* A state of the tunnel is reported, whatever it is.
LEMMA TunnelIsKeepsInv ==
  ASSUME RemoteInv, companion, NEW status \in Statuses, TunnelIs(status),
         UNCHANGED <<companion, suppress, devices, phoneSession, phones, last, panel>>,
         commands' \in Seq(HostAsks), awaited' \in {"none", "on", "off"}, suppress => awaited' = "off"
  PROVE  RemoteInv'
<1>1. reports \in Seq(Reports) /\ devices \in Counts
  BY DEF RemoteInv, RemoteTyped, CountsAreTheServers, Counts
<1>2. /\ tunnel' = status
      /\ reports' \in Seq(Reports) /\ ToldStatus' = status /\ ToldDevices' = devices /\ ReportIsComing'
  BY <1>1, PublishedIsTold DEF TunnelIs
<1>3. RemoteTyped'
  BY <1>2 DEF RemoteInv, RemoteTyped
<1>4. CountsAreTheServers'
  BY DEF RemoteInv, CountsAreTheServers
<1>5. ReportsAreTrue'
  BY <1>2 DEF RemoteInv, ReportsAreTrue
<1>6. PanelFollows'
  BY <1>2 DEF RemoteInv, PanelFollows
<1> QED BY <1>3, <1>4, <1>5, <1>6 DEF RemoteInv

LEMMA HandledCommand ==
  ASSUME RemoteInv, NEW command, Handles(command)
  PROVE  /\ commands' \in Seq(HostAsks) /\ companion /\ awaited = "none" /\ ~suppress
         /\ command = "start" /\ (\E i \in 1 .. Len(commands) : commands[i] # "start")
              => \E i \in 1 .. Len(commands') : commands'[i] # "start"
<1>1. /\ commands \in Seq(HostAsks) /\ commands # <<>> /\ Head(commands) = command /\ commands' = Tail(commands)
      /\ companion /\ awaited = "none"
  BY DEF Handles, RemoteInv, RemoteTyped
<1>2. ~suppress
  BY <1>1 DEF RemoteInv, ReportsAreTrue
<1>3. /\ Tail(commands) \in Seq(HostAsks) /\ Len(Tail(commands)) = Len(commands) - 1 /\ Head(commands) = commands[1]
      /\ \A i \in 1 .. Len(commands) - 1 : Tail(commands)[i] = commands[i + 1]
      /\ Len(commands) \in Nat \ {0}
  BY <1>1, HeadTailProperties, LenProperties, EmptySeq
<1>4. ASSUME command = "start", NEW i \in 1 .. Len(commands), commands[i] # "start"
      PROVE  \E j \in 1 .. Len(commands') : commands'[j] # "start"
  <2>1. i # 1
    BY <1>1, <1>3, <1>4
  <2>2. i - 1 \in 1 .. Len(commands) - 1 /\ (i - 1) + 1 = i
    BY <1>3, <2>1
  <2>3. Tail(commands)[i - 1] = commands[i]
    BY <1>3, <2>2
  <2> QED BY <1>1, <1>3, <1>4, <2>2, <2>3
<1> QED BY <1>1, <1>2, <1>3, <1>4

\* Asking starts a companion that is gone, which reports at once; and what is asked is answered.
LEMMA AskedKeepsInv ==
  ASSUME RemoteInv, NEW ask \in HostAsks \ {"start"}, AsksAlone(<<ask>>),
         panel' \in Panels, panel'.devices = panel.devices
  PROVE  RemoteInv'
<1>1. /\ UNCHANGED <<tunnel, awaited, suppress, devices, phoneSession, phones, last>>
      /\ AsksHost(<<ask>>)
  BY DEF AsksAlone, serverVars
<1>2. /\ companion' = TRUE /\ commands' \in Seq(HostAsks) /\ ReportIsComing'
      /\ reports' \in Seq(Reports)
      /\ ToldStatus' = tunnel /\ (~suppress => ToldDevices' = devices)
  <2>1. CASE companion
    <3>1. commands' = commands \o <<ask>> /\ UNCHANGED <<companion, reports>>
      BY <1>1, <2>1 DEF AsksHost
    <3>2. commands \in Seq(HostAsks) /\ <<ask>> \in Seq(HostAsks) /\ Len(<<ask>>) = 1 /\ <<ask>>[1] = ask
      BY DEF RemoteInv, RemoteTyped
    <3>3. /\ commands' \in Seq(HostAsks) /\ Len(commands') = Len(commands) + 1
          /\ Len(commands) \in Nat /\ commands'[Len(commands) + 1] = ask
      BY <3>1, <3>2, ConcatProperties, LenProperties
    <3>4. ReportIsComing'
      BY <3>3 DEF ReportIsComing
    <3>5. ToldStatus' = ToldStatus /\ ToldDevices' = ToldDevices
      BY <1>1, <3>1 DEF ToldStatus, ToldDevices
    <3>6. ToldStatus = tunnel /\ (~suppress => ToldDevices = devices) /\ reports \in Seq(Reports)
      BY <2>1 DEF RemoteInv, ReportsAreTrue, RemoteTyped
    <3> QED BY <2>1, <3>1, <3>3, <3>4, <3>5, <3>6
  <2>2. CASE ~companion
    <3> DEFINE r == [status |-> "off", devices |-> NoDevices, code |-> NoCode]
    <3>1. companion' = TRUE /\ commands' = <<"start">> \o <<ask>> /\ reports' = <<r>>
      BY <1>1, <2>2 DEF AsksHost
    <3>2. r \in Reports
      BY NoDevicesCount DEF Reports, Statuses
    <3>3. reports' \in Seq(Reports) /\ reports' # <<>> /\ Len(reports') = 1 /\ reports'[1] = r
      BY <3>1, <3>2
    <3>4. commands' \in Seq(HostAsks)
      BY <3>1 DEF HostAsks
    <3>5. tunnel = "off" /\ devices = NoDevices
      BY <2>2 DEF RemoteInv, CountsAreTheServers
    <3> QED BY <3>1, <3>3, <3>4, <3>5 DEF ReportIsComing, ToldStatus, ToldDevices
  <2> QED BY <2>1, <2>2
<1>3. RemoteTyped'
  BY <1>1, <1>2 DEF RemoteInv, RemoteTyped
<1>4. CountsAreTheServers'
  BY <1>1, <1>2 DEF RemoteInv, CountsAreTheServers
<1>5. ReportsAreTrue'
  BY <1>1, <1>2 DEF RemoteInv, ReportsAreTrue
<1>6. PanelFollows'
  BY <1>1, <1>2 DEF RemoteInv, PanelFollows
<1> QED BY <1>3, <1>4, <1>5, <1>6 DEF RemoteInv

LEMMA RemoteInitInv == RemoteInit => RemoteInv
<1> SUFFICES ASSUME RemoteInit PROVE RemoteInv
  OBVIOUS
<1> USE DEF RemoteInit
<1>1. phoneSession \in [PhoneSessions -> {"free", "live", "ended"}] /\ LiveSessions(phoneSession) = {}
  BY DEF LiveSessions
<1>2. RemoteTyped
  <2>1. last \in Kept /\ panel \in Panels
    BY NoDevicesCount DEF Statuses, Kept, Panels, NothingSeen, Unshown
  <2>2. tunnel \in Statuses /\ awaited \in {"none", "on", "off"} /\ companion \in BOOLEAN /\ suppress \in BOOLEAN
    BY DEF Statuses
  <2>3. reports \in Seq(Reports) /\ commands \in Seq(HostAsks)
    OBVIOUS
  <2>4. phones \in SUBSET PhoneSessions
    OBVIOUS
  <2> QED BY <1>1, <2>1, <2>2, <2>3, <2>4 DEF RemoteTyped
<1>3. CountsAreTheServers
  BY <1>1, NobodyIsCounted DEF CountsAreTheServers
<1>4. ReportsAreTrue
  BY DEF ReportsAreTrue
<1>5. PanelFollows
  BY DEF PanelFollows, NothingSeen, Unshown
<1> QED BY <1>2, <1>3, <1>4, <1>5 DEF RemoteInv

\* What the invariant reads of the state.
remoteCore ==
  <<companion, tunnel, awaited, suppress, devices, phoneSession, phones, commands, reports, last, panel>>

LEMMA RestKeepsInv == RemoteInv /\ UNCHANGED remoteCore => RemoteInv'
  BY DEF remoteCore, RemoteInv, RemoteTyped, CountsAreTheServers, ReportsAreTrue, PanelFollows, ReportIsComing,
         ToldStatus, ToldDevices

\* The companion: its phones, its tunnel, and the end of its process.
CompanionSteps ==
  \/ \E c \in Codes : PhonePairs(c)
  \/ PhoneLogsIn
  \/ \E s \in PhoneSessions : PhoneConnects(s) \/ PhoneLeaves(s) \/ SessionExpires(s)
  \/ \E status \in Statuses : TunnelStarts(status) \/ TunnelReturns(status)
  \/ TunnelDrops \/ TunnelStops \/ HostExits

LEMMA CompanionStepKeepsInv == RemoteInv /\ CompanionSteps => RemoteInv'
<1> SUFFICES ASSUME RemoteInv, CompanionSteps PROVE RemoteInv'
  OBVIOUS
<1>0. /\ phoneSession \in [PhoneSessions -> {"free", "live", "ended"}] /\ phones \in SUBSET PhoneSessions
      /\ commands \in Seq(HostAsks) /\ awaited \in {"none", "on", "off"} /\ (suppress => awaited = "off")
  BY DEF RemoteInv, RemoteTyped, ReportsAreTrue
<1>1. ASSUME NEW c \in Codes, PhonePairs(c) PROVE RemoteInv'
  BY <1>1, LetInKeepsInv DEF PhonePairs
<1>2. ASSUME PhoneLogsIn PROVE RemoteInv'
  BY <1>2, LetInKeepsInv DEF PhoneLogsIn
<1>3. ASSUME NEW s \in PhoneSessions, PhoneConnects(s) PROVE RemoteInv'
  BY <1>0, <1>3, DevicesChangeKeepsInv DEF PhoneConnects
<1>4. ASSUME NEW s \in PhoneSessions, PhoneLeaves(s) PROVE RemoteInv'
  BY <1>0, <1>4, DevicesChangeKeepsInv DEF PhoneLeaves
<1>5. ASSUME NEW s \in PhoneSessions, SessionExpires(s) PROVE RemoteInv'
  BY <1>0, <1>5, DevicesChangeKeepsInv DEF Ended, SessionExpires
<1>6. ASSUME NEW status \in Statuses, TunnelStarts(status) PROVE RemoteInv'
  BY <1>0, <1>6, TunnelIsKeepsInv DEF TunnelStarts
<1>7. ASSUME NEW status \in Statuses, TunnelReturns(status) PROVE RemoteInv'
  BY <1>0, <1>7, TunnelIsKeepsInv DEF TunnelReturns
<1>8. ASSUME TunnelDrops PROVE RemoteInv'
  <2>1. "reconnecting" \in Statuses
    BY DEF Statuses
  <2> QED BY <1>0, <1>8, <2>1, TunnelIsKeepsInv DEF TunnelDrops
<1>9. ASSUME TunnelStops PROVE RemoteInv'
  <2>1. "off" \in Statuses
    BY DEF Statuses
  <2> QED BY <1>0, <1>9, <2>1, TunnelIsKeepsInv DEF TunnelStops
<1>10. ASSUME HostExits PROVE RemoteInv'
  <2>1. /\ companion' = FALSE /\ tunnel' = "off" /\ awaited' = "none" /\ suppress' = FALSE
        /\ devices' = NoDevices /\ phoneSession' = Revoked /\ phones' = {}
        /\ commands' = <<>> /\ reports' = <<>> /\ UNCHANGED <<last, panel>>
    BY <1>10 DEF HostExits
  <2>2. /\ phoneSession' \in [PhoneSessions -> {"free", "live", "ended"}]
        /\ DeviceSnapshot(phoneSession', phones') = NoDevices
    BY <1>0, <2>1, RevokedCountsNobody
  <2>3. RemoteTyped'
    <3>1. /\ tunnel' \in Statuses /\ awaited' \in {"none", "on", "off"}
          /\ companion' \in BOOLEAN /\ suppress' \in BOOLEAN
      BY <2>1 DEF Statuses
    <3>2. reports' \in Seq(Reports) /\ commands' \in Seq(HostAsks) /\ phones' \in SUBSET PhoneSessions
      BY <2>1
    <3>3. last' \in Kept /\ panel' \in Panels
      BY <2>1 DEF RemoteInv, RemoteTyped
    <3> QED BY <2>2, <3>1, <3>2, <3>3 DEF RemoteTyped
  <2>4. CountsAreTheServers'
    BY <2>1, <2>2 DEF CountsAreTheServers
  <2>5. ReportsAreTrue'
    BY <2>1 DEF ReportsAreTrue
  <2>6. PanelFollows'
    BY <2>1 DEF RemoteInv, PanelFollows
  <2> QED BY <2>3, <2>4, <2>5, <2>6 DEF RemoteInv
<1> QED BY <1>1, <1>2, <1>3, <1>4, <1>5, <1>6, <1>7, <1>8, <1>9, <1>10 DEF CompanionSteps

\* The companion's commands.
CommandSteps ==
  HandlesStart \/ HandlesOn \/ HandlesOff \/ Configured \/ HandlesPairing \/ HandlesRevoke

LEMMA CommandStepKeepsInv == RemoteInv /\ CommandSteps => RemoteInv'
<1> SUFFICES ASSUME RemoteInv, CommandSteps PROVE RemoteInv'
  OBVIOUS
<1>0. /\ phoneSession \in [PhoneSessions -> {"free", "live", "ended"}]
      /\ reports \in Seq(Reports) /\ devices \in Counts /\ tunnel \in Statuses
      /\ "starting" \in Statuses /\ NoDevices \in Counts
  <2>1. devices \in Counts
    BY DEF RemoteInv, RemoteTyped, CountsAreTheServers, Counts
  <2>2. "starting" \in Statuses
    BY DEF Statuses
  <2> QED BY <2>1, <2>2, NoDevicesCount DEF RemoteInv, RemoteTyped
<1>1. ASSUME HandlesStart PROVE RemoteInv'
  <2>1. Handles("start") /\ UNCHANGED <<companion, awaited, suppress, devices, phoneSession, phones, last, panel>>
    BY <1>1 DEF HandlesStart
  <2>2. /\ commands' \in Seq(HostAsks) /\ companion /\ awaited = "none" /\ ~suppress
        /\ (\E i \in 1 .. Len(commands) : commands[i] # "start")
             => \E i \in 1 .. Len(commands') : commands'[i] # "start"
    BY <2>1, HandledCommand
  <2>3. CASE stored
    <3>1. TunnelIs("starting")
      BY <1>1, <2>3 DEF HandlesStart, ConfiguresOn
    <3> QED BY <1>0, <2>1, <2>2, <3>1, TunnelIsKeepsInv
  <2>4. CASE ~stored
    BY <1>1, <2>4, <2>1, <2>2, SilentStepKeeps DEF HandlesStart, RemoteInv, RemoteTyped,
       CountsAreTheServers, ReportsAreTrue, ReportIsComing, PanelFollows
  <2> QED BY <2>3, <2>4
<1>2. ASSUME HandlesOn PROVE RemoteInv'
  BY <1>2, HandledCommand, <1>0, TunnelIsKeepsInv DEF HandlesOn, ConfiguresOn
<1>3. ASSUME HandlesOff PROVE RemoteInv'
  BY <1>3, HandledCommand, <1>0, RevokedCountsNobody, SilentStepKeeps DEF HandlesOff, RemoteInv,
     RemoteTyped, CountsAreTheServers, ReportsAreTrue, PanelFollows, ReportIsComing
<1>4. ASSUME Configured PROVE RemoteInv'
  <2>1. /\ companion /\ awaited' = "none"
        /\ UNCHANGED <<companion, tunnel, devices, phoneSession, phones, commands, last, panel>>
        /\ \/ awaited = "on" /\ UNCHANGED <<suppress, reports>>
           \/ suppress' = FALSE /\ Publish(FALSE, tunnel, devices, code)
    BY <1>4 DEF Configured
  <2>2. CountsAreTheServers'
    BY <2>1 DEF RemoteInv, CountsAreTheServers
  <2>3. CASE awaited = "on" /\ UNCHANGED <<suppress, reports>>
    BY <2>1, <2>3, SilentStepKeeps, <2>2 DEF RemoteInv, RemoteTyped, ReportsAreTrue, ReportIsComing,
       PanelFollows
  <2>4. CASE suppress' = FALSE /\ Publish(FALSE, tunnel, devices, code)
    BY <1>0, <2>4, PublishedIsTold, <2>1, <2>2 DEF RemoteInv, RemoteTyped, ReportsAreTrue, PanelFollows
  <2> QED BY <2>1, <2>3, <2>4
<1>5. ASSUME HandlesPairing PROVE RemoteInv'
  BY <1>5, HandledCommand, <1>0, TunnelIsKeepsInv DEF HandlesPairing, hostVars, TunnelIs
<1>6. ASSUME HandlesRevoke PROVE RemoteInv'
  BY <1>6, HandledCommand, <1>0, RevokedCountsNobody, PublishedIsTold DEF HandlesRevoke, RemoteInv,
     RemoteTyped, CountsAreTheServers, ReportsAreTrue, PanelFollows
<1> QED BY <1>1, <1>2, <1>3, <1>4, <1>5, <1>6 DEF CommandSteps

\* A report that arrives is what was told, if it is the last, and the panel shows it.
LEMMA ArrivalKeepsInv == RemoteInv /\ ReportArrives => RemoteInv'
<1> SUFFICES ASSUME RemoteInv, ReportArrives PROVE RemoteInv'
  OBVIOUS
<1> DEFINE r == Head(reports)
<1>1. /\ reports # <<>> /\ reports \in Seq(Reports) /\ reports' = Tail(reports)
      /\ UNCHANGED <<companion, tunnel, awaited, suppress, devices, phoneSession, phones, commands>>
      /\ last' = [status |-> r.status, devices |-> r.devices, code |-> r.code, seen |-> TRUE]
      /\ panel' = Updated(r)
  BY DEF ReportArrives, hostVars, serverVars, RemoteInv, RemoteTyped
<1>2. /\ r \in Reports /\ Tail(reports) \in Seq(Reports) /\ Len(Tail(reports)) = Len(reports) - 1
      /\ r = reports[1] /\ Len(reports) \in Nat \ {0}
      /\ \A i \in 1 .. Len(reports) - 1 : Tail(reports)[i] = reports[i + 1]
  BY <1>1, HeadTailProperties, LenProperties, EmptySeq
<1>3. r.status \in Statuses /\ r.devices \in Counts /\ r.code \in Codes \cup {NoCode}
  BY <1>2 DEF Reports
<1>4. panel \in Panels
  BY DEF RemoteInv, RemoteTyped
<1>5. ToldStatus = reports[Len(reports)].status /\ ToldDevices = reports[Len(reports)].devices
  BY <1>1 DEF ToldStatus, ToldDevices
<1>6. ToldStatus' = ToldStatus /\ ToldDevices' = ToldDevices
  <2>1. CASE Len(reports) = 1
    <3>1. reports' = <<>>
      BY <1>1, <1>2, <2>1, EmptySeq
    <3>2. last'.status = r.status /\ last'.devices = r.devices
      BY <1>1
    <3> HIDE DEF r
    <3> QED BY <1>2, <1>5, <2>1, <3>1, <3>2 DEF ToldStatus, ToldDevices
  <2>2. CASE Len(reports) # 1
    <3>1. Len(reports') = Len(reports) - 1 /\ Len(reports) - 1 \in 1 .. Len(reports) - 1 /\ reports' # <<>>
      <4>1. Len(reports') = Len(reports) - 1
        BY <1>1, <1>2
      <4>2. Len(reports) - 1 \in 1 .. Len(reports) - 1 /\ Len(reports) - 1 # 0
        BY <1>2, <2>2
      <4>3. Len(<<>>) = 0
        BY EmptySeq
      <4> QED BY <4>1, <4>2, <4>3
    <3>2. reports'[Len(reports')] = reports[Len(reports)]
      BY <1>1, <1>2, <3>1
    <3> HIDE DEF r
    <3> QED BY <1>5, <3>1, <3>2 DEF ToldStatus, ToldDevices
  <2> QED BY <2>1, <2>2
<1> HIDE DEF r
<1>7. /\ panel' \in Panels /\ panel'.devices = r.devices /\ panel'.status = r.status
      /\ panel'.open /\ panel'.status = "connected" => panel'.timed
  BY <1>1, <1>3, <1>4 DEF Updated, Panels
<1>8. last' \in Kept /\ last'.devices = r.devices /\ last'.status = r.status /\ last'.seen
  BY <1>1, <1>3 DEF Kept
<1>9. RemoteTyped'
  BY <1>1, <1>2, <1>7, <1>8 DEF RemoteInv, RemoteTyped
<1>10. CountsAreTheServers'
  BY <1>1 DEF RemoteInv, CountsAreTheServers
<1>11. ReportsAreTrue'
  BY <1>1, <1>6 DEF RemoteInv, ReportsAreTrue
<1>12. PanelFollows'
  BY <1>7, <1>8 DEF PanelFollows
<1> QED BY <1>9, <1>10, <1>11, <1>12 DEF RemoteInv

\* The panel of a page, and the options page.
ViewSteps ==
  \/ OpensPanel \/ ClosesPanel \/ PanelRefreshes \/ PanelRevokes \/ PageIsLeft
  \/ \E enabled \in BOOLEAN : PanelConfigures(enabled) \/ OptionsConfigures(enabled)
  \/ OptionsLoads \/ OptionsRefreshes

\* The panel changed and nothing else did.
LEMMA PanelAloneKeepsInv ==
  ASSUME RemoteInv, panel' \in Panels, panel'.devices = panel.devices,
         UNCHANGED <<companion, tunnel, awaited, suppress, devices, phoneSession, phones, commands, reports, last>>,
         \/ panel'.status = last.status /\ (panel'.open /\ panel'.status = "connected" => panel'.timed)
         \/ panel'.status = panel.status /\ (panel'.open /\ panel'.status = "connected" => panel.open /\ panel'.timed = panel.timed)
  PROVE  RemoteInv'
BY DEF RemoteInv, RemoteTyped, CountsAreTheServers, ReportsAreTrue, ToldStatus, ToldDevices,
   ReportIsComing, PanelFollows

LEMMA ViewStepKeepsInv == RemoteInv /\ ViewSteps => RemoteInv'
<1> SUFFICES ASSUME RemoteInv, ViewSteps PROVE RemoteInv'
  OBVIOUS
<1>0. /\ panel \in Panels /\ last \in Kept /\ panel.devices = last.devices
      /\ (~last.seen => last = NothingSeen)
      /\ {"on", "off", "pairing", "revoke"} \subseteq HostAsks \ {"start"}
  BY DEF RemoteInv, RemoteTyped, PanelFollows, HostAsks
<1>1. ASSUME OpensPanel PROVE RemoteInv'
  <2>1. panel' = [panel EXCEPT !.open = TRUE]
    BY <1>1 DEF OpensPanel
  <2>2. panel' \in Panels /\ panel'.devices = panel.devices /\ panel'.status = panel.status
    BY <1>0, <2>1 DEF Panels
  <2>3. CASE panel.status = "connected"
    BY <1>0, <1>1, <2>2, <2>3, AskedKeepsInv DEF OpensPanel
  <2>4. CASE panel.status # "connected"
    BY <1>1, <2>4, <2>2, PanelAloneKeepsInv DEF OpensPanel, hostVars, serverVars
  <2> QED BY <2>3, <2>4
<1>2. ASSUME ClosesPanel PROVE RemoteInv'
  BY <1>2, <1>0, PanelAloneKeepsInv DEF ClosesPanel, hostVars, serverVars, Panels
<1>3. ASSUME PanelRefreshes PROVE RemoteInv'
  BY <1>3, <1>0, AskedKeepsInv DEF PanelRefreshes, Panels
<1>4. ASSUME PanelRevokes PROVE RemoteInv'
  BY <1>0, <1>4, AskedKeepsInv DEF PanelRevokes
<1>5. ASSUME PageIsLeft PROVE RemoteInv'
  <2>1. /\ UNCHANGED <<companion, tunnel, awaited, suppress, devices, phoneSession, phones, commands, reports, last>>
        /\ panel' = IF last.seen
             THEN [Unshown EXCEPT !.status = last.status, !.devices = last.devices, !.code = last.code]
             ELSE Unshown
    BY <1>5 DEF PageIsLeft, hostVars, serverVars
  <2>2. panel' \in Panels /\ panel'.devices = last.devices /\ panel'.status = last.status /\ ~panel'.open
    <3>1. CASE last.seen
      BY <1>0, <2>1, <3>1 DEF Panels, Kept, Unshown
    <3>2. CASE ~last.seen
      BY <1>0, <2>1, <3>2, NoDevicesCount DEF Panels, Kept, Unshown, NothingSeen, Statuses
    <3> QED BY <3>1, <3>2
  <2> QED BY <1>0, <2>1, <2>2, PanelAloneKeepsInv
<1>6. ASSUME NEW enabled \in BOOLEAN, PanelConfigures(enabled) PROVE RemoteInv'
  <2> DEFINE ask == IF enabled THEN "on" ELSE "off"
  <2>1. panel' = [panel EXCEPT !.status = IF enabled THEN "starting" ELSE "off"] /\ AsksAlone(<<ask>>)
    BY <1>6 DEF PanelConfigures
  <2>2. panel' \in Panels /\ panel'.devices = panel.devices
    BY <1>0, <2>1 DEF Panels, Statuses
  <2>3. ask \in HostAsks \ {"start"}
    BY <1>0
  <2> HIDE DEF ask
  <2> QED BY <2>1, <2>2, <2>3, AskedKeepsInv
<1>7. ASSUME NEW enabled \in BOOLEAN, OptionsConfigures(enabled) PROVE RemoteInv'
  <2> DEFINE ask == IF enabled THEN "on" ELSE "off"
  <2>1. UNCHANGED panel /\ AsksAlone(<<ask>>)
    BY <1>7 DEF OptionsConfigures
  <2>2. ask \in HostAsks \ {"start"}
    BY <1>0
  <2> HIDE DEF ask
  <2> QED BY <1>0, <2>1, <2>2, AskedKeepsInv
<1>8. ASSUME OptionsLoads PROVE RemoteInv'
  BY <1>0, <1>8, AskedKeepsInv DEF OptionsLoads
<1>9. ASSUME OptionsRefreshes PROVE RemoteInv'
  BY <1>0, <1>9, AskedKeepsInv DEF OptionsRefreshes
<1> QED BY <1>1, <1>2, <1>3, <1>4, <1>5, <1>6, <1>7, <1>8, <1>9 DEF ViewSteps

\* Failed logins, codes that end, and an options page that closes touch nothing of this.
LEMMA RemoteStepInv == RemoteInv /\ [RemoteNext]_remoteVars => RemoteInv'
<1> SUFFICES ASSUME RemoteInv, [RemoteNext]_remoteVars PROVE RemoteInv'
  OBVIOUS
<1>1. \/ CompanionSteps \/ CommandSteps \/ ReportArrives \/ ViewSteps
      \/ \E c \in Codes : CodeExpires(c)
      \/ PhoneMistypes \/ MinutePasses \/ OptionsCloses
      \/ UNCHANGED remoteVars
  BY DEF RemoteNext, CompanionSteps, CommandSteps, ViewSteps
<1>2. ASSUME \/ \E c \in Codes : CodeExpires(c)
             \/ PhoneMistypes \/ MinutePasses \/ OptionsCloses
             \/ UNCHANGED remoteVars
      PROVE  UNCHANGED remoteCore
  BY <1>2 DEF CodeExpires, PhoneMistypes, MinutePasses, OptionsCloses, remoteVars, remoteCore, hostVars, serverVars
<1> QED BY <1>1, <1>2, RestKeepsInv, CompanionStepKeepsInv, CommandStepKeepsInv, ArrivalKeepsInv, ViewStepKeepsInv

LEMMA RemoteInvHolds == RemoteInv => PanelIsTrue
BY DEF PanelIsTrue, Settled, ReportIsComing, RemoteInv, ReportsAreTrue, ToldStatus, ToldDevices,
   PanelFollows, CountsAreTheServers

\* For every number of sessions and codes: once nothing is on its way, the panel of
\* a page shows the companion's tunnel and the phones its server has let in
\* (remote-access-companion.ts, native-host.ts).
THEOREM PanelShowsTheTruth == RemoteSpec => []PanelIsTrue
<1> QED BY RemoteInitInv, RemoteStepInv, RemoteInvHolds, PTL DEF RemoteSpec

CodeStates == [Codes -> {"live", "gone"}]

\* What the proofs about the panel had no need of: a phone that is connected has a
\* session that lives.
RemoteRest ==
  /\ tunnelWanted \in BOOLEAN
  /\ phones \subseteq LiveSessions(phoneSession)
  /\ code \in CodeStates /\ mistypes \in 0 .. MaxAttempts
  /\ page \in Panels

\* The types of remote access, with what the panel is true by.
RemoteTypesInv == RemoteInv /\ RemoteRest

LEMMA AttemptBounds == MaxAttempts \in Nat /\ 0 \in 0 .. MaxAttempts
BY RemoteAssumption

LEMMA NoCodesAreCodes == NoCodes \in CodeStates
BY DEF NoCodes, CodeStates

LEMMA ClosedPage == Unshown \in Panels /\ Unshown.open = FALSE /\ Unshown.timed = FALSE
<1>1. "off" \in Statuses
  BY DEF Statuses
<1> QED BY <1>1, NoDevicesCount DEF Unshown, Panels

\* A publication puts one code in use at most.
LEMMA PublishTyped ==
  ASSUME NEW withCode \in BOOLEAN, NEW status, NEW counts, NEW known \in CodeStates,
         Publish(withCode, status, counts, known)
  PROVE  code' \in CodeStates
<1>1. CASE withCode /\ status = "connected"
  <2>1. PICK c \in FreshCodes : code' = [known EXCEPT ![c] = "live"]
    BY <1>1 DEF Publish
  <2> QED BY <2>1 DEF FreshCodes, CodeStates
<1>2. CASE ~(withCode /\ status = "connected")
  BY <1>2 DEF Publish
<1> QED BY <1>1, <1>2

LEMMA DevicesChangeTyped ==
  ASSUME NEW st, NEW open, NEW known \in CodeStates, DevicesChange(st, open, known),
         open \subseteq LiveSessions(st)
  PROVE  code' \in CodeStates /\ phones' \subseteq LiveSessions(phoneSession')
BY PublishTyped DEF DevicesChange

LEMMA LetInTyped ==
  ASSUME phoneSession \in [PhoneSessions -> {"free", "live", "ended"}], RemoteRest, NEW known \in CodeStates, LetIn(known)
  PROVE  code' \in CodeStates /\ phones' \subseteq LiveSessions(phoneSession')
<1>1. PICK s \in PhoneSessions : DevicesChange([phoneSession EXCEPT ![s] = "live"], phones, known)
  BY DEF LetIn
<1>2. phones \subseteq LiveSessions([phoneSession EXCEPT ![s] = "live"])
  BY DEF RemoteRest, LiveSessions
<1> QED BY <1>1, <1>2, DevicesChangeTyped

\* The page shows what was reported last, or what the extension keeps of it.
LEMMA RenderedTyped ==
  ASSUME page \in Panels, NEW r \in Reports
  PROVE  Rendered(r) \in Panels
BY DEF Reports, Rendered, Panels

LEMMA PhoneStepsTyped ==
  ASSUME RemoteTypesInv, \/ \E c \in Codes : PhonePairs(c) \/ CodeExpires(c)
                         \/ PhoneLogsIn \/ PhoneMistypes \/ MinutePasses
                         \/ \E s \in PhoneSessions : PhoneConnects(s) \/ PhoneLeaves(s) \/ SessionExpires(s)
  PROVE  RemoteRest'
<1>0. /\ phoneSession \in [PhoneSessions -> {"free", "live", "ended"}]
      /\ tunnelWanted \in BOOLEAN /\ phones \subseteq LiveSessions(phoneSession)
      /\ code \in CodeStates /\ mistypes \in 0 .. MaxAttempts /\ page \in Panels
  BY DEF RemoteTypesInv, RemoteInv, RemoteTyped, RemoteRest
<1>1. ASSUME NEW c \in Codes, PhonePairs(c) PROVE RemoteRest'
  BY <1>0, <1>1, LetInTyped DEF CodeStates, PhonePairs, RemoteTypesInv, RemoteRest
<1>2. ASSUME NEW c \in Codes, CodeExpires(c) PROVE RemoteRest'
  BY <1>0, <1>2 DEF CodeStates, CodeExpires, hostVars, RemoteRest
<1>3. ASSUME PhoneLogsIn PROVE RemoteRest'
  BY <1>3, <1>0, LetInTyped, AttemptBounds DEF PhoneLogsIn, RemoteTypesInv, RemoteRest
<1>4. ASSUME PhoneMistypes \/ MinutePasses PROVE RemoteRest'
  BY <1>0, <1>4, AttemptBounds DEF PhoneMistypes, MinutePasses, hostVars, RemoteRest
<1>5. ASSUME NEW s \in PhoneSessions, PhoneConnects(s) \/ PhoneLeaves(s) \/ SessionExpires(s) PROVE RemoteRest'
  <2>1. UNCHANGED <<tunnelWanted, mistypes, page>>
    BY <1>5 DEF PhoneConnects, PhoneLeaves, SessionExpires
  <2>2. CASE PhoneConnects(s)
    BY <1>0, <2>2, <2>1, DevicesChangeTyped DEF PhoneConnects, LiveSessions, RemoteRest
  <2>3. CASE PhoneLeaves(s)
    BY <1>0, <2>1, <2>3, DevicesChangeTyped DEF PhoneLeaves, RemoteRest
  <2>4. CASE SessionExpires(s)
    BY <1>0, <2>1, <2>4, DevicesChangeTyped DEF Ended, LiveSessions, SessionExpires, RemoteRest
  <2> QED BY <1>5, <2>2, <2>3, <2>4
<1> QED BY <1>1, <1>2, <1>3, <1>4, <1>5

LEMMA HostStepsTyped ==
  ASSUME RemoteTypesInv, \/ \E status \in Statuses : TunnelStarts(status) \/ TunnelReturns(status)
                         \/ TunnelDrops \/ TunnelStops
                         \/ HandlesStart \/ HandlesOn \/ HandlesOff \/ Configured \/ HandlesPairing \/ HandlesRevoke
                         \/ HostExits
  PROVE  RemoteRest'
<1>0. /\ tunnelWanted \in BOOLEAN /\ phones \subseteq LiveSessions(phoneSession)
      /\ code \in CodeStates /\ mistypes \in 0 .. MaxAttempts /\ page \in Panels
  BY DEF RemoteTypesInv, RemoteRest
\* Nothing of the phones changes.
<1>a. ASSUME UNCHANGED <<phoneSession, phones, mistypes, page>>, code' \in CodeStates, tunnelWanted' \in BOOLEAN
      PROVE  RemoteRest'
  BY <1>0, <1>a DEF RemoteRest
<1>b. ASSUME NEW status, TunnelIs(status) PROVE code' \in CodeStates
  BY <1>0, <1>b, PublishTyped DEF TunnelIs
<1>1. CASE \/ \E status \in Statuses : TunnelStarts(status) \/ TunnelReturns(status)
           \/ TunnelDrops \/ TunnelStops
  BY <1>1, <1>b, <1>0, <1>a DEF TunnelStarts, TunnelReturns, TunnelDrops, TunnelStops
<1>2. CASE HandlesStart \/ HandlesOn
  BY <1>2, <1>0, <1>b, <1>a DEF HandlesStart, HandlesOn, ConfiguresOn
<1>3. CASE HandlesOff \/ HostExits
  BY <1>3, <1>0, NoCodesAreCodes, AttemptBounds DEF HandlesOff, HostExits, RemoteRest
<1>4. CASE Configured
  BY <1>4, <1>0, PublishTyped, <1>a DEF Configured
<1>5. CASE HandlesPairing
  BY <1>5, <1>0, PublishTyped, <1>a DEF HandlesPairing, hostVars
<1>6. CASE HandlesRevoke
  BY <1>6, NoCodesAreCodes, PublishTyped, <1>0 DEF HandlesRevoke, RemoteRest
<1> QED BY <1>1, <1>2, <1>3, <1>4, <1>5, <1>6

LEMMA ViewStepsTyped ==
  ASSUME RemoteTypesInv, \/ ReportArrives
                         \/ OpensPanel \/ ClosesPanel \/ PanelRefreshes \/ PanelRevokes \/ PageIsLeft
                         \/ \E enabled \in BOOLEAN : PanelConfigures(enabled) \/ OptionsConfigures(enabled)
                         \/ OptionsLoads \/ OptionsRefreshes \/ OptionsCloses
  PROVE  RemoteRest'
<1>0. /\ tunnelWanted \in BOOLEAN /\ phones \subseteq LiveSessions(phoneSession)
      /\ code \in CodeStates /\ mistypes \in 0 .. MaxAttempts /\ page \in Panels
      /\ last \in Kept /\ reports \in Seq(Reports)
  BY DEF RemoteTypesInv, RemoteInv, RemoteTyped, RemoteRest
<1>1. UNCHANGED <<tunnelWanted, phoneSession, phones, code, mistypes>>
  BY DEF ReportArrives, OpensPanel, ClosesPanel, PanelRefreshes, PanelRevokes, PageIsLeft, PanelConfigures,
         OptionsConfigures, OptionsLoads, OptionsRefreshes, OptionsCloses, AsksAlone, hostVars, serverVars
<1>2. page' \in Panels
  <2>1. CASE ReportArrives
    BY <1>0, <2>1, HeadTailProperties, RenderedTyped DEF ReportArrives
  <2>2. CASE OptionsLoads
    <3> DEFINE opened == [Unshown EXCEPT !.open = TRUE]
    <3>1. opened \in Panels
      BY ClosedPage DEF Panels
    <3>2. last.status \in Statuses /\ last.devices \in Counts /\ last.code \in Codes \cup {NoCode}
      BY <1>0 DEF Kept
    <3> HIDE DEF opened
    <3>3. \/ page' = opened
          \/ page' = [opened EXCEPT !.status = last.status, !.devices = last.devices, !.code = last.code,
                                    !.timed = last.status = "connected" /\ last.code # NoCode]
      BY <2>2 DEF OptionsLoads, opened
    <3> QED BY <3>1, <3>2, <3>3 DEF Panels
  <2>3. CASE OptionsRefreshes
    BY <2>3, <1>0 DEF OptionsRefreshes, Panels
  <2>4. CASE OptionsCloses
    BY <2>4, ClosedPage DEF OptionsCloses
  <2>5. CASE \/ OpensPanel \/ ClosesPanel \/ PanelRefreshes \/ PanelRevokes \/ PageIsLeft
             \/ \E enabled \in BOOLEAN : PanelConfigures(enabled) \/ OptionsConfigures(enabled)
    <3>1. UNCHANGED page
      BY <2>5 DEF OpensPanel, ClosesPanel, PanelRefreshes, PanelRevokes, PageIsLeft, PanelConfigures, OptionsConfigures
    <3> QED BY <1>0, <3>1
  <2> QED BY <2>1, <2>2, <2>3, <2>4, <2>5
<1> QED BY <1>0, <1>1, <1>2 DEF RemoteRest

LEMMA RemoteTypesInit == RemoteInit => RemoteTypesInv
BY RemoteInitInv, NoCodesAreCodes, ClosedPage, AttemptBounds DEF RemoteTypesInv, RemoteInit, RemoteRest

LEMMA RemoteTypesStep == RemoteTypesInv /\ [RemoteNext]_remoteVars => RemoteTypesInv'
BY RemoteStepInv, PhoneStepsTyped, HostStepsTyped, ViewStepsTyped DEF RemoteTypesInv, RemoteNext,
   remoteVars, hostVars, serverVars, RemoteRest

LEMMA RemoteTypesHold == RemoteTypesInv => RemoteTypeOK
BY DEF RemoteTypesInv, RemoteInv, RemoteTyped, RemoteRest, Panels, HostAsks, CodeStates, RemoteTypeOK

(***************************************************************************)
(* The native install                                                      *)
(***************************************************************************)

\* One terminal, in which one command follows the other.
OneShell == \A s, t \in Shells : s = t

\* What a command has seen: of the browsers before the one it looks at none but
\* its own has a manifest that names the launcher; when it removes the launcher none has.
CommandKnows(s) ==
  /\ shellRuns[s].verb = "uninstall" =>
       /\ shellRuns[s].step \in {"scan", "launcher", "remove"} => ~Named(manifests[shellRuns[s].browser])
       /\ shellRuns[s].step = "scan" =>
            /\ shellRuns[s].at \in 1 .. Len(Order) + 1
            /\ \A j \in 1 .. Len(Order) : j < shellRuns[s].at => ~Named(manifests[Order[j]])
       /\ shellRuns[s].step \in {"launcher", "remove"} => \A b \in Browsers : ~Named(manifests[b])
       /\ shellRuns[s].step = "selected" => shellRuns[s].at = 1
  /\ At(s, "install", "manifest") => hostLauncher # "none"

\* The inductive invariant: the promise, and what the command that runs knows.
InstallInv ==
  /\ InstallTypeOK
  /\ ManifestHasItsLauncher
  /\ \A s \in Shells : CommandKnows(s)

\* What an install, an uninstall and a shell may be doing.
RunEnters == [verb : {"install"}, browser : Browsers, copy : Copies, step : {"launcher", "manifest"}]
RunLeaves == [verb : {"uninstall"}, browser : Browsers, copy : Copies, purge : BOOLEAN,
           step : {"selected", "scan", "launcher", "remove", "state"}, at : 1 .. (Len(Order) + 1)]
Runs   == {NoCommand} \cup RunEnters \cup RunLeaves

LEMMA ListedOnce ==
  ASSUME NEW B, NEW o \in Seq(B), B = {o[i] : i \in DOMAIN o}
  PROVE  /\ Len(o) \in Nat /\ \A i \in 1 .. Len(o) : o[i] \in B
         /\ \A b \in B : \E i \in 1 .. Len(o) : b = o[i]
OBVIOUS

LEMMA OrderFacts ==
  /\ Len(Order) \in Nat /\ \A i \in 1 .. Len(Order) : Order[i] \in Browsers
  /\ \A b \in Browsers : \E i \in 1 .. Len(Order) : b = Order[i]
BY InstallAssumption, ListedOnce DEF Browsers, ToSet

LEMMA OrderLength == Len(Order) \in Nat
BY OrderFacts

\* Where a scan is.
LEMMA ScanBounds ==
  ASSUME NEW n, n \in 1 .. Len(Order) + 1
  PROVE  /\ 1 \in 1 .. Len(Order) + 1 /\ \A j \in 1 .. Len(Order) : ~(j < 1)
         /\ n > Len(Order) => \A j \in 1 .. Len(Order) : j < n
         /\ ~(n > Len(Order)) => n \in 1 .. Len(Order)
         /\ n \in 1 .. Len(Order) => /\ n + 1 \in 1 .. Len(Order) + 1
                                    /\ \A j \in 1 .. Len(Order) : j < n + 1 => j < n \/ j = n
<1>1. PICK m \in Nat : m = Len(Order)
  BY OrderLength
<1>2. n \in 1 .. m + 1
  BY <1>1
<1>3. /\ 1 \in 1 .. m + 1 /\ \A j \in 1 .. m : ~(j < 1)
      /\ n > m => \A j \in 1 .. m : j < n
      /\ ~(n > m) => n \in 1 .. m
      /\ n \in 1 .. m => n + 1 \in 1 .. m + 1 /\ \A j \in 1 .. m : j < n + 1 => j < n \/ j = n
  BY <1>2
<1> QED BY <1>1, <1>3

LEMMA InstallBounds == \A c \in Copies : c \notin {"none", "edited", "cut off"}
BY InstallAssumption

LEMMA OneMoreTyped ==
  ASSUME typed \in 0 .. MaxTyped, typed < MaxTyped, typed' = typed + 1
  PROVE  typed' \in 0 .. MaxTyped
<1>1. MaxTyped \in Nat
  BY InstallAssumption
<1> QED BY <1>1

LEMMA OneMoreEdit ==
  ASSUME fileEdits \in 0 .. MaxFileEdits, fileEdits < MaxFileEdits, fileEdits' = fileEdits + 1
  PROVE  fileEdits' \in 0 .. MaxFileEdits
<1>1. MaxFileEdits \in Nat
  BY InstallAssumption
<1> QED BY <1>1

LEMMA FirstBounds == 0 \in 0 .. MaxTyped /\ 0 \in 0 .. MaxFileEdits
<1>1. MaxTyped \in Nat /\ MaxFileEdits \in Nat
  BY InstallAssumption
<1> QED BY <1>1

LEMMA RunKinds ==
  /\ \A r \in Runs : r.verb = "install" => r \in RunEnters
  /\ \A r \in Runs : r.verb = "uninstall" => r \in RunLeaves
  /\ NoCommand.verb = "none"
BY DEF RunEnters, RunLeaves, NoCommand, Runs

LEMMA IdleRuns == NoCommand \in Runs
BY DEF Runs

LEMMA EnterFields ==
  ASSUME NEW r \in RunEnters
  PROVE  r.browser \in Browsers /\ r.copy \in Copies
BY DEF RunEnters

LEMMA LeaveFields ==
  ASSUME NEW r \in RunLeaves
  PROVE  r.verb = "uninstall" /\ r.browser \in Browsers /\ r.at \in 1 .. Len(Order) + 1
BY DEF RunLeaves

LEMMA MakesEnter ==
  ASSUME NEW b \in Browsers, NEW c \in Copies
  PROVE  [verb |-> "install", browser |-> b, copy |-> c, step |-> "launcher"] \in RunEnters
BY DEF RunEnters

LEMMA MakesLeave ==
  ASSUME NEW b \in Browsers, NEW c \in Copies, NEW p \in BOOLEAN
  PROVE  [verb |-> "uninstall", browser |-> b, copy |-> c, purge |-> p, step |-> "selected", at |-> 1] \in RunLeaves
BY OrderFacts DEF RunLeaves

LEMMA EnterStep ==
  ASSUME NEW r \in RunEnters
  PROVE  \E n \in RunEnters : n = [r EXCEPT !.step = "manifest"] /\ n.verb = "install" /\ n.step = "manifest"
<1>1. [r EXCEPT !.step = "manifest"] \in RunEnters /\ [r EXCEPT !.step = "manifest"].step = "manifest"
  BY DEF RunEnters
<1>2. PICK n : n = [r EXCEPT !.step = "manifest"]
  BY Zenon
<1>3. \A e \in RunEnters : e.verb = "install"
  BY DEF RunEnters
<1> QED BY <1>1, <1>2, <1>3

LEMMA LeaveStep ==
  ASSUME NEW r \in RunLeaves, NEW step \in {"selected", "scan", "launcher", "remove", "state"}
  PROVE  \E n \in RunLeaves : /\ n = [r EXCEPT !.step = step] /\ n.step = step
                           /\ n.verb = "uninstall" /\ n.at = r.at /\ n.browser = r.browser
<1>1. [r EXCEPT !.step = step] \in RunLeaves
  BY DEF RunLeaves
<1>2. [r EXCEPT !.step = step].step = step /\ [r EXCEPT !.step = step].at = r.at /\ [r EXCEPT !.step = step].browser = r.browser
  BY DEF RunLeaves
<1>3. PICK n : n = [r EXCEPT !.step = step]
  BY Zenon
<1> QED BY <1>1, <1>2, <1>3, LeaveFields

LEMMA LeaveGoesOn ==
  ASSUME NEW r \in RunLeaves, r.at \in 1 .. Len(Order)
  PROVE  \E n \in RunLeaves : /\ n = [r EXCEPT !.at = @ + 1] /\ n.step = r.step
                           /\ n.verb = "uninstall" /\ n.at = r.at + 1 /\ n.browser = r.browser
<1>1. [r EXCEPT !.at = @ + 1] \in RunLeaves
  BY OrderFacts DEF RunLeaves
<1>2. [r EXCEPT !.at = @ + 1].at = r.at + 1 /\ [r EXCEPT !.at = @ + 1].step = r.step /\ [r EXCEPT !.at = @ + 1].browser = r.browser
  BY DEF RunLeaves
<1>3. PICK n : n = [r EXCEPT !.at = @ + 1]
  BY Zenon
<1> QED BY <1>1, <1>2, <1>3, LeaveFields

LEMMA RunsTyped ==
  InstallTypeOK <=>
    /\ hostLauncher \in Copies \cup {"none", "edited", "cut off"}
    /\ manifests \in [Browsers -> ManifestKinds] /\ localState \in BOOLEAN
    /\ shellRuns \in [Shells -> Runs]
    /\ typed \in 0 .. MaxTyped /\ fileEdits \in 0 .. MaxFileEdits
BY DEF InstallTypeOK, Runs, RunEnters, RunLeaves

LEMMA InstallInitInv == InstallInit => InstallInv
<1> SUFFICES ASSUME InstallInit PROVE InstallInv
  OBVIOUS
<1>1. InstallTypeOK
  BY FirstBounds, RunsTyped DEF InstallInit, Runs, ManifestKinds
<1>2. ManifestHasItsLauncher
  BY DEF InstallInit, ManifestHasItsLauncher, Named
<1>3. ASSUME NEW s \in Shells PROVE CommandKnows(s)
  <2>1. shellRuns[s].verb = "none"
    BY RunKinds DEF InstallInit
  <2> QED BY <2>1 DEF CommandKnows, At
<1> QED BY <1>1, <1>2, <1>3 DEF InstallInv

\* The command in shell s takes a step after which it knows what it should.
LEMMA CommandStep ==
  ASSUME InstallInv, OneShell, NEW s \in Shells,
         NEW r \in Runs,
         shellRuns' = [shellRuns EXCEPT ![s] = r],
         hostLauncher' \in Copies \cup {"none", "edited", "cut off"},
         manifests' \in [Browsers -> ManifestKinds], localState' \in BOOLEAN,
         typed' \in 0 .. MaxTyped, fileEdits' \in 0 .. MaxFileEdits,
         ManifestHasItsLauncher', CommandKnows(s)'
  PROVE  InstallInv'
<1>1. InstallTypeOK'
  BY RunsTyped DEF InstallInv, InstallTypeOK, Runs, RunEnters, RunLeaves
<1>2. \A t \in Shells : t = s
  BY DEF OneShell
<1>3. \A t \in Shells : CommandKnows(t)'
  BY <1>2
<1> QED BY <1>1, <1>3 DEF InstallInv

LEMMA InstallStepInv == OneShell /\ InstallInv /\ [InstallNext]_installVars => InstallInv'
<1> SUFFICES ASSUME OneShell, InstallInv, [InstallNext]_installVars PROVE InstallInv'
  OBVIOUS
<1>0. /\ shellRuns \in [Shells -> Runs]
      /\ hostLauncher \in Copies \cup {"none", "edited", "cut off"}
      /\ manifests \in [Browsers -> ManifestKinds] /\ localState \in BOOLEAN
      /\ typed \in 0 .. MaxTyped /\ fileEdits \in 0 .. MaxFileEdits
      /\ ManifestHasItsLauncher /\ \A s \in Shells : CommandKnows(s)
  BY RunsTyped DEF InstallInv
<1>1. ASSUME NEW s \in Shells, TypesInstall(s) PROVE InstallInv'
  <2>1. PICK b \in Browsers, c \in Copies :
          Types(s, [verb |-> "install", browser |-> b, copy |-> c, step |-> "launcher"])
    BY <1>1 DEF TypesInstall
  <2>0. PICK r \in RunEnters :
          /\ r = [verb |-> "install", browser |-> b, copy |-> c, step |-> "launcher"]
          /\ r.verb = "install" /\ r.step = "launcher"
    BY MakesEnter
  <2>2. r \in Runs /\ shellRuns' = [shellRuns EXCEPT ![s] = r] /\ shellRuns'[s] = r
    BY <2>0, <2>1, <1>0 DEF Types, Runs
  <2>3. typed' \in 0 .. MaxTyped /\ UNCHANGED <<hostLauncher, manifests, localState, fileEdits>>
    BY <2>1, <1>0, OneMoreTyped DEF Types
  <2>4. CommandKnows(s)'
    BY <2>0, <2>2 DEF CommandKnows, At
  <2>5. ManifestHasItsLauncher'
    BY <2>3, <1>0 DEF ManifestHasItsLauncher
  <2> QED BY <2>2, <2>3, <2>4, <2>5, <1>0, CommandStep
<1>2. ASSUME NEW s \in Shells, TypesUninstall(s) PROVE InstallInv'
  <2>1. PICK b \in Browsers, c \in Copies, purge \in BOOLEAN :
          Types(s, [verb |-> "uninstall", browser |-> b, copy |-> c, purge |-> purge,
                    step |-> "selected", at |-> 1])
    BY <1>2 DEF TypesUninstall
  <2>0. PICK r \in RunLeaves :
          /\ r = [verb |-> "uninstall", browser |-> b, copy |-> c, purge |-> purge,
                  step |-> "selected", at |-> 1]
          /\ r.verb = "uninstall" /\ r.step = "selected" /\ r.at = 1
    BY MakesLeave
  <2>2. r \in Runs /\ shellRuns' = [shellRuns EXCEPT ![s] = r] /\ shellRuns'[s] = r
    BY <2>0, <2>1, <1>0 DEF Types, Runs
  <2>3. typed' \in 0 .. MaxTyped /\ UNCHANGED <<hostLauncher, manifests, localState, fileEdits>>
    BY <2>1, <1>0, OneMoreTyped DEF Types
  <2>4. CommandKnows(s)'
    BY <2>0, <2>2 DEF CommandKnows, At
  <2>5. ManifestHasItsLauncher'
    BY <2>3, <1>0 DEF ManifestHasItsLauncher
  <2> QED BY <2>2, <2>3, <2>4, <2>5, <1>0, CommandStep
<1>3. ASSUME NEW s \in Shells, WritesLauncher(s) PROVE InstallInv'
  <2>2. shellRuns[s] \in RunEnters
    BY <1>3, <1>0, RunKinds DEF WritesLauncher, At
  <2>1. PICK r \in RunEnters : r = [shellRuns[s] EXCEPT !.step = "manifest"] /\ r.verb = "install" /\ r.step = "manifest"
    BY <2>2, EnterStep
  <2>3. r \in Runs /\ r.verb = "install" /\ r.step = "manifest"
    BY <2>1 DEF Runs
  <2>4. shellRuns' = [shellRuns EXCEPT ![s] = r] /\ shellRuns'[s] = r
    BY <2>1, <1>3, <1>0 DEF WritesLauncher, GoesTo
  <2>5. hostLauncher' \in Copies /\ UNCHANGED <<manifests, localState, typed, fileEdits>>
    BY <1>3, <2>2, EnterFields DEF WritesLauncher
  <2>6. CommandKnows(s)'
    BY <2>3, <2>4, <2>5, InstallBounds DEF CommandKnows, At
  <2>7. ManifestHasItsLauncher'
    BY <2>5, InstallBounds DEF ManifestHasItsLauncher
  <2> QED BY <2>3, <2>4, <2>5, <2>6, <2>7, <1>0, CommandStep
<1>4. ASSUME NEW s \in Shells, WritesManifest(s) PROVE InstallInv'
  BY <1>4, <1>0, RunKinds, EnterFields, IdleRuns, CommandStep DEF WritesManifest, CommandKnows, At,
     Finishes, ManifestKinds, ManifestHasItsLauncher
<1>5. \A s \in Shells : shellRuns[s].verb = "uninstall" => shellRuns[s] \in RunLeaves
  BY <1>0, RunKinds
\* An uninstall goes on to a step at which it knows no more than it did.
<1>6. ASSUME NEW s \in Shells, shellRuns[s].verb = "uninstall",
             GoesTo(s, "state"), UNCHANGED <<manifests, localState, typed, fileEdits>>,
             hostLauncher' \in {hostLauncher, "none"}, ManifestHasItsLauncher'
      PROVE  InstallInv'
  <2>1. PICK r \in RunLeaves : /\ r = [shellRuns[s] EXCEPT !.step = "state"] /\ r.step = "state"
                            /\ r.verb = "uninstall" /\ r.at = shellRuns[s].at /\ r.browser = shellRuns[s].browser
    BY <1>5, <1>6, LeaveStep
  <2>2. r \in Runs /\ r.verb = "uninstall" /\ r.step = "state"
    BY <2>1 DEF Runs
  <2>3. shellRuns' = [shellRuns EXCEPT ![s] = r] /\ shellRuns'[s] = r
    BY <2>1, <1>6, <1>0 DEF GoesTo
  <2>4. CommandKnows(s)'
    BY <2>2, <2>3 DEF CommandKnows, At
  <2> QED BY <2>2, <2>3, <2>4, <1>0, <1>6, CommandStep
<1>7. ASSUME NEW s \in Shells, Finishes(s), UNCHANGED <<typed, fileEdits>>,
             hostLauncher' \in {hostLauncher, "none", "cut off"}, ManifestHasItsLauncher',
             manifests' \in [Browsers -> ManifestKinds], localState' \in BOOLEAN
      PROVE  InstallInv'
  BY <1>7, <1>0, RunKinds, IdleRuns, CommandStep DEF Finishes, CommandKnows, At
<1>8. ASSUME NEW s \in Shells, RemovesManifest(s) PROVE InstallInv'
  <2> DEFINE b == shellRuns[s].browser
  <2>1. shellRuns[s] \in RunLeaves /\ shellRuns[s].at = 1 /\ b \in Browsers
    BY <1>8, <1>5, <1>0, LeaveFields DEF RemovesManifest, At, CommandKnows
  <2>2. CASE manifests[b] \in {"malformed", "foreign"}
    BY <2>2, <1>8, <1>7, <1>0 DEF RemovesManifest, ManifestHasItsLauncher
  <2>3. CASE ~(manifests[b] \in {"malformed", "foreign"})
    <3>1. PICK r \in RunLeaves : /\ r = [shellRuns[s] EXCEPT !.step = "scan"] /\ r.step = "scan"
                              /\ r.verb = "uninstall" /\ r.at = shellRuns[s].at /\ r.browser = b
      BY <2>1, LeaveStep
    <3>2. r \in Runs /\ r.verb = "uninstall" /\ r.step = "scan" /\ r.at = 1 /\ r.browser = b
      BY <2>1, <3>1 DEF Runs
    <3>3. /\ shellRuns' = [shellRuns EXCEPT ![s] = r] /\ shellRuns'[s] = r
          /\ manifests' = [manifests EXCEPT ![b] = "none"]
          /\ UNCHANGED <<hostLauncher, localState, typed, fileEdits>>
      BY <2>3, <1>8, <3>1, <1>0 DEF RemovesManifest, GoesTo
    <3>4. manifests' \in [Browsers -> ManifestKinds] /\ manifests'[b] = "none"
      BY <2>1, <3>3, <1>0 DEF ManifestKinds
    <3>5. \A o \in Browsers : Named(manifests'[o]) => Named(manifests[o])
      BY <2>1, <3>3, <1>0 DEF Named
    <3>6. ManifestHasItsLauncher'
      BY <3>3, <3>5, <1>0 DEF ManifestHasItsLauncher
    <3>7. CommandKnows(s)'
      BY <3>2, <3>3, <3>4, LeaveFields, <3>1, ScanBounds DEF Named, CommandKnows, At
    <3> QED BY <3>2, <3>3, <3>4, <3>6, <3>7, <1>0, CommandStep
  <2> QED BY <2>2, <2>3
<1>9. ASSUME NEW s \in Shells, Scans(s) PROVE InstallInv'
  <2>1. PICK c : c = shellRuns[s]
    OBVIOUS
  <2>2. /\ c \in RunLeaves /\ c.step = "scan" /\ ~Named(manifests[c.browser])
        /\ c.at \in 1 .. Len(Order) + 1
        /\ \A j \in 1 .. Len(Order) : j < c.at => ~Named(manifests[Order[j]])
    BY <2>1, <1>9, <1>5, <1>0, LeaveFields DEF Scans, At, CommandKnows
  <2>3. UNCHANGED <<hostLauncher, manifests, localState, typed, fileEdits>>
    BY <1>9 DEF Scans
  <2>4. ManifestHasItsLauncher'
    BY <2>3, <1>0 DEF ManifestHasItsLauncher
  <2>5. CASE c.at > Len(Order)
    <3>1. PICK r \in RunLeaves : /\ r = [c EXCEPT !.step = "launcher"] /\ r.step = "launcher"
                              /\ r.verb = "uninstall" /\ r.at = c.at /\ r.browser = c.browser
      BY <2>2, LeaveStep
    <3>2. r \in Runs /\ r.verb = "uninstall" /\ r.step = "launcher" /\ r.browser = c.browser
      BY <3>1 DEF Runs
    <3>3. shellRuns' = [shellRuns EXCEPT ![s] = r] /\ shellRuns'[s] = r
      BY <1>9, <2>1, <2>5, <3>1, <1>0 DEF Scans, GoesTo
    <3>4. \A b \in Browsers : ~Named(manifests[b])
      BY <2>2, <2>5, ScanBounds, OrderFacts
    <3>5. CommandKnows(s)'
      BY <2>2, <2>3, <3>2, <3>3, <3>4 DEF CommandKnows, At
    <3> QED BY <2>3, <2>4, <3>2, <3>3, <3>5, <1>0, CommandStep
  <2>6. CASE ~(c.at > Len(Order)) /\ Order[c.at] # c.browser /\ NeedsLauncher(manifests[Order[c.at]])
    BY <1>6, <1>9, <2>1, <2>2, <2>3, <2>4, <2>6, LeaveFields DEF Scans
  <2>7. CASE ~(c.at > Len(Order)) /\ ~(Order[c.at] # c.browser /\ NeedsLauncher(manifests[Order[c.at]]))
    <3>0. c.at \in 1 .. Len(Order)
      BY <2>2, <2>7, ScanBounds
    <3>1. PICK r \in RunLeaves : /\ r = [c EXCEPT !.at = @ + 1] /\ r.step = c.step
                              /\ r.verb = "uninstall" /\ r.at = c.at + 1 /\ r.browser = c.browser
      BY <2>2, <3>0, LeaveGoesOn
    <3>2. r \in Runs /\ r.verb = "uninstall" /\ r.step = "scan" /\ r.browser = c.browser
          /\ r.at = c.at + 1
      BY <2>2, <3>1 DEF Runs
    <3>3. shellRuns' = [shellRuns EXCEPT ![s] = r] /\ shellRuns'[s] = r
      BY <1>9, <2>1, <2>7, <3>1, <1>0 DEF Scans
    <3>4. ~Named(manifests[Order[c.at]])
      BY <2>2, <2>7, OrderFacts DEF NeedsLauncher
    <3>5. \A j \in 1 .. Len(Order) : j < r.at => ~Named(manifests[Order[j]])
      BY <2>2, <3>0, <3>2, ScanBounds, <3>4
    <3>6. r.at \in 1 .. Len(Order) + 1
      BY <2>2, <3>0, <3>2, ScanBounds
    <3>7. CommandKnows(s)'
      BY <2>2, <2>3, <3>2, <3>3, <3>5, <3>6 DEF CommandKnows, At
    <3> QED BY <2>3, <2>4, <3>2, <3>3, <3>7, <1>0, CommandStep
  <2> QED BY <2>5, <2>6, <2>7
<1>10. ASSUME NEW s \in Shells, ReadsLauncher(s) PROVE InstallInv'
  <2>1. PICK c : c = shellRuns[s]
    OBVIOUS
  <2>2. c \in RunLeaves /\ \A b \in Browsers : ~Named(manifests[b])
    BY <2>1, <1>10, <1>5, <1>0 DEF ReadsLauncher, At, CommandKnows
  <2>3. UNCHANGED <<hostLauncher, manifests, localState, typed, fileEdits>>
    BY <1>10 DEF ReadsLauncher
  <2>4. ManifestHasItsLauncher'
    BY <2>3, <1>0 DEF ManifestHasItsLauncher
  <2>5. CASE hostLauncher = c.copy
    <3>1. PICK r \in RunLeaves : /\ r = [c EXCEPT !.step = "remove"] /\ r.step = "remove"
                              /\ r.verb = "uninstall" /\ r.at = c.at /\ r.browser = c.browser
      BY <2>2, LeaveStep
    <3>2. r \in Runs /\ r.verb = "uninstall" /\ r.step = "remove" /\ r.browser \in Browsers
      BY <3>1, LeaveFields DEF Runs
    <3>3. shellRuns' = [shellRuns EXCEPT ![s] = r] /\ shellRuns'[s] = r
      BY <1>10, <2>1, <2>5, <3>1, <1>0 DEF ReadsLauncher, GoesTo
    <3>4. CommandKnows(s)'
      BY <2>2, <2>3, <3>2, <3>3 DEF CommandKnows, At
    <3> QED BY <2>3, <2>4, <3>2, <3>3, <3>4, <1>0, CommandStep
  <2>6. CASE hostLauncher # c.copy
    BY <1>6, <1>10, <2>1, <2>2, <2>3, <2>4, <2>6, LeaveFields DEF ReadsLauncher
  <2> QED BY <2>5, <2>6
<1>11. ASSUME NEW s \in Shells, RemovesLauncher(s) PROVE InstallInv'
  BY <1>11, <1>0, <1>6, <1>7 DEF RemovesLauncher, At, CommandKnows, ManifestHasItsLauncher
<1>12. ASSUME NEW s \in Shells, PurgesState(s) PROVE InstallInv'
  BY <1>12, <1>0, <1>7 DEF PurgesState, ManifestHasItsLauncher
<1>13. ASSUME NEW s \in Shells, Interrupted(s) PROVE InstallInv'
  BY <1>13, <1>0, <1>7 DEF Interrupted, ManifestKinds, Named, ManifestHasItsLauncher
<1>14. CASE CompanionSaves
  BY <1>14, <1>0 DEF CompanionSaves, InstallInv, InstallTypeOK, ManifestHasItsLauncher, CommandKnows, At
<1>15. CASE EditsFile
  <2>1. /\ hostLauncher' = hostLauncher \/ (hostLauncher # "none" /\ hostLauncher' = "edited")
        /\ fileEdits' \in 0 .. MaxFileEdits /\ UNCHANGED <<localState, shellRuns, typed>>
    BY <1>15, <1>0, OneMoreEdit DEF EditsFile
  <2>2. /\ manifests' \in [Browsers -> ManifestKinds]
        /\ \A b \in Browsers : Named(manifests'[b]) => Named(manifests[b])
    BY <1>15, <1>0 DEF EditsFile, ManifestKinds, Named
  <2>3. hostLauncher' \in Copies \cup {"none", "edited", "cut off"} /\ (hostLauncher # "none" => hostLauncher' # "none")
    BY <2>1, <1>0
  <2>4. InstallTypeOK'
    BY <2>1, <2>2, <2>3, <1>0 DEF InstallTypeOK, Runs, RunEnters, RunLeaves
  <2>5. ManifestHasItsLauncher'
    BY <2>2, <2>3, <1>0 DEF ManifestHasItsLauncher
  <2>6. ASSUME NEW s \in Shells PROVE CommandKnows(s)'
    <3> DEFINE c == shellRuns[s]
    <3>1. CommandKnows(s) /\ shellRuns'[s] = c /\ (c.verb = "uninstall" => c.browser \in Browsers)
      BY <1>0, <1>5, <2>1, LeaveFields
    <3>2. At(s, "install", "manifest")' => At(s, "install", "manifest")
      BY <3>1 DEF At
    <3>3. At(s, "install", "manifest")' => hostLauncher' # "none"
      BY <3>1, <3>2, <2>3 DEF CommandKnows
    <3>4. \A j \in 1 .. Len(Order) : ~Named(manifests[Order[j]]) => ~Named(manifests'[Order[j]])
      BY <2>2, OrderFacts
    <3> QED BY <2>2, <3>1, <3>3, <3>4 DEF CommandKnows
  <2> QED BY <2>4, <2>5, <2>6 DEF InstallInv
<1>16. CASE UNCHANGED installVars
  BY <1>16, <1>0 DEF installVars, InstallInv, InstallTypeOK, ManifestHasItsLauncher, CommandKnows, At
<1> QED BY <1>1, <1>2, <1>3, <1>4, <1>8, <1>9, <1>10, <1>11, <1>12, <1>13, <1>14, <1>15, <1>16 DEF InstallNext

\* For any browsers, copies and commands typed in one terminal, interrupted
\* anywhere and with the files edited meanwhile: a browser whose manifest names
\* the launcher finds it (native-install.ts).
THEOREM LaunchersAreKept ==
  ASSUME OneShell
  PROVE  InstallSpec => []ManifestHasItsLauncher
<1>1. InstallInv => ManifestHasItsLauncher
  BY DEF InstallInv
<1>2. InstallInv /\ [InstallNext]_installVars => InstallInv'
  BY InstallStepInv
<1> QED BY <1>1, <1>2, InstallInitInv, PTL DEF InstallSpec

LEMMA InstallTypesInit == InstallInit => InstallTypeOK
BY InstallInitInv DEF InstallInv

\* Commands in any number of terminals keep their types.
LEMMA InstallTypesStep == InstallTypeOK /\ [InstallNext]_installVars => InstallTypeOK'
<1> SUFFICES ASSUME InstallTypeOK, [InstallNext]_installVars PROVE InstallTypeOK'
  OBVIOUS
<1>0. /\ shellRuns \in [Shells -> Runs]
      /\ hostLauncher \in Copies \cup {"none", "edited", "cut off"}
      /\ manifests \in [Browsers -> ManifestKinds] /\ localState \in BOOLEAN
      /\ typed \in 0 .. MaxTyped /\ fileEdits \in 0 .. MaxFileEdits
  BY RunsTyped
<1>t. ASSUME /\ shellRuns' \in [Shells -> Runs]
             /\ hostLauncher' \in Copies \cup {"none", "edited", "cut off"}
             /\ manifests' \in [Browsers -> ManifestKinds] /\ localState' \in BOOLEAN
             /\ typed' \in 0 .. MaxTyped /\ fileEdits' \in 0 .. MaxFileEdits
      PROVE  InstallTypeOK'
  BY <1>t DEF InstallTypeOK, Runs, RunEnters, RunLeaves
<1>r. ASSUME NEW s \in Shells, NEW r \in Runs, shellRuns' = [shellRuns EXCEPT ![s] = r]
      PROVE  shellRuns' \in [Shells -> Runs]
  BY <1>0, <1>r
<1>e. RunEnters \subseteq Runs /\ RunLeaves \subseteq Runs /\ NoCommand \in Runs
  BY DEF Runs
<1>f. ASSUME NEW s \in Shells, Finishes(s) PROVE shellRuns' \in [Shells -> Runs]
  BY <1>e, <1>f, <1>r DEF Finishes
\* An uninstall goes on.
<1>g. ASSUME NEW s \in Shells, NEW step \in {"selected", "scan", "launcher", "remove", "state"},
             shellRuns[s].verb = "uninstall", GoesTo(s, step)
      PROVE  shellRuns' \in [Shells -> Runs]
  <2>1. shellRuns[s] \in RunLeaves
    BY <1>0, <1>g, RunKinds
  <2>2. PICK n \in RunLeaves : /\ n = [shellRuns[s] EXCEPT !.step = step] /\ n.step = step
                              /\ n.verb = "uninstall" /\ n.at = shellRuns[s].at /\ n.browser = shellRuns[s].browser
    BY <2>1, LeaveStep
  <2>3. shellRuns' = [shellRuns EXCEPT ![s] = n]
    BY <1>0, <1>g, <2>2 DEF GoesTo
  <2> QED BY <1>e, <1>r, <2>3
<1>1. ASSUME NEW s \in Shells, TypesInstall(s) PROVE InstallTypeOK'
  <2>1. PICK b \in Browsers, c \in Copies :
          Types(s, [verb |-> "install", browser |-> b, copy |-> c, step |-> "launcher"])
    BY <1>1 DEF TypesInstall
  <2>2. PICK r \in RunEnters : r = [verb |-> "install", browser |-> b, copy |-> c, step |-> "launcher"]
    BY MakesEnter
  <2>3. /\ shellRuns' = [shellRuns EXCEPT ![s] = r]
        /\ typed' \in 0 .. MaxTyped /\ UNCHANGED <<hostLauncher, manifests, localState, fileEdits>>
    BY <1>0, <2>1, <2>2, OneMoreTyped DEF Types
  <2> QED BY <1>0, <1>e, <1>r, <1>t, <2>3
<1>2. ASSUME NEW s \in Shells, TypesUninstall(s) PROVE InstallTypeOK'
  <2>1. PICK b \in Browsers, c \in Copies, purge \in BOOLEAN :
          Types(s, [verb |-> "uninstall", browser |-> b, copy |-> c, purge |-> purge,
                    step |-> "selected", at |-> 1])
    BY <1>2 DEF TypesUninstall
  <2>2. PICK r \in RunLeaves :
          r = [verb |-> "uninstall", browser |-> b, copy |-> c, purge |-> purge, step |-> "selected", at |-> 1]
    BY MakesLeave
  <2>3. /\ shellRuns' = [shellRuns EXCEPT ![s] = r]
        /\ typed' \in 0 .. MaxTyped /\ UNCHANGED <<hostLauncher, manifests, localState, fileEdits>>
    BY <1>0, <2>1, <2>2, OneMoreTyped DEF Types
  <2> QED BY <1>0, <1>e, <1>r, <1>t, <2>3
<1>3. ASSUME NEW s \in Shells, WritesLauncher(s) PROVE InstallTypeOK'
  <2>1. shellRuns[s] \in RunEnters
    BY <1>0, <1>3, RunKinds DEF WritesLauncher, At
  <2>2. PICK r \in RunEnters : r = [shellRuns[s] EXCEPT !.step = "manifest"]
    BY <2>1, EnterStep
  <2>3. /\ shellRuns' = [shellRuns EXCEPT ![s] = r] /\ hostLauncher' \in Copies
        /\ UNCHANGED <<manifests, localState, typed, fileEdits>>
    BY <1>0, <1>3, <2>1, <2>2, EnterFields DEF WritesLauncher, GoesTo
  <2> QED BY <1>0, <1>e, <1>r, <1>t, <2>3
<1>4. ASSUME NEW s \in Shells, WritesManifest(s) PROVE InstallTypeOK'
  BY <1>4, <1>0, <1>f, <1>t DEF WritesManifest, ManifestKinds
<1>5. ASSUME NEW s \in Shells, RemovesManifest(s) PROVE InstallTypeOK'
  BY <1>5, <1>0, <1>f, <1>g, <1>t DEF RemovesManifest, At, ManifestKinds
<1>6. ASSUME NEW s \in Shells, Scans(s) PROVE InstallTypeOK'
  <2>1. PICK c : c = shellRuns[s]
    OBVIOUS
  <2>2. c.verb = "uninstall" /\ UNCHANGED <<hostLauncher, manifests, localState, typed, fileEdits>>
    BY <1>6, <2>1 DEF Scans, At
  <2>3. c \in RunLeaves /\ c.at \in 1 .. Len(Order) + 1
    BY <1>0, <2>1, <2>2, RunKinds, LeaveFields
  <2>4. CASE GoesTo(s, "launcher") \/ GoesTo(s, "state")
    BY <1>0, <1>g, <1>t, <2>1, <2>2, <2>4
  <2>5. CASE ~(c.at > Len(Order)) /\ shellRuns' = [shellRuns EXCEPT ![s].at = @ + 1]
    <3>1. c.at \in 1 .. Len(Order)
      BY <2>3, <2>5, ScanBounds
    <3>2. PICK r \in RunLeaves : r = [c EXCEPT !.at = @ + 1]
      BY <2>3, <3>1, LeaveGoesOn
    <3>3. shellRuns' = [shellRuns EXCEPT ![s] = r]
      BY <1>0, <2>1, <2>5, <3>2
    <3> QED BY <1>0, <1>e, <1>r, <1>t, <2>2, <3>3
  <2> QED BY <1>6, <2>1, <2>4, <2>5 DEF Scans
<1>7. ASSUME NEW s \in Shells, ReadsLauncher(s) PROVE InstallTypeOK'
  BY <1>7, <1>0, <1>g, <1>t DEF ReadsLauncher, At
<1>8. ASSUME NEW s \in Shells, RemovesLauncher(s) PROVE InstallTypeOK'
  BY <1>8, <1>0, <1>f, <1>g, <1>t DEF RemovesLauncher, At
<1>9. ASSUME NEW s \in Shells, PurgesState(s) PROVE InstallTypeOK'
  BY <1>9, <1>0, <1>f, <1>t DEF PurgesState
<1>10. ASSUME NEW s \in Shells, Interrupted(s) PROVE InstallTypeOK'
  BY <1>10, <1>0, <1>f, <1>t DEF Interrupted, ManifestKinds
<1>11. CASE CompanionSaves
  BY <1>0, <1>11, <1>t DEF CompanionSaves
<1>12. CASE EditsFile
  BY <1>0, <1>12, OneMoreEdit, <1>t DEF EditsFile, ManifestKinds
<1>13. CASE UNCHANGED installVars
  BY <1>0, <1>13, <1>t DEF installVars
<1> QED BY <1>1, <1>2, <1>3, <1>4, <1>5, <1>6, <1>7, <1>8, <1>9, <1>10, <1>11, <1>12, <1>13 DEF InstallNext

=============================================================================
