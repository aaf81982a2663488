-------------------------- MODULE AgentLoopsProofs ---------------------------
(***************************************************************************)
(* However many agents there are and however long their steps take, the    *)
(* deadlines of the loops stay on their grid and are not missed by more    *)
(* than one overrun; in a simulation nothing runs late, and the two loops  *)
(* of an agent keep pace to a control step, however their ties fall.       *)
(***************************************************************************)
EXTENDS AgentLoops, FiniteSetTheorems, WellFoundedInduction, TLAPS

-----------------------------------------------------------------------------
(* Induction over the naturals, for a set.                                 *)

Below == {ss \in Nat \X Nat : ss[1] < ss[2]}

LEMMA LeastNumber ==
  ASSUME NEW T \in SUBSET Nat, T # {}
  PROVE  \E n \in T : \A m \in T : n <= m
<1>1. IsWellFoundedOn(Below, Nat)
  BY NatLessThanWellFounded DEF OpToRel, Below
<1>2. PICK x \in T : \A y \in T : ~ (<<y, x>> \in Below)
  BY <1>1, WFMin
<1>3. ASSUME NEW y \in T, y < x PROVE FALSE
  <2>1. <<y, x>> \in Nat \X Nat
    OBVIOUS
  <2>2. <<y, x>> \in Below
    BY <1>3, <2>1 DEF Below
  <2> QED BY <2>2, <1>2
<1> QED BY <1>2, <1>3

LEMMA SetInduction ==
  ASSUME NEW S, 0 \in S, \A n \in Nat : n \in S => n + 1 \in S
  PROVE  Nat \subseteq S
<1> DEFINE T == Nat \ S
<1>1. SUFFICES ASSUME T # {} PROVE FALSE
  OBVIOUS
<1>2. PICK n \in T : \A m \in T : n <= m
  BY <1>1, LeastNumber
<1>3. n # 0 /\ n - 1 \in Nat /\ n - 1 \notin T
  BY <1>2
<1> QED BY <1>2, <1>3

\* One of finitely many integers is the least.
LEMMA LeastOf ==
  ASSUME NEW n \in Nat, n > 0, NEW f \in [1 .. n -> Int]
  PROVE  \E i \in 1 .. n : \A j \in 1 .. n : f[i] <= f[j]
<1> DEFINE S == {k \in Nat : k = 0 \/ k > n \/
                   \E i \in 1 .. k : \A j \in 1 .. k : f[i] <= f[j]}
<1>1. 0 \in S
  OBVIOUS
<1>2. ASSUME NEW k \in Nat, k \in S PROVE k + 1 \in S
  <2>1. CASE k + 1 > n
    BY <2>1
  <2>2. CASE k + 1 <= n /\ k = 0
    <3>1. \A j \in 1 .. 1 : f[1] <= f[j]
      BY <2>2
    <3> QED BY <2>2, <3>1
  <2>3. CASE k + 1 <= n /\ k # 0
    <3>1. PICK i \in 1 .. k : \A j \in 1 .. k : f[i] <= f[j]
      BY <1>2, <2>3
    <3>2. f[i] \in Int /\ f[k + 1] \in Int
      BY <2>3
    <3>3. CASE f[i] <= f[k + 1]
      <4>1. \A j \in 1 .. k + 1 : f[i] <= f[j]
        BY <3>1, <3>3
      <4> QED BY <4>1
    <3>4. CASE f[k + 1] < f[i]
      <4>1. \A j \in 1 .. k + 1 : f[k + 1] <= f[j]
        <5>1. TAKE j \in 1 .. k + 1
        <5>2. f[j] \in Int
          BY <2>3
        <5> QED BY <3>1, <3>2, <3>4, <5>2
      <4>2. k + 1 \in 1 .. k + 1
        OBVIOUS
      <4> QED BY <4>1, <4>2
    <3> QED BY <3>2, <3>3, <3>4
  <2> QED BY <2>1, <2>2, <2>3
<1>3. Nat \subseteq S
  <2> HIDE DEF S
  <2> QED BY <1>1, <1>2, SetInduction
<1>4. n \in S
  BY <1>3
<1>5. PICK i \in 1 .. n : \A j \in 1 .. n : f[i] <= f[j]
  BY <1>4
<1> QED BY <1>5

\* A function can be defined step by step.
LEMMA StepByStep ==
  ASSUME NEW V, NEW c \in V, NEW n \in Nat, NEW step \in [V \X (1 .. n) -> V]
  PROVE  \E g \in [0 .. n -> V] : g[0] = c /\ \A i \in 1 .. n : g[i] = step[<<g[i - 1], i>>]
<1> DEFINE Upto(g, m) == g[0] = c /\ \A i \in 1 .. m : g[i] = step[<<g[i - 1], i>>]
           S == {m \in Nat : m <= n => \E g \in [0 .. m -> V] : Upto(g, m)}
<1>1. 0 \in S
  <2>1. [i \in 0 .. 0 |-> c] \in [0 .. 0 -> V] /\ Upto([i \in 0 .. 0 |-> c], 0)
    OBVIOUS
  <2> QED BY <2>1
<1>2. ASSUME NEW m \in Nat, m \in S PROVE m + 1 \in S
  <2>1. CASE m + 1 > n
    BY <2>1
  <2>2. CASE m + 1 <= n
    <3>1. PICK g \in [0 .. m -> V] : Upto(g, m)
      BY <1>2, <2>2
    <3> DEFINE h == [i \in 0 .. m + 1 |-> IF i = m + 1 THEN step[<<g[m], m + 1>>] ELSE g[i]]
    <3>2. g[m] \in V /\ m + 1 \in 1 .. n
      BY <3>1, <2>2
    <3>3. step[<<g[m], m + 1>>] \in V
      BY <3>2
    <3>4. h \in [0 .. m + 1 -> V]
      BY <3>1, <3>3
    <3>5. h[m + 1] = step[<<g[m], m + 1>>] /\ \A i \in 0 .. m : h[i] = g[i]
      OBVIOUS
    <3> HIDE DEF h
    <3>6. Upto(h, m + 1)
      <4>1. h[0] = c
        BY <3>1, <3>5
      <4>2. ASSUME NEW i \in 1 .. m + 1 PROVE h[i] = step[<<h[i - 1], i>>]
        <5>1. CASE i = m + 1
          <6>1. m \in 0 .. m /\ i - 1 = m
            BY <5>1
          <6> QED BY <3>5, <5>1, <6>1
        <5>2. CASE i \in 1 .. m
          <6>1. i \in 0 .. m /\ i - 1 \in 0 .. m
            BY <5>2
          <6> QED BY <3>1, <3>5, <5>2, <6>1
        <5> QED BY <5>1, <5>2
      <4> QED BY <4>1, <4>2
    <3>7. \E k \in [0 .. m + 1 -> V] : Upto(k, m + 1)
      BY <3>4, <3>6
    <3> QED BY <3>7
  <2> QED BY <2>1, <2>2
<1>3. Nat \subseteq S
  <2> HIDE DEF S
  <2> QED BY <1>1, <1>2, SetInduction
<1>4. n \in S
  BY <1>3
<1> QED BY <1>4

-----------------------------------------------------------------------------
(* Periods and deadlines.                                                  *)

IsLoop(task) == task.kind \in {"control", "publish"}

LEMMA PeriodType ==
  ASSUME NEW l, IsLoop(l)
  PROVE  /\ Period(l) \in Nat /\ Period(l) > 0
         /\ Floor(l) \in Nat /\ Floor(l) > 0 /\ Floor(l) <= Period(l)
         /\ \E q \in Nat : q > 0 /\ Period(l) = q * Dt
<1>1. Dt \in Nat /\ Dt > 0 /\ Dt % 10 = 0 /\ Every \in Nat /\ Every > 0
  BY LoopsAssumption
<1>2. Dt >= 10
  BY <1>1
<1>3. Every * Dt \in Nat /\ Every * Dt >= Dt
  BY <1>1
<1>4. Period(l) \in Nat /\ Period(l) >= 10
  BY <1>1, <1>2, <1>3 DEF Period
<1>5. Floor(l) \in Nat /\ Floor(l) > 0 /\ Floor(l) <= Period(l)
  BY <1>4 DEF Floor
<1>6. \E q \in Nat : q > 0 /\ Period(l) = q * Dt
  <2>1. CASE l.kind = "control"
    BY <2>1, <1>1 DEF Period
  <2>2. CASE l.kind # "control"
    BY <2>2, <1>1 DEF Period
  <2> QED BY <2>1, <2>2
<1> QED BY <1>4, <1>5, <1>6

LEMMA DivFacts ==
  ASSUME NEW x \in Nat, NEW d \in Nat, d > 0
  PROVE  x = d * (x \div d) + (x % d) /\ (x % d) \in 0 .. d - 1 /\ x \div d \in Nat
OBVIOUS

LEMMA Multiples ==
  ASSUME NEW x \in Int, NEW d \in Nat, d > 0
  PROVE  x % d = 0 <=> \E q \in Int : x = q * d
<1>1. x = d * (x \div d) + (x % d) /\ x \div d \in Int /\ x % d \in 0 .. d - 1
  OBVIOUS
<1>2. ASSUME x % d = 0 PROVE \E q \in Int : x = q * d
  BY <1>1, <1>2
<1>3. ASSUME NEW q \in Int, x = q * d PROVE x % d = 0
  <2> DEFINE k == x \div d  r == x % d
  <2>1. (q - k) * d = r /\ r \in 0 .. d - 1 /\ q - k \in Int
    BY <1>1, <1>3
  <2>2. q - k = 0
    <3>1. CASE q - k >= 1
      <4>1. (q - k) * d >= d
        BY <3>1, <2>1
      <4> QED BY <4>1, <2>1
    <3>2. CASE q - k <= -1
      <4>1. (q - k) * d <= -d
        BY <3>2, <2>1
      <4> QED BY <4>1, <2>1
    <3> QED BY <3>1, <3>2, <2>1
  <2> QED BY <2>1, <2>2
<1> QED BY <1>2, <1>3

LEMMA AddMultiple ==
  ASSUME NEW x \in Int, NEW d \in Nat, d > 0, NEW q \in Int, x % d = 0
  PROVE  (x + q * d) % d = 0 /\ (x - q * d) % d = 0
<1>1. PICK p \in Int : x = p * d
  BY Multiples
<1>2. x + q * d = (p + q) * d /\ x - q * d = (p - q) * d
  BY <1>1
<1>3. x + q * d \in Int /\ x - q * d \in Int /\ p + q \in Int /\ p - q \in Int
  OBVIOUS
<1> QED BY <1>2, <1>3, Multiples

-----------------------------------------------------------------------------
(* The inductive invariant.                                                *)

Control(a) == Loop(a, "control")
Publish(a) == Loop(a, "publish")

Task == [kind : {"control", "publish", "send", "carry", "deliver"},
         agent : Nodes, age : Nat]

Queues ==
  /\ clock \in {"wall", "virtual"} /\ inTick \in BOOLEAN
  /\ ready \in Seq(Task)
  /\ sleepers \in Seq([task : Task, at : Int])
  /\ \A i \in DOMAIN ready : IsLoop(ready[i]) => ready[i] \in Loops
  /\ \A i \in DOMAIN sleepers : IsLoop(sleepers[i].task) => sleepers[i].task \in Loops

\* Every loop is in one place: about to run, or asleep.
OnePlace ==
  /\ \A i, j \in DOMAIN ready : IsLoop(ready[i]) /\ ready[i] = ready[j] => i = j
  /\ \A i, j \in DOMAIN sleepers :
       IsLoop(sleepers[i].task) /\ sleepers[i].task = sleepers[j].task => i = j
  /\ \A i \in DOMAIN ready, j \in DOMAIN sleepers :
       IsLoop(ready[i]) => ready[i] # sleepers[j].task
  /\ \A l \in Loops : \/ \E i \in DOMAIN ready : ready[i] = l
                      \/ \E j \in DOMAIN sleepers : sleepers[j].task = l

\* In a simulation a loop sleeps until its deadline, a period at most, and a
\* packet for what is left of its delay.
Punctual ==
  clock = "virtual" =>
    /\ \A l \in Loops : due[l] \in 0 .. Period(l)
    /\ \A i \in DOMAIN sleepers :
         LET task == sleepers[i].task
         IN  /\ sleepers[i].at >= 0
             /\ IF IsLoop(task) THEN sleepers[i].at = due[task]
                ELSE task.kind = "deliver" /\ task.age + sleepers[i].at = Delay
    /\ NothingRunsLate

\* On a node one of two loops runs while the other is asleep, or first.  A sleep
\* ends late by a body of the other and a late wake-up, and is longer than was
\* left by what the shortest sleep adds.
Lag(l) == LongestStep + Floor(l) + Jitter
Tardy ==
  clock = "wall" =>
    /\ \A i \in DOMAIN ready : ready[i].kind # "carry"
    /\ \A i \in DOMAIN ready : IsLoop(ready[i]) =>
         /\ due[ready[i]] >= -(Lag(ready[i]) + LongestStep)
         /\ \A k \in 1 .. i - 1 : IsLoop(ready[k]) => due[ready[i]] >= -Lag(ready[i])
    /\ \A i \in DOMAIN sleepers :
         /\ IsLoop(sleepers[i].task)
         /\ sleepers[i].at - due[sleepers[i].task] <= Floor(sleepers[i].task) + LongestStep
         /\ sleepers[i].at >= -LongestStep
         /\ \A j \in DOMAIN sleepers : i # j => sleepers[i].at >= 0 \/ sleepers[j].at >= 0
         /\ (\E k \in DOMAIN ready : IsLoop(ready[k])) => sleepers[i].at >= 0

\* How far the publish loop of an agent is from its deadline is what is missing
\* to a whole publish period, in control steps.
Spaced ==
  clock = "virtual" /\ ~inTick =>
    \A a \in Nodes :
      ticks[a] * Dt + due[Publish(a)] - due[Control(a)] = Every * Dt - Dt

\* A law that publishes in its tick has done less than a publish period of steps.
Counted == inTick => \A a \in Nodes : ticks[a] \in 0 .. Every - 1

LoopsIInv == Queues /\ TypeOK /\ OnePlace /\ DeadlinesKeepPhase /\ Punctual /\ Tardy /\ Spaced
             /\ Counted

-----------------------------------------------------------------------------
(* The sleepers in order.                                                  *)

LEMMA InOrderFacts ==
  ASSUME NEW n \in Nat, n = Len(sleepers), NEW S \in SUBSET (1 .. n)
  PROVE  /\ InOrder(S) \in Seq(S)
         /\ \A i, j \in DOMAIN InOrder(S) : i < j => InOrder(S)[i] < InOrder(S)[j]
         /\ \A x \in S : \E i \in DOMAIN InOrder(S) : InOrder(S)[i] = x
<1> DEFINE among[i \in 0 .. n] ==
             IF i = 0 THEN <<>>
             ELSE IF i \in S THEN Append(among[i - 1], i) ELSE among[i - 1]
<1>1. InOrder(S) = among[n]
  BY DEF InOrder
<1>2. among = [i \in 0 .. n |-> IF i = 0 THEN <<>>
                ELSE IF i \in S THEN Append(among[i - 1], i) ELSE among[i - 1]]
  <2> DEFINE step == [x \in Seq(Nat) \X (1 .. n) |->
                        IF x[2] \in S THEN Append(x[1], x[2]) ELSE x[1]]
  <2>1. step \in [Seq(Nat) \X (1 .. n) -> Seq(Nat)] /\ <<>> \in Seq(Nat)
    OBVIOUS
  <2>2. PICK g \in [0 .. n -> Seq(Nat)] :
          g[0] = <<>> /\ \A i \in 1 .. n : g[i] = step[<<g[i - 1], i>>]
    <3> HIDE DEF step
    <3> DEFINE V == Seq(Nat)
               c == <<>>
    <3>1. c \in V /\ step \in [V \X (1 .. n) -> V]
      BY <2>1
    <3> HIDE DEF V, c
    <3>2. \E g \in [0 .. n -> V] : g[0] = c /\ \A i \in 1 .. n : g[i] = step[<<g[i - 1], i>>]
      BY <3>1, StepByStep, SMTT(60)
    <3> QED BY <3>2 DEF V, c
  <2>3. ASSUME NEW i \in 1 .. n
        PROVE  g[i] = IF i \in S THEN Append(g[i - 1], i) ELSE g[i - 1]
    <3>1. g[i - 1] \in Seq(Nat)
      OBVIOUS
    <3>2. <<g[i - 1], i>> \in Seq(Nat) \X (1 .. n)
      BY <3>1
    <3> QED BY <2>2, <3>2
  <2>4. g = [i \in 0 .. n |-> IF i = 0 THEN <<>>
                ELSE IF i \in S THEN Append(g[i - 1], i) ELSE g[i - 1]]
    <3>1. \A i \in 0 .. n : i = 0 \/ i \in 1 .. n
      OBVIOUS
    <3> QED BY <2>2, <2>3, <3>1
  <2> QED BY <2>4, Zenon DEF among
<1> HIDE DEF among
<1> DEFINE Good(m) ==
             /\ among[m] \in Seq(S \cap (1 .. m))
             /\ \A i, j \in DOMAIN among[m] : i < j => among[m][i] < among[m][j]
             /\ \A x \in S \cap (1 .. m) : \E i \in DOMAIN among[m] : among[m][i] = x
           T == {m \in Nat : m <= n => Good(m)}
<1>3. 0 \in T
  <2>1. among[0] = <<>>
    BY <1>2
  <2>2. Good(0)
    BY <2>1
  <2> QED BY <2>2
<1>4. ASSUME NEW m \in Nat, m \in T PROVE m + 1 \in T
  <2>1. CASE m + 1 > n
    BY <2>1
  <2>2. CASE m + 1 <= n /\ m + 1 \notin S
    <3>1. among[m + 1] = among[m]
      <4>1. m + 1 \in 0 .. n /\ m + 1 # 0 /\ (m + 1) - 1 = m
        BY <2>2
      <4> QED BY <1>2, <2>2, <4>1
    <3>2. S \cap (1 .. m + 1) = S \cap (1 .. m)
      BY <2>2
    <3>3. Good(m)
      BY <1>4, <2>2
    <3>4. Good(m + 1)
      BY <3>1, <3>2, <3>3
    <3> HIDE DEF Good
    <3> QED BY <3>4
  <2>3. CASE m + 1 <= n /\ m + 1 \in S
    <3> DEFINE s == among[m]
    <3>1. among[m + 1] = Append(s, m + 1)
      BY <1>2, <2>3, SMTT(30)
    <3>2. Good(m)
      BY <1>4, <2>3
    <3> HIDE DEF s
    <3>3. /\ s \in Seq(S \cap (1 .. m))
          /\ \A i, j \in DOMAIN s : i < j => s[i] < s[j]
          /\ \A x \in S \cap (1 .. m) : \E i \in DOMAIN s : s[i] = x
      BY <3>2 DEF s
    <3> DEFINE t == Append(s, m + 1)
    <3>4. /\ t \in Seq(S \cap (1 .. m + 1)) /\ Len(t) = Len(s) + 1
          /\ Len(s) \in Nat /\ DOMAIN t = 1 .. Len(s) + 1 /\ DOMAIN s = 1 .. Len(s)
          /\ \A i \in DOMAIN s : t[i] = s[i] /\ s[i] \in 1 .. m
          /\ t[Len(s) + 1] = m + 1
      <4>1. s \in Seq(S \cap (1 .. m + 1)) /\ m + 1 \in S \cap (1 .. m + 1)
        BY <3>3, <2>3
      <4> QED BY <3>3, <4>1
    <3> HIDE DEF t
    <3>5. \A i, j \in DOMAIN t : i < j => t[i] < t[j]
      <4>1. TAKE i, j \in DOMAIN t
      <4>2. HAVE i < j
      <4>3. i \in DOMAIN s
        BY <3>4, <4>2
      <4>4. CASE j \in DOMAIN s
        BY <4>2, <4>3, <4>4, <3>3, <3>4
      <4>5. CASE j = Len(s) + 1
        BY <4>3, <4>5, <3>4
      <4> QED BY <4>4, <4>5, <3>4
    <3>6. \A x \in S \cap (1 .. m + 1) : \E i \in DOMAIN t : t[i] = x
      <4>1. TAKE x \in S \cap (1 .. m + 1)
      <4>2. CASE x = m + 1
        BY <4>2, <3>4
      <4>3. CASE x # m + 1
        <5>1. PICK i \in DOMAIN s : s[i] = x
          BY <4>3, <3>3
        <5> QED BY <5>1, <3>4
      <4> QED BY <4>2, <4>3
    <3>7. Good(m + 1)
      <4>1. among[m + 1] = t
        BY <3>1 DEF t
      <4> QED BY <3>4, <3>5, <3>6, <4>1
    <3> HIDE DEF Good, s, t
    <3> QED BY <3>7
  <2> QED BY <2>1, <2>2, <2>3
<1>5. Nat \subseteq T
  <2> HIDE DEF T
  <2> QED BY <1>3, <1>4, SetInduction
<1>6. Good(n)
  <2>1. n \in T
    BY <1>5
  <2> QED BY <2>1
<1>7. S \cap (1 .. n) = S
  OBVIOUS
<1> QED BY <1>1, <1>6, <1>7, SMTT(30)

\* Every order of a set has each of its members once.
LEMMA OrderFacts ==
  ASSUME NEW S, IsFiniteSet(S), NEW o \in SetToSeqs(S)
  PROVE  /\ o \in Seq(S)
         /\ \A i, j \in DOMAIN o : i # j => o[i] # o[j]
         /\ \A x \in S : \E i \in DOMAIN o : o[i] = x
<1> DEFINE n == Cardinality(S)
<1>1. n \in Nat
  BY FS_CardinalityType
<1>2. o \in [1 .. n -> S] /\ \A i, j \in 1 .. n : i # j => o[i] # o[j]
  BY DEF SetToSeqs
<1>3. o \in Seq(S) /\ DOMAIN o = 1 .. n
  BY <1>1, <1>2
<1>4. ASSUME NEW x \in S, \A i \in DOMAIN o : o[i] # x PROVE FALSE
  <2> DEFINE T == S \ {x}
  <2>1. IsFiniteSet(T) /\ Cardinality(T) = n - 1
    BY FS_RemoveElement
  <2>2. IsFiniteSet(1 .. n) /\ Cardinality(1 .. n) = n
    BY <1>1, FS_Interval
  <2>3. o \in [1 .. n -> T]
    BY <1>2, <1>3, <1>4
  <2>4. \E i, j \in 1 .. n : i # j /\ o[i] = o[j]
    <3> HIDE DEF T, n
    <3>1. Cardinality(T) < Cardinality(1 .. n)
      BY <1>1, <2>1, <2>2
    <3> QED BY <2>1, <2>2, <2>3, <3>1, FS_PigeonHole
  <2> QED BY <1>2, <2>4
<1> QED BY <1>2, <1>3, <1>4

LEMMA MaxOfTwo ==
  ASSUME NEW a \in Int, NEW b \in Int
  PROVE  Max({a, b}) = IF a >= b THEN a ELSE b
<1>1. \E x \in {a, b} : \A y \in {a, b} : x >= y
  BY Z3
<1>2. Max({a, b}) \in {a, b} /\ \A y \in {a, b} : Max({a, b}) >= y
  BY <1>1 DEF Max
<1> QED BY <1>2

LEMMA MinOfTwo ==
  ASSUME NEW a \in Int, NEW b \in Int
  PROVE  Min({a, b}) = IF a <= b THEN a ELSE b
<1>1. \E x \in {a, b} : \A y \in {a, b} : x <= y
  BY Z3
<1>2. Min({a, b}) \in {a, b} /\ \A y \in {a, b} : Min({a, b}) <= y
  BY <1>1 DEF Min
<1> QED BY <1>2

LEMMA LongestStepFacts ==
  LongestStep \in Nat /\ \A t \in Steps : t \in Nat /\ t <= LongestStep
<1>1. Steps \subseteq Nat /\ IsFiniteSet(Steps) /\ Steps # {}
  BY LoopsAssumption
<1> DEFINE n == Cardinality(Steps)
<1>2. n \in Nat /\ n > 0
  BY <1>1, FS_CardinalityType, FS_EmptySet
<1>3. PICK f \in Bijection(1 .. n, Steps) : TRUE
  BY <1>1, FS_NatBijection, FS_CardinalityType, FS_CountingElements DEF ExistsBijection
<1>4. f \in [1 .. n -> Steps] /\ \A t \in Steps : \E i \in 1 .. n : f[i] = t
  BY <1>3 DEF Bijection, Injection, Surjection
<1> HIDE DEF n
<1>5. ASSUME NEW i \in 1 .. n PROVE f[i] \in Int
  <2>1. f[i] \in Steps
    BY <1>4
  <2>2. \A t \in Steps : t \in Int
    BY <1>1
  <2> QED BY <2>1, <2>2
<1> DEFINE g == [i \in 1 .. n |-> 0 - f[i]]
<1>51. g \in [1 .. n -> Int] /\ \A i \in 1 .. n : g[i] = 0 - f[i]
  BY <1>5
<1>6. PICK i \in 1 .. n : \A j \in 1 .. n : g[i] <= g[j]
  <2> HIDE DEF g
  <2> QED BY <1>2, <1>51, LeastOf
<1>7. ASSUME NEW j \in 1 .. n PROVE f[j] <= f[i]
  BY <1>5, <1>6, <1>51
<1>8. \E x \in Steps : \A y \in Steps : x >= y
  BY <1>1, <1>4, <1>7
<1>9. LongestStep \in Steps /\ \A y \in Steps : LongestStep >= y
  BY <1>8 DEF LongestStep, Max
<1> QED BY <1>1, <1>9

LEMMA QueueTypes ==
  ASSUME Queues
  PROVE  /\ Len(ready) \in Nat /\ DOMAIN ready = 1 .. Len(ready)
         /\ Len(sleepers) \in Nat /\ DOMAIN sleepers = 1 .. Len(sleepers)
         /\ \A i \in DOMAIN ready : ready[i] \in Task
         /\ \A i \in DOMAIN sleepers :
              /\ sleepers[i] \in [task : Task, at : Int]
              /\ sleepers[i].task \in Task /\ sleepers[i].at \in Int
<1> DEFINE R == [task : Task, at : Int]
<1>3. sleepers \in Seq(R) /\ ready \in Seq(Task)
  BY DEF Queues
<1> HIDE DEF R
<1>4. \A i \in DOMAIN sleepers : sleepers[i] \in R
  BY <1>3
<1>1. \A i \in DOMAIN sleepers : sleepers[i] \in [task : Task, at : Int]
  BY <1>4 DEF R
<1>5. /\ Len(ready) \in Nat /\ DOMAIN ready = 1 .. Len(ready)
      /\ Len(sleepers) \in Nat /\ DOMAIN sleepers = 1 .. Len(sleepers)
      /\ \A i \in DOMAIN ready : ready[i] \in Task
  BY <1>3
<1>2. \A x \in [task : Task, at : Int] : x.task \in Task /\ x.at \in Int
  OBVIOUS
<1> QED BY <1>1, <1>2, <1>5

LEMMA EarliestFacts ==
  ASSUME Queues
  PROVE  /\ Earliest \in Int /\ Earliest <= Horizon + 1
         /\ \A i \in DOMAIN sleepers : Earliest <= sleepers[i].at
         /\ Earliest = Horizon + 1 \/ \E i \in DOMAIN sleepers : Earliest = sleepers[i].at
<1> DEFINE n == Len(sleepers)
           f == [i \in 1 .. n + 1 |-> IF i = n + 1 THEN Horizon + 1 ELSE sleepers[i].at]
           S == {sleepers[i].at : i \in DOMAIN sleepers} \cup {Horizon + 1}
<1>1. n \in Nat /\ DOMAIN sleepers = 1 .. n
  BY DEF Queues
<1>2. \A i \in 1 .. n : sleepers[i].at \in Int
  BY <1>1, QueueTypes
<1>3. Horizon + 1 \in Int
  BY LoopsAssumption
<1> HIDE DEF n
<1>4. /\ f \in [1 .. n + 1 -> Int] /\ n + 1 \in Nat /\ n + 1 > 0
      /\ f[n + 1] = Horizon + 1 /\ \A i \in 1 .. n : f[i] = sleepers[i].at
  BY <1>1, <1>2, <1>3
<1> HIDE DEF f
<1>5. PICK i \in 1 .. n + 1 : \A j \in 1 .. n + 1 : f[i] <= f[j]
  BY <1>4, LeastOf
<1>6. f[i] \in S
  <2>1. CASE i = n + 1
    BY <2>1, <1>4
  <2>2. CASE i \in 1 .. n
    BY <2>2, <1>1, <1>4
  <2> QED BY <2>1, <2>2, <1>1
<1>7. \A y \in S : f[i] <= y
  <2>1. TAKE y \in S
  <2>2. CASE y = Horizon + 1
    <3>1. n + 1 \in 1 .. n + 1
      BY <1>1
    <3> QED BY <2>2, <3>1, <1>4, <1>5
  <2>3. CASE \E j \in DOMAIN sleepers : y = sleepers[j].at
    <3>1. PICK j \in 1 .. n : y = sleepers[j].at
      BY <2>3, <1>1
    <3>2. j \in 1 .. n + 1 /\ f[j] = y
      BY <3>1, <1>1, <1>4
    <3> QED BY <3>2, <1>5
  <2> QED BY <2>2, <2>3
<1>8. \A y \in S : y \in Int
  BY <1>1, <1>2, <1>3
<1>9. Earliest = Min(S)
  BY DEF Earliest
<1> HIDE DEF S
<1>10. Min(S) \in S /\ \A y \in S : Min(S) <= y
  BY <1>6, <1>7 DEF Min
<1> QED BY <1>8, <1>9, <1>10 DEF S

-----------------------------------------------------------------------------
(* Tasks and loops.                                                        *)

LEMMA LoopFacts ==
  ASSUME NEW l \in Loops
  PROVE  /\ IsLoop(l) /\ l \in Task /\ l.age = 0
         /\ l = Loop(l.agent, l.kind) /\ l.agent \in Nodes
         /\ inTick => l.kind = "control"
BY DEF Loops, Loop, IsLoop, Task

LEMMA AgentLoopFacts ==
  ASSUME NEW a \in Nodes
  PROVE  /\ Control(a) \in Loops /\ (~inTick => Publish(a) \in Loops)
         /\ Control(a) # Publish(a)
         /\ Period(Control(a)) = Dt /\ Period(Publish(a)) = Every * Dt
BY DEF Loops, Loop, Control, Publish, Period

LEMMA TaskKept ==
  ASSUME UNCHANGED <<clock, inTick>>
  PROVE  Loops' = Loops /\ Nodes' = Nodes /\ Task' = Task
<1>1. Nodes' = Nodes
  BY DEF Nodes
<1>2. Loops' = Loops
  BY <1>1 DEF Loops
<1> QED BY <1>1, <1>2 DEF Task

LEMMA OlderFacts ==
  ASSUME NEW task \in Task, NEW t \in Nat
  PROVE  /\ Older(task, t) \in Task
         /\ Older(task, t).kind = task.kind /\ Older(task, t).agent = task.agent
         /\ IsLoop(task) => Older(task, t) = task
         /\ ~IsLoop(task) => Older(task, t).age = task.age + t
         /\ IsLoop(Older(task, t)) => IsLoop(task)
BY DEF Older, IsLoop, Task

-----------------------------------------------------------------------------
(* Time passes.                                                            *)

\* Which sleeper each of two sequences of positions wakes or leaves.
Partition(order, rest) ==
  /\ order \in Seq(DOMAIN sleepers) /\ rest \in Seq(DOMAIN sleepers \ ToSet(order))
  /\ \A i, j \in DOMAIN order : order[i] = order[j] => i = j
  /\ \A i, j \in DOMAIN rest : i < j => rest[i] < rest[j]
  /\ \A x \in DOMAIN sleepers \ ToSet(order) : \E i \in DOMAIN rest : rest[i] = x

Passed(t, order, rest) ==
  /\ Partition(order, rest)
  /\ ready' = [i \in DOMAIN order |-> Older(sleepers[order[i]].task, t)]
  /\ sleepers' = [j \in DOMAIN rest |-> [task |-> Older(sleepers[rest[j]].task, t),
                                         at |-> sleepers[rest[j]].at - t]]
  /\ due' = [l \in DOMAIN due |-> due[l] - t]

LEMMA PassFacts ==
  ASSUME Queues, NEW t \in Nat, NEW order \in Seq(DOMAIN sleepers), ready = <<>>,
         \A i, j \in DOMAIN order : order[i] = order[j] => i = j,
         Pass(t, order)
  PROVE  \E rest : Passed(t, order, rest)
<1> DEFINE n == Len(sleepers)
           S == DOMAIN sleepers \ ToSet(order)
           rest == InOrder(S)
<1>1. n \in Nat /\ DOMAIN sleepers = 1 .. n
  BY QueueTypes
<1>2. S \in SUBSET (1 .. n)
  BY <1>1
<1>3. /\ rest \in Seq(S)
      /\ \A i, j \in DOMAIN rest : i < j => rest[i] < rest[j]
      /\ \A x \in S : \E i \in DOMAIN rest : rest[i] = x
  <2> HIDE DEF S
  <2> QED BY <1>1, <1>2, InOrderFacts, ZenonT(30)
<1>4. Partition(order, rest)
  BY <1>3 DEF Partition
<1>5. ready' = [i \in DOMAIN order |-> Older(sleepers[order[i]].task, t)]
  <2> DEFINE woken == [i \in DOMAIN order |-> Older(sleepers[order[i]].task, t)]
  <2>1. ready' = [i \in DOMAIN ready |-> Older(ready[i], t)] \o woken
    BY DEF Pass
  <2>2. [i \in DOMAIN ready |-> Older(ready[i], t)] = <<>>
    OBVIOUS
  <2>3. woken \in Seq(Range(woken))
    <3>1. Len(order) \in Nat /\ DOMAIN order = 1 .. Len(order)
      OBVIOUS
    <3>2. woken \in [1 .. Len(order) -> Range(woken)]
      BY <3>1 DEF Range
    <3> HIDE DEF woken
    <3> QED BY <3>1, <3>2
  <2> HIDE DEF woken
  <2>4. <<>> \o woken = woken
    BY <2>3
  <2> QED BY <2>1, <2>2, <2>4 DEF woken
<1>6. sleepers' = [j \in DOMAIN rest |->
                     [task |-> Older(sleepers[rest[j]].task, t),
                      at |-> sleepers[rest[j]].at - t]]
  BY DEF Pass
<1>7. due' = [l \in DOMAIN due |-> due[l] - t]
  BY DEF Pass
<1> HIDE DEF rest
<1> QED BY <1>4, <1>5, <1>6, <1>7, SMTT(30) DEF Passed

\* Who was woken, and who sleeps on.
LEMMA PassedTasks ==
  ASSUME Queues, NEW t \in Nat, NEW order, NEW rest, Passed(t, order, rest)
  PROVE  /\ DOMAIN ready' = DOMAIN order /\ DOMAIN sleepers' = DOMAIN rest
         /\ \A i \in DOMAIN order :
              /\ order[i] \in DOMAIN sleepers
              /\ ready'[i] = Older(sleepers[order[i]].task, t)
              /\ ready'[i] \in Task
         /\ \A j \in DOMAIN rest :
              /\ rest[j] \in DOMAIN sleepers
              /\ \A i \in DOMAIN order : order[i] # rest[j]
              /\ sleepers'[j] \in [task : Task, at : Int]
              /\ sleepers'[j].task = Older(sleepers[rest[j]].task, t)
              /\ sleepers'[j].at = sleepers[rest[j]].at - t
         /\ \A x \in DOMAIN sleepers :
              (\E i \in DOMAIN order : order[i] = x) \/ (\E j \in DOMAIN rest : rest[j] = x)
         /\ ready' \in Seq(Task) /\ sleepers' \in Seq([task : Task, at : Int])
<1>1. /\ DOMAIN order = 1 .. Len(order) /\ Len(order) \in Nat
      /\ \A i \in DOMAIN order : order[i] \in DOMAIN sleepers
  BY DEF Passed, Partition
<1>2. /\ DOMAIN rest = 1 .. Len(rest) /\ Len(rest) \in Nat
      /\ \A j \in DOMAIN rest : rest[j] \in DOMAIN sleepers \ ToSet(order)
  BY DEF Passed, Partition
<1>3. \A x \in DOMAIN sleepers : sleepers[x].at \in Int /\ sleepers[x].task \in Task
  BY QueueTypes
<1>4. \A x : x \in ToSet(order) <=> \E i \in DOMAIN order : order[i] = x
  BY DEF ToSet
<1>5. /\ DOMAIN ready' = DOMAIN order
      /\ \A i \in DOMAIN order : ready'[i] = Older(sleepers[order[i]].task, t)
  BY DEF Passed
<1>6. ASSUME NEW i \in DOMAIN order PROVE ready'[i] \in Task
  BY <1>1, <1>3, <1>4, <1>5, OlderFacts
<1>7. /\ DOMAIN sleepers' = DOMAIN rest
      /\ \A j \in DOMAIN rest :
           /\ sleepers'[j] = [task |-> Older(sleepers[rest[j]].task, t),
                              at |-> sleepers[rest[j]].at - t]
           /\ sleepers'[j].task = Older(sleepers[rest[j]].task, t)
           /\ sleepers'[j].at = sleepers[rest[j]].at - t
  BY DEF Passed
<1>8. ASSUME NEW j \in DOMAIN rest PROVE sleepers'[j] \in [task : Task, at : Int]
  <2>1. Older(sleepers[rest[j]].task, t) \in Task /\ sleepers[rest[j]].at - t \in Int
    BY <1>2, <1>3, OlderFacts
  <2> QED BY <2>1, <1>7
<1>9. ready' \in Seq(Task)
  <2>1. ready' = [i \in 1 .. Len(order) |-> Older(sleepers[order[i]].task, t)]
    BY <1>1 DEF Passed
  <2> QED BY <2>1, <1>1, <1>5, <1>6
<1>10. sleepers' \in Seq([task : Task, at : Int])
  <2> DEFINE R == [task : Task, at : Int]
  <2>1. sleepers' = [j \in 1 .. Len(rest) |-> sleepers'[j]]
    BY <1>2, <1>7 DEF Passed
  <2>2. \A j \in 1 .. Len(rest) : sleepers'[j] \in R
    BY <1>8, <1>2
  <2> HIDE DEF R
  <2>3. sleepers' \in Seq(R)
    BY <2>1, <2>2, <1>2
  <2> QED BY <2>3 DEF R
<1>11. ASSUME NEW x \in DOMAIN sleepers
       PROVE  (\E i \in DOMAIN order : order[i] = x) \/ (\E j \in DOMAIN rest : rest[j] = x)
  BY <1>4 DEF Passed, Partition
<1> QED BY <1>1, <1>2, <1>4, <1>5, <1>6, <1>7, <1>8, <1>9, <1>10, <1>11

LEMMA PassKeeps ==
  ASSUME Queues, TypeOK, OnePlace, DeadlinesKeepPhase,
         NEW t \in Nat, NEW order, NEW rest, Passed(t, order, rest), ready = <<>>,
         UNCHANGED <<clock, inTick>>
  PROVE  /\ Queues' /\ OnePlace' /\ DeadlinesKeepPhase'
         /\ due' \in [Loops -> Int] /\ \A l \in Loops : due'[l] = due[l] - t
<1>1. Loops' = Loops /\ Nodes' = Nodes /\ Task' = Task
  BY TaskKept
<1>2. due \in [Loops -> Int]
  BY DEF TypeOK
<1>3. due' \in [Loops -> Int] /\ \A l \in Loops : due'[l] = due[l] - t
  BY <1>2 DEF Passed
<1> DEFINE was(i) == sleepers[order[i]].task
           is(j) == sleepers[rest[j]].task
<1>4. /\ \A i \in DOMAIN order : order[i] \in DOMAIN sleepers /\ was(i) \in Task
      /\ \A j \in DOMAIN rest : rest[j] \in DOMAIN sleepers /\ is(j) \in Task
  BY PassedTasks, QueueTypes
<1>5. /\ \A i \in DOMAIN order : IsLoop(ready'[i]) \/ IsLoop(was(i))
                                  => ready'[i] = was(i) /\ was(i) \in Loops
      /\ \A j \in DOMAIN rest : IsLoop(sleepers'[j].task) \/ IsLoop(is(j))
                                  => sleepers'[j].task = is(j) /\ is(j) \in Loops
  <2>1. ASSUME NEW i \in DOMAIN order, IsLoop(ready'[i]) \/ IsLoop(was(i))
        PROVE  ready'[i] = was(i) /\ was(i) \in Loops
    <3>1. ready'[i] = Older(was(i), t)
      BY PassedTasks
    <3>2. IsLoop(was(i))
      BY <2>1, <3>1, <1>4, OlderFacts
    <3>3. ready'[i] = was(i)
      BY <3>1, <3>2, <1>4, OlderFacts
    <3> QED BY <3>2, <3>3, <1>4 DEF Queues
  <2>2. ASSUME NEW j \in DOMAIN rest, IsLoop(sleepers'[j].task) \/ IsLoop(is(j))
        PROVE  sleepers'[j].task = is(j) /\ is(j) \in Loops
    <3>1. sleepers'[j].task = Older(is(j), t)
      BY PassedTasks
    <3>2. IsLoop(is(j))
      BY <2>2, <3>1, <1>4, OlderFacts
    <3>3. sleepers'[j].task = is(j)
      BY <3>1, <3>2, <1>4, OlderFacts
    <3> QED BY <3>2, <3>3, <1>4 DEF Queues
  <2> QED BY <2>1, <2>2
<1> HIDE DEF was, is
<1>6. /\ DOMAIN ready' = DOMAIN order /\ DOMAIN sleepers' = DOMAIN rest
      /\ ready' \in Seq(Task) /\ sleepers' \in Seq([task : Task, at : Int])
  BY PassedTasks
<1>7. Queues'
  <2>1. \A i \in DOMAIN ready' : IsLoop(ready'[i]) => ready'[i] \in Loops
    BY <1>5, <1>6
  <2>2. \A j \in DOMAIN sleepers' : IsLoop(sleepers'[j].task) => sleepers'[j].task \in Loops
    BY <1>5, <1>6
  <2> QED BY <1>1, <1>6, <2>1, <2>2 DEF Queues
<1>8. /\ \A i, j \in DOMAIN order : order[i] = order[j] => i = j
      /\ \A i, j \in DOMAIN rest : rest[i] = rest[j] => i = j
      /\ \A i \in DOMAIN order, j \in DOMAIN rest : order[i] # rest[j]
  <2>1. \A i, j \in DOMAIN rest : i < j => rest[i] < rest[j]
    BY DEF Passed, Partition
  <2>2. \A i \in DOMAIN rest : i \in Nat /\ rest[i] \in Nat
    <3>1. DOMAIN rest = 1 .. Len(rest) /\ Len(rest) \in Nat
      BY DEF Passed, Partition
    <3>2. DOMAIN sleepers = 1 .. Len(sleepers) /\ Len(sleepers) \in Nat
      BY QueueTypes
    <3> QED BY <1>4, <3>1, <3>2
  <2>3. \A i, j \in DOMAIN rest : rest[i] = rest[j] => i = j
    BY <2>1, <2>2
  <2>4. \A i \in DOMAIN order, j \in DOMAIN rest : order[i] # rest[j]
    BY PassedTasks
  <2> QED BY <2>3, <2>4 DEF Passed, Partition
<1>9. OnePlace'
  <2>5. \A x, y \in DOMAIN sleepers :
          IsLoop(sleepers[x].task) /\ sleepers[x].task = sleepers[y].task => x = y
    BY DEF OnePlace
  <2>1. ASSUME NEW i \in DOMAIN order, NEW j \in DOMAIN order,
               IsLoop(ready'[i]), ready'[i] = ready'[j]
        PROVE  i = j
    <3>1. ready'[i] = was(i) /\ ready'[j] = was(j)
      BY <1>5, <2>1
    <3>3. order[i] \in DOMAIN sleepers /\ order[j] \in DOMAIN sleepers
      BY <1>4
    <3>4. /\ sleepers[order[i]].task = was(i) /\ sleepers[order[j]].task = was(j)
          /\ IsLoop(was(i)) /\ was(i) = was(j)
      BY <2>1, <3>1 DEF was
    <3>2. order[i] = order[j]
      BY <2>5, <3>3, <3>4
    <3> QED BY <1>8, <3>2
  <2>2. ASSUME NEW i \in DOMAIN rest, NEW j \in DOMAIN rest,
               IsLoop(sleepers'[i].task), sleepers'[i].task = sleepers'[j].task
        PROVE  i = j
    <3>1. sleepers'[i].task = is(i) /\ sleepers'[j].task = is(j)
      BY <1>5, <2>2
    <3>3. rest[i] \in DOMAIN sleepers /\ rest[j] \in DOMAIN sleepers
      BY <1>4
    <3>4. /\ sleepers[rest[i]].task = is(i) /\ sleepers[rest[j]].task = is(j)
          /\ IsLoop(is(i)) /\ is(i) = is(j)
      BY <2>2, <3>1 DEF is
    <3>2. rest[i] = rest[j]
      BY <2>5, <3>3, <3>4
    <3> QED BY <1>8, <3>2
  <2>3. ASSUME NEW i \in DOMAIN order, NEW j \in DOMAIN rest,
               IsLoop(ready'[i]), ready'[i] = sleepers'[j].task
        PROVE  FALSE
    <3>1. ready'[i] = was(i) /\ sleepers'[j].task = is(j)
      BY <1>5, <2>3
    <3>3. order[i] \in DOMAIN sleepers /\ rest[j] \in DOMAIN sleepers
      BY <1>4
    <3>4. /\ sleepers[order[i]].task = was(i) /\ sleepers[rest[j]].task = is(j)
          /\ IsLoop(was(i)) /\ was(i) = is(j)
      BY <2>3, <3>1 DEF was, is
    <3>2. order[i] = rest[j]
      BY <2>5, <3>3, <3>4
    <3> QED BY <1>8, <3>2
  <2>4. ASSUME NEW l \in Loops
        PROVE  \/ \E i \in DOMAIN order : ready'[i] = l
               \/ \E j \in DOMAIN rest : sleepers'[j].task = l
    <3>1. PICK x \in DOMAIN sleepers : sleepers[x].task = l
      BY DEF OnePlace
    <3>2. IsLoop(l)
      BY LoopFacts
    <3>3. CASE \E i \in DOMAIN order : order[i] = x
      BY <3>1, <3>2, <3>3, <1>5 DEF was
    <3>4. CASE \E j \in DOMAIN rest : rest[j] = x
      BY <3>1, <3>2, <3>4, <1>5 DEF is
    <3> QED BY <3>3, <3>4, PassedTasks
  <2> QED BY <1>1, <1>6, <2>1, <2>2, <2>3, <2>4 DEF OnePlace
<1>10. DeadlinesKeepPhase'
  <2>1. ASSUME NEW l \in Loops, NEW k \in Loops
        PROVE  due'[l] - due'[k] = due[l] - due[k]
    BY <1>2, <1>3, <2>1
  <2> QED BY <1>1, <2>1 DEF DeadlinesKeepPhase
<1> QED BY <1>3, <1>7, <1>9, <1>10

-----------------------------------------------------------------------------
(* A task runs.                                                            *)

LEMMA ConcatFacts ==
  ASSUME NEW T, NEW a \in Seq(T), NEW b \in Seq(T)
  PROVE  /\ a \o b \in Seq(T) /\ Len(a) \in Nat /\ Len(b) \in Nat
         /\ DOMAIN a = 1 .. Len(a) /\ DOMAIN b = 1 .. Len(b)
         /\ DOMAIN (a \o b) = 1 .. Len(a) + Len(b)
         /\ \A i \in 1 .. Len(a) : (a \o b)[i] = a[i]
         /\ \A i \in 1 .. Len(b) : (a \o b)[Len(a) + i] = b[i]
OBVIOUS

\* The first task is gone, and what it spawned, no loop, is last.
LEMMA RanFacts ==
  ASSUME Queues, ready # <<>>, NEW spawned \in Seq(Task),
         \A i \in DOMAIN spawned : ~IsLoop(spawned[i]),
         ready' = Tail(ready) \o spawned
  PROVE  /\ ready' \in Seq(Task)
         /\ 1 \in DOMAIN ready /\ Head(ready) = ready[1]
         /\ \A i \in DOMAIN ready : i # 1 => i - 1 \in DOMAIN ready' /\ ready'[i - 1] = ready[i]
         /\ \A i \in DOMAIN ready' :
              \/ i + 1 \in DOMAIN ready /\ ready'[i] = ready[i + 1]
              \/ /\ ~IsLoop(ready'[i])
                 /\ \E k \in DOMAIN spawned : ready'[i] = spawned[k]
<1>1. ready \in Seq(Task)
  BY DEF Queues
<1> DEFINE s == Tail(ready)
<1>2. /\ s \in Seq(Task) /\ Len(s) = Len(ready) - 1 /\ Len(ready) \in Nat /\ Len(ready) > 0
      /\ \A i \in 1 .. Len(s) : s[i] = ready[i + 1]
      /\ DOMAIN ready = 1 .. Len(ready) /\ Head(ready) = ready[1]
  BY <1>1
<1> HIDE DEF s
<1>3. ready' = s \o spawned
  BY DEF s
<1>4. /\ ready' \in Seq(Task) /\ Len(spawned) \in Nat
      /\ DOMAIN spawned = 1 .. Len(spawned)
      /\ DOMAIN ready' = 1 .. Len(s) + Len(spawned)
      /\ \A i \in 1 .. Len(s) : ready'[i] = s[i]
      /\ \A i \in 1 .. Len(spawned) : ready'[Len(s) + i] = spawned[i]
  <2> DEFINE u == s \o spawned
  <2>1. s \in Seq(Task)
    BY <1>2
  <2>2. /\ u \in Seq(Task) /\ Len(spawned) \in Nat
        /\ DOMAIN spawned = 1 .. Len(spawned)
        /\ DOMAIN u = 1 .. Len(s) + Len(spawned)
        /\ \A i \in 1 .. Len(s) : u[i] = s[i]
        /\ \A i \in 1 .. Len(spawned) : u[Len(s) + i] = spawned[i]
    BY <2>1, ConcatFacts
  <2>3. ready' = u
    BY <1>3
  <2> HIDE DEF u
  <2> QED BY <2>2, <2>3
<1>5. ASSUME NEW i \in DOMAIN ready, i # 1
      PROVE  i - 1 \in DOMAIN ready' /\ ready'[i - 1] = ready[i]
  <2>1. i - 1 \in 1 .. Len(s) /\ (i - 1) + 1 = i
    BY <1>2, <1>5
  <2> QED BY <2>1, <1>2, <1>4
<1>6. ASSUME NEW i \in DOMAIN ready'
      PROVE  \/ i + 1 \in DOMAIN ready /\ ready'[i] = ready[i + 1]
             \/ /\ ~IsLoop(ready'[i])
                /\ \E k \in DOMAIN spawned : ready'[i] = spawned[k]
  <2>1. CASE i <= Len(s)
    <3>1. i \in 1 .. Len(s) /\ i + 1 \in DOMAIN ready
      BY <2>1, <1>2, <1>4
    <3> QED BY <2>1, <3>1, <1>2, <1>4
  <2>2. CASE i > Len(s)
    <3>1. i - Len(s) \in 1 .. Len(spawned) /\ Len(s) + (i - Len(s)) = i
      BY <2>2, <1>2, <1>4
    <3>2. ready'[i] = spawned[i - Len(s)]
      BY <3>1, <1>4
    <3> QED BY <3>1, <3>2, <1>4
  <2> QED BY <2>1, <2>2, <1>2, <1>4
<1> QED BY <1>2, <1>4, <1>5, <1>6

LEMMA NextDueFacts ==
  ASSUME TypeOK, NEW l \in Loops
  PROVE  /\ NextDue(l) \in Nat
         /\ \E q \in Int : NextDue(l) = due[l] + q * Dt
         /\ due[l] = 0 => NextDue(l) = Period(l)
<1> DEFINE P == Period(l)
           d == due[l] + P
<1>1. due[l] \in Int
  BY DEF TypeOK
<1>2. PICK p \in Nat : p > 0 /\ P = p * Dt
  BY LoopFacts, PeriodType
<1>3. P \in Nat /\ P > 0 /\ Dt \in Nat
  BY LoopFacts, PeriodType, LoopsAssumption
<1> HIDE DEF P
<1>4. CASE d >= 0
  <2>1. NextDue(l) = due[l] + p * Dt
    BY <1>1, <1>2, <1>3, <1>4 DEF NextDue, P
  <2>2. NextDue(l) = d
    BY <2>1, <1>2
  <2> QED BY <2>1, <2>2, <1>1, <1>2, <1>3, <1>4 DEF P
<1>5. CASE d < 0
  <2> DEFINE k == ((-d) \div P) + 1
  <2>1. k \in Nat /\ (-d) < k * P
    <3>3. (-d) \in Nat
      BY <1>1, <1>3, <1>5
    <3>1. /\ (-d) = P * ((-d) \div P) + ((-d) % P) /\ ((-d) % P) \in 0 .. P - 1
          /\ (-d) \div P \in Nat
      <4> DEFINE x == -d
      <4> HIDE DEF x
      <4>1. x = P * (x \div P) + (x % P) /\ (x % P) \in 0 .. P - 1 /\ x \div P \in Nat
        <5>1. x \in Nat
          BY <3>3 DEF x
        <5> QED BY <1>3, <5>1, DivFacts
      <4> QED BY <4>1 DEF x
    <3>2. k * P = P * ((-d) \div P) + P
      BY <3>1, <1>3
    <3> QED BY <3>1, <3>2, <1>3
  <2>2. NextDue(l) = d + k * P
    BY <1>1, <1>3, <1>5 DEF NextDue, P
  <2>3. d + k * P \in Nat
    BY <2>1, <1>1, <1>3
  <2>4. d + k * P = due[l] + (p + k * p) * Dt
    <3>1. k * P = (k * p) * Dt
      BY <1>2, <1>3, <2>1
    <3>2. (p + k * p) * Dt = p * Dt + (k * p) * Dt /\ k * p \in Int
      BY <1>2, <1>3, <2>1
    <3> QED BY <3>1, <3>2, <1>1, <1>2, <1>3
  <2>5. p + k * p \in Int
    BY <1>2, <2>1
  <2>6. due[l] # 0
    BY <1>3, <1>5
  <2> QED BY <2>2, <2>3, <2>4, <2>5, <2>6
<1> QED BY <1>1, <1>3, <1>4, <1>5

\* The loop that ran is the last to go to sleep.
LEMMA SleepFacts ==
  ASSUME Queues, TypeOK, NEW l \in Loops, NEW t \in Nat, NEW spawned, Sleep(l, t, spawned)
  PROVE  /\ sleepers' \in Seq([task : Task, at : Int])
         /\ Len(sleepers) \in Nat /\ DOMAIN sleepers = 1 .. Len(sleepers)
         /\ DOMAIN sleepers' = 1 .. Len(sleepers) + 1
         /\ \A i \in DOMAIN sleepers : /\ sleepers'[i].task = sleepers[i].task
                                       /\ sleepers'[i].at = sleepers[i].at - t
         /\ sleepers'[Len(sleepers) + 1].task = l
         /\ sleepers'[Len(sleepers) + 1].at = Max({Floor(l), NextDue(l) - t})
         /\ due' \in [Loops -> Int] /\ due'[l] = NextDue(l) - t
         /\ \A k \in Loops : k # l => due'[k] = due[k] - t
<1> DEFINE R == [task : Task, at : Int]
           at == Max({Floor(l), NextDue(l) - t})
           older == [i \in DOMAIN sleepers |-> [sleepers[i] EXCEPT !.at = @ - t]]
           new == [task |-> l, at |-> at]
<1>1. at \in Int /\ NextDue(l) - t \in Int
  <2>1. Floor(l) \in Int /\ NextDue(l) \in Int
    BY LoopFacts, PeriodType, NextDueFacts
  <2> QED BY <2>1, MaxOfTwo
<1>2. new \in R /\ new.task = l /\ new.at = at
  BY <1>1, LoopFacts
<1>3. /\ Len(sleepers) \in Nat /\ DOMAIN sleepers = 1 .. Len(sleepers)
      /\ \A i \in DOMAIN sleepers : sleepers[i] \in R
  BY QueueTypes
<1>4. ASSUME NEW i \in DOMAIN sleepers
      PROVE  /\ older[i] \in R /\ older[i].task = sleepers[i].task
             /\ older[i].at = sleepers[i].at - t
  <2>1. sleepers[i] \in [task : Task, at : Int]
    BY <1>3
  <2> QED BY <2>1
<1>5. sleepers' = older \o <<new>>
  BY DEF Sleep
<1>6. due' = [k \in DOMAIN due |-> IF k = l THEN NextDue(l) - t ELSE due[k] - t]
  BY DEF Sleep
<1>7. due \in [Loops -> Int]
  BY DEF TypeOK
<1>8. /\ due' \in [Loops -> Int] /\ due'[l] = NextDue(l) - t
      /\ \A k \in Loops : k # l => due'[k] = due[k] - t
  BY <1>1, <1>6, <1>7
<1> DEFINE n == Len(sleepers)
<1>9. older \in Seq(R) /\ Len(older) = n /\ DOMAIN older = 1 .. n
  <2>1. older = [i \in 1 .. n |-> older[i]] /\ \A i \in 1 .. n : older[i] \in R
    BY <1>3, <1>4
  <2> HIDE DEF older, R
  <2> QED BY <2>1, <1>3
<1> HIDE DEF older, new, R, at
<1>10. <<new>> \in Seq(R) /\ Len(<<new>>) = 1 /\ <<new>>[1] = new
  BY <1>2
<1> DEFINE u == older \o <<new>>
<1>11. /\ u \in Seq(R) /\ DOMAIN u = 1 .. n + 1
       /\ \A i \in 1 .. n : u[i] = older[i]
       /\ u[n + 1] = new
  <2> DEFINE w == <<new>>
  <2>1. w \in Seq(R) /\ Len(w) = 1 /\ w[1] = new
    BY <1>10
  <2> HIDE DEF w
  <2> DEFINE v == older \o w
  <2>5. older \in Seq(R) /\ w \in Seq(R)
    BY <1>9, <2>1
  <2>2. /\ v \in Seq(R) /\ DOMAIN v = 1 .. Len(older) + Len(w)
        /\ \A i \in 1 .. Len(older) : v[i] = older[i]
        /\ \A i \in 1 .. Len(w) : v[Len(older) + i] = w[i]
    BY <2>5, ConcatFacts
  <2>3. u = v
    BY DEF w
  <2> HIDE DEF v
  <2>4. /\ u \in Seq(R) /\ DOMAIN u = 1 .. n + 1
        /\ \A i \in 1 .. n : u[i] = older[i]
        /\ u[n + 1] = w[1]
    BY <1>9, <2>1, <2>2, <2>3
  <2> QED BY <2>1, <2>4
<1> HIDE DEF u
<1>12. sleepers' = u
  BY <1>5 DEF u
<1>13. /\ sleepers' \in Seq(R) /\ DOMAIN sleepers' = 1 .. n + 1
       /\ \A i \in DOMAIN sleepers : /\ sleepers'[i].task = sleepers[i].task
                                     /\ sleepers'[i].at = sleepers[i].at - t
       /\ sleepers'[n + 1].task = l /\ sleepers'[n + 1].at = at
  BY <1>2, <1>3, <1>4, <1>11, <1>12
<1> QED BY <1>3, <1>8, <1>13 DEF R, at

LEMMA SleepKeeps ==
  ASSUME Queues, TypeOK, OnePlace, DeadlinesKeepPhase,
         ready # <<>>, NEW l \in Loops, l = Head(ready),
         NEW t \in Nat, NEW spawned \in Seq(Task),
         \A i \in DOMAIN spawned : ~IsLoop(spawned[i]),
         Sleep(l, t, spawned), UNCHANGED <<clock, inTick>>
         PROVE  Queues' /\ OnePlace'
<1> DEFINE n == Len(sleepers)
<1>1. Loops' = Loops /\ Nodes' = Nodes /\ Task' = Task
  BY TaskKept
<1>2. /\ sleepers' \in Seq([task : Task, at : Int]) /\ n \in Nat
      /\ DOMAIN sleepers = 1 .. n /\ DOMAIN sleepers' = 1 .. n + 1
      /\ \A i \in 1 .. n : sleepers'[i].task = sleepers[i].task
      /\ sleepers'[n + 1].task = l
  BY SleepFacts
<1>3. ready' = Tail(ready) \o spawned
  BY DEF Sleep
<1>4. /\ ready' \in Seq(Task)
      /\ 1 \in DOMAIN ready /\ l = ready[1]
      /\ \A i \in DOMAIN ready : i # 1 => i - 1 \in DOMAIN ready' /\ ready'[i - 1] = ready[i]
      /\ \A i \in DOMAIN ready' :
           IsLoop(ready'[i]) => i + 1 \in DOMAIN ready /\ ready'[i] = ready[i + 1]
  BY <1>3, RanFacts
<1>5. /\ DOMAIN ready' = 1 .. Len(ready') /\ Len(ready') \in Nat
      /\ DOMAIN ready = 1 .. Len(ready) /\ Len(ready) \in Nat
  BY <1>4, QueueTypes
<1>6. \A i \in 1 .. n + 1 : i \in 1 .. n \/ i = n + 1
  BY <1>2
<1>7. Queues'
  <2>1. \A i \in DOMAIN ready' : IsLoop(ready'[i]) => ready'[i] \in Loops
    BY <1>4 DEF Queues
  <2>2. \A i \in 1 .. n : IsLoop(sleepers[i].task) => sleepers[i].task \in Loops
    BY <1>2 DEF Queues
  <2>3. \A i \in DOMAIN sleepers' : IsLoop(sleepers'[i].task) => sleepers'[i].task \in Loops
    BY <2>2, <1>2, <1>6
  <2>4. clock' \in {"wall", "virtual"} /\ inTick' \in BOOLEAN
    BY DEF Queues
  <2> QED BY <1>1, <1>2, <1>4, <2>1, <2>3, <2>4 DEF Queues
<1>8. /\ \A i, j \in DOMAIN ready : IsLoop(ready[i]) /\ ready[i] = ready[j] => i = j
      /\ \A i, j \in 1 .. n : IsLoop(sleepers[i].task) /\ sleepers[i].task = sleepers[j].task
                               => i = j
      /\ \A i \in DOMAIN ready, j \in 1 .. n : IsLoop(ready[i]) => ready[i] # sleepers[j].task
      /\ \A k \in Loops : \/ \E i \in DOMAIN ready : ready[i] = k
                          \/ \E j \in 1 .. n : sleepers[j].task = k
  BY <1>2 DEF OnePlace
<1>9. IsLoop(l)
  BY LoopFacts
<1>10. \A j \in 1 .. n : sleepers[j].task # l
  BY <1>4, <1>8, <1>9
<1>11. ASSUME NEW i \in DOMAIN ready', NEW j \in DOMAIN ready',
              IsLoop(ready'[i]), ready'[i] = ready'[j]
       PROVE  i = j
  <2>1. /\ i + 1 \in DOMAIN ready /\ ready'[i] = ready[i + 1]
        /\ j + 1 \in DOMAIN ready /\ ready'[j] = ready[j + 1]
    BY <1>4, <1>11
  <2>2. i + 1 = j + 1
    BY <2>1, <1>8, <1>11
  <2> QED BY <2>2, <1>5
<1>12. ASSUME NEW i \in 1 .. n + 1, NEW j \in 1 .. n + 1,
              IsLoop(sleepers'[i].task), sleepers'[i].task = sleepers'[j].task
       PROVE  i = j
  <2>1. CASE i \in 1 .. n /\ j \in 1 .. n
    BY <2>1, <1>2, <1>8, <1>12
  <2>2. CASE i = n + 1 /\ j \in 1 .. n
    BY <2>2, <1>2, <1>10, <1>12
  <2>3. CASE i \in 1 .. n /\ j = n + 1
    BY <2>3, <1>2, <1>10, <1>12
  <2> QED BY <2>1, <2>2, <2>3, <1>6
<1>13. ASSUME NEW i \in DOMAIN ready', NEW j \in 1 .. n + 1, IsLoop(ready'[i])
       PROVE  ready'[i] # sleepers'[j].task
  <2>1. i + 1 \in DOMAIN ready /\ ready'[i] = ready[i + 1]
    BY <1>4, <1>13
  <2>2. ready[i + 1] # l
    <3>1. i + 1 # 1
      BY <1>5
    <3> QED BY <3>1, <2>1, <1>4, <1>8, <1>9
  <2>3. CASE j \in 1 .. n
    BY <2>1, <2>3, <1>2, <1>8, <1>13
  <2>4. CASE j = n + 1
    BY <2>1, <2>2, <2>4, <1>2
  <2> QED BY <2>3, <2>4, <1>6
<1>14. ASSUME NEW k \in Loops
       PROVE  \/ \E i \in DOMAIN ready' : ready'[i] = k
              \/ \E j \in 1 .. n + 1 : sleepers'[j].task = k
  <2>1. CASE k = l
    <3>1. n + 1 \in 1 .. n + 1
      BY <1>2
    <3> QED BY <2>1, <3>1, <1>2
  <2>2. CASE k # l /\ \E i \in DOMAIN ready : ready[i] = k
    <3>1. PICK i \in DOMAIN ready : ready[i] = k
      BY <2>2
    <3>2. i - 1 \in DOMAIN ready' /\ ready'[i - 1] = k
      BY <2>2, <3>1, <1>4
    <3> QED BY <3>2
  <2>3. CASE \E j \in 1 .. n : sleepers[j].task = k
    <3>1. PICK j \in 1 .. n : sleepers[j].task = k
      BY <2>3
    <3>2. j \in 1 .. n + 1 /\ sleepers'[j].task = k
      BY <3>1, <1>2
    <3> QED BY <3>2
  <2> QED BY <2>1, <2>2, <2>3, <1>8
<1>15. OnePlace'
  BY <1>1, <1>2, <1>11, <1>12, <1>13, <1>14 DEF OnePlace
<1> QED BY <1>7, <1>15

\* A deadline moves by whole control periods.
LEMMA SleepKeepsPhase ==
  ASSUME Queues, TypeOK, DeadlinesKeepPhase, NEW l \in Loops, NEW t \in Nat, NEW spawned,
         Sleep(l, t, spawned), UNCHANGED <<clock, inTick>>
  PROVE  DeadlinesKeepPhase'
<1>1. Loops' = Loops
  BY TaskKept
<1>2. /\ due' \in [Loops -> Int] /\ due'[l] = NextDue(l) - t
      /\ \A k \in Loops : k # l => due'[k] = due[k] - t
  BY SleepFacts
<1>3. due \in [Loops -> Int] /\ Dt \in Nat /\ Dt > 0
  BY LoopsAssumption DEF TypeOK
<1>4. PICK q \in Int : NextDue(l) = due[l] + q * Dt
  BY NextDueFacts
<1>5. \A k, m \in Loops : (due[k] - due[m]) % Dt = 0
  BY DEF DeadlinesKeepPhase
<1>6. ASSUME NEW k \in Loops, NEW m \in Loops PROVE (due'[k] - due'[m]) % Dt = 0
  <2> DEFINE x == due[k] - due[m]
  <2>1. x \in Int /\ x % Dt = 0
    BY <1>3, <1>5
  <2>2. q * Dt \in Int /\ due[l] \in Int /\ due[k] \in Int /\ due[m] \in Int
    BY <1>3, <1>4
  <2>3. CASE k = l /\ m # l
    <3>1. due'[k] - due'[m] = x + q * Dt
      BY <1>2, <1>4, <2>2, <2>3
    <3> HIDE DEF x
    <3>2. (x + q * Dt) % Dt = 0
      BY <2>1, <1>3, AddMultiple
    <3> QED BY <3>1, <3>2
  <2>4. CASE k # l /\ m = l
    <3>1. due'[k] - due'[m] = x - q * Dt
      BY <1>2, <1>4, <2>2, <2>4
    <3> HIDE DEF x
    <3>2. (x - q * Dt) % Dt = 0
      BY <2>1, <1>3, AddMultiple
    <3> QED BY <3>1, <3>2
  <2>5. CASE k = l /\ m = l
    <3>1. due'[k] - due'[m] = x
      BY <1>2, <1>4, <2>2, <2>5
    <3> QED BY <2>1, <3>1
  <2>6. CASE k # l /\ m # l
    <3>1. due'[k] - due'[m] = x
      BY <1>2, <2>2, <2>6
    <3> QED BY <2>1, <3>1
  <2> QED BY <2>3, <2>4, <2>5, <2>6
<1> QED BY <1>1, <1>6 DEF DeadlinesKeepPhase

-----------------------------------------------------------------------------
(* The first state.                                                        *)

LEMMA LoopsAreFinite ==
  ASSUME clock \in {"wall", "virtual"}
  PROVE  IsFiniteSet(Nodes) /\ IsFiniteSet(Loops)
<1>1. IsFiniteSet(Nodes)
  BY LoopsAssumption, FS_Singleton DEF Nodes
<1> DEFINE f == [a \in Nodes |-> Control(a)]
           g == [a \in Nodes |-> Publish(a)]
           C == {f[a] : a \in Nodes}
           P == {g[a] : a \in Nodes}
<1>2. IsFiniteSet(C)
  <2>1. f \in Surjection(Nodes, C)
    BY DEF Surjection
  <2> HIDE DEF f, C
  <2> QED BY <1>1, <2>1, FS_Surjection
<1>3. IsFiniteSet(P)
  <2>1. g \in Surjection(Nodes, P)
    BY DEF Surjection
  <2> HIDE DEF g, P
  <2> QED BY <1>1, <2>1, FS_Surjection
<1>4. IsFiniteSet(C \cup P)
  <2> HIDE DEF C, P
  <2> QED BY <1>2, <1>3, FS_Union
<1>5. Loops \subseteq C \cup P
  <2>1. \A a \in Nodes : f[a] = Loop(a, "control") /\ g[a] = Loop(a, "publish")
    BY DEF Control, Publish
  <2> HIDE DEF f, g
  <2>2. ASSUME NEW l \in Loops PROVE l \in C \cup P
    <3>1. PICK a \in Nodes : l = Loop(a, "control") \/ l = Loop(a, "publish")
      BY DEF Loops
    <3> QED BY <2>1, <3>1
  <2> QED BY <2>2
<1>6. IsFiniteSet(Loops)
  <2> HIDE DEF C, P
  <2> QED BY <1>4, <1>5, FS_Subset
<1> QED BY <1>1, <1>6

LEMMA InitInv == Init => LoopsIInv
<1> SUFFICES ASSUME Init PROVE LoopsIInv
  OBVIOUS
<1>1. /\ clock \in {"wall", "virtual"} /\ inTick \in BOOLEAN /\ ready = <<>>
      /\ due = [l \in Loops |-> Period(l)]
      /\ ticks = [a \in Nodes |-> 0]
      /\ left = Horizon /\ bus = [sent |-> 0, delivered |-> 0, dropped |-> 0]
  BY DEF Init
<1>2. PICK s \in SetToSeqs(Loops) :
        /\ \A i, j \in DOMAIN s : i < j /\ s[i].agent = s[j].agent => s[i].kind = "control"
        /\ sleepers = [i \in DOMAIN s |-> [task |-> s[i], at |-> Period(s[i])]]
  BY DEF Init
<1>3. /\ s \in Seq(Loops)
      /\ \A i, j \in DOMAIN s : i # j => s[i] # s[j]
      /\ \A l \in Loops : \E i \in DOMAIN s : s[i] = l
  BY <1>1, LoopsAreFinite, OrderFacts
<1>4. /\ DOMAIN s = 1 .. Len(s) /\ Len(s) \in Nat /\ DOMAIN sleepers = DOMAIN s
      /\ \A i \in DOMAIN s : s[i] \in Loops
      /\ \A i \in DOMAIN s : sleepers[i].task = s[i] /\ sleepers[i].at = Period(s[i])
  BY <1>2, <1>3
<1>5. \A l \in Loops : /\ due[l] = Period(l) /\ Period(l) \in Nat /\ Period(l) > 0
                       /\ l \in Task /\ IsLoop(l)
  BY <1>1, LoopFacts, PeriodType
<1>6. Queues
  <2> DEFINE R == [task : Task, at : Int]
  <2>1. \A i \in 1 .. Len(s) : sleepers[i] \in R
    BY <1>2, <1>4, <1>5
  <2>2. sleepers = [i \in 1 .. Len(s) |-> sleepers[i]]
    BY <1>2, <1>4
  <2> HIDE DEF R
  <2>3. sleepers \in Seq(R)
    BY <1>4, <2>1, <2>2
  <2>4. ready \in Seq(Task)
    BY <1>1
  <2> QED BY <1>1, <1>4, <1>5, <2>3, <2>4 DEF Queues, R
<1>7. OnePlace
  <2>1. DOMAIN ready = {}
    BY <1>1
  <2>2. \A i, j \in DOMAIN s : s[i] = s[j] => i = j
    BY <1>3
  <2>3. \A i, j \in DOMAIN sleepers :
          IsLoop(sleepers[i].task) /\ sleepers[i].task = sleepers[j].task => i = j
    BY <1>4, <2>2
  <2>4. \A l \in Loops : \E j \in DOMAIN sleepers : sleepers[j].task = l
    BY <1>3, <1>4
  <2> QED BY <2>1, <2>3, <2>4 DEF OnePlace
<1>8. TypeOK
  <2>1. due \in [Loops -> Int]
    BY <1>1, <1>5
  <2>2. \A i \in DOMAIN sleepers : sleepers[i].at \in Int
    BY <1>4, <1>5
  <2>3. ticks \in [Nodes -> -2 * Every .. 2 * Every]
    BY <1>1, LoopsAssumption
  <2>4. left \in 0 .. Horizon /\ bus \in [sent : Nat, delivered : Nat, dropped : Nat]
    BY <1>1, LoopsAssumption
  <2> QED BY <1>1, <2>1, <2>2, <2>3, <2>4 DEF TypeOK
<1>9. DeadlinesKeepPhase
  <2> SUFFICES ASSUME NEW l \in Loops, NEW k \in Loops
               PROVE  (due[l] - due[k]) % Dt = 0
    BY DEF DeadlinesKeepPhase
  <2>1. PICK p \in Nat : Period(l) = p * Dt
    BY LoopFacts, PeriodType
  <2>2. PICK q \in Nat : Period(k) = q * Dt
    BY LoopFacts, PeriodType
  <2>3. Dt \in Nat /\ Dt > 0
    BY LoopsAssumption
  <2>4. due[l] - due[k] = (p - q) * Dt /\ p - q \in Int
    BY <2>1, <2>2, <2>3, <1>5
  <2>5. due[l] - due[k] \in Int
    BY <1>5
  <2> QED BY <2>3, <2>4, <2>5, Multiples
<1>10. Punctual
  BY <1>1, <1>4, <1>5 DEF Punctual, NothingRunsLate
<1>11. Tardy
  <2>1. \A l \in Loops : Floor(l) \in Nat
    BY LoopFacts, PeriodType
  <2>2. LongestStep \in Nat
    BY LongestStepFacts
  <2> QED BY <1>1, <1>4, <1>5, <2>1, <2>2 DEF Tardy
<1>12. Spaced
  <2> SUFFICES ASSUME clock = "virtual", ~inTick, NEW a \in Nodes
               PROVE  ticks[a] * Dt + due[Publish(a)] - due[Control(a)] = Every * Dt - Dt
    BY DEF Spaced
  <2>1. due[Control(a)] = Dt /\ due[Publish(a)] = Every * Dt /\ ticks[a] = 0
    BY <1>1, <1>5, AgentLoopFacts
  <2>2. Every * Dt \in Nat /\ Dt \in Nat /\ 0 * Dt = 0
    BY LoopsAssumption
  <2> QED BY <2>1, <2>2
<1>13. Counted
  BY <1>1, LoopsAssumption DEF Counted
<1> QED BY <1>6, <1>7, <1>8, <1>9, <1>10, <1>11, <1>12, <1>13 DEF LoopsIInv

-----------------------------------------------------------------------------
(* Each step keeps the invariant: time passes on a node.                   *)

LEMMA WakingIsFinite ==
  ASSUME Queues, NEW t PROVE IsFiniteSet(Waking(t))
<1>1. DOMAIN sleepers = 1 .. Len(sleepers) /\ Len(sleepers) \in Nat
  BY QueueTypes
<1>2. IsFiniteSet(DOMAIN sleepers)
  BY <1>1, FS_Interval
<1>3. Waking(t) \subseteq DOMAIN sleepers
  BY DEF Waking
<1> QED BY <1>2, <1>3, FS_Subset

\* What the type invariant adds to the shape of the queues.
LEMMA TypeFromQueues ==
  ASSUME Queues', UNCHANGED <<clock, inTick>>, due' \in [Loops -> Int],
         ticks' \in [Nodes -> -2 * Every .. 2 * Every],
         left' \in 0 .. Horizon,
         bus' \in [sent : Nat, delivered : Nat, dropped : Nat]
  PROVE  TypeOK'
<1>1. Loops' = Loops /\ Nodes' = Nodes /\ Task' = Task
  BY TaskKept
<1>2. \A i \in DOMAIN sleepers' : sleepers'[i].at \in Int
  <2> DEFINE R == [task : Task, at : Int]
  <2>1. sleepers' \in Seq(R)
    BY <1>1 DEF Queues
  <2> HIDE DEF R
  <2>2. \A i \in DOMAIN sleepers' : sleepers'[i] \in R
    BY <2>1
  <2> QED BY <2>2 DEF R
<1>3. \A i \in DOMAIN ready' : ready'[i].kind \in
        {"control", "publish", "send", "carry", "deliver"}
  <2>1. ready' \in Seq(Task)
    BY <1>1 DEF Queues
  <2>2. \A i \in DOMAIN ready' : ready'[i] \in Task
    BY <2>1
  <2>3. \A x \in Task : x.kind \in {"control", "publish", "send", "carry", "deliver"}
    BY DEF Task
  <2> QED BY <2>2, <2>3
<1> QED BY <1>1, <1>2, <1>3 DEF TypeOK

LEMMA LagFacts ==
  ASSUME NEW l \in Loops
  PROVE  /\ LongestStep \in Nat /\ Floor(l) \in Nat /\ Jitter \in Nat /\ Lag(l) \in Nat
         /\ Lag(l) = LongestStep + Floor(l) + Jitter
BY LongestStepFacts, LoopFacts, PeriodType, LoopsAssumption DEF Lag

LEMMA WallPassKeeps ==
  ASSUME LoopsIInv, WallPass
  PROVE  LoopsIInv'
<1>1. clock = "wall" /\ ready = <<>> /\ UNCHANGED <<clock, inTick, ticks, left, bus>>
  BY DEF WallPass
<1>2. PICK j \in 0 .. Jitter : \E order \in SetToSeqs(Waking(Max({Earliest, 0}) + j)) :
        /\ \A m, n \in DOMAIN order :
             m < n => sleepers[order[m]].at <= sleepers[order[n]].at
        /\ Pass(Max({Earliest, 0}) + j, order)
  BY DEF WallPass
<1> DEFINE t == Max({Earliest, 0}) + j
<1>3. PICK order \in SetToSeqs(Waking(t)) :
        /\ \A m, n \in DOMAIN order :
             m < n => sleepers[order[m]].at <= sleepers[order[n]].at
        /\ Pass(t, order)
  BY <1>2
<1>4. Queues /\ TypeOK /\ OnePlace /\ DeadlinesKeepPhase /\ Tardy
  BY DEF LoopsIInv
<1>5. /\ Earliest \in Int /\ j \in Nat /\ j <= Jitter /\ Jitter \in Nat
      /\ \A i \in DOMAIN sleepers : Earliest <= sleepers[i].at
  BY <1>4, EarliestFacts, LoopsAssumption
<1>6. /\ t \in Nat
      /\ (Earliest >= 0 /\ t = Earliest + j) \/ (Earliest < 0 /\ t = j)
  BY <1>5, MaxOfTwo
<1> HIDE DEF t
<1>7. /\ order \in Seq(Waking(t))
      /\ \A m, n \in DOMAIN order : order[m] = order[n] => m = n
      /\ \A x \in Waking(t) : \E m \in DOMAIN order : order[m] = x
  BY <1>4, WakingIsFinite, OrderFacts
<1>8. PICK rest : Passed(t, order, rest)
  <2>1. order \in Seq(DOMAIN sleepers)
    <3>1. Waking(t) \subseteq DOMAIN sleepers
      BY DEF Waking
    <3> QED BY <1>7, <3>1
  <2> QED BY <1>1, <1>3, <1>4, <1>6, <1>7, <2>1, PassFacts
<1>9. /\ Queues' /\ OnePlace' /\ DeadlinesKeepPhase'
      /\ due' \in [Loops -> Int] /\ \A l \in Loops : due'[l] = due[l] - t
  BY <1>1, <1>4, <1>6, <1>8, PassKeeps
<1>10. TypeOK'
  <2>1. UNCHANGED <<clock, inTick>>
    BY <1>1
  <2>2. /\ ticks' \in [Nodes -> -2 * Every .. 2 * Every]
        /\ left' \in 0 .. Horizon
        /\ bus' \in [sent : Nat, delivered : Nat, dropped : Nat]
    BY <1>1, <1>4 DEF TypeOK
  <2> QED BY <1>9, <2>1, <2>2, TypeFromQueues
<1>11. /\ DOMAIN ready' = DOMAIN order /\ DOMAIN sleepers' = DOMAIN rest
       /\ DOMAIN order = 1 .. Len(order) /\ Len(order) \in Nat
  BY <1>4, <1>6, <1>7, <1>8, PassedTasks
<1>12. \A x \in DOMAIN sleepers :
         /\ sleepers[x].at \in Int /\ sleepers[x].task \in Loops
         /\ IsLoop(sleepers[x].task) /\ sleepers[x].task \in Task
         /\ due[sleepers[x].task] \in Int
  <2>1. TAKE x \in DOMAIN sleepers
  <2>2. IsLoop(sleepers[x].task)
    BY <1>1, <1>4 DEF Tardy
  <2>3. sleepers[x].task \in Loops
    BY <2>2, <1>4 DEF Queues
  <2>4. due[sleepers[x].task] \in Int
    BY <2>3, <1>4 DEF TypeOK
  <2> QED BY <1>4, <2>2, <2>3, <2>4, QueueTypes
<1>13. ASSUME NEW x \in DOMAIN sleepers
       PROVE  LET l == sleepers[x].task
              IN  /\ Older(l, t) = l
                  /\ due'[l] >= sleepers[x].at - t - Floor(l) - LongestStep
                  /\ sleepers[x].at - due[l] <= Floor(l) + LongestStep
                  /\ due'[l] = due[l] - t
                  /\ sleepers[x].at >= 0 - LongestStep
  <2> DEFINE l == sleepers[x].task
  <2>1. Older(l, t) = l /\ due'[l] = due[l] - t
    BY <1>6, <1>9, <1>12, OlderFacts
  <2>2. sleepers[x].at - due[l] <= Floor(l) + LongestStep /\ sleepers[x].at >= 0 - LongestStep
    <3>1. LongestStep \in Nat
      BY LongestStepFacts
    <3>2. sleepers[x].at - due[l] <= Floor(l) + LongestStep /\ sleepers[x].at >= -LongestStep
      BY <1>1, <1>4 DEF Tardy
    <3> QED BY <3>1, <3>2
  <2>3. sleepers[x].at \in Int /\ due[l] \in Int /\ Floor(l) \in Int /\ LongestStep \in Int
    BY <1>12, LagFacts
  <2> HIDE DEF l
  <2>4. due'[l] >= sleepers[x].at - t - Floor(l) - LongestStep
    BY <1>6, <2>1, <2>2, <2>3
  <2> QED BY <2>1, <2>2, <2>4 DEF l
<1>14. ASSUME NEW i \in DOMAIN order
       PROVE  LET l == ready'[i]
              IN  /\ due'[l] >= -(Lag(l) + LongestStep)
                  /\ \A k \in 1 .. i - 1 : due'[l] >= -Lag(l)
  <2> DEFINE x == order[i]
             l == sleepers[x].task
             at == sleepers[x].at
  <2>1. x \in DOMAIN sleepers /\ ready'[i] = Older(l, t)
    BY <1>4, <1>6, <1>8, PassedTasks
  <2>2. ready'[i] = l /\ at \in Int /\ l \in Loops /\ Earliest <= at
    BY <1>5, <1>12, <1>13, <2>1
  <2>3. /\ due'[l] >= at - t - Floor(l) - LongestStep /\ at >= 0 - LongestStep
        /\ due'[l] \in Int
    BY <1>9, <1>12, <1>13, <2>1
  <2>4. /\ LongestStep \in Nat /\ Floor(l) \in Nat /\ Jitter \in Nat /\ Lag(l) \in Nat
        /\ Lag(l) = LongestStep + Floor(l) + Jitter
    BY <2>2, LagFacts
  <2>5. due'[l] >= -(Lag(l) + LongestStep)
    <3> HIDE DEF l, at, x
    <3>1. at - t >= -(LongestStep + Jitter)
      BY <1>5, <1>6, <2>2, <2>3, <2>4
    <3> QED BY <1>6, <2>2, <2>3, <2>4, <3>1
  <2>6. ASSUME NEW k \in 1 .. i - 1 PROVE due'[l] >= -Lag(l)
    <3>1. k \in DOMAIN order /\ k < i
      BY <1>11
    <3>2. sleepers[order[k]].at <= at /\ order[k] # x
      BY <1>3, <1>7, <3>1
    <3>3. order[k] \in DOMAIN sleepers
      BY <1>4, <1>6, <1>8, <3>1, PassedTasks
    <3>4. sleepers[order[k]].at >= 0 \/ at >= 0
      BY <1>1, <1>4, <2>1, <3>2, <3>3 DEF Tardy
    <3>5. at >= 0
      BY <1>12, <2>2, <3>2, <3>3, <3>4
    <3> HIDE DEF l, at, x
    <3>6. at - t >= -Jitter
      BY <1>5, <1>6, <2>2, <3>5
    <3> QED BY <1>6, <2>2, <2>3, <2>4, <3>6
  <2> QED BY <2>2, <2>5, <2>6
<1>15. ASSUME NEW i \in DOMAIN rest
       PROVE  LET l == sleepers'[i].task
              IN  /\ IsLoop(l) /\ sleepers'[i].at >= 0
                  /\ sleepers'[i].at - due'[l] <= Floor(l) + LongestStep
                  /\ sleepers'[i].at >= 0 - LongestStep
  <2> DEFINE x == rest[i]
             l == sleepers[x].task
             at == sleepers[x].at
  <2>1. /\ x \in DOMAIN sleepers /\ at > t
        /\ sleepers'[i].task = Older(l, t) /\ sleepers'[i].at = at - t
    <3> HIDE DEF l, at, x
    <3>1. /\ rest[i] \in DOMAIN sleepers /\ rest[i] \notin Waking(t)
          /\ sleepers'[i].task = Older(sleepers[rest[i]].task, t)
          /\ sleepers'[i].at = sleepers[rest[i]].at - t
      <4>1. /\ rest[i] \in DOMAIN sleepers
            /\ \A k \in DOMAIN order : order[k] # rest[i]
            /\ sleepers'[i].task = Older(sleepers[rest[i]].task, t)
            /\ sleepers'[i].at = sleepers[rest[i]].at - t
        BY <1>4, <1>6, <1>8, PassedTasks
      <4> QED BY <4>1, <1>7
    <3>2. sleepers[rest[i]].at > t
      <4>1. sleepers[rest[i]].at \in Int
        BY <1>12, <3>1
      <4> QED BY <1>6, <3>1, <4>1 DEF Waking
    <3> QED BY <3>1, <3>2 DEF l, at, x
  <2>2. /\ sleepers'[i].task = l /\ at \in Int /\ l \in Loops /\ IsLoop(l)
        /\ at - due[l] <= Floor(l) + LongestStep /\ due'[l] = due[l] - t /\ due[l] \in Int
    BY <1>12, <1>13, <2>1
  <2>3. LongestStep \in Nat /\ Floor(l) \in Nat
    BY <2>2, LagFacts
  <2> HIDE DEF l, at, x
  <2> QED BY <1>6, <2>1, <2>2, <2>3
<1>16. Tardy'
  <2>1. \A i \in DOMAIN ready' : IsLoop(ready'[i]) =>
         /\ due'[ready'[i]] >= -(Lag(ready'[i]) + LongestStep)
         /\ \A k \in 1 .. i - 1 : IsLoop(ready'[k]) => due'[ready'[i]] >= -Lag(ready'[i])
    BY <1>11, <1>14
  <2>2. \A i \in DOMAIN sleepers' :
         /\ IsLoop(sleepers'[i].task)
         /\ sleepers'[i].at - due'[sleepers'[i].task] <= Floor(sleepers'[i].task) + LongestStep
         /\ sleepers'[i].at >= -LongestStep
         /\ sleepers'[i].at >= 0
    <3>1. TAKE i \in DOMAIN sleepers'
    <3>2. LongestStep \in Nat
      BY LongestStepFacts
    <3> QED BY <3>2, <1>11, <1>15
  <2>3. \A i \in DOMAIN ready' : ready'[i].kind # "carry"
    <3>1. TAKE i \in DOMAIN ready'
    <3>2. order[i] \in DOMAIN sleepers /\ ready'[i] = Older(sleepers[order[i]].task, t)
      BY <1>4, <1>6, <1>8, <1>11, PassedTasks
    <3>3. IsLoop(ready'[i])
      BY <3>2, <1>12, <1>13
    <3> QED BY <3>3 DEF IsLoop
  <2> QED BY <2>1, <2>2, <2>3 DEF Tardy
<1>17. Punctual' /\ Spaced'
  BY <1>1 DEF Punctual, Spaced
<1>18. Counted'
  <2>1. Nodes' = Nodes
    BY <1>1, TaskKept
  <2> QED BY <1>1, <2>1 DEF LoopsIInv, Counted
<1> QED BY <1>9, <1>10, <1>16, <1>17, <1>18 DEF LoopsIInv

-----------------------------------------------------------------------------
(* The clock of a simulation jumps.                                        *)

LEMMA UnchangedKeeps ==
  ASSUME LoopsIInv,
         UNCHANGED <<clock, inTick, ready, sleepers, due, ticks, left, bus>>
  PROVE  LoopsIInv'
<1>1. Loops' = Loops /\ Nodes' = Nodes /\ Task' = Task
  BY TaskKept
<1>2. Queues' /\ TypeOK' /\ OnePlace' /\ DeadlinesKeepPhase'
  BY <1>1 DEF LoopsIInv, Queues, TypeOK, OnePlace, DeadlinesKeepPhase
<1>3. Punctual'
  BY <1>1 DEF LoopsIInv, Punctual, NothingRunsLate
<1>4. Tardy'
  BY DEF LoopsIInv, Tardy
<1>5. Spaced' /\ Counted'
  BY <1>1 DEF LoopsIInv, Spaced, Counted
<1> QED BY <1>2, <1>3, <1>4, <1>5 DEF LoopsIInv

LEMMA AdvanceKeeps ==
  ASSUME LoopsIInv, Advance
  PROVE  LoopsIInv'
<1>1. clock = "virtual" /\ Parked /\ UNCHANGED <<clock, inTick, ticks, bus>>
  BY DEF Advance
<1>2. Queues /\ TypeOK /\ OnePlace /\ DeadlinesKeepPhase /\ Punctual /\ Spaced
  BY DEF LoopsIInv
<1>3. ready = <<>>
  <2>1. Len(ready) = 0
    BY <1>1, <1>2, QueueTypes DEF Parked, LiveTasks
  <2> QED BY <2>1, <1>2 DEF Queues
<1>4. CASE UNCHANGED <<ready, sleepers, due, left>>
  BY <1>1, <1>4, UnchangedKeeps
<1>5. CASE /\ \E S \in SUBSET Waking(Earliest) \ {{}} :
                \E order \in SetToSeqs(S) : Pass(Earliest, order)
           /\ left' = left - Earliest /\ Earliest <= left
  <2> DEFINE t == Earliest
  <2>0. PICK S \in SUBSET Waking(t) : \E order \in SetToSeqs(S) : Pass(t, order)
    BY <1>5
  <2>01. PICK order \in SetToSeqs(S) : Pass(t, order)
    BY <2>0
  <2>1. /\ t \in Int /\ \A i \in DOMAIN sleepers : t <= sleepers[i].at
        /\ t = Horizon + 1 \/ \E i \in DOMAIN sleepers : t = sleepers[i].at
    BY <1>2, EarliestFacts
  <2>2. \A i \in DOMAIN sleepers : sleepers[i].at \in Int /\ sleepers[i].at >= 0
    BY <1>1, <1>2, QueueTypes DEF Punctual
  <2>3. t \in Nat
    BY <2>1, <2>2, LoopsAssumption
  <2>4. left' = left - t /\ t <= left /\ Pass(t, order)
    BY <1>5, <2>01
  <2> HIDE DEF t
  <2>5. /\ order \in Seq(S)
        /\ \A i, j \in DOMAIN order : order[i] = order[j] => i = j
    <3>1. IsFiniteSet(S)
      BY <1>2, <2>0, WakingIsFinite, FS_Subset
    <3> QED BY <2>01, <3>1, OrderFacts
  <2>6. /\ order \in Seq(DOMAIN sleepers)
        /\ \A i \in DOMAIN order : order[i] \in Waking(t)
    <3>1. Waking(t) \subseteq DOMAIN sleepers
      BY DEF Waking
    <3> QED BY <2>0, <2>5, <3>1
  <2>7. PICK rest : Passed(t, order, rest)
    BY <1>2, <1>3, <2>3, <2>4, <2>5, <2>6, PassFacts
  <2>8. /\ Queues' /\ OnePlace' /\ DeadlinesKeepPhase'
        /\ due' \in [Loops -> Int] /\ \A l \in Loops : due'[l] = due[l] - t
    BY <1>1, <1>2, <1>3, <2>3, <2>7, PassKeeps
  <2>9. Loops' = Loops /\ Nodes' = Nodes /\ Task' = Task
    BY <1>1, TaskKept
  <2>10. TypeOK'
    <3>1. UNCHANGED <<clock, inTick>>
      BY <1>1
    <3>2. /\ ticks' \in [Nodes -> -2 * Every .. 2 * Every]
          /\ bus' \in [sent : Nat, delivered : Nat, dropped : Nat]
      BY <1>1, <1>2 DEF TypeOK
    <3>3. left' \in 0 .. Horizon
      <4>1. left \in 0 .. Horizon /\ Horizon \in Nat
        BY <1>2, LoopsAssumption DEF TypeOK
      <4> QED BY <4>1, <2>3, <2>4
    <3> QED BY <2>8, <3>1, <3>2, <3>3, TypeFromQueues
  <2>11. /\ DOMAIN ready' = DOMAIN order /\ DOMAIN sleepers' = DOMAIN rest
         /\ \A i \in DOMAIN order :
              /\ order[i] \in DOMAIN sleepers /\ sleepers[order[i]].at = t
              /\ ready'[i] = Older(sleepers[order[i]].task, t)
         /\ \A j \in DOMAIN rest :
              /\ rest[j] \in DOMAIN sleepers /\ sleepers[rest[j]].at >= t
              /\ sleepers'[j].task = Older(sleepers[rest[j]].task, t)
              /\ sleepers'[j].at = sleepers[rest[j]].at - t
    <3>1. \A i \in DOMAIN order : order[i] \in DOMAIN sleepers /\ sleepers[order[i]].at <= t
      BY <2>6 DEF Waking
    <3>2. \A i \in DOMAIN order : sleepers[order[i]].at = t
      BY <2>1, <2>2, <3>1
    <3>3. /\ DOMAIN ready' = DOMAIN order /\ DOMAIN sleepers' = DOMAIN rest
          /\ \A i \in DOMAIN order : ready'[i] = Older(sleepers[order[i]].task, t)
          /\ \A j \in DOMAIN rest :
               /\ rest[j] \in DOMAIN sleepers
               /\ sleepers'[j].task = Older(sleepers[rest[j]].task, t)
               /\ sleepers'[j].at = sleepers[rest[j]].at - t
      BY <1>2, <2>3, <2>7, PassedTasks
    <3>4. \A j \in DOMAIN rest : sleepers[rest[j]].at >= t
      BY <2>1, <2>2, <3>3
    <3> QED BY <3>1, <3>2, <3>3, <3>4
  <2>12. \A x \in DOMAIN sleepers :
           /\ sleepers[x].task \in Task /\ sleepers[x].at \in Int
           /\ IsLoop(sleepers[x].task) =>
                /\ sleepers[x].task \in Loops /\ Older(sleepers[x].task, t) = sleepers[x].task
                /\ sleepers[x].at = due[sleepers[x].task]
           /\ ~IsLoop(sleepers[x].task) =>
                /\ sleepers[x].task.kind = "deliver"
                /\ Older(sleepers[x].task, t).kind = "deliver"
                /\ ~IsLoop(Older(sleepers[x].task, t))
                /\ Older(sleepers[x].task, t).age = sleepers[x].task.age + t
                /\ sleepers[x].task.age + sleepers[x].at = Delay
                /\ sleepers[x].task.age \in Nat
    <3>1. TAKE x \in DOMAIN sleepers
    <3>2. sleepers[x].task \in Task /\ sleepers[x].at \in Int
      BY <1>2, QueueTypes
    <3>3. sleepers[x].task.age \in Nat
      BY <3>2 DEF Task
    <3>4. CASE IsLoop(sleepers[x].task)
      <4>1. sleepers[x].task \in Loops
        BY <1>2, <3>4 DEF Queues
      <4>2. sleepers[x].at = due[sleepers[x].task]
        BY <1>1, <1>2, <3>4 DEF Punctual
      <4> QED BY <3>2, <3>4, <4>1, <4>2, <2>3, OlderFacts
    <3>5. CASE ~IsLoop(sleepers[x].task)
      <4>1. sleepers[x].task.kind = "deliver" /\ sleepers[x].task.age + sleepers[x].at = Delay
        BY <1>1, <1>2, <3>5 DEF Punctual
      <4>2. /\ Older(sleepers[x].task, t).kind = "deliver"
            /\ ~IsLoop(Older(sleepers[x].task, t))
            /\ Older(sleepers[x].task, t).age = sleepers[x].task.age + t
        BY <2>3, <3>2, <3>5, <4>1, OlderFacts
      <4> QED BY <3>2, <3>3, <3>5, <4>1, <4>2
    <3> QED BY <3>4, <3>5
  <2>13. Punctual'
    <3>1. ASSUME NEW l \in Loops PROVE due'[l] \in 0 .. Period(l)
      <4>1. PICK x \in DOMAIN sleepers : sleepers[x].task = l
        BY <1>2, <1>3 DEF OnePlace
      <4>2. due[l] = sleepers[x].at /\ t <= due[l]
        BY <4>1, <2>1, <2>12, LoopFacts
      <4>3. due[l] \in 0 .. Period(l) /\ Period(l) \in Nat
        BY <1>1, <1>2, LoopFacts, PeriodType DEF Punctual
      <4> QED BY <4>2, <4>3, <2>3, <2>8
    <3>2. ASSUME NEW j \in DOMAIN rest
          PROVE  LET task == sleepers'[j].task
                 IN  /\ sleepers'[j].at >= 0
                     /\ IF IsLoop(task) THEN sleepers'[j].at = due'[task]
                        ELSE task.kind = "deliver" /\ task.age + sleepers'[j].at = Delay
      <4> DEFINE x == rest[j]
                 was == sleepers[x].task
      <4>1. /\ x \in DOMAIN sleepers /\ sleepers[x].at >= t /\ sleepers[x].at \in Int
            /\ sleepers'[j].task = Older(was, t) /\ sleepers'[j].at = sleepers[x].at - t
        BY <2>11, <2>12
      <4>2. CASE IsLoop(was)
        <5>1. /\ was \in Loops /\ sleepers'[j].task = was /\ sleepers[x].at = due[was]
              /\ due'[was] = due[was] - t
          BY <4>1, <4>2, <2>8, <2>12
        <5> QED BY <2>3, <4>1, <4>2, <5>1
      <4>3. CASE ~IsLoop(was)
        <5>1. /\ Older(was, t).kind = "deliver" /\ ~IsLoop(Older(was, t))
              /\ Older(was, t).age = was.age + t /\ was.age + sleepers[x].at = Delay
              /\ was.age \in Nat
          BY <4>1, <4>3, <2>12
        <5> QED BY <2>3, <4>1, <5>1
      <4> QED BY <4>2, <4>3
    <3>3. ASSUME NEW i \in DOMAIN order
          PROVE  LET task == ready'[i]
                 IN  IF task \in Loops THEN due'[task] = 0
                     ELSE task.age = (IF task.kind = "deliver" THEN Delay ELSE 0)
      <4> DEFINE x == order[i]
                 was == sleepers[x].task
      <4>1. /\ x \in DOMAIN sleepers /\ sleepers[x].at = t /\ ready'[i] = Older(was, t)
        BY <2>11
      <4>2. CASE IsLoop(was)
        <5>1. /\ was \in Loops /\ ready'[i] = was /\ due[was] = t
              /\ due'[was] = due[was] - t
          BY <4>1, <4>2, <2>8, <2>12
        <5> QED BY <2>3, <5>1
      <4>3. CASE ~IsLoop(was)
        <5>1. /\ Older(was, t).kind = "deliver" /\ ~IsLoop(Older(was, t))
              /\ Older(was, t).age = was.age + t /\ was.age + t = Delay
          BY <4>1, <4>3, <2>12
        <5>2. Older(was, t) \notin Loops
          BY <5>1, LoopFacts
        <5> QED BY <4>1, <5>1, <5>2
      <4> QED BY <4>2, <4>3
    <3>4. NothingRunsLate'
      BY <2>9, <2>11, <3>3 DEF NothingRunsLate
    <3> QED BY <2>9, <2>11, <3>1, <3>2, <3>4 DEF Punctual
  <2>14. Tardy'
    BY <1>1 DEF Tardy
  <2>15. Spaced'
    <3> SUFFICES ASSUME ~inTick, NEW a \in Nodes
                 PROVE  ticks[a] * Dt + due'[Publish(a)] - due'[Control(a)] = Every * Dt - Dt
      BY <1>1, <2>9 DEF Spaced
    <3>1. Control(a) \in Loops /\ Publish(a) \in Loops
      BY AgentLoopFacts
    <3>2. /\ due[Control(a)] \in Int /\ due[Publish(a)] \in Int
          /\ due'[Control(a)] = due[Control(a)] - t /\ due'[Publish(a)] = due[Publish(a)] - t
      BY <3>1, <1>2, <2>8 DEF TypeOK
    <3>3. ticks[a] * Dt + due[Publish(a)] - due[Control(a)] = Every * Dt - Dt
      BY <1>1, <1>2 DEF Spaced
    <3>4. ticks[a] * Dt \in Int /\ Every * Dt \in Int
      BY <1>2, LoopsAssumption DEF TypeOK
    <3> QED BY <2>3, <3>2, <3>3, <3>4
  <2>16. Counted'
    BY <1>1, <2>9 DEF LoopsIInv, Counted
  <2> QED BY <2>8, <2>10, <2>13, <2>14, <2>15, <2>16 DEF LoopsIInv
<1> QED BY <1>4, <1>5 DEF Advance

-----------------------------------------------------------------------------
(* A loop runs.                                                            *)

LEMMA TwoLoops ==
  ASSUME clock = "wall", NEW l \in Loops, NEW k \in Loops, NEW m \in Loops,
         l # k, l # m
  PROVE  k = m
BY DEF Loops, Nodes, Loop

LEMMA LoopRan ==
  ASSUME LoopsIInv, ready # <<>>, NEW l \in Loops, l = Head(ready),
         NEW t \in Durations, NEW spawned \in Seq(Task),
         \A i \in DOMAIN spawned : spawned[i].kind = "send" /\ spawned[i].age = 0,
         Sleep(l, t, spawned), UNCHANGED <<clock, inTick>>
  PROVE  /\ Queues' /\ OnePlace' /\ DeadlinesKeepPhase' /\ Tardy' /\ Punctual'
         /\ due' \in [Loops -> Int] /\ \A k \in Loops : k # l => due'[k] = due[k] - t
         /\ clock = "virtual" => t = 0 /\ due[l] = 0 /\ due'[l] = Period(l)
<1> DEFINE n == Len(sleepers)
           nd == NextDue(l)
<1>1. Queues /\ TypeOK /\ OnePlace /\ DeadlinesKeepPhase /\ Tardy /\ Punctual
  BY DEF LoopsIInv
<1>2. t \in Nat /\ (clock = "wall" => t <= LongestStep) /\ (clock = "virtual" => t = 0)
  <2>1. CASE clock = "wall"
    <3>1. t \in Steps
      BY <2>1 DEF Durations
    <3> QED BY <2>1, <3>1, LongestStepFacts
  <2>2. CASE clock = "virtual"
    BY <2>2 DEF Durations
  <2> QED BY <1>1, <2>1, <2>2 DEF Queues
<1>3. \A i \in DOMAIN spawned : ~IsLoop(spawned[i])
  BY DEF IsLoop
<1>4. Queues' /\ OnePlace' /\ DeadlinesKeepPhase'
  BY <1>1, <1>2, <1>3, SleepKeeps, SleepKeepsPhase
<1>5. Loops' = Loops /\ Nodes' = Nodes /\ Task' = Task
  BY TaskKept
<1>6. /\ n \in Nat /\ DOMAIN sleepers = 1 .. n /\ DOMAIN sleepers' = 1 .. n + 1
      /\ \A i \in DOMAIN sleepers : /\ sleepers'[i].task = sleepers[i].task
                                    /\ sleepers'[i].at = sleepers[i].at - t
      /\ sleepers'[n + 1].task = l
      /\ sleepers'[n + 1].at = Max({Floor(l), nd - t})
      /\ due' \in [Loops -> Int] /\ due'[l] = nd - t
      /\ \A k \in Loops : k # l => due'[k] = due[k] - t
  BY <1>1, <1>2, SleepFacts
<1>7. nd \in Nat /\ (due[l] = 0 => nd = Period(l))
  BY <1>1, NextDueFacts
<1>8. /\ Floor(l) \in Nat /\ Floor(l) > 0 /\ Period(l) \in Nat /\ Floor(l) <= Period(l)
      /\ Period(l) > 0 /\ IsLoop(l) /\ LongestStep \in Nat
  BY LoopFacts, PeriodType, LongestStepFacts
<1>9. Max({Floor(l), nd - t}) = IF Floor(l) >= nd - t THEN Floor(l) ELSE nd - t
  BY <1>2, <1>7, <1>8, MaxOfTwo
<1> HIDE DEF nd, n
<1>10. /\ 1 \in DOMAIN ready /\ ready[1] = l
       /\ DOMAIN ready = 1 .. Len(ready) /\ Len(ready) \in Nat
       /\ DOMAIN ready' = 1 .. Len(ready') /\ Len(ready') \in Nat
       /\ \A i \in DOMAIN ready' :
            \/ i + 1 \in DOMAIN ready /\ ready'[i] = ready[i + 1]
            \/ /\ ~IsLoop(ready'[i])
               /\ \E k \in DOMAIN spawned : ready'[i] = spawned[k]
  <2>1. ready' = Tail(ready) \o spawned
    BY DEF Sleep
  <2>2. ready' \in Seq(Task)
    BY <1>1, <1>3, <2>1, RanFacts
  <2>3. DOMAIN ready' = 1 .. Len(ready') /\ Len(ready') \in Nat
    BY <2>2
  <2> QED BY <1>1, <1>3, <2>1, <2>3, RanFacts, QueueTypes
\* The other loops, wherever they are.
<1>11. ASSUME NEW i \in DOMAIN ready', IsLoop(ready'[i])
       PROVE  /\ i + 1 \in DOMAIN ready /\ ready'[i] = ready[i + 1] /\ i \in Nat /\ i > 0
              /\ ready'[i] \in Loops /\ ready'[i] # l
              /\ due'[ready'[i]] = due[ready'[i]] - t
  <2>1. i + 1 \in DOMAIN ready /\ ready'[i] = ready[i + 1] /\ i \in Nat /\ i > 0
    BY <1>10, <1>11
  <2>2. ready'[i] \in Loops
    BY <2>1, <1>1, <1>11 DEF Queues
  <2>3. ready[i + 1] # l
    <3>1. i + 1 # 1
      BY <2>1
    <3> QED BY <3>1, <2>1, <1>1, <1>8, <1>10 DEF OnePlace
  <2> QED BY <2>1, <2>2, <2>3, <1>6
<1>12. ASSUME NEW i \in DOMAIN sleepers, IsLoop(sleepers[i].task)
       PROVE  /\ sleepers[i].task \in Loops /\ sleepers[i].task # l
              /\ due'[sleepers[i].task] = due[sleepers[i].task] - t
  <2>1. sleepers[i].task \in Loops
    BY <1>1, <1>12 DEF Queues
  <2>2. sleepers[i].task # l
    BY <1>1, <1>8, <1>10, <1>12 DEF OnePlace
  <2> QED BY <2>1, <2>2, <1>6
<1>13. \A i \in DOMAIN sleepers : sleepers[i].at \in Int /\ sleepers[i].task \in Task
  BY <1>1, QueueTypes
<1>14. ASSUME clock = "virtual" PROVE due[l] = 0 /\ due'[l] = Period(l)
  <2>1. due[l] = 0
    <3>1. NothingRunsLate
      BY <1>1, <1>14 DEF Punctual
    <3> QED BY <3>1, <1>10, <1>14 DEF NothingRunsLate
  <2> QED BY <2>1, <1>2, <1>6, <1>7, <1>8, <1>14
<1>15. ASSUME clock = "virtual" PROVE Punctual'
  <2>1. \A k \in Loops : due'[k] \in 0 .. Period(k)
    <3>1. TAKE k \in Loops
    <3>2. CASE k = l
      BY <3>2, <1>8, <1>14, <1>15
    <3>3. CASE k # l
      <4>1. due[k] \in 0 .. Period(k) /\ Period(k) \in Nat
        BY <1>1, <1>15, LoopFacts, PeriodType DEF Punctual
      <4> QED BY <3>3, <4>1, <1>2, <1>6, <1>15
    <3> QED BY <3>2, <3>3
  <2>2. ASSUME NEW i \in DOMAIN sleepers'
        PROVE  LET task == sleepers'[i].task
               IN  /\ sleepers'[i].at >= 0
                   /\ IF IsLoop(task) THEN sleepers'[i].at = due'[task]
                      ELSE task.kind = "deliver" /\ task.age + sleepers'[i].at = Delay
    <3>1. CASE i \in DOMAIN sleepers
      <4> DEFINE task == sleepers[i].task
      <4>1. /\ sleepers'[i].task = task /\ sleepers'[i].at = sleepers[i].at
        BY <3>1, <1>2, <1>6, <1>13, <1>15
      <4>2. /\ sleepers[i].at >= 0
            /\ IF IsLoop(task) THEN sleepers[i].at = due[task]
               ELSE task.kind = "deliver" /\ task.age + sleepers[i].at = Delay
        BY <3>1, <1>1, <1>15 DEF Punctual
      <4>3. IsLoop(task) => due'[task] = due[task]
        <5>1. HAVE IsLoop(task)
        <5>2. task \in Loops /\ due'[task] = due[task] - t
          BY <3>1, <5>1, <1>12
        <5>3. due[task] \in Int
          BY <5>2, <1>1 DEF TypeOK
        <5> QED BY <5>2, <5>3, <1>2, <1>15
      <4> HIDE DEF task
      <4> QED BY <4>1, <4>2, <4>3
    <3>2. CASE i = n + 1
      <4>1. sleepers'[i].at = Period(l) /\ due'[l] = Period(l)
        <5>1. nd - t = Period(l)
          BY <1>2, <1>6, <1>14, <1>15
        <5> QED BY <3>2, <5>1, <1>6, <1>8, <1>9
      <4> QED BY <3>2, <4>1, <1>6, <1>8
    <3> QED BY <3>1, <3>2, <1>6
  <2>3. ASSUME NEW i \in DOMAIN ready'
        PROVE  LET task == ready'[i]
               IN  IF task \in Loops THEN due'[task] = 0
                   ELSE task.age = (IF task.kind = "deliver" THEN Delay ELSE 0)
    <3>1. CASE \E k \in DOMAIN spawned : ready'[i] = spawned[k]
      <4>1. ready'[i].kind = "send" /\ ready'[i].age = 0
        BY <3>1
      <4>2. ready'[i] \notin Loops
        BY <4>1, LoopFacts DEF IsLoop
      <4> QED BY <4>1, <4>2
    <3>2. CASE i + 1 \in DOMAIN ready /\ ready'[i] = ready[i + 1]
      <4>1. LET task == ready'[i]
            IN  IF task \in Loops THEN due[task] = 0
                ELSE task.age = (IF task.kind = "deliver" THEN Delay ELSE 0)
        BY <3>2, <1>1, <1>15 DEF Punctual, NothingRunsLate
      <4>2. ready'[i] \in Loops => due'[ready'[i]] = due[ready'[i]]
        <5>1. HAVE ready'[i] \in Loops
        <5>2. due'[ready'[i]] = due[ready'[i]] - t /\ due[ready'[i]] \in Int
          BY <5>1, <1>1, <1>11, LoopFacts DEF TypeOK
        <5> QED BY <5>2, <1>2, <1>15
      <4> QED BY <4>1, <4>2
    <3> QED BY <3>1, <3>2, <1>10
  <2>4. NothingRunsLate'
    BY <2>3, <1>5 DEF NothingRunsLate
  <2> QED BY <2>1, <2>2, <2>4, <1>5 DEF Punctual
<1>16. ASSUME clock = "wall" PROVE Tardy'
  <2>1. ASSUME NEW i \in DOMAIN ready' PROVE ready'[i].kind # "carry"
    <3>1. CASE \E k \in DOMAIN spawned : ready'[i] = spawned[k]
      BY <3>1
    <3>2. CASE i + 1 \in DOMAIN ready /\ ready'[i] = ready[i + 1]
      BY <3>2, <1>1, <1>16 DEF Tardy
    <3> QED BY <3>1, <3>2, <1>10
  <2>2. ASSUME NEW i \in DOMAIN ready', IsLoop(ready'[i])
        PROVE  /\ due'[ready'[i]] >= -(Lag(ready'[i]) + LongestStep)
               /\ \A k \in 1 .. i - 1 : IsLoop(ready'[k]) => due'[ready'[i]] >= -Lag(ready'[i])
    <3> DEFINE x == ready'[i]
    <3>1. /\ i + 1 \in DOMAIN ready /\ x = ready[i + 1] /\ i \in Nat /\ i > 0
          /\ x \in Loops /\ x # l /\ due'[x] = due[x] - t
      BY <2>2, <1>11
    <3>2. due[x] >= -Lag(x)
      <4>1. 1 \in 1 .. (i + 1) - 1 /\ IsLoop(ready[1]) /\ IsLoop(ready[i + 1])
        BY <3>1, <1>8, <1>10, <2>2
      <4> QED BY <3>1, <4>1, <1>1, <1>16 DEF Tardy
    <3>3. due[x] \in Int /\ Lag(x) \in Nat
      BY <3>1, <1>1, LagFacts DEF TypeOK
    <3>4. ASSUME NEW k \in 1 .. i - 1, IsLoop(ready'[k]) PROVE FALSE
      <4>1. k \in DOMAIN ready' /\ k # i
        BY <3>1, <1>10
      <4>2. ready'[k] \in Loops /\ ready'[k] # l
        BY <4>1, <3>4, <1>11
      <4>3. ready'[k] = x
        BY <4>2, <3>1, <1>16, TwoLoops
      <4> QED BY <4>1, <4>3, <3>4, <1>4 DEF OnePlace
    <3> HIDE DEF x
    <3>5. due'[x] >= -(Lag(x) + LongestStep)
      BY <3>1, <3>2, <3>3, <1>2, <1>8, <1>16
    <3> QED BY <3>4, <3>5 DEF x
  \* The one other loop, if it sleeps, slept well.
  <2>3. ASSUME NEW i \in DOMAIN sleepers
        PROVE  LET k == sleepers[i].task
               IN  /\ IsLoop(k) /\ k \in Loops /\ k # l
                   /\ sleepers[i].at >= 0
                   /\ sleepers[i].at - due[k] <= Floor(k) + LongestStep
                   /\ due'[k] = due[k] - t /\ due[k] \in Int
    <3>1. IsLoop(sleepers[i].task)
      BY <1>1, <1>16 DEF Tardy
    <3>2. sleepers[i].at >= 0
      <4>1. \E k \in DOMAIN ready : IsLoop(ready[k])
        BY <1>8, <1>10
      <4> QED BY <4>1, <1>1, <1>16 DEF Tardy
    <3>3. sleepers[i].at - due[sleepers[i].task] <= Floor(sleepers[i].task) + LongestStep
      BY <1>1, <1>16 DEF Tardy
    <3>4. /\ sleepers[i].task \in Loops /\ sleepers[i].task # l
          /\ due'[sleepers[i].task] = due[sleepers[i].task] - t
      BY <3>1, <1>12
    <3> QED BY <3>1, <3>2, <3>3, <3>4, <1>1 DEF TypeOK
  <2>4. ASSUME NEW i \in DOMAIN sleepers'
        PROVE  /\ IsLoop(sleepers'[i].task)
               /\ sleepers'[i].at - due'[sleepers'[i].task]
                    <= Floor(sleepers'[i].task) + LongestStep
               /\ sleepers'[i].at >= 0 - LongestStep
               /\ i = n + 1 => sleepers'[i].at >= 0
    <3>1. CASE i \in DOMAIN sleepers
      <4> DEFINE k == sleepers[i].task
      <4>1. /\ sleepers'[i].task = k /\ sleepers'[i].at = sleepers[i].at - t
            /\ sleepers[i].at \in Int
        BY <3>1, <1>6, <1>13
      <4>2. /\ IsLoop(k) /\ k \in Loops /\ sleepers[i].at >= 0
            /\ sleepers[i].at - due[k] <= Floor(k) + LongestStep
            /\ due'[k] = due[k] - t /\ due[k] \in Int
        BY <3>1, <2>3
      <4>3. Floor(k) \in Nat
        BY <4>2, LagFacts
      <4>4. i # n + 1
        BY <3>1, <1>6
      <4> HIDE DEF k
      <4> QED BY <4>1, <4>2, <4>3, <4>4, <1>2, <1>8, <1>16
    <3>2. CASE i = n + 1
      <4>1. sleepers'[i].task = l /\ due'[l] = nd - t
        BY <3>2, <1>6
      <4>2. sleepers'[i].at = IF Floor(l) >= nd - t THEN Floor(l) ELSE nd - t
        BY <3>2, <1>6, <1>9
      <4>3. sleepers'[i].at - (nd - t) <= Floor(l) + LongestStep /\ sleepers'[i].at >= 0
        BY <4>2, <1>2, <1>7, <1>8, <1>16
      <4>4. sleepers'[i].at >= 0 - LongestStep
        BY <4>2, <1>2, <1>7, <1>8
      <4> QED BY <4>1, <4>3, <4>4, <1>8
    <3> QED BY <3>1, <3>2, <1>6
  <2>5. ASSUME NEW i \in DOMAIN sleepers', NEW j \in DOMAIN sleepers', i # j
        PROVE  sleepers'[i].at >= 0 \/ sleepers'[j].at >= 0
    <3>1. CASE i \in DOMAIN sleepers /\ j \in DOMAIN sleepers
      <4>1. sleepers[i].task = sleepers[j].task /\ IsLoop(sleepers[i].task)
        BY <3>1, <2>3, <1>16, TwoLoops
      <4>2. i = j
        BY <3>1, <4>1, <1>1 DEF OnePlace
      <4> QED BY <4>2, <2>5
    <3>2. CASE i = n + 1 \/ j = n + 1
      BY <3>2, <2>4
    <3> QED BY <3>1, <3>2, <1>6
  <2>6. ASSUME NEW i \in DOMAIN sleepers', NEW k \in DOMAIN ready', IsLoop(ready'[k])
        PROVE  sleepers'[i].at >= 0
    <3>1. CASE i \in DOMAIN sleepers
      <4>1. ready'[k] \in Loops /\ ready'[k] # l
        BY <2>6, <1>11
      <4>2. sleepers[i].task = ready'[k]
        BY <3>1, <4>1, <2>3, <1>16, TwoLoops
      <4>3. sleepers'[i].task = ready'[k]
        BY <3>1, <4>2, <1>6
      <4> QED BY <4>3, <2>6, <1>4 DEF OnePlace
    <3>2. CASE i = n + 1
      BY <3>2, <2>4
    <3> QED BY <3>1, <3>2, <1>6
  <2>7. \A i \in DOMAIN sleepers' : sleepers'[i].at >= -LongestStep
    <3>1. -LongestStep = 0 - LongestStep
      BY <1>8
    <3> QED BY <3>1, <2>4
  <2> QED BY <2>1, <2>2, <2>4, <2>5, <2>6, <2>7 DEF Tardy
<1>17. clock = "wall" \/ clock = "virtual"
  BY <1>1 DEF Queues
<1>18. Punctual' /\ Tardy'
  <2>1. CASE clock = "wall"
    <3>1. Punctual'
      BY <2>1 DEF Punctual
    <3> QED BY <2>1, <3>1, <1>16
  <2>2. CASE clock = "virtual"
    <3>1. Tardy'
      BY <2>2 DEF Tardy
    <3> QED BY <2>2, <3>1, <1>15
  <2> QED BY <2>1, <2>2, <1>17
<1> QED BY <1>2, <1>4, <1>6, <1>14, <1>18

-----------------------------------------------------------------------------
(* The two loops keep pace.                                                *)

LEMMA ClampFacts ==
  ASSUME NEW n \in Int
  PROVE  /\ Clamp(n) \in -2 * Every .. 2 * Every
         /\ n \in -2 * Every .. 2 * Every => Clamp(n) = n
<1>1. Every \in Nat /\ 2 * Every \in Int /\ -2 * Every \in Int /\ -2 * Every <= 2 * Every
  BY LoopsAssumption
<1>2. Min({n, 2 * Every}) = IF n <= 2 * Every THEN n ELSE 2 * Every
  BY <1>1, MinOfTwo
<1> DEFINE m == Min({n, 2 * Every})
<1>3. m \in Int /\ m <= 2 * Every
  BY <1>1, <1>2
<1> HIDE DEF m
<1>4. Max({-2 * Every, m}) = IF -2 * Every >= m THEN -2 * Every ELSE m
  BY <1>1, <1>3, MaxOfTwo
<1>5. Clamp(n) = Max({-2 * Every, m})
  BY DEF Clamp, m
<1>6. m = IF n <= 2 * Every THEN n ELSE 2 * Every
  BY <1>2 DEF m
<1> QED BY <1>1, <1>3, <1>4, <1>5, <1>6

LEMMA AddOne ==
  ASSUME NEW k \in Int, NEW d \in Nat
  PROVE  (k + 1) * d = k * d + d /\ k * d \in Int
OBVIOUS

\* A multiple of the control period between two others.
LEMMA Between ==
  ASSUME NEW x \in Int, NEW a \in Int, NEW b \in Int,
         a * Dt <= x * Dt, x * Dt <= b * Dt
  PROVE  a <= x /\ x <= b
<1>1. Dt \in Nat /\ Dt > 0
  BY LoopsAssumption
<1>2. ASSUME NEW y \in Int, NEW z \in Int, y * Dt <= z * Dt PROVE y <= z
  <2>1. CASE y >= z + 1
    <3>1. (y - z) * Dt >= Dt
      BY <1>1, <2>1
    <3>2. y * Dt = z * Dt + (y - z) * Dt /\ z * Dt \in Int
      BY <1>1
    <3> QED BY <1>1, <1>2, <3>1, <3>2
  <2> QED BY <2>1
<1> QED BY <1>2

\* How far an agent's steps are from what its packets stand for, when its
\* control loop is due, when its publish loop is, and whenever.
LEMMA PaceFacts ==
  ASSUME LoopsIInv, clock = "virtual", ~inTick, NEW a \in Nodes
  PROVE  /\ ticks[a] \in -1 .. Every
         /\ due[Control(a)] = 0 => ticks[a] \in -1 .. Every - 1
         /\ due[Publish(a)] = 0 => ticks[a] \in Every - 1 .. Every
<1>1. TypeOK /\ Punctual /\ Spaced
  BY DEF LoopsIInv
<1> DEFINE k == ticks[a]
           c == due[Control(a)]
           p == due[Publish(a)]
<1>2. k \in Int /\ Dt \in Nat /\ Dt > 0 /\ Every \in Nat /\ Every > 0
  BY <1>1, LoopsAssumption DEF TypeOK
<1>3. c \in 0 .. Dt /\ p \in 0 .. Every * Dt
  BY <1>1, AgentLoopFacts DEF Punctual
<1>4. k * Dt + p - c = Every * Dt - Dt
  BY <1>1 DEF Spaced
<1> HIDE DEF k, c, p
<1>5. /\ k * Dt \in Int /\ Every * Dt \in Int /\ Every \in Int /\ Every - 1 \in Int
      /\ (Every - 1) * Dt = Every * Dt - Dt /\ (-1) * Dt = 0 - Dt /\ -1 \in Int
  BY <1>2
<1>6. k \in -1 .. Every
  <2>1. (-1) * Dt <= k * Dt /\ k * Dt <= Every * Dt
    BY <1>2, <1>3, <1>4, <1>5
  <2> QED BY <1>2, <1>5, <2>1, Between
<1>7. ASSUME c = 0 PROVE k \in -1 .. Every - 1
  <2>1. (-1) * Dt <= k * Dt /\ k * Dt <= (Every - 1) * Dt
    BY <1>2, <1>3, <1>4, <1>5, <1>7
  <2> QED BY <1>2, <1>5, <2>1, Between
<1>8. ASSUME p = 0 PROVE k \in Every - 1 .. Every
  <2>1. (Every - 1) * Dt <= k * Dt /\ k * Dt <= Every * Dt
    BY <1>2, <1>3, <1>4, <1>5, <1>8
  <2> QED BY <1>2, <1>5, <2>1, Between
<1> QED BY <1>6, <1>7, <1>8 DEF k, c, p

LEMMA PacketFacts ==
  ASSUME NEW a \in Nodes
  PROVE  /\ <<>> \in Seq(Task) /\ Packet(a) \in Seq(Task)
         /\ \A i \in DOMAIN Packet(a) : Packet(a)[i].kind = "send" /\ Packet(a)[i].age = 0
<1> DEFINE p == [kind |-> "send", agent |-> a, age |-> 0]
<1>1. p \in Task /\ p.kind = "send" /\ p.age = 0
  BY DEF Task
<1>2. Packet(a) = <<p>>
  BY DEF Packet
<1> HIDE DEF p
<1>3. <<p>> \in Seq(Task) /\ DOMAIN <<p>> = {1} /\ <<p>>[1] = p
  BY <1>1
<1> QED BY <1>1, <1>2, <1>3

LEMMA HeadLoop ==
  ASSUME Queues, ready # <<>>, IsLoop(Head(ready))
  PROVE  Head(ready) \in Loops
<1>1. ready \in Seq(Task)
  BY DEF Queues
<1>2. 1 \in DOMAIN ready /\ Head(ready) = ready[1]
  BY <1>1
<1> QED BY <1>2 DEF Queues

LEMMA ControlKeeps ==
  ASSUME LoopsIInv, ready # <<>>, ControlStep(Head(ready)),
         UNCHANGED <<clock, inTick, left, done>>
  PROVE  LoopsIInv'
<1> DEFINE l == Head(ready)
           a == l.agent
           publishes == inTick /\ ticks[a] + 1 = Every
           spawned == IF publishes THEN Packet(a) ELSE <<>>
<1>1. Queues /\ TypeOK /\ OnePlace /\ DeadlinesKeepPhase /\ Punctual /\ Spaced
  BY DEF LoopsIInv
<1>2. l.kind = "control" /\ UNCHANGED bus
  BY DEF ControlStep
<1>3. l \in Loops /\ l = Control(a) /\ a \in Nodes
  <2>1. l \in Loops
    BY <1>1, <1>2, HeadLoop DEF IsLoop
  <2> QED BY <2>1, <1>2, LoopFacts DEF Control
<1>4. PICK t \in Durations : Sleep(l, t, spawned)
  BY DEF ControlStep
<1>5. ticks' = [ticks EXCEPT ![a] = IF publishes THEN 0 ELSE Clamp(@ + 1)]
  BY DEF ControlStep
<1>7. /\ spawned \in Seq(Task)
      /\ \A i \in DOMAIN spawned : spawned[i].kind = "send" /\ spawned[i].age = 0
      /\ \A i \in DOMAIN spawned : ~IsLoop(spawned[i])
  <2> HIDE DEF publishes
  <2> QED BY <1>3, PacketFacts DEF IsLoop
<1> HIDE DEF spawned
<1>8. /\ Queues' /\ OnePlace' /\ DeadlinesKeepPhase' /\ Tardy' /\ Punctual'
      /\ due' \in [Loops -> Int] /\ \A k \in Loops : k # l => due'[k] = due[k] - t
      /\ clock = "virtual" => t = 0 /\ due[l] = 0 /\ due'[l] = Period(l)
  <2> HIDE DEF l
  <2> QED BY <1>3, <1>4, <1>7, LoopRan DEF l
<1>9. /\ ticks \in [Nodes -> -2 * Every .. 2 * Every]
      /\ Every \in Nat /\ Every > 0 /\ Dt \in Nat /\ Dt > 0
  BY <1>1, LoopsAssumption DEF TypeOK
<1>10. /\ ticks[a] \in Int /\ ticks[a] + 1 \in Int
       /\ ticks'[a] = IF publishes THEN 0 ELSE Clamp(ticks[a] + 1)
       /\ \A b \in Nodes : b # a => ticks'[b] = ticks[b]
  BY <1>3, <1>5, <1>9
<1> HIDE DEF publishes
<1>11. ticks' \in [Nodes -> -2 * Every .. 2 * Every]
  <2>1. Clamp(ticks[a] + 1) \in -2 * Every .. 2 * Every /\ 0 \in -2 * Every .. 2 * Every
    BY <1>9, <1>10, ClampFacts
  <2> QED BY <2>1, <1>5, <1>9
<1>12. TypeOK'
  <2>1. left' \in 0 .. Horizon /\ bus' \in [sent : Nat, delivered : Nat, dropped : Nat]
    BY <1>1, <1>2 DEF TypeOK
  <2> QED BY <1>8, <1>11, <2>1, TypeFromQueues
<1>13. ASSUME clock = "virtual", ~inTick, NEW b \in Nodes
       PROVE  ticks'[b] * Dt + due'[Publish(b)] - due'[Control(b)] = Every * Dt - Dt
  <2>1. ~publishes /\ t = 0
    BY <1>8, <1>13 DEF publishes
  <2>2. ticks[b] * Dt + due[Publish(b)] - due[Control(b)] = Every * Dt - Dt
    BY <1>1, <1>13 DEF Spaced
  <2>3. /\ Control(b) \in Loops /\ Publish(b) \in Loops /\ Publish(b) # l
        /\ due[Control(b)] \in Int /\ due[Publish(b)] \in Int /\ ticks[b] \in Int
    BY <1>1, <1>3, <1>9, <1>13, AgentLoopFacts DEF TypeOK, Control, Publish, Loop
  <2>4. due'[Publish(b)] = due[Publish(b)]
    BY <1>8, <2>1, <2>3
  <2>5. CASE b # a
    <3>1. Control(b) # l /\ ticks'[b] = ticks[b]
      BY <1>3, <1>10, <2>5 DEF Control, Loop
    <3>2. due'[Control(b)] = due[Control(b)]
      BY <1>8, <2>1, <2>3, <3>1
    <3> QED BY <2>2, <2>4, <3>1, <3>2
  <2>6. CASE b = a
    <3>1. due[Control(b)] = 0 /\ due'[Control(b)] = Dt
      BY <1>3, <1>8, <1>13, <2>6, AgentLoopFacts
    <3>2. ticks[b] \in -1 .. Every - 1
      BY <1>13, <3>1, PaceFacts
    <3>3. ticks'[b] = ticks[b] + 1
      <4>1. ticks[b] + 1 \in -2 * Every .. 2 * Every
        BY <1>9, <3>2
      <4>2. ticks'[b] = Clamp(ticks[b] + 1) /\ ticks[b] + 1 \in Int
        BY <1>10, <2>1, <2>6
      <4>3. Clamp(ticks[b] + 1) = ticks[b] + 1
        BY <4>1, <4>2, ClampFacts
      <4> QED BY <4>2, <4>3
    <3>4. ticks'[b] * Dt = ticks[b] * Dt + Dt /\ ticks[b] * Dt \in Int /\ Every * Dt \in Int
      <4>1. (ticks[b] + 1) * Dt = ticks[b] * Dt + Dt /\ ticks[b] * Dt \in Int
        BY <1>9, <2>3, AddOne
      <4>2. Every * Dt \in Int
        BY <1>9
      <4> QED BY <3>3, <4>1, <4>2
    <3> QED BY <1>9, <2>2, <2>3, <2>4, <3>1, <3>4
  <2> QED BY <2>5, <2>6
<1>14. Nodes' = Nodes
  BY TaskKept
<1>15. Spaced'
  BY <1>13, <1>14 DEF Spaced
<1>16. Counted'
  <2> SUFFICES ASSUME inTick, NEW b \in Nodes PROVE ticks'[b] \in 0 .. Every - 1
    BY <1>14 DEF Counted
  <2>1. ticks[b] \in 0 .. Every - 1
    BY DEF LoopsIInv, Counted
  <2>2. CASE b = a
    <3>1. CASE publishes
      BY <1>9, <1>10, <2>2, <3>1
    <3>2. CASE ~publishes
      <4>1. ticks[b] + 1 # Every
        BY <2>2, <3>2 DEF publishes
      <4>2. ticks[b] + 1 \in 0 .. Every - 1 /\ ticks[b] + 1 \in -2 * Every .. 2 * Every
        BY <1>9, <2>1, <4>1
      <4>3. ticks'[b] = ticks[b] + 1
        BY <1>10, <2>2, <3>2, <4>2, ClampFacts
      <4> QED BY <4>2, <4>3
    <3> QED BY <3>1, <3>2
  <2>3. CASE b # a
    BY <1>10, <2>1, <2>3
  <2> QED BY <2>2, <2>3
<1> QED BY <1>8, <1>12, <1>15, <1>16 DEF LoopsIInv

LEMMA PublishKeeps ==
  ASSUME LoopsIInv, ready # <<>>, PublishStep(Head(ready)),
         UNCHANGED <<clock, inTick, left, done>>
  PROVE  LoopsIInv'
<1> DEFINE l == Head(ready)
           a == l.agent
           spawned == Packet(a)
<1>1. Queues /\ TypeOK /\ OnePlace /\ DeadlinesKeepPhase /\ Punctual /\ Spaced
  BY DEF LoopsIInv
<1>2. l.kind = "publish" /\ UNCHANGED bus
  BY DEF PublishStep
<1>3. l \in Loops /\ l = Publish(a) /\ a \in Nodes /\ ~inTick
  <2>1. l \in Loops
    BY <1>1, <1>2, HeadLoop DEF IsLoop
  <2> QED BY <1>1, <2>1, <1>2, LoopFacts DEF Publish, Queues
<1>4. PICK t \in Durations : Sleep(l, t, spawned)
  BY DEF PublishStep
<1>5. ticks' = [ticks EXCEPT ![a] = Clamp(@ - Every)]
  BY DEF PublishStep
<1>7. /\ spawned \in Seq(Task)
      /\ \A i \in DOMAIN spawned : spawned[i].kind = "send" /\ spawned[i].age = 0
      /\ \A i \in DOMAIN spawned : ~IsLoop(spawned[i])
  BY <1>3, PacketFacts DEF IsLoop
<1> HIDE DEF spawned
<1>8. /\ Queues' /\ OnePlace' /\ DeadlinesKeepPhase' /\ Tardy' /\ Punctual'
      /\ due' \in [Loops -> Int] /\ \A k \in Loops : k # l => due'[k] = due[k] - t
      /\ clock = "virtual" => t = 0 /\ due[l] = 0 /\ due'[l] = Period(l)
  <2> HIDE DEF l
  <2> QED BY <1>3, <1>4, <1>7, LoopRan DEF l
<1>9. /\ ticks \in [Nodes -> -2 * Every .. 2 * Every]
      /\ Every \in Nat /\ Every > 0 /\ Dt \in Nat /\ Dt > 0
  BY <1>1, LoopsAssumption DEF TypeOK
<1>10. /\ ticks[a] \in Int /\ ticks[a] - Every \in Int
       /\ ticks'[a] = Clamp(ticks[a] - Every)
       /\ \A b \in Nodes : b # a => ticks'[b] = ticks[b]
  BY <1>3, <1>5, <1>9
<1>11. ticks' \in [Nodes -> -2 * Every .. 2 * Every]
  <2>1. Clamp(ticks[a] - Every) \in -2 * Every .. 2 * Every
    BY <1>10, ClampFacts
  <2> QED BY <2>1, <1>5, <1>9
<1>12. TypeOK'
  <2>1. left' \in 0 .. Horizon /\ bus' \in [sent : Nat, delivered : Nat, dropped : Nat]
    BY <1>1, <1>2 DEF TypeOK
  <2> QED BY <1>8, <1>11, <2>1, TypeFromQueues
<1>13. ASSUME clock = "virtual", NEW b \in Nodes
       PROVE  ticks'[b] * Dt + due'[Publish(b)] - due'[Control(b)] = Every * Dt - Dt
  <2>1. t = 0
    BY <1>8, <1>13
  <2>2. ticks[b] * Dt + due[Publish(b)] - due[Control(b)] = Every * Dt - Dt
    BY <1>1, <1>3, <1>13 DEF Spaced
  <2>3. /\ Control(b) \in Loops /\ Publish(b) \in Loops /\ Control(b) # l
        /\ due[Control(b)] \in Int /\ due[Publish(b)] \in Int /\ ticks[b] \in Int
    BY <1>1, <1>3, <1>9, <1>13, AgentLoopFacts DEF TypeOK, Control, Publish, Loop
  <2>4. due'[Control(b)] = due[Control(b)]
    BY <1>8, <2>1, <2>3
  <2>5. CASE b # a
    <3>1. Publish(b) # l /\ ticks'[b] = ticks[b]
      BY <1>3, <1>10, <2>5 DEF Publish, Loop
    <3>2. due'[Publish(b)] = due[Publish(b)]
      BY <1>8, <2>1, <2>3, <3>1
    <3> QED BY <2>2, <2>4, <3>1, <3>2
  <2>6. CASE b = a
    <3>1. due[Publish(b)] = 0 /\ due'[Publish(b)] = Every * Dt
      BY <1>3, <1>8, <1>13, <2>6, AgentLoopFacts
    <3>2. ticks[b] \in Every - 1 .. Every
      BY <1>3, <1>13, <3>1, PaceFacts
    <3>3. ticks'[b] = ticks[b] - Every
      <4>1. ticks[b] - Every \in -2 * Every .. 2 * Every
        BY <1>9, <3>2
      <4> QED BY <1>10, <2>6, <4>1, ClampFacts
    <3>4. /\ ticks'[b] * Dt = ticks[b] * Dt - Every * Dt
          /\ ticks[b] * Dt \in Int /\ Every * Dt \in Int
      BY <1>9, <2>3, <3>3
    <3> QED BY <1>9, <2>2, <2>3, <2>4, <3>1, <3>4
  <2> QED BY <2>5, <2>6
<1>14. Nodes' = Nodes
  BY TaskKept
<1>15. Spaced'
  BY <1>13, <1>14 DEF Spaced
<1>16. Counted'
  BY <1>3 DEF Counted
<1> QED BY <1>8, <1>12, <1>15, <1>16 DEF LoopsIInv

-----------------------------------------------------------------------------
(* The medium runs.                                                        *)

\* A task that is no loop leaves the loops where they are.
LEMMA OtherRan ==
  ASSUME LoopsIInv, ready # <<>>, ~IsLoop(Head(ready)),
         NEW spawned \in Seq(Task), ready' = Tail(ready) \o spawned,
         \A i \in DOMAIN spawned : spawned[i].kind = "carry" /\ spawned[i].age = 0,
         clock = "wall" => spawned = <<>> /\ sleepers' = sleepers,
         sleepers' \in Seq([task : Task, at : Int]), DOMAIN sleepers \subseteq DOMAIN sleepers',
         \A i \in DOMAIN sleepers : sleepers'[i] = sleepers[i],
         \A i \in DOMAIN sleepers' : i \notin DOMAIN sleepers =>
           /\ sleepers'[i].task.kind = "deliver" /\ sleepers'[i].task.age = 0
           /\ sleepers'[i].at = Delay,
         UNCHANGED <<clock, inTick, due, ticks, left>>,
         bus' \in [sent : Nat, delivered : Nat, dropped : Nat]
  PROVE  LoopsIInv'
<1>1. Queues /\ TypeOK /\ OnePlace /\ DeadlinesKeepPhase /\ Punctual /\ Spaced /\ Tardy
  BY DEF LoopsIInv
<1>2. Loops' = Loops /\ Nodes' = Nodes /\ Task' = Task
  BY TaskKept
<1>3. \A i \in DOMAIN spawned : ~IsLoop(spawned[i])
  BY DEF IsLoop
<1>4. /\ ready' \in Seq(Task) /\ 1 \in DOMAIN ready /\ Head(ready) = ready[1]
      /\ \A i \in DOMAIN ready : i # 1 => i - 1 \in DOMAIN ready' /\ ready'[i - 1] = ready[i]
      /\ \A i \in DOMAIN ready' :
           \/ i + 1 \in DOMAIN ready /\ ready'[i] = ready[i + 1]
           \/ /\ ~IsLoop(ready'[i])
              /\ \E k \in DOMAIN spawned : ready'[i] = spawned[k]
  BY <1>1, <1>3, RanFacts
<1>5. /\ DOMAIN ready = 1 .. Len(ready) /\ Len(ready) \in Nat
      /\ DOMAIN ready' = 1 .. Len(ready') /\ Len(ready') \in Nat
  BY <1>1, <1>4, QueueTypes
<1>6. ASSUME NEW i \in DOMAIN ready', IsLoop(ready'[i])
      PROVE  i + 1 \in DOMAIN ready /\ ready'[i] = ready[i + 1] /\ i \in Nat /\ i > 0
  BY <1>4, <1>5, <1>6
<1>7. ASSUME NEW i \in DOMAIN sleepers', IsLoop(sleepers'[i].task)
      PROVE  i \in DOMAIN sleepers /\ sleepers'[i] = sleepers[i]
  BY <1>7 DEF IsLoop
<1>8. Queues'
  <2>1. \A i \in DOMAIN ready' : IsLoop(ready'[i]) => ready'[i] \in Loops
    BY <1>1, <1>6 DEF Queues
  <2>2. \A i \in DOMAIN sleepers' : IsLoop(sleepers'[i].task) => sleepers'[i].task \in Loops
    BY <1>1, <1>7 DEF Queues
  <2>3. clock' \in {"wall", "virtual"} /\ inTick' \in BOOLEAN
    BY <1>1 DEF Queues
  <2> QED BY <1>2, <1>4, <2>1, <2>2, <2>3 DEF Queues
<1>9. OnePlace'
  <2>1. ASSUME NEW i \in DOMAIN ready', NEW j \in DOMAIN ready',
               IsLoop(ready'[i]), ready'[i] = ready'[j]
        PROVE  i = j
    <3>1. /\ i + 1 \in DOMAIN ready /\ ready'[i] = ready[i + 1]
          /\ j + 1 \in DOMAIN ready /\ ready'[j] = ready[j + 1]
      BY <1>6, <2>1
    <3>2. i + 1 = j + 1
      BY <3>1, <1>1, <2>1 DEF OnePlace
    <3> QED BY <3>2, <1>5
  <2>2. ASSUME NEW i \in DOMAIN sleepers', NEW j \in DOMAIN sleepers',
               IsLoop(sleepers'[i].task), sleepers'[i].task = sleepers'[j].task
        PROVE  i = j
    <3>1. /\ i \in DOMAIN sleepers /\ sleepers'[i] = sleepers[i]
          /\ j \in DOMAIN sleepers /\ sleepers'[j] = sleepers[j]
      BY <1>7, <2>2
    <3> QED BY <3>1, <1>1, <2>2 DEF OnePlace
  <2>3. ASSUME NEW i \in DOMAIN ready', NEW j \in DOMAIN sleepers', IsLoop(ready'[i]),
               ready'[i] = sleepers'[j].task
        PROVE  FALSE
    <3>1. i + 1 \in DOMAIN ready /\ ready'[i] = ready[i + 1]
      BY <1>6, <2>3
    <3>2. j \in DOMAIN sleepers /\ sleepers'[j] = sleepers[j]
      BY <1>7, <2>3
    <3> QED BY <3>1, <3>2, <1>1, <2>3 DEF OnePlace
  <2>4. ASSUME NEW l \in Loops
        PROVE  \/ \E i \in DOMAIN ready' : ready'[i] = l
               \/ \E j \in DOMAIN sleepers' : sleepers'[j].task = l
    <3>1. CASE \E i \in DOMAIN ready : ready[i] = l
      <4>1. PICK i \in DOMAIN ready : ready[i] = l
        BY <3>1
      <4>2. i # 1
        BY <4>1, <1>4, LoopFacts
      <4> QED BY <4>1, <4>2, <1>4
    <3>2. CASE \E j \in DOMAIN sleepers : sleepers[j].task = l
      <4>1. PICK j \in DOMAIN sleepers : sleepers[j].task = l
        BY <3>2
      <4>2. j \in DOMAIN sleepers' /\ sleepers'[j].task = l
        BY <4>1
      <4> QED BY <4>2
    <3> QED BY <3>1, <3>2, <1>1 DEF OnePlace
  <2> QED BY <1>2, <2>1, <2>2, <2>3, <2>4 DEF OnePlace
<1>10. TypeOK'
  <2>1. /\ due' \in [Loops -> Int] /\ ticks' \in [Nodes -> -2 * Every .. 2 * Every]
        /\ left' \in 0 .. Horizon
    BY <1>1 DEF TypeOK
  <2> QED BY <1>8, <2>1, TypeFromQueues
<1>11. DeadlinesKeepPhase'
  BY <1>1, <1>2 DEF DeadlinesKeepPhase
<1>12. Punctual'
  <2> SUFFICES ASSUME clock = "virtual" PROVE Punctual'
    BY DEF Punctual
  <2>1. ASSUME NEW i \in DOMAIN sleepers'
        PROVE  LET task == sleepers'[i].task
               IN  /\ sleepers'[i].at >= 0
                   /\ IF IsLoop(task) THEN sleepers'[i].at = due[task]
                      ELSE task.kind = "deliver" /\ task.age + sleepers'[i].at = Delay
    <3>1. CASE i \in DOMAIN sleepers
      <4>1. sleepers'[i] = sleepers[i]
        BY <3>1
      <4>2. LET task == sleepers[i].task
            IN  /\ sleepers[i].at >= 0
                /\ IF IsLoop(task) THEN sleepers[i].at = due[task]
                   ELSE task.kind = "deliver" /\ task.age + sleepers[i].at = Delay
        BY <3>1, <1>1 DEF Punctual
      <4> QED BY <4>1, <4>2
    <3>2. CASE i \notin DOMAIN sleepers
      <4>1. Delay \in Nat
        BY LoopsAssumption
      <4> QED BY <3>2, <4>1 DEF IsLoop
    <3> QED BY <3>1, <3>2
  <2>2. ASSUME NEW i \in DOMAIN ready'
        PROVE  LET task == ready'[i]
               IN  IF task \in Loops THEN due[task] = 0
                   ELSE task.age = (IF task.kind = "deliver" THEN Delay ELSE 0)
    <3>1. CASE i + 1 \in DOMAIN ready /\ ready'[i] = ready[i + 1]
      BY <3>1, <1>1 DEF Punctual, NothingRunsLate
    <3>2. CASE \E k \in DOMAIN spawned : ready'[i] = spawned[k]
      <4>1. ready'[i].kind = "carry" /\ ready'[i].age = 0
        BY <3>2
      <4>2. ready'[i] \notin Loops
        BY <4>1, LoopFacts DEF IsLoop
      <4> QED BY <4>1, <4>2
    <3> QED BY <3>1, <3>2, <1>4
  <2>3. NothingRunsLate'
    BY <1>2, <2>2 DEF NothingRunsLate
  <2>4. \A l \in Loops : due'[l] \in 0 .. Period(l)
    BY <1>1 DEF Punctual
  <2> QED BY <1>2, <2>1, <2>3, <2>4 DEF Punctual
<1>13. Tardy'
  <2> SUFFICES ASSUME clock = "wall" PROVE Tardy'
    BY DEF Tardy
  <2>1. \A i \in DOMAIN ready' : i + 1 \in DOMAIN ready /\ ready'[i] = ready[i + 1]
    BY <1>4
  <2>2. \A i \in DOMAIN ready' : ready'[i].kind # "carry"
    BY <1>1, <2>1 DEF Tardy
  <2>3. ASSUME NEW i \in DOMAIN ready', IsLoop(ready'[i])
        PROVE  /\ due[ready'[i]] >= -(Lag(ready'[i]) + LongestStep)
               /\ \A k \in 1 .. i - 1 : IsLoop(ready'[k]) => due[ready'[i]] >= -Lag(ready'[i])
    <3> DEFINE x == ready'[i]
    <3>1. i + 1 \in DOMAIN ready /\ x = ready[i + 1]
      BY <2>1
    <3>2. due[x] >= -(Lag(x) + LongestStep)
      BY <3>1, <1>1, <2>3 DEF Tardy
    <3>3. ASSUME NEW k \in 1 .. i - 1, IsLoop(ready'[k]) PROVE due[x] >= -Lag(x)
      <4>1. k \in DOMAIN ready' /\ k + 1 \in 1 .. (i + 1) - 1
        BY <1>5
      <4>2. IsLoop(ready[k + 1])
        BY <2>1, <3>3, <4>1
      <4> QED BY <3>1, <4>1, <4>2, <1>1, <2>3 DEF Tardy
    <3> QED BY <3>2, <3>3
  <2>4. (\E k \in DOMAIN ready' : IsLoop(ready'[k])) => \E k \in DOMAIN ready : IsLoop(ready[k])
    BY <2>1
  <2> QED BY <1>1, <2>2, <2>3, <2>4 DEF Tardy
<1>14. Spaced' /\ Counted'
  BY <1>1, <1>2 DEF LoopsIInv, Spaced, Counted
<1> QED BY <1>8, <1>9, <1>10, <1>11, <1>12, <1>13, <1>14 DEF LoopsIInv

LEMMA TailFacts ==
  ASSUME Queues, ready # <<>>
  PROVE  Tail(ready) \o <<>> = Tail(ready) /\ <<>> \in Seq(Task) /\ Head(ready) \in Task
<1>1. ready \in Seq(Task)
  BY DEF Queues
<1>2. Tail(ready) \in Seq(Task) /\ Head(ready) \in Task
  BY <1>1
<1> DEFINE s == Tail(ready)
<1>3. s \in Seq(Task)
  BY <1>2
<1> HIDE DEF s
<1>4. s \o <<>> = s
  BY <1>3
<1> QED BY <1>2, <1>4 DEF s

LEMMA BroadcastKeeps ==
  ASSUME LoopsIInv, ready # <<>>, Broadcast(Head(ready)),
         UNCHANGED <<clock, inTick, left, done>>
  PROVE  LoopsIInv'
<1> DEFINE task == Head(ready)
<1>1. Queues /\ TypeOK /\ Punctual
  BY DEF LoopsIInv
<1>2. /\ task.kind = "send" /\ UNCHANGED <<sleepers, due, ticks>>
      /\ task \in Task /\ ~IsLoop(task) /\ task.agent \in Nodes
  <2>1. task \in Task
    BY <1>1, TailFacts
  <2>2. task.agent \in Nodes
    BY <2>1 DEF Task
  <2>3. task.kind = "send" /\ UNCHANGED <<sleepers, due, ticks>>
    BY DEF Broadcast
  <2> QED BY <2>1, <2>2, <2>3 DEF IsLoop
<1>3. bus \in [sent : Nat, delivered : Nat, dropped : Nat]
  BY <1>1 DEF TypeOK
<1>4. sleepers' \in Seq([task : Task, at : Int])
  BY <1>1, <1>2 DEF Queues
<1>5. CASE clock = "wall"
  <2> DEFINE spawned == <<>>
  <2>1. ready' = Tail(ready) /\ bus' = bus
    BY <1>5 DEF Broadcast
  <2>2. ready' = Tail(ready) \o spawned /\ spawned \in Seq(Task)
    BY <1>1, <2>1, TailFacts
  <2>3. \A i \in DOMAIN spawned : spawned[i].kind = "carry" /\ spawned[i].age = 0
    OBVIOUS
  <2>4. clock = "wall" => spawned = <<>> /\ sleepers' = sleepers
    BY <1>2
  <2> HIDE DEF spawned
  <2> QED BY <1>2, <1>3, <1>4, <2>1, <2>2, <2>3, <2>4, OtherRan
<1>6. CASE clock = "virtual"
  <2>1. PICK reached \in SUBSET (Nodes \ {task.agent}) :
          LET n == Cardinality(reached)
              lost == Cardinality(Nodes) - 1 - n
          IN  /\ ready' = Tail(ready) \o
                   IF Delay = 0 THEN <<>>
                   ELSE [i \in 1 .. n |-> [task EXCEPT !.kind = "carry"]]
              /\ bus' = [bus EXCEPT !.sent = @ + 1, !.dropped = @ + lost,
                                    !.delivered = IF Delay = 0 THEN @ + n ELSE @]
    BY <1>6 DEF Broadcast
  <2> DEFINE n == Cardinality(reached)
             lost == Cardinality(Nodes) - 1 - n
             copies == [i \in 1 .. n |-> [task EXCEPT !.kind = "carry"]]
             spawned == IF Delay = 0 THEN <<>> ELSE copies
  <2>2. n \in Nat /\ lost \in Nat
    <3>1. IsFiniteSet(Nodes)
      BY <1>6, LoopsAreFinite
    <3>2. /\ IsFiniteSet(Nodes \ {task.agent})
          /\ Cardinality(Nodes \ {task.agent}) = Cardinality(Nodes) - 1
      BY <1>2, <3>1, FS_RemoveElement
    <3>3. IsFiniteSet(reached) /\ Cardinality(reached) <= Cardinality(Nodes \ {task.agent})
      BY <3>2, FS_Subset
    <3>4. Cardinality(Nodes) \in Nat /\ Cardinality(reached) \in Nat
      BY <3>1, <3>3, FS_CardinalityType
    <3> QED BY <3>2, <3>3, <3>4
  <2>3. task.age = 0
    <3>1. 1 \in DOMAIN ready /\ task = ready[1]
      <4>1. ready \in Seq(Task)
        BY <1>1 DEF Queues
      <4> QED BY <4>1
    <3>2. task \notin Loops
      BY <1>2, LoopFacts
    <3> QED BY <1>1, <1>2, <1>6, <3>1, <3>2 DEF Punctual, NothingRunsLate
  <2>4. /\ copies \in Seq(Task)
        /\ \A i \in DOMAIN copies : copies[i].kind = "carry" /\ copies[i].age = 0
    <3> DEFINE c == [task EXCEPT !.kind = "carry"]
    <3>1. c \in Task /\ c.kind = "carry" /\ c.age = 0
      BY <1>2, <2>3 DEF Task
    <3> HIDE DEF c
    <3>2. copies = [i \in 1 .. n |-> c]
      BY DEF c
    <3> HIDE DEF n, copies
    <3> QED BY <2>2, <3>1, <3>2
  <2>5. /\ spawned \in Seq(Task)
        /\ \A i \in DOMAIN spawned : spawned[i].kind = "carry" /\ spawned[i].age = 0
    <3>1. <<>> \in Seq(Task)
      BY <1>1, TailFacts
    <3> HIDE DEF copies
    <3> QED BY <2>4, <3>1
  <2>6. ready' = Tail(ready) \o spawned
    BY <2>1
  <2>7. bus' \in [sent : Nat, delivered : Nat, dropped : Nat]
    <3>1. bus' = [bus EXCEPT !.sent = @ + 1, !.dropped = @ + lost,
                             !.delivered = IF Delay = 0 THEN @ + n ELSE @]
      BY <2>1
    <3> HIDE DEF n, lost
    <3>2. bus.sent \in Nat /\ bus.delivered \in Nat /\ bus.dropped \in Nat
      BY <1>3
    <3> DEFINE x == bus.sent + 1
               y == IF Delay = 0 THEN bus.delivered + n ELSE bus.delivered
               z == bus.dropped + lost
    <3>3. x \in Nat /\ y \in Nat /\ z \in Nat
      BY <2>2, <3>2
    <3>4. bus' = [sent |-> x, delivered |-> y, dropped |-> z]
      BY <1>3, <3>1
    <3> HIDE DEF x, y, z
    <3> QED BY <3>3, <3>4
  <2> HIDE DEF spawned, task
  <2>8. ~IsLoop(Head(ready))
    BY <1>2 DEF task
  <2> QED BY <1>2, <1>4, <1>6, <2>5, <2>6, <2>7, <2>8, OtherRan
<1> QED BY <1>1, <1>5, <1>6 DEF Queues

LEMMA CarryKeeps ==
  ASSUME LoopsIInv, ready # <<>>, Carry(Head(ready)),
         UNCHANGED <<clock, inTick, left, done>>
  PROVE  LoopsIInv'
<1> DEFINE task == Head(ready)
           new == [task |-> [task EXCEPT !.kind = "deliver"], at |-> Delay]
           R == [task : Task, at : Int]
           spawned == <<>>
<1>1. Queues /\ TypeOK /\ Punctual /\ Tardy
  BY DEF LoopsIInv
<1>2. /\ task.kind = "carry" /\ UNCHANGED <<due, ticks, bus>>
      /\ ready' = Tail(ready) /\ sleepers' = Append(sleepers, new)
      /\ task \in Task /\ ~IsLoop(task)
  <2>1. task \in Task
    BY <1>1, TailFacts
  <2> QED BY <2>1 DEF Carry, IsLoop
<1>3. 1 \in DOMAIN ready /\ task = ready[1]
  <2>1. ready \in Seq(Task)
    BY <1>1 DEF Queues
  <2> QED BY <2>1
<1>4. clock = "virtual"
  BY <1>1, <1>2, <1>3 DEF Tardy, Queues
<1>5. task.age = 0
  <2>1. task \notin Loops
    BY <1>2, LoopFacts
  <2> QED BY <1>1, <1>2, <1>3, <1>4, <2>1 DEF Punctual, NothingRunsLate
<1>6. new \in R /\ new.task.kind = "deliver" /\ new.task.age = 0 /\ new.at = Delay
  <2>1. [task EXCEPT !.kind = "deliver"] \in Task
    BY <1>2 DEF Task
  <2>2. Delay \in Int
    BY LoopsAssumption
  <2>3. [task EXCEPT !.kind = "deliver"].kind = "deliver"
        /\ [task EXCEPT !.kind = "deliver"].age = 0
    BY <1>2, <1>5 DEF Task
  <2> QED BY <2>1, <2>2, <2>3
<1>7. sleepers \in Seq(R)
  BY <1>1 DEF Queues
<1> HIDE DEF new, R
<1>8. /\ sleepers' \in Seq(R)
      /\ DOMAIN sleepers \subseteq DOMAIN sleepers'
      /\ \A i \in DOMAIN sleepers : sleepers'[i] = sleepers[i]
      /\ \A i \in DOMAIN sleepers' : i \notin DOMAIN sleepers => sleepers'[i] = new
  BY <1>2, <1>6, <1>7
<1>9. \A i \in DOMAIN sleepers' : i \notin DOMAIN sleepers =>
        /\ sleepers'[i].task.kind = "deliver" /\ sleepers'[i].task.age = 0
        /\ sleepers'[i].at = Delay
  BY <1>6, <1>8
<1>10. ready' = Tail(ready) \o spawned /\ spawned \in Seq(Task)
  BY <1>1, <1>2, TailFacts
<1>11. \A i \in DOMAIN spawned : spawned[i].kind = "carry" /\ spawned[i].age = 0
  OBVIOUS
<1>12. bus' \in [sent : Nat, delivered : Nat, dropped : Nat]
  BY <1>1, <1>2 DEF TypeOK
<1> HIDE DEF spawned, task
<1>13. sleepers' \in Seq([task : Task, at : Int])
  BY <1>8 DEF R
<1>14. ~IsLoop(Head(ready))
  BY <1>2 DEF task
<1> QED BY <1>2, <1>4, <1>8, <1>9, <1>10, <1>11, <1>12, <1>13, <1>14, OtherRan

LEMMA DeliverKeeps ==
  ASSUME LoopsIInv, ready # <<>>, Deliver(Head(ready)),
         UNCHANGED <<clock, inTick, left, done>>
  PROVE  LoopsIInv'
<1> DEFINE task == Head(ready)
           spawned == <<>>
<1>1. Queues /\ TypeOK
  BY DEF LoopsIInv
<1>2. /\ task.kind = "deliver" /\ UNCHANGED <<sleepers, due, ticks>>
      /\ ready' = Tail(ready) /\ bus' = Count("delivered", 1)
      /\ ~IsLoop(task)
  BY DEF Deliver, IsLoop
<1>3. bus' \in [sent : Nat, delivered : Nat, dropped : Nat]
  <2>1. bus \in [sent : Nat, delivered : Nat, dropped : Nat]
    BY <1>1 DEF TypeOK
  <2> QED BY <1>2, <2>1 DEF Count
<1>4. sleepers' \in Seq([task : Task, at : Int])
  BY <1>1, <1>2 DEF Queues
<1>5. ready' = Tail(ready) \o spawned /\ spawned \in Seq(Task)
  BY <1>1, <1>2, TailFacts
<1>6. \A i \in DOMAIN spawned : spawned[i].kind = "carry" /\ spawned[i].age = 0
  OBVIOUS
<1>7. clock = "wall" => spawned = <<>> /\ sleepers' = sleepers
  BY <1>2
<1> HIDE DEF spawned
<1> QED BY <1>2, <1>3, <1>4, <1>5, <1>6, <1>7, OtherRan

-----------------------------------------------------------------------------
(* The theorems.                                                           *)

LEMMA StepInv == LoopsIInv /\ [Next]_vars => LoopsIInv'
<1> SUFFICES ASSUME LoopsIInv, [Next]_vars PROVE LoopsIInv'
  OBVIOUS
<1>1. CASE WallPass
  BY <1>1, WallPassKeeps
<1>2. CASE Advance
  BY <1>2, AdvanceKeeps
<1>3. CASE Run
  <2>1. ready # <<>> /\ UNCHANGED <<clock, inTick, left, done>>
    BY <1>3 DEF Run
  <2>2. CASE ControlStep(Head(ready))
    BY <2>1, <2>2, ControlKeeps
  <2>3. CASE PublishStep(Head(ready))
    BY <2>1, <2>3, PublishKeeps
  <2>4. CASE Broadcast(Head(ready))
    BY <2>1, <2>4, BroadcastKeeps
  <2>5. CASE Carry(Head(ready))
    BY <2>1, <2>5, CarryKeeps
  <2>6. CASE Deliver(Head(ready))
    BY <2>1, <2>6, DeliverKeeps
  <2> QED BY <1>3, <2>2, <2>3, <2>4, <2>5, <2>6 DEF Run
<1>4. CASE UNCHANGED vars
  BY <1>4, UnchangedKeeps DEF vars
<1> QED BY <1>1, <1>2, <1>3, <1>4 DEF Next

LEMMA LagOfAll ==
  ASSUME LoopsIInv PROVE LoopsInv
<1>1. Queues /\ TypeOK /\ OnePlace /\ Punctual /\ Tardy
  BY DEF LoopsIInv
<1>2. LagIsBounded
  <2> SUFFICES ASSUME NEW l \in Loops
               PROVE  due[l] >= -(2 * LongestStep + Floor(l) + Jitter)
    BY DEF LagIsBounded
  <2>1. /\ LongestStep \in Nat /\ Floor(l) \in Nat /\ Jitter \in Nat
        /\ Lag(l) = LongestStep + Floor(l) + Jitter
    BY LagFacts
  <2>2. due[l] \in Int
    BY <1>1 DEF TypeOK
  <2>3. CASE clock = "virtual"
    <3>1. due[l] >= 0
      <4>1. due[l] \in 0 .. Period(l)
        BY <1>1, <2>3 DEF Punctual
      <4> QED BY <2>2, <4>1
    <3> QED BY <2>1, <2>2, <3>1
  <2>4. CASE clock = "wall" /\ \E i \in DOMAIN ready : ready[i] = l
    <3>1. PICK i \in DOMAIN ready : ready[i] = l
      BY <2>4
    <3>2. due[l] >= -(Lag(l) + LongestStep)
      BY <1>1, <2>4, <3>1, LoopFacts DEF Tardy
    <3> QED BY <2>1, <2>2, <3>2
  <2>5. CASE clock = "wall" /\ \E i \in DOMAIN sleepers : sleepers[i].task = l
    <3>1. PICK i \in DOMAIN sleepers : sleepers[i].task = l
      BY <2>5
    <3>2. sleepers[i].at - due[l] <= Floor(l) + LongestStep /\ sleepers[i].at >= -LongestStep
      BY <1>1, <2>5, <3>1 DEF Tardy
    <3>3. sleepers[i].at \in Int
      BY <1>1 DEF TypeOK
    <3> QED BY <2>1, <2>2, <3>2, <3>3
  <2> QED BY <1>1, <2>3, <2>4, <2>5 DEF Queues, OnePlace
<1>3. NothingRunsLate
  <2>1. CASE clock = "virtual"
    BY <1>1, <2>1 DEF Punctual
  <2>2. CASE clock # "virtual"
    BY <2>2 DEF NothingRunsLate
  <2> QED BY <2>1, <2>2
<1> QED BY <1>1, <1>2, <1>3 DEF LoopsInv

LEMMA LoopsInvariant == Spec => []LoopsIInv
<1>1. LoopsIInv /\ [Next]_vars => LoopsIInv'
  BY StepInv
<1> QED BY InitInv, <1>1, PTL DEF Spec

\* Agent._run_periodic, drive_virtual_clock: in a simulation every task runs at its
\* instant, and on a node no loop is later than one overrun of both makes it,
\* whatever the agents, the periods, the durations of the steps and the delays.
THEOREM NothingSlips == Spec => []LoopsInv
<1>1. LoopsIInv => LoopsInv
  BY LagOfAll
<1> QED BY LoopsInvariant, <1>1, PTL

\* Agent._run_periodic: the deadlines of all loops stay a whole number of control
\* periods apart, however late the steps run and however many periods are skipped.
THEOREM PhaseIsKept == Spec => []DeadlinesKeepPhase
<1>1. LoopsIInv => DeadlinesKeepPhase
  BY DEF LoopsIInv
<1> QED BY LoopsInvariant, <1>1, PTL

\* VirtualClock, Agent._publish_step and _control_step: in a simulation an agent's
\* control steps are never a whole step ahead of or behind its packets, in
\* whichever order loops that are due together run, for every number of agents,
\* period and delay; a law that publishes in its tick is exact.
THEOREM ExchangeIsPaced == Spec => []ExchangeKeepsPace
<1>1. ASSUME LoopsIInv PROVE ExchangeKeepsPace
  <2> SUFFICES ASSUME clock = "virtual", NEW a \in Nodes
               PROVE  ticks[a] \in IF inTick THEN 0 .. Every - 1 ELSE -1 .. Every
    BY DEF ExchangeKeepsPace
  <2>1. CASE inTick
    BY <1>1, <2>1 DEF LoopsIInv, Counted
  <2>2. CASE ~inTick
    BY <1>1, <2>2, PaceFacts
  <2> QED BY <2>1, <2>2
<1>2. LoopsIInv => ExchangeKeepsPace
  BY <1>1
<1> QED BY LoopsInvariant, <1>2, PTL
=============================================================================
