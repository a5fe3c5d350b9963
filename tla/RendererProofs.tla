--------------------------- MODULE RendererProofs ----------------------------
(***************************************************************************)
(* Proofs about Renderer, for every depth of the stack, every pipe and     *)
(* every number of keys, answers and question marks: the calls of menus    *)
(* are a walk through the abstract menus, and as long as no key is cut in  *)
(* two it is the walk of the keys that the server passed on.               *)
(***************************************************************************)
EXTENDS Renderer, FiniteSetTheorems, FunctionTheorems, SequenceTheorems, TLAPS

-----------------------------------------------------------------------------
(* What the bytes under way stand for.                                     *)

\* The key that a byte is the end of.
KeyOf == [A |-> "up", B |-> "down", LF |-> "enter", q |-> "other"]

Ends(s) == {k \in 1..Len(s) : s[k] \in KeyEnds}

\* The bytes s end the keys after place p up to place w, in their order.
Carries(s, keys, p, w) ==
  \E at \in [p + 1..w -> Ends(s)] :
    /\ \A j, k \in p + 1..w : j < k => at[j] < at[k]
    /\ \A e \in Ends(s) : \E j \in p + 1..w : at[j] = e
    /\ \A j \in p + 1..w : KeyOf[s[at[j]]] = keys[j]

\* No key is cut at either end of s.
Uncut(s) ==
  \A k \in 1..Len(s) :
    /\ s[k] = "ESC" => k + 2 <= Len(s) /\ s[k + 1] = "[" /\ s[k + 2] \in {"A", "B"}
    /\ s[k] = "[" => k > 1 /\ s[k - 1] = "ESC"
    /\ s[k] \in {"A", "B"} => k > 1 /\ s[k - 1] = "["
    /\ s[k] = "CR" => k < Len(s) /\ s[k + 1] = "LF"

NoReturns(s) == \A k \in 1..Len(s) : s[k] # "CR"

\* The key that was read and is not followed yet.
Latest == IF place \in {"draw", "chosen"} THEN ch ELSE "other"

\* The calls that were made or are about to be made by choices.
Spent ==
  IF place \in {"draw", "key"} THEN Len(stack) - 1
  ELSE IF place = "chosen" THEN Len(stack)
  ELSE IF place = "overflow" THEN MaxDepth ELSE 0

\* The first p keys of those that were passed on have been read.
ReadUpTo(p) ==
  /\ known /\ place # "overflow" => Walk(passed)[p] = M!After(View, Latest)
  /\ Spent <= Cardinality(Enters(passed, p))

\* And the others wait in stdin, none of them cut.
Waits(p) ==
  /\ Carries(stdin, passed, p, Len(passed))
  /\ Uncut(stdin) /\ NoReturns(stdin)
  /\ ReadUpTo(p)

\* The keys that are sent are on the wire, none of them cut.
UnderWay == Carries(wire, sent, 0, Len(sent)) /\ Uncut(wire)

InputInv == whole => UnderWay /\ \E p \in 0..Len(passed) : Waits(p)

\* Enter, and only it, leads out of displayMenu().
ChoiceInv ==
  /\ place = "chosen" => ch = "enter"
  /\ place = "draw" => ch # "enter"
  /\ known => ch # "ERR"

-----------------------------------------------------------------------------
(* Walks.                                                                  *)

\* A set of natural numbers that is not empty has a least element.
LEMMA LeastNat ==
  ASSUME NEW T \in SUBSET Nat, T # {}
  PROVE  \E m \in T : \A k \in T : m <= k
<1>1. PICK m \in T : \A k \in T : <<k, m>> \notin OpToRel(<, Nat)
  BY WFMin, NatLessThanWellFounded, Zenon
<1>2. \A k \in T : ~ (k < m)
  BY <1>1, Zenon DEF OpToRel
<1>3. m \in Nat /\ \A k \in T : k \in Nat
  OBVIOUS
<1> QED
  BY <1>2, <1>3

\* The recursion of Walk() up to n.
Walks(keys, n, walk) ==
  walk = [k \in 0..n |-> IF k = 0 THEN M!Start ELSE M!After(walk[k - 1], keys[k])]

\* One key more than there is a walk for.
LEMMA WalkOn ==
  ASSUME NEW keys, NEW n \in Nat, NEW walk, Walks(keys, n, walk)
  PROVE  \E longer : Walks(keys, n + 1, longer)
<1> DEFINE longer == [k \in 0..n + 1 |->
                        IF k = n + 1 THEN M!After(walk[n], keys[n + 1]) ELSE walk[k]]
<1>1. /\ DOMAIN walk = 0..n
      /\ \A k \in 0..n : walk[k] = IF k = 0 THEN M!Start ELSE M!After(walk[k - 1], keys[k])
  BY DEF Walks
<1>2. ASSUME NEW k \in 0..n + 1
      PROVE  longer[k] = IF k = 0 THEN M!Start ELSE M!After(longer[k - 1], keys[k])
  <2>1. CASE k = n + 1
    <3>1. k - 1 = n /\ n \in 0..n + 1 /\ n # n + 1 /\ k # 0
      BY <2>1
    <3>2. longer[k - 1] = walk[n] /\ longer[k] = M!After(walk[n], keys[n + 1])
      BY <2>1, <3>1
    <3> QED
      BY <2>1, <3>1, <3>2
  <2>2. CASE k # n + 1
    <3>1. k \in 0..n /\ longer[k] = walk[k]
      BY <2>2
    <3>2. k # 0 => k - 1 \in 0..n + 1 /\ k - 1 # n + 1
      BY <2>2
    <3>3. k # 0 => longer[k - 1] = walk[k - 1]
      BY <3>2
    <3> QED
      BY <1>1, <3>1, <3>3
  <2> QED
    BY <2>1, <2>2
<1>3. longer = [k \in 0..n + 1 |-> longer[k]]
  OBVIOUS
<1> HIDE DEF longer
<1>4. longer = [k \in 0..n + 1 |->
                  IF k = 0 THEN M!Start ELSE M!After(longer[k - 1], keys[k])]
  BY <1>2, <1>3
<1> QED
  BY <1>4 DEF Walks

\* So there is a walk for any number of keys, or there would be a least number
\* without one.
LEMMA WalkExists ==
  ASSUME NEW keys, NEW n \in Nat
  PROVE  \E walk : Walks(keys, n, walk)
<1> DEFINE Without == {m \in Nat : ~ \E walk : Walks(keys, m, walk)}
<1>1. SUFFICES ASSUME Without # {} PROVE FALSE
  OBVIOUS
<1>2. PICK m \in Without : \A k \in Without : m <= k
  <2> HIDE DEF Without
  <2>1. Without \in SUBSET Nat
    BY DEF Without
  <2> QED
    BY <1>1, <2>1, LeastNat, Zenon
<1>3. m # 0
  <2>1. Walks(keys, 0, [k \in 0..0 |-> M!Start])
    <3> DEFINE walk == [k \in 0..0 |-> M!Start]
    <3>1. walk = [k \in 0..0 |->
                    IF k = 0 THEN M!Start ELSE M!After(walk[k - 1], keys[k])]
      OBVIOUS
    <3> QED
      BY <3>1 DEF Walks
  <2> QED
    BY <1>2, <2>1
<1>4. m - 1 \in Nat /\ m - 1 \notin Without /\ (m - 1) + 1 = m
  BY <1>2, <1>3
<1>5. \E walk : Walks(keys, m - 1, walk)
  BY <1>4
<1>6. \E walk : Walks(keys, (m - 1) + 1, walk)
  BY <1>4, <1>5, WalkOn
<1> QED
  BY <1>2, <1>4, <1>6

\* What Walk() is.
LEMMA WalkIs ==
  ASSUME NEW S, NEW keys \in Seq(S)
  PROVE  /\ Walk(keys)[0] = M!Start
         /\ \A n \in 1..Len(keys) : Walk(keys)[n] = M!After(Walk(keys)[n - 1], keys[n])
<1>1. Len(keys) \in Nat
  OBVIOUS
<1>2. Walk(keys) = CHOOSE walk : Walks(keys, Len(keys), walk)
  BY DEF Walk, Walks
<1>3. Walks(keys, Len(keys), Walk(keys))
  BY <1>1, <1>2, WalkExists, Zenon
<1>4. Walk(keys) = [k \in 0..Len(keys) |->
                      IF k = 0 THEN M!Start ELSE M!After(Walk(keys)[k - 1], keys[k])]
  BY <1>3, Zenon DEF Walks
<1>5. 0 \in 0..Len(keys) /\ \A n \in 1..Len(keys) : n \in 0..Len(keys) /\ n # 0
  BY <1>1
<1> QED
  BY <1>4, <1>5

\* One sequence behind another, and a sequence in two parts.
LEMMA Joined ==
  ASSUME NEW S, NEW s \in Seq(S), NEW t \in Seq(S)
  PROVE  /\ s \o t \in Seq(S) /\ Len(s) \in Nat /\ Len(t) \in Nat
         /\ Len(s \o t) = Len(s) + Len(t)
         /\ \A k \in 1..Len(s) : (s \o t)[k] = s[k]
         /\ \A k \in 1..Len(t) : (s \o t)[Len(s) + k] = t[k]
OBVIOUS

LEMMA Parted ==
  ASSUME NEW S, NEW s \in Seq(S), NEW n \in 0..Len(s)
  PROVE  LET a == SubSeq(s, 1, n)
             b == SubSeq(s, n + 1, Len(s))
         IN  /\ a \in Seq(S) /\ b \in Seq(S) /\ Len(s) \in Nat
             /\ Len(a) = n /\ Len(b) = Len(s) - n
             /\ \A k \in 1..n : a[k] = s[k]
             /\ \A k \in 1..Len(s) - n : b[k] = s[n + k]
OBVIOUS

\* More keys do not change where the earlier ones led.
LEMMA WalkGrows ==
  ASSUME NEW S, NEW keys \in Seq(S), NEW others \in Seq(S), NEW n \in 0..Len(keys)
  PROVE  Walk(keys \o others)[n] = Walk(keys)[n]
<1> DEFINE more == keys \o others
           Differ == {m \in 0..Len(keys) : Walk(more)[m] # Walk(keys)[m]}
<1>1. /\ more \in Seq(S) /\ Len(keys) \in Nat /\ Len(others) \in Nat
      /\ Len(more) = Len(keys) + Len(others)
      /\ \A k \in 1..Len(keys) : more[k] = keys[k]
  BY Joined
<1>2. /\ Walk(more)[0] = M!Start
      /\ \A k \in 1..Len(more) : Walk(more)[k] = M!After(Walk(more)[k - 1], more[k])
  BY <1>1, WalkIs
<1>3. /\ Walk(keys)[0] = M!Start
      /\ \A k \in 1..Len(keys) : Walk(keys)[k] = M!After(Walk(keys)[k - 1], keys[k])
  BY WalkIs
<1> HIDE DEF more
<1>4. SUFFICES ASSUME Differ # {} PROVE FALSE
  BY DEF more
<1>5. PICK m \in Differ : \A k \in Differ : m <= k
  <2>1. Differ \in SUBSET Nat
    BY <1>1
  <2> HIDE DEF Differ
  <2> QED
    BY <1>4, <2>1, LeastNat, Zenon
<1>6. m \in 1..Len(keys) /\ m \in 1..Len(more)
  BY <1>1, <1>2, <1>3, <1>5
<1>7. m - 1 \in 0..Len(keys) /\ m - 1 \notin Differ
  BY <1>1, <1>5, <1>6
<1>8. Walk(more)[m - 1] = Walk(keys)[m - 1]
  BY <1>7
<1>9. Walk(more)[m] = Walk(keys)[m]
  BY <1>1, <1>2, <1>3, <1>6, <1>8
<1> QED
  BY <1>5, <1>9

\* After Koniec keys lead nowhere.
LEMMA OverStays ==
  ASSUME NEW S, NEW keys \in Seq(S), NEW p \in 0..Len(keys), Walk(keys)[p] = M!Over
  PROVE  Walk(keys)[Len(keys)] = M!Over
<1> DEFINE Elsewhere == {m \in p..Len(keys) : Walk(keys)[m] # M!Over}
<1>1. Len(keys) \in Nat
  OBVIOUS
<1>2. \A k \in 1..Len(keys) : Walk(keys)[k] = M!After(Walk(keys)[k - 1], keys[k])
  BY WalkIs
<1>3. SUFFICES ASSUME Elsewhere # {} PROVE FALSE
  BY <1>1
<1>4. PICK m \in Elsewhere : \A k \in Elsewhere : m <= k
  <2>1. Elsewhere \in SUBSET Nat
    BY <1>1
  <2> HIDE DEF Elsewhere
  <2> QED
    BY <1>3, <2>1, LeastNat, Zenon
<1>5. m # p /\ m \in 1..Len(keys) /\ m - 1 \in p..Len(keys)
  BY <1>1, <1>4
<1>6. Walk(keys)[m - 1] = M!Over
  BY <1>1, <1>4, <1>5
<1>7. Walk(keys)[m] = M!Over
  BY <1>2, <1>5, <1>6 DEF M!After
<1> QED
  BY <1>4, <1>7

-----------------------------------------------------------------------------
(* Bytes and the keys they end.                                            *)

\* What is carried is known by the ends, not by the bytes before them.
LEMMA CarriesSame ==
  ASSUME NEW s, NEW t, NEW keys, NEW p, NEW w, Carries(s, keys, p, w),
         Len(s) = Len(t),
         \A k \in 1..Len(s) : IF s[k] \in KeyEnds THEN t[k] = s[k] ELSE t[k] \notin KeyEnds
  PROVE  Carries(t, keys, p, w)
<1>1. Ends(t) = Ends(s) /\ \A e \in Ends(s) : t[e] = s[e]
  BY DEF Ends
<1>2. PICK at \in [p + 1..w -> Ends(s)] :
        /\ \A j, k \in p + 1..w : j < k => at[j] < at[k]
        /\ \A e \in Ends(s) : \E j \in p + 1..w : at[j] = e
        /\ \A j \in p + 1..w : KeyOf[s[at[j]]] = keys[j]
  BY DEF Carries
<1>3. \A j \in p + 1..w : t[at[j]] = s[at[j]]
  BY <1>1
<1>4. at \in [p + 1..w -> Ends(t)]
  BY <1>1
<1>5. /\ \A e \in Ends(t) : \E j \in p + 1..w : at[j] = e
      /\ \A j \in p + 1..w : KeyOf[t[at[j]]] = keys[j]
  BY <1>1, <1>2, <1>3
<1> QED
  BY <1>2, <1>4, <1>5 DEF Carries

\* The same keys, counted from another place in another sequence.
LEMMA CarriesShifted ==
  ASSUME NEW s, NEW keys, NEW others, NEW p \in Nat, NEW w \in Nat, p <= w,
         NEW q \in Nat, Carries(s, keys, p, w),
         \A j \in 1..w - p : others[q + j] = keys[p + j]
  PROVE  Carries(s, others, q, q + (w - p))
<1> DEFINE v == q + (w - p)
<1>1. PICK f \in [p + 1..w -> Ends(s)] :
        /\ \A j, k \in p + 1..w : j < k => f[j] < f[k]
        /\ \A e \in Ends(s) : \E j \in p + 1..w : f[j] = e
        /\ \A j \in p + 1..w : KeyOf[s[f[j]]] = keys[j]
  BY DEF Carries
<1> DEFINE at == [j \in q + 1..v |-> f[(j - q) + p]]
<1>2. ASSUME NEW j \in q + 1..v
      PROVE  (j - q) + p \in p + 1..w /\ at[j] = f[(j - q) + p] /\ others[j] = keys[(j - q) + p]
  <2>1. j - q \in 1..w - p /\ q + (j - q) = j /\ p + (j - q) = (j - q) + p
    OBVIOUS
  <2>2. others[q + (j - q)] = keys[p + (j - q)]
    BY <2>1
  <2> QED
    BY <2>1, <2>2
<1>3. at \in [q + 1..v -> Ends(s)]
  BY <1>1, <1>2
<1>4. ASSUME NEW j \in q + 1..v, NEW k \in q + 1..v, j < k PROVE at[j] < at[k]
  <2>1. (j - q) + p < (k - q) + p
    BY <1>4
  <2> QED
    BY <1>1, <1>2, <2>1
<1>5. ASSUME NEW e \in Ends(s) PROVE \E j \in q + 1..v : at[j] = e
  <2>1. PICK l \in p + 1..w : f[l] = e
    BY <1>1
  <2>2. (l - p) + q \in q + 1..v /\ (((l - p) + q) - q) + p = l
    OBVIOUS
  <2>3. at[(l - p) + q] = e
    BY <1>2, <2>1, <2>2
  <2> QED
    BY <2>2, <2>3
<1>6. ASSUME NEW j \in q + 1..v PROVE KeyOf[s[at[j]]] = others[j]
  BY <1>1, <1>2
<1> HIDE DEF at
<1>7. Carries(s, others, q, v)
  BY <1>3, <1>4, <1>5, <1>6 DEF Carries
<1> QED
  BY <1>7

\* As many keys end in the bytes as they carry.
LEMMA CarriesCount ==
  ASSUME NEW s, NEW keys, NEW p \in Nat, NEW w \in Nat, p <= w, Carries(s, keys, p, w)
  PROVE  KeysIn(s) = w - p
<1>1. PICK at \in [p + 1..w -> Ends(s)] :
        /\ \A j, k \in p + 1..w : j < k => at[j] < at[k]
        /\ \A e \in Ends(s) : \E j \in p + 1..w : at[j] = e
  BY DEF Carries
<1>2. Ends(s) \subseteq Int
  BY DEF Ends
<1>3. ASSUME NEW j \in p + 1..w, NEW k \in p + 1..w, at[j] = at[k]
      PROVE  j = k
  <2>1. at[j] \in Int /\ at[k] \in Int
    BY <1>2
  <2>2. ~ (j < k) /\ ~ (k < j)
    BY <1>1, <1>3, <2>1
  <2> QED
    BY <2>2
<1>4. at \in Bijection(p + 1..w, Ends(s))
  BY <1>1, <1>3, Fun_IsBij
<1>5. /\ IsFiniteSet(p + 1..w)
      /\ Cardinality(p + 1..w) = w - p
  <2>1. p + 1 \in Int /\ w \in Int
    OBVIOUS
  <2>2. /\ IsFiniteSet(p + 1..w)
        /\ Cardinality(p + 1..w) = IF p + 1 > w THEN 0 ELSE w - (p + 1) + 1
    BY <2>1, FS_Interval, Zenon
  <2> QED
    BY <2>2
<1>6. Cardinality(Ends(s)) = Cardinality(p + 1..w)
  <2>1. ExistsBijection(p + 1..w, Ends(s))
    BY <1>4 DEF ExistsBijection
  <2> QED
    BY <1>5, <2>1, FS_Bijection
<1> QED
  BY <1>5, <1>6 DEF KeysIn, Ends

\* Bytes behind others carry the keys behind theirs.
LEMMA CarriesJoined ==
  ASSUME NEW S, NEW s \in Seq(S), NEW t \in Seq(S), NEW keys,
         NEW p \in Nat, NEW w \in Nat, NEW v \in Nat, p <= w, w <= v,
         Carries(s, keys, p, w), Carries(t, keys, w, v)
  PROVE  Carries(s \o t, keys, p, v)
<1>1. /\ Len(s) \in Nat /\ Len(t) \in Nat /\ Len(s \o t) = Len(s) + Len(t)
      /\ \A k \in 1..Len(s) : (s \o t)[k] = s[k]
      /\ \A k \in 1..Len(t) : (s \o t)[Len(s) + k] = t[k]
  BY Joined
<1>2. PICK f \in [p + 1..w -> Ends(s)] :
        /\ \A j, k \in p + 1..w : j < k => f[j] < f[k]
        /\ \A e \in Ends(s) : \E j \in p + 1..w : f[j] = e
        /\ \A j \in p + 1..w : KeyOf[s[f[j]]] = keys[j]
  BY DEF Carries
<1>3. PICK g \in [w + 1..v -> Ends(t)] :
        /\ \A j, k \in w + 1..v : j < k => g[j] < g[k]
        /\ \A e \in Ends(t) : \E j \in w + 1..v : g[j] = e
        /\ \A j \in w + 1..v : KeyOf[t[g[j]]] = keys[j]
  BY DEF Carries
<1> DEFINE u == s \o t
           at == [j \in p + 1..v |-> IF j <= w THEN f[j] ELSE Len(s) + g[j]]
<1> HIDE DEF u
<1>4. ASSUME NEW j \in p + 1..v
      PROVE  \/ /\ j \in p + 1..w /\ at[j] = f[j] /\ f[j] \in Ends(s)
                /\ f[j] \in 1..Len(s) /\ u[at[j]] = s[f[j]]
             \/ /\ j \in w + 1..v /\ at[j] = Len(s) + g[j] /\ g[j] \in Ends(t)
                /\ g[j] \in 1..Len(t) /\ u[at[j]] = t[g[j]]
  <2>1. CASE j <= w
    <3>1. j \in p + 1..w /\ at[j] = f[j]
      BY <2>1
    <3>2. f[j] \in Ends(s) /\ f[j] \in 1..Len(s)
      BY <1>2, <3>1 DEF Ends
    <3> QED
      BY <1>1, <3>1, <3>2 DEF u
  <2>2. CASE j > w
    <3>1. j \in w + 1..v /\ at[j] = Len(s) + g[j]
      BY <2>2
    <3>2. g[j] \in Ends(t) /\ g[j] \in 1..Len(t)
      BY <1>3, <3>1 DEF Ends
    <3> QED
      BY <1>1, <3>1, <3>2 DEF u
  <2> QED
    BY <2>1, <2>2
<1>5. \A e : e \in Ends(u) <=> e \in Ends(s) \/ (e - Len(s) \in Ends(t) /\ e \in Int)
  <2>1. ASSUME NEW e \in Int
        PROVE  e \in Ends(u) <=> e \in Ends(s) \/ e - Len(s) \in Ends(t)
    <3>1. CASE e <= Len(s)
      BY <1>1, <3>1 DEF Ends, u
    <3>2. CASE e > Len(s)
      <4>1. e \in 1..Len(u) <=> e - Len(s) \in 1..Len(t)
        BY <1>1, <3>2 DEF u
      <4>2. e - Len(s) \in 1..Len(t) => u[e] = t[e - Len(s)]
        <5>1. Len(s) + (e - Len(s)) = e
          BY <1>1
        <5> QED
          BY <1>1, <5>1 DEF u
      <4> QED
        BY <1>1, <3>2, <4>1, <4>2 DEF Ends
    <3> QED
      BY <1>1, <3>1, <3>2
  <2>2. \A e : e \in Ends(u) \/ e \in Ends(s) => e \in Int
    BY DEF Ends
  <2> QED
    BY <2>1, <2>2
<1>6. at \in [p + 1..v -> Ends(u)]
  <2>1. ASSUME NEW j \in p + 1..v PROVE at[j] \in Ends(u)
    <3> HIDE DEF at
    <3>1. CASE j \in p + 1..w /\ at[j] = f[j] /\ f[j] \in Ends(s)
      BY <1>5, <3>1
    <3>2. CASE at[j] = Len(s) + g[j] /\ g[j] \in Ends(t) /\ g[j] \in 1..Len(t)
      <4>1. at[j] - Len(s) = g[j] /\ at[j] \in Int
        BY <1>1, <3>2
      <4> QED
        BY <1>5, <3>2, <4>1
    <3> QED
      BY <1>4, <3>1, <3>2
  <2> QED
    BY <2>1
<1>7. ASSUME NEW j \in p + 1..v, NEW k \in p + 1..v, j < k
      PROVE  at[j] < at[k]
  <2>1. j \in p + 1..w \/ k \in w + 1..v
    BY <1>7
  <2> HIDE DEF at
  <2>2. CASE j \in p + 1..w /\ k \in p + 1..w
    <3>1. at[j] = f[j] /\ at[k] = f[k]
      BY <1>4, <2>2
    <3>2. f[j] < f[k]
      BY <1>2, <1>7, <2>2
    <3> QED
      BY <3>1, <3>2
  <2>3. CASE j \in w + 1..v /\ k \in w + 1..v
    <3>1. /\ at[j] = Len(s) + g[j] /\ at[k] = Len(s) + g[k]
          /\ g[j] \in 1..Len(t) /\ g[k] \in 1..Len(t)
      BY <1>4, <2>3
    <3>2. g[j] < g[k]
      BY <1>3, <1>7, <2>3
    <3> QED
      BY <1>1, <3>1, <3>2
  <2>4. CASE j \in p + 1..w /\ k \in w + 1..v
    <3>1. at[j] = f[j] /\ f[j] \in 1..Len(s)
      <4>1. j \notin w + 1..v
        BY <2>4
      <4> QED
        BY <1>4, <4>1
    <3>2. at[k] = Len(s) + g[k] /\ g[k] \in 1..Len(t)
      <4>1. k \notin p + 1..w
        BY <2>4
      <4> QED
        BY <1>4, <4>1
    <3> QED
      BY <1>1, <3>1, <3>2
  <2> QED
    BY <1>7, <2>1, <2>2, <2>3, <2>4
<1>8. ASSUME NEW e \in Ends(u)
      PROVE  \E j \in p + 1..v : at[j] = e
  <2>1. CASE e \in Ends(s)
    <3>1. PICK j \in p + 1..w : f[j] = e
      BY <1>2, <2>1
    <3>2. j \in p + 1..v /\ at[j] = e
      BY <3>1
    <3> QED
      BY <3>2
  <2>2. CASE e - Len(s) \in Ends(t) /\ e \in Int
    <3>1. PICK j \in w + 1..v : g[j] = e - Len(s)
      BY <1>3, <2>2
    <3>2. j \in p + 1..v /\ at[j] = Len(s) + g[j]
      BY <3>1
    <3> QED
      BY <1>1, <2>2, <3>1, <3>2
  <2> QED
    BY <1>5, <2>1, <2>2
<1>9. ASSUME NEW j \in p + 1..v
      PROVE  KeyOf[u[at[j]]] = keys[j]
  BY <1>2, <1>3, <1>4
<1>10. Carries(u, keys, p, v)
  <2> HIDE DEF at
  <2> QED
    BY <1>6, <1>7, <1>8, <1>9 DEF Carries
<1> QED
  BY <1>10 DEF u

\* A part of the bytes carries a part of the keys, and the rest the rest.
LEMMA CarriesParted ==
  ASSUME NEW S, NEW s \in Seq(S), NEW n \in 0..Len(s), NEW keys,
         NEW w \in Nat, NEW v \in Nat, w <= v, Carries(s, keys, w, v)
  PROVE  \E m \in w..v :
           /\ Carries(SubSeq(s, 1, n), keys, w, m)
           /\ Carries(SubSeq(s, n + 1, Len(s)), keys, m, v)
<1> DEFINE a == SubSeq(s, 1, n)
           b == SubSeq(s, n + 1, Len(s))
<1>1. /\ Len(s) \in Nat /\ Len(a) = n /\ Len(b) = Len(s) - n
      /\ \A k \in 1..n : a[k] = s[k]
      /\ \A k \in 1..Len(s) - n : b[k] = s[n + k]
  BY Parted
<1> HIDE DEF a, b
<1>2. PICK at \in [w + 1..v -> Ends(s)] :
        /\ \A j, k \in w + 1..v : j < k => at[j] < at[k]
        /\ \A e \in Ends(s) : \E j \in w + 1..v : at[j] = e
        /\ \A j \in w + 1..v : KeyOf[s[at[j]]] = keys[j]
  BY DEF Carries
<1>3. \A j \in w + 1..v : at[j] \in Ends(s) /\ at[j] \in 1..Len(s)
  BY DEF Ends
<1> DEFINE Later == {j \in w + 1..v : at[j] > n}
\* The first key that ends in the rest, if there is one.
<1>4. PICK m \in w..v : /\ \A j \in w + 1..m : at[j] <= n
                        /\ \A j \in m + 1..v : at[j] > n
  <2>1. CASE Later = {}
    <3>1. \A j \in w + 1..v : at[j] <= n
      BY <1>1, <1>3, <2>1
    <3> QED
      BY <3>1
  <2>2. CASE Later # {}
    <3>1. PICK l \in Later : \A j \in Later : l <= j
      <4>1. Later \in SUBSET Nat
        OBVIOUS
      <4> HIDE DEF Later
      <4> QED
        BY <2>2, <4>1, LeastNat, Zenon
    <3>2. l \in w + 1..v /\ at[l] > n
      BY <3>1
    <3>3. l - 1 \in w..v
      BY <3>2
    <3>4. ASSUME NEW j \in w + 1..l - 1 PROVE at[j] <= n
      <4>1. j \in w + 1..v /\ ~ (l <= j)
        BY <3>2
      <4>2. j \notin Later
        BY <3>1, <4>1
      <4> QED
        BY <1>1, <1>3, <4>1, <4>2
    <3>5. ASSUME NEW j \in (l - 1) + 1..v PROVE at[j] > n
      <4>1. j \in w + 1..v /\ (j = l \/ l < j)
        BY <3>2
      <4>2. l < j => at[l] < at[j]
        BY <1>2, <3>2, <4>1
      <4> QED
        BY <1>1, <1>3, <3>2, <4>1, <4>2
    <3> QED
      BY <3>3, <3>4, <3>5
  <2> QED
    BY <2>1, <2>2
<1> HIDE DEF Later
<1>5. Carries(a, keys, w, m)
  <2> DEFINE f == [j \in w + 1..m |-> at[j]]
  <2>1. ASSUME NEW j \in w + 1..m
        PROVE  j \in w + 1..v /\ at[j] \in Ends(a) /\ a[at[j]] = s[at[j]]
    <3>1. j \in w + 1..v
      OBVIOUS
    <3>2. at[j] \in 1..n /\ s[at[j]] \in KeyEnds
      BY <1>1, <1>3, <1>4, <3>1 DEF Ends
    <3> QED
      BY <1>1, <3>1, <3>2 DEF Ends
  <2>2. ASSUME NEW e \in Ends(a) PROVE \E j \in w + 1..m : at[j] = e
    <3>1. e \in 1..n /\ e \in Ends(s)
      BY <1>1 DEF Ends
    <3>2. PICK j \in w + 1..v : at[j] = e
      BY <1>2, <3>1
    <3>3. j \notin m + 1..v
      BY <1>1, <1>4, <3>1, <3>2
    <3> QED
      BY <3>2, <3>3
  <2>3. f \in [w + 1..m -> Ends(a)]
    BY <2>1
  <2>4. \A j, k \in w + 1..m : j < k => f[j] < f[k]
    BY <1>2, <2>1
  <2>5. \A e \in Ends(a) : \E j \in w + 1..m : f[j] = e
    BY <2>2
  <2>6. \A j \in w + 1..m : KeyOf[a[f[j]]] = keys[j]
    BY <1>2, <2>1
  <2> HIDE DEF f
  <2> QED
    BY <2>3, <2>4, <2>5, <2>6 DEF Carries
<1>6. Carries(b, keys, m, v)
  <2> DEFINE g == [j \in m + 1..v |-> at[j] - n]
  <2>1. ASSUME NEW j \in m + 1..v
        PROVE  /\ j \in w + 1..v /\ at[j] \in 1..Len(s)
               /\ at[j] - n \in Ends(b) /\ b[at[j] - n] = s[at[j]]
    <3>1. j \in w + 1..v
      OBVIOUS
    <3>2. at[j] \in 1..Len(s) /\ at[j] > n /\ s[at[j]] \in KeyEnds
      BY <1>3, <1>4, <3>1 DEF Ends
    <3>3. at[j] - n \in 1..Len(s) - n /\ n + (at[j] - n) = at[j]
      BY <1>1, <3>2
    <3>4. b[at[j] - n] = s[at[j]]
      BY <1>1, <3>3
    <3> QED
      BY <1>1, <3>1, <3>2, <3>3, <3>4 DEF Ends
  <2>2. ASSUME NEW e \in Ends(b) PROVE \E j \in m + 1..v : at[j] - n = e
    <3>1. e \in 1..Len(s) - n /\ b[e] \in KeyEnds
      BY <1>1 DEF Ends
    <3>2. n + e \in Ends(s)
      BY <1>1, <3>1 DEF Ends
    <3>3. PICK j \in w + 1..v : at[j] = n + e
      BY <1>2, <3>2
    <3>4. j \notin w + 1..m
      BY <1>1, <1>4, <3>1, <3>3
    <3>5. j \in m + 1..v /\ at[j] - n = e
      BY <1>1, <3>1, <3>3, <3>4
    <3> QED
      BY <3>5
  <2>3. g \in [m + 1..v -> Ends(b)]
    BY <2>1
  <2>4. ASSUME NEW j \in m + 1..v, NEW k \in m + 1..v, j < k PROVE g[j] < g[k]
    <3>1. at[j] < at[k]
      BY <1>2, <2>1, <2>4
    <3>2. at[j] \in 1..Len(s) /\ at[k] \in 1..Len(s)
      BY <2>1
    <3> QED
      BY <3>1, <3>2
  <2>5. \A e \in Ends(b) : \E j \in m + 1..v : g[j] = e
    BY <2>2
  <2>6. \A j \in m + 1..v : KeyOf[b[g[j]]] = keys[j]
    BY <1>2, <2>1
  <2> HIDE DEF g
  <2> QED
    BY <2>3, <2>4, <2>5, <2>6 DEF Carries
<1> QED
  BY <1>5, <1>6 DEF a, b

\* Bytes that end no key carry none, and those of which only the last is an end
\* carry one.
LEMMA CarriesNone ==
  ASSUME NEW s, NEW keys, NEW p \in Nat, NEW m \in Nat, p <= m, Ends(s) = {}
  PROVE  Carries(s, keys, p, m) <=> m = p
<1>1. ASSUME Carries(s, keys, p, m) PROVE m = p
  <2>1. PICK at : at \in [p + 1..m -> Ends(s)]
    BY <1>1 DEF Carries
  <2>2. p + 1 \notin p + 1..m
    BY <2>1
  <2> QED
    BY <2>2
<1>2. Carries(s, keys, p, p)
  <2> DEFINE at == [j \in p + 1..p |-> 0]
  <2>1. p + 1..p = {}
    OBVIOUS
  <2>2. at \in [p + 1..p -> Ends(s)]
    BY <2>1
  <2> QED
    BY <2>1, <2>2 DEF Carries
<1> QED
  BY <1>1, <1>2

\* Bytes that end one key carry one.
LEMMA CarriesOne ==
  ASSUME NEW s, NEW keys, NEW p \in Nat, NEW m \in Nat, p <= m, NEW e \in Nat,
         Ends(s) = {e}, Carries(s, keys, p, m)
  PROVE  m = p + 1
<1>1. PICK at \in [p + 1..m -> Ends(s)] :
        /\ \A j, k \in p + 1..m : j < k => at[j] < at[k]
        /\ \A f \in Ends(s) : \E j \in p + 1..m : at[j] = f
        /\ \A j \in p + 1..m : KeyOf[s[at[j]]] = keys[j]
  BY DEF Carries
<1>2. PICK j \in p + 1..m : at[j] = e
  BY <1>1
<1>3. p + 1 \in p + 1..m /\ at[p + 1] = e
  BY <1>1, <1>2
<1>4. m # p + 1 => p + 2 \in p + 1..m /\ at[p + 2] = e /\ p + 1 < p + 2
  BY <1>1, <1>2
<1>5. ~ (e < e)
  OBVIOUS
<1> QED
  BY <1>1, <1>3, <1>4, <1>5

\* The one key is that of the byte that ends it.
LEMMA CarriesOneKey ==
  ASSUME NEW s, NEW keys, NEW p \in Nat, NEW e \in Nat, Ends(s) = {e},
         Carries(s, keys, p, p + 1)
  PROVE  keys[p + 1] = KeyOf[s[e]]
<1>1. PICK at \in [p + 1..p + 1 -> Ends(s)] :
        \A j \in p + 1..p + 1 : KeyOf[s[at[j]]] = keys[j]
  BY DEF Carries
<1>2. p + 1 \in p + 1..p + 1 /\ at[p + 1] = e
  BY <1>1
<1> QED
  BY <1>1, <1>2

\* A byte that ends a key carries it.
LEMMA CarriesThat ==
  ASSUME NEW s, NEW keys, NEW p \in Nat, NEW e \in Nat, Ends(s) = {e},
         keys[p + 1] = KeyOf[s[e]]
  PROVE  Carries(s, keys, p, p + 1)
<1> DEFINE at == [j \in p + 1..p + 1 |-> e]
<1>1. p + 1..p + 1 = {p + 1}
  OBVIOUS
<1>2. at \in [p + 1..p + 1 -> Ends(s)] /\ at[p + 1] = e
  BY <1>1
<1> HIDE DEF at
<1> QED
  BY <1>1, <1>2 DEF Carries

-----------------------------------------------------------------------------
(* Bytes of whole keys.                                                    *)

LEMMA UncutJoined ==
  ASSUME NEW S, NEW s \in Seq(S), NEW t \in Seq(S), Uncut(s), Uncut(t)
  PROVE  Uncut(s \o t)
<1> DEFINE u == s \o t
<1>1. /\ Len(s) \in Nat /\ Len(t) \in Nat /\ Len(u) = Len(s) + Len(t)
      /\ \A k \in 1..Len(s) : u[k] = s[k]
      /\ \A k \in 1..Len(t) : u[Len(s) + k] = t[k]
  BY Joined
<1> HIDE DEF u
<1>2. ASSUME NEW k \in 1..Len(u)
      PROVE  /\ u[k] = "ESC" =>
                  k + 2 <= Len(u) /\ u[k + 1] = "[" /\ u[k + 2] \in {"A", "B"}
             /\ u[k] = "[" => k > 1 /\ u[k - 1] = "ESC"
             /\ u[k] \in {"A", "B"} => k > 1 /\ u[k - 1] = "["
             /\ u[k] = "CR" => k < Len(u) /\ u[k + 1] = "LF"
  <2>1. CASE k <= Len(s)
    <3>1. k \in 1..Len(s) /\ u[k] = s[k]
      BY <1>1, <2>1
    <3>2. /\ k + 1 \in 1..Len(s) => u[k + 1] = s[k + 1]
          /\ k + 2 \in 1..Len(s) => u[k + 2] = s[k + 2]
          /\ k > 1 => u[k - 1] = s[k - 1]
      <4>1. k > 1 => k - 1 \in 1..Len(s)
        BY <2>1
      <4> QED
        BY <1>1, <4>1
    <3> QED
      BY <1>1, <3>1, <3>2 DEF Uncut
  <2>2. CASE k > Len(s)
    <3>1. PICK j \in 1..Len(t) : k = Len(s) + j
      <4>1. k - Len(s) \in 1..Len(t) /\ k = Len(s) + (k - Len(s))
        BY <1>1, <2>2
      <4> QED
        BY <4>1
    <3>2. u[k] = t[j]
      BY <1>1, <3>1
    <3>3. /\ j + 1 \in 1..Len(t) => u[k + 1] = t[j + 1]
          /\ j + 2 \in 1..Len(t) => u[k + 2] = t[j + 2]
          /\ j - 1 \in 1..Len(t) => u[k - 1] = t[j - 1]
      <4>1. \A m \in 1..Len(t) : \A l : l = Len(s) + m => u[l] = t[m]
        BY <1>1
      <4>2. k + 1 = Len(s) + (j + 1)
        BY <1>1, <3>1
      <4>3. k + 2 = Len(s) + (j + 2)
        BY <1>1, <3>1
      <4>4. k - 1 = Len(s) + (j - 1)
        BY <1>1, <3>1
      <4> QED
        BY <4>1, <4>2, <4>3, <4>4, Zenon
    <3>4. /\ t[j] = "ESC" => j + 2 <= Len(t) /\ t[j + 1] = "[" /\ t[j + 2] \in {"A", "B"}
          /\ t[j] = "[" => j > 1 /\ t[j - 1] = "ESC"
          /\ t[j] \in {"A", "B"} => j > 1 /\ t[j - 1] = "["
          /\ t[j] = "CR" => j < Len(t) /\ t[j + 1] = "LF"
      BY DEF Uncut
    <3>5. k \in Nat /\ j \in Nat /\ Len(s) \in Nat /\ Len(t) \in Nat
      BY <1>1
    <3>6. /\ j > 1 => k > 1 /\ j - 1 \in 1..Len(t)
          /\ j + 2 <= Len(t) =>
               k + 2 <= Len(u) /\ j + 1 \in 1..Len(t) /\ j + 2 \in 1..Len(t)
          /\ j < Len(t) => k < Len(u) /\ j + 1 \in 1..Len(t)
      BY <1>1, <3>1, <3>5
    <3> QED
      BY <3>2, <3>3, <3>4, <3>6
  <2> QED
    BY <1>1, <2>1, <2>2
<1>3. Uncut(u)
  BY <1>2 DEF Uncut
<1> QED
  BY <1>3 DEF u

\* A cut behind a byte that does not begin anything.
LEMMA UncutParted ==
  ASSUME NEW S, NEW s \in Seq(S), NEW n \in 1..Len(s), Uncut(s),
         s[n] \notin {"ESC", "[", "CR"}
  PROVE  Uncut(SubSeq(s, 1, n)) /\ Uncut(SubSeq(s, n + 1, Len(s)))
<1> DEFINE a == SubSeq(s, 1, n)
           b == SubSeq(s, n + 1, Len(s))
<1>1. /\ Len(s) \in Nat /\ Len(a) = n /\ Len(b) = Len(s) - n
      /\ \A k \in 1..n : a[k] = s[k]
      /\ \A k \in 1..Len(s) - n : b[k] = s[n + k]
  BY Parted
<1> HIDE DEF a, b
<1>2. \A k \in 1..Len(s) :
        /\ s[k] = "ESC" => k + 2 <= Len(s) /\ s[k + 1] = "[" /\ s[k + 2] \in {"A", "B"}
        /\ s[k] = "[" => k > 1 /\ s[k - 1] = "ESC"
        /\ s[k] \in {"A", "B"} => k > 1 /\ s[k - 1] = "["
        /\ s[k] = "CR" => k < Len(s) /\ s[k + 1] = "LF"
  BY DEF Uncut
<1>3. Uncut(a)
  <2>1. ASSUME NEW k \in 1..n
        PROVE  /\ a[k] = "ESC" => k + 2 <= n /\ a[k + 1] = "[" /\ a[k + 2] \in {"A", "B"}
               /\ a[k] = "[" => k > 1 /\ a[k - 1] = "ESC"
               /\ a[k] \in {"A", "B"} => k > 1 /\ a[k - 1] = "["
               /\ a[k] = "CR" => k < n /\ a[k + 1] = "LF"
    <3>1. k \in 1..Len(s) /\ a[k] = s[k]
      BY <1>1
    <3>2. s[k] = "ESC" => k # n /\ k + 1 # n
      BY <1>2, <3>1
    <3>3. s[k] = "CR" => k # n
      BY <3>1
    <3>4. /\ k + 1 \in 1..n => a[k + 1] = s[k + 1]
          /\ k + 2 \in 1..n => a[k + 2] = s[k + 2]
          /\ k > 1 => a[k - 1] = s[k - 1]
      BY <1>1
    <3> QED
      BY <1>1, <1>2, <3>1, <3>2, <3>3, <3>4
  <2> QED
    BY <1>1, <2>1 DEF Uncut
<1>4. Uncut(b)
  <2>1. ASSUME NEW k \in 1..Len(b)
        PROVE  /\ b[k] = "ESC" =>
                    k + 2 <= Len(b) /\ b[k + 1] = "[" /\ b[k + 2] \in {"A", "B"}
               /\ b[k] = "[" => k > 1 /\ b[k - 1] = "ESC"
               /\ b[k] \in {"A", "B"} => k > 1 /\ b[k - 1] = "["
               /\ b[k] = "CR" => k < Len(b) /\ b[k + 1] = "LF"
    <3>1. n + k \in 1..Len(s) /\ b[k] = s[n + k]
      BY <1>1
    <3>2. /\ k + 1 \in 1..Len(b) => b[k + 1] = s[(n + k) + 1]
          /\ k + 2 \in 1..Len(b) => b[k + 2] = s[(n + k) + 2]
          /\ k > 1 => b[k - 1] = s[(n + k) - 1]
      <4>1. /\ n + (k + 1) = (n + k) + 1 /\ n + (k + 2) = (n + k) + 2
            /\ n + (k - 1) = (n + k) - 1
        BY <1>1
      <4>2. k > 1 => k - 1 \in 1..Len(b)
        BY <1>1
      <4>3. \A l \in 1..Len(b) : b[l] = s[n + l]
        BY <1>1
      <4> QED
        BY <4>1, <4>2, <4>3
    <3>3. k = 1 => (n + k) - 1 = n
      BY <1>1
    <3>4. s[n + k] \in {"[", "A", "B"} => k > 1
      BY <1>1, <1>2, <3>1, <3>3
    <3>5. /\ s[n + k] = "ESC" =>
               /\ n + k + 2 <= Len(s)
               /\ s[(n + k) + 1] = "[" /\ s[(n + k) + 2] \in {"A", "B"}
          /\ s[n + k] = "[" => s[(n + k) - 1] = "ESC"
          /\ s[n + k] \in {"A", "B"} => s[(n + k) - 1] = "["
          /\ s[n + k] = "CR" => n + k < Len(s) /\ s[(n + k) + 1] = "LF"
      BY <1>2, <3>1
    <3>6. /\ n + k + 2 <= Len(s) =>
               k + 2 <= Len(b) /\ k + 1 \in 1..Len(b) /\ k + 2 \in 1..Len(b)
          /\ n + k < Len(s) => k < Len(b) /\ k + 1 \in 1..Len(b)
      BY <1>1
    <3>7. b[k] = "ESC" => k + 2 <= Len(b) /\ b[k + 1] = "[" /\ b[k + 2] \in {"A", "B"}
      BY <3>1, <3>2, <3>5, <3>6
    <3>8. b[k] = "CR" => k < Len(b) /\ b[k + 1] = "LF"
      BY <3>1, <3>2, <3>5, <3>6
    <3> QED
      BY <3>1, <3>2, <3>4, <3>5, <3>7, <3>8
  <2> QED
    BY <1>1, <2>1 DEF Uncut
<1> QED
  BY <1>3, <1>4 DEF a, b

\* What send() makes of whole keys.
LEMMA RewrittenUncut ==
  ASSUME NEW s \in Seq(Bytes), Uncut(s)
  PROVE  /\ Rewritten(s) \in Seq(Bytes) /\ Len(Rewritten(s)) = Len(s)
         /\ \A k \in 1..Len(s) : Rewritten(s)[k] \in {s[k], "?"}
         /\ Uncut(Rewritten(s)) /\ NoReturns(Rewritten(s))
         /\ \A keys, p, w : Carries(s, keys, p, w) => Carries(Rewritten(s), keys, p, w)
<1> DEFINE t == Rewritten(s)
<1>1. Len(s) \in Nat /\ DOMAIN s = 1..Len(s) /\ \A k \in 1..Len(s) : s[k] \in Bytes
  OBVIOUS
<1>2. /\ DOMAIN t = 1..Len(s)
      /\ \A k \in 1..Len(s) : t[k] = IF s[k] = "CR" THEN "?" ELSE s[k]
  BY <1>1 DEF Rewritten, Uncut
<1>3. t \in [1..Len(s) -> Bytes]
  <2>1. t = [k \in 1..Len(s) |-> t[k]]
    BY <1>1 DEF Rewritten
  <2> HIDE DEF t
  <2>2. \A k \in 1..Len(s) : t[k] \in Bytes
    BY <1>1, <1>2 DEF Bytes
  <2> QED
    BY <2>1, <2>2
<1> HIDE DEF t
<1>4. t \in Seq(Bytes) /\ Len(t) = Len(s)
  BY <1>1, <1>3
<1>5. NoReturns(t)
  BY <1>2, <1>4 DEF NoReturns
<1>6. Uncut(t)
  <2>1. ASSUME NEW k \in 1..Len(s)
        PROVE  /\ t[k] = "ESC" => k + 2 <= Len(s) /\ t[k + 1] = "[" /\ t[k + 2] \in {"A", "B"}
               /\ t[k] = "[" => k > 1 /\ t[k - 1] = "ESC"
               /\ t[k] \in {"A", "B"} => k > 1 /\ t[k - 1] = "["
               /\ t[k] # "CR"
    <3>1. /\ s[k] = "ESC" => k + 2 <= Len(s) /\ s[k + 1] = "[" /\ s[k + 2] \in {"A", "B"}
          /\ s[k] = "[" => k > 1 /\ s[k - 1] = "ESC"
          /\ s[k] \in {"A", "B"} => k > 1 /\ s[k - 1] = "["
      BY DEF Uncut
    <3>2. t[k] = IF s[k] = "CR" THEN "?" ELSE s[k]
      BY <1>2
    <3>3. k > 1 => k - 1 \in 1..Len(s)
      BY <1>1
    <3>4. k + 2 <= Len(s) => k + 1 \in 1..Len(s) /\ k + 2 \in 1..Len(s)
      BY <1>1
    <3> QED
      BY <1>2, <3>1, <3>2, <3>3, <3>4
  <2> QED
    BY <1>4, <2>1 DEF Uncut
<1>7. ASSUME NEW keys, NEW p, NEW w, Carries(s, keys, p, w)
      PROVE  Carries(t, keys, p, w)
  <2>1. \A k \in 1..Len(s) :
          IF s[k] \in KeyEnds THEN t[k] = s[k] ELSE t[k] \notin KeyEnds
    BY <1>2 DEF KeyEnds
  <2> QED
    BY <1>4, <1>7, <2>1, CarriesSame
<1>8. \A k \in 1..Len(s) : t[k] \in {s[k], "?"}
  BY <1>2
<1> QED
  BY <1>4, <1>5, <1>6, <1>7, <1>8 DEF t

\* What the user's terminal makes of a key.
LEMMA EncodedCarries ==
  ASSUME NEW key \in M!Keys
  PROVE  /\ Encoded(key) \in Seq(Bytes) /\ Uncut(Encoded(key))
         /\ \A keys : \A n \in Nat :
              keys[n + 1] = key => Carries(Encoded(key), keys, n, n + 1)
<1>1. DOMAIN Arrows = {"up", "down"}
  BY DEF Arrows
<1>2. ASSUME NEW s, Encoded(key) = s, s \in Seq(Bytes), Uncut(s),
             NEW e \in Nat, Ends(s) = {e}, KeyOf[s[e]] = key
      PROVE  /\ Encoded(key) \in Seq(Bytes) /\ Uncut(Encoded(key))
             /\ \A keys : \A n \in Nat :
                  keys[n + 1] = key => Carries(Encoded(key), keys, n, n + 1)
  <2>1. ASSUME NEW keys, NEW n \in Nat, keys[n + 1] = key
        PROVE  Carries(s, keys, n, n + 1)
    BY <1>2, <2>1, CarriesThat
  <2> QED
    BY <1>2, <2>1
<1>3. CASE key = "up"
  <2>1. Encoded(key) = <<"ESC", "[", "A">>
    BY <1>1, <1>3 DEF Encoded, Arrows
  <2>2. /\ <<"ESC", "[", "A">> \in Seq(Bytes)
        /\ Uncut(<<"ESC", "[", "A">>) /\ Ends(<<"ESC", "[", "A">>) = {3}
        /\ KeyOf[<<"ESC", "[", "A">>[3]] = key
    BY <1>3 DEF Bytes, Uncut, Ends, KeyEnds, KeyOf
  <2> QED
    BY <1>2, <2>1, <2>2
<1>4. CASE key = "down"
  <2>1. Encoded(key) = <<"ESC", "[", "B">>
    BY <1>1, <1>4 DEF Encoded, Arrows
  <2>2. /\ <<"ESC", "[", "B">> \in Seq(Bytes)
        /\ Uncut(<<"ESC", "[", "B">>) /\ Ends(<<"ESC", "[", "B">>) = {3}
        /\ KeyOf[<<"ESC", "[", "B">>[3]] = key
    BY <1>4 DEF Bytes, Uncut, Ends, KeyEnds, KeyOf
  <2> QED
    BY <1>2, <2>1, <2>2
<1>5. CASE key = "enter"
  <2>1. Encoded(key) = <<"CR", "LF">>
    BY <1>1, <1>5 DEF Encoded
  <2>2. /\ <<"CR", "LF">> \in Seq(Bytes)
        /\ Uncut(<<"CR", "LF">>) /\ Ends(<<"CR", "LF">>) = {2}
        /\ KeyOf[<<"CR", "LF">>[2]] = key
    BY <1>5 DEF Bytes, Uncut, Ends, KeyEnds, KeyOf
  <2> QED
    BY <1>2, <2>1, <2>2
<1>6. CASE key = "other"
  <2>1. Encoded(key) = <<"q">>
    BY <1>1, <1>6 DEF Encoded
  <2>2. /\ <<"q">> \in Seq(Bytes)
        /\ Uncut(<<"q">>) /\ Ends(<<"q">>) = {1} /\ KeyOf[<<"q">>[1]] = key
    BY <1>6 DEF Bytes, Uncut, Ends, KeyEnds, KeyOf
  <2> QED
    BY <1>2, <2>1, <2>2
<1> QED
  BY <1>3, <1>4, <1>5, <1>6 DEF M!Keys

\* Joining makes no carriage returns.
LEMMA NoReturnsJoined ==
  ASSUME NEW S, NEW s \in Seq(S), NEW t \in Seq(S), NoReturns(s), NoReturns(t)
  PROVE  NoReturns(s \o t)
<1>1. /\ Len(s) \in Nat /\ Len(t) \in Nat /\ Len(s \o t) = Len(s) + Len(t)
      /\ \A k \in 1..Len(s) : (s \o t)[k] = s[k]
      /\ \A k \in 1..Len(t) : (s \o t)[Len(s) + k] = t[k]
  BY Joined
<1>2. ASSUME NEW k \in 1..Len(s \o t) PROVE (s \o t)[k] # "CR"
  <2>1. CASE k <= Len(s)
    BY <1>1, <2>1 DEF NoReturns
  <2>2. CASE k > Len(s)
    <3>1. k - Len(s) \in 1..Len(t) /\ Len(s) + (k - Len(s)) = k
      BY <1>1, <2>2
    <3> QED
      BY <1>1, <3>1 DEF NoReturns
  <2> QED
    BY <1>1, <2>1, <2>2
<1> QED
  BY <1>2 DEF NoReturns

\* What it takes to start with three given bytes.
LEMMA PrefixOfThree ==
  ASSUME NEW S, NEW s \in Seq(S), NEW a, NEW b, NEW c
  PROVE  IsPrefix(<<a, b, c>>, s) <=> Len(s) >= 3 /\ s[1] = a /\ s[2] = b /\ s[3] = c
<1> DEFINE T == S \cup {a, b, c}
           t == <<a, b, c>>
<1>1. t \in Seq(T) /\ s \in Seq(T) /\ Len(s) \in Nat
  OBVIOUS
<1>2. Len(t) = 3 /\ t[1] = a /\ t[2] = b /\ t[3] = c
  OBVIOUS
<1> HIDE DEF t, T
<1>3. CASE Len(s) >= 3
  <2>1. /\ SubSeq(s, 1, 3) \in Seq(T) /\ Len(SubSeq(s, 1, 3)) = 3
        /\ \A k \in 1..3 : SubSeq(s, 1, 3)[k] = s[k]
    BY <1>1, <1>3
  <2>2. /\ SubSeq(t, 1, 3) \in Seq(T) /\ Len(SubSeq(t, 1, 3)) = 3
        /\ \A k \in 1..3 : SubSeq(t, 1, 3)[k] = t[k]
    <3>1. 3 \in 0..Len(t)
      BY <1>2
    <3> QED
      BY <1>1, <3>1, Parted
  <2>3. (\A k \in 1..3 : s[k] = t[k]) <=> SubSeq(s, 1, 3) = SubSeq(t, 1, 3)
    <3>1. ASSUME \A k \in 1..3 : s[k] = t[k]
          PROVE  SubSeq(s, 1, 3) = SubSeq(t, 1, 3)
      BY <2>1, <2>2, <3>1, SeqEqual
    <3>2. ASSUME SubSeq(s, 1, 3) = SubSeq(t, 1, 3)
          PROVE  \A k \in 1..3 : s[k] = t[k]
      BY <2>1, <2>2, <3>2
    <3> QED
      BY <3>1, <3>2
  <2>4. (\A k \in 1..3 : s[k] = t[k]) <=> s[1] = a /\ s[2] = b /\ s[3] = c
    <3>1. \A k \in 1..3 : k = 1 \/ k = 2 \/ k = 3
      OBVIOUS
    <3>2. 1 \in 1..3 /\ 2 \in 1..3 /\ 3 \in 1..3
      OBVIOUS
    <3> QED
      BY <1>2, <3>1, <3>2
  <2>5. IsPrefix(t, s) <=> SubSeq(s, 1, 3) = SubSeq(t, 1, 3)
    BY <1>2, <1>3 DEF IsPrefix
  <2> QED
    BY <1>3, <2>3, <2>4, <2>5 DEF t
<1>4. CASE ~ (Len(s) >= 3)
  <2>1. ~ IsPrefix(t, s)
    BY <1>1, <1>2, <1>4 DEF IsPrefix
  <2> QED
    BY <1>4, <2>1 DEF t
<1> QED
  BY <1>3, <1>4

\* wgetch() takes one key, or a byte that is none and means nothing.
LEMMA DecodedCarries ==
  ASSUME stdin \in Seq(Bytes), stdin # <<>>, Uncut(stdin), NoReturns(stdin),
         NEW keys, NEW p \in Nat, NEW w \in Nat, p <= w, Carries(stdin, keys, p, w)
  PROVE  /\ Uncut(Consumed(Decoded)) /\ NoReturns(Consumed(Decoded))
         /\ \/ /\ p + 1 <= w /\ Decoded.key = keys[p + 1]
               /\ Carries(Consumed(Decoded), keys, p + 1, w)
            \/ Decoded.key = "other" /\ Carries(Consumed(Decoded), keys, p, w)
<1>1. /\ Len(stdin) \in Nat /\ Len(stdin) >= 1 /\ stdin[1] \in Bytes
      /\ stdin[1] \notin {"[", "A", "B", "CR"}
  <2>1. Len(stdin) \in Nat /\ Len(stdin) >= 1
    OBVIOUS
  <2> QED
    BY <2>1 DEF Uncut, NoReturns
<1>2. /\ DOMAIN Arrows = {"up", "down"}
      /\ Arrows["up"] = <<"ESC", "[", "A">> /\ Arrows["down"] = <<"ESC", "[", "B">>
  BY DEF Arrows
\* All that is left to show is how many bytes are read, and what they end.
<1>3. ASSUME NEW n \in 1..Len(stdin), Decoded.size = n,
             stdin[n] \notin {"ESC", "[", "CR"},
             \A k \in 1..n - 1 : stdin[k] \notin KeyEnds,
             stdin[n] \in KeyEnds => Decoded.key = KeyOf[stdin[n]],
             stdin[n] \notin KeyEnds => Decoded.key = "other"
      PROVE  /\ Uncut(Consumed(Decoded)) /\ NoReturns(Consumed(Decoded))
             /\ \/ /\ p + 1 <= w /\ Decoded.key = keys[p + 1]
                   /\ Carries(Consumed(Decoded), keys, p + 1, w)
                \/ Decoded.key = "other" /\ Carries(Consumed(Decoded), keys, p, w)
  <2> DEFINE a == SubSeq(stdin, 1, n)
             b == SubSeq(stdin, n + 1, Len(stdin))
  <2>1. Consumed(Decoded) = b
    BY <1>3 DEF Consumed
  <2>2. /\ Len(a) = n /\ Len(b) = Len(stdin) - n
        /\ \A k \in 1..n : a[k] = stdin[k]
        /\ \A k \in 1..Len(stdin) - n : b[k] = stdin[n + k]
    BY Parted
  <2>3. Uncut(b)
    BY <1>3, UncutParted
  <2>4. n \in 0..Len(stdin)
    OBVIOUS
  <2>5. PICK m \in p..w : Carries(a, keys, p, m) /\ Carries(b, keys, m, w)
    BY <2>4, CarriesParted
  <2> HIDE DEF a, b
  <2>6. NoReturns(b)
    BY <1>1, <2>2 DEF NoReturns
  <2>7. m \in Nat /\ p <= m
    OBVIOUS
  <2>8. CASE stdin[n] \in KeyEnds
    <3>1. Ends(a) = {n} /\ a[n] = stdin[n] /\ n \in Nat
      BY <1>3, <2>2, <2>8 DEF Ends
    <3>2. m = p + 1 /\ keys[p + 1] = KeyOf[a[n]]
      <4>1. m = p + 1
        BY <2>5, <2>7, <3>1, CarriesOne
      <4>2. Carries(a, keys, p, p + 1)
        BY <2>5, <4>1
      <4>3. keys[p + 1] = KeyOf[a[n]]
        BY <3>1, <4>2, CarriesOneKey
      <4> QED
        BY <4>1, <4>3
    <3>3. m = p + 1 /\ keys[p + 1] = KeyOf[stdin[n]] /\ p + 1 <= w
      BY <3>1, <3>2
    <3> QED
      BY <1>3, <2>1, <2>3, <2>5, <2>6, <2>8, <3>3
  <2>9. CASE stdin[n] \notin KeyEnds
    <3>1. Ends(a) = {}
      BY <1>3, <2>2, <2>9 DEF Ends
    <3>2. m = p
      BY <2>5, <2>7, <3>1, CarriesNone
    <3> QED
      BY <1>3, <2>1, <2>3, <2>5, <2>6, <2>9, <3>2
  <2> QED
    BY <2>8, <2>9
<1>4. CASE stdin[1] = "ESC"
  <2>1. 3 <= Len(stdin) /\ stdin[2] = "[" /\ stdin[3] \in {"A", "B"}
    <3>1. 1 \in 1..Len(stdin) /\ 1 + 1 = 2 /\ 1 + 2 = 3
      BY <1>1
    <3> QED
      BY <1>4, <3>1 DEF Uncut
  <2>2. /\ IsPrefix(Arrows["up"], stdin) <=> stdin[3] = "A"
        /\ IsPrefix(Arrows["down"], stdin) <=> stdin[3] = "B"
    BY <1>1, <1>2, <1>4, <2>1, PrefixOfThree
  <2>3. \E arrow \in DOMAIN Arrows : IsPrefix(Arrows[arrow], stdin)
    BY <1>2, <2>1, <2>2
  <2>4. Decoded = [key |-> CHOOSE arrow \in DOMAIN Arrows : IsPrefix(Arrows[arrow], stdin),
                   size |-> 3]
    BY <2>3 DEF Decoded
  <2>5. Decoded.size = 3 /\ Decoded.key \in DOMAIN Arrows
        /\ IsPrefix(Arrows[Decoded.key], stdin)
    <3> DEFINE arrow == CHOOSE arrow \in DOMAIN Arrows : IsPrefix(Arrows[arrow], stdin)
    <3>1. arrow \in DOMAIN Arrows /\ IsPrefix(Arrows[arrow], stdin)
      BY <2>3, Zenon
    <3> HIDE DEF arrow
    <3>2. Decoded = [key |-> arrow, size |-> 3]
      BY <2>4 DEF arrow
    <3>3. Decoded.key = arrow /\ Decoded.size = 3
      BY <3>2
    <3> QED
      BY <3>1, <3>3
  <2>6. Decoded.key = KeyOf[stdin[3]]
    <3>1. Decoded.key = "up" \/ Decoded.key = "down"
      BY <1>2, <2>5
    <3> QED
      BY <2>1, <2>2, <2>5, <3>1 DEF KeyOf
  <2>7. /\ 3 \in 1..Len(stdin) /\ stdin[3] \notin {"ESC", "[", "CR"} /\ stdin[3] \in KeyEnds
        /\ \A k \in 1..3 - 1 : stdin[k] \notin KeyEnds
    <3>1. \A k \in 1..3 - 1 : k = 1 \/ k = 2
      OBVIOUS
    <3> QED
      BY <1>1, <1>4, <2>1, <3>1 DEF KeyEnds
  <2> QED
    BY <1>3, <2>5, <2>6, <2>7
<1>5. CASE stdin[1] # "ESC"
  <2>1. ~ \E arrow \in DOMAIN Arrows : IsPrefix(Arrows[arrow], stdin)
    <3>1. /\ IsPrefix(Arrows["up"], stdin) => stdin[1] = "ESC"
          /\ IsPrefix(Arrows["down"], stdin) => stdin[1] = "ESC"
      BY <1>2, PrefixOfThree
    <3> QED
      BY <1>2, <1>5, <3>1
  <2>2. Decoded = [key |-> IF stdin[1] \in {"CR", "LF"} THEN "enter" ELSE "other",
                   size |-> 1]
    BY <2>1 DEF Decoded
  <2>3. /\ Decoded.size = 1
        /\ stdin[1] \in KeyEnds => Decoded.key = KeyOf[stdin[1]]
        /\ stdin[1] \notin KeyEnds => Decoded.key = "other"
    BY <1>1, <1>5, <2>2 DEF KeyEnds, KeyOf, Bytes
  <2>4. /\ 1 \in 1..Len(stdin) /\ stdin[1] \notin {"ESC", "[", "CR"}
        /\ \A k \in 1..1 - 1 : stdin[k] \notin KeyEnds
    BY <1>1, <1>5
  <2> QED
    BY <1>3, <2>3, <2>4
<1> QED
  BY <1>4, <1>5

\* The choices among the first keys.
LEMMA EntersCounted ==
  ASSUME NEW keys, NEW p \in Nat
  PROVE  /\ IsFiniteSet(Enters(keys, p)) /\ Cardinality(Enters(keys, p)) \in Nat
         /\ Cardinality(Enters(keys, p + 1)) =
              Cardinality(Enters(keys, p)) + (IF keys[p + 1] = "enter" THEN 1 ELSE 0)
<1>1. IsFiniteSet(1..p) /\ Enters(keys, p) \in SUBSET (1..p)
  BY FS_Interval DEF Enters
<1>2. IsFiniteSet(Enters(keys, p)) /\ Cardinality(Enters(keys, p)) \in Nat
  BY <1>1, FS_Subset, FS_CardinalityType
<1>3. p + 1 \notin Enters(keys, p)
  BY DEF Enters
<1>4. Enters(keys, p + 1) =
        IF keys[p + 1] = "enter" THEN Enters(keys, p) \cup {p + 1} ELSE Enters(keys, p)
  <2>1. \A k : k \in 1..p + 1 <=> k \in 1..p \/ k = p + 1
    OBVIOUS
  <2> QED
    BY <2>1 DEF Enters
<1>5. Cardinality(Enters(keys, p) \cup {p + 1}) = Cardinality(Enters(keys, p)) + 1
  BY <1>2, <1>3, FS_AddElement
<1> QED
  BY <1>2, <1>4, <1>5

\* Among more keys are at least as many choices.
LEMMA EntersGrow ==
  ASSUME NEW keys, NEW p \in Nat, NEW w \in Nat, p <= w
  PROVE  Cardinality(Enters(keys, p)) <= Cardinality(Enters(keys, w))
<1>1. Enters(keys, p) \in SUBSET Enters(keys, w)
  BY DEF Enters
<1> QED
  BY <1>1, EntersCounted, FS_Subset

\* Later keys do not change the choices before them.
LEMMA EntersSame ==
  ASSUME NEW S, NEW keys \in Seq(S), NEW others \in Seq(S), NEW p \in 0..Len(keys)
  PROVE  Enters(keys \o others, p) = Enters(keys, p)
<1>1. \A k \in 1..p : k \in 1..Len(keys)
  OBVIOUS
<1>2. \A k \in 1..p : (keys \o others)[k] = keys[k]
  BY <1>1, Joined
<1> QED
  BY <1>2 DEF Enters

\* The first menu is called once, with the message still blank, and a call that
\* is being worked on is on the stack.
StackInv ==
  /\ place \in {"start", "splash"} =>
       stack = <<>> /\ i = 0 /\ menu_message = "blank"
  /\ place \in Places \ {"start", "splash", "finish", "exited"} => stack # <<>>

MenuInv == RendererTypeOK /\ StackInv

\* A call either fits the stack, and the new menu is drawn, or ends the program
\* with all as it was.
LEMMA CallCorrect ==
  ASSUME RendererTypeOK, NEW menu \in Menu, NEW first_opt \in 0..2,
         Call(menu, first_opt)
  PROVE  \/ /\ place' = "draw"
            /\ stack' \in Seq(Menu) /\ stack' # <<>> /\ Len(stack') <= MaxDepth
            /\ Len(stack') = Len(stack) + 1 /\ stack'[Len(stack')] = menu
            /\ i' = first_opt /\ ch' = "other"
         \/ /\ place' = "overflow"
            /\ stack' = stack /\ i' = i /\ ch' = ch
            /\ stack # <<>> /\ Len(stack) = MaxDepth
<1>1. /\ MaxDepth \in Nat \ {0} /\ stack \in Seq(Menu) /\ Len(stack) \in Nat
      /\ Len(stack) <= MaxDepth
  BY RendererAssumption DEF RendererTypeOK
<1>2. CASE Len(stack) = MaxDepth
  BY <1>1, <1>2 DEF Call
<1>3. CASE Len(stack) # MaxDepth
  <2>1. /\ place' = "draw" /\ stack' = Append(stack, menu)
        /\ i' = first_opt /\ ch' = "other"
    BY <1>3 DEF Call
  <2>2. /\ stack' \in Seq(Menu) /\ Len(stack') = Len(stack) + 1
        /\ stack'[Len(stack) + 1] = menu
    BY <1>1, <2>1
  <2> QED
    BY <1>1, <1>3, <2>1, <2>2
<1> QED
  BY <1>2, <1>3

LEMMA InitCorrect == RendererInit => MenuInv /\ View = M!Start
BY RendererAssumption
  DEF RendererInit, MenuInv, RendererTypeOK, StackInv, Places, M!Keys, M!Messages,
      View, Shown!Init

\* What wgetch() answers and leaves.
LEMMA DecodedType ==
  ASSUME stdin \in Seq(Bytes), stdin # <<>>
  PROVE  /\ Decoded.key \in M!Keys
         /\ Consumed(Decoded) \in Seq(Bytes)
<1> DEFINE Whole == \E arrow \in DOMAIN Arrows : IsPrefix(Arrows[arrow], stdin)
<1>1. DOMAIN Arrows = {"up", "down"}
  BY DEF Arrows
<1>2. Decoded.key \in M!Keys /\ Decoded.size \in Nat
  <2>1. CASE Whole
    <3>1. Decoded = [key |-> CHOOSE arrow \in DOMAIN Arrows : IsPrefix(Arrows[arrow], stdin),
                     size |-> 3]
      BY <2>1 DEF Decoded
    <3>2. (CHOOSE arrow \in DOMAIN Arrows : IsPrefix(Arrows[arrow], stdin)) \in DOMAIN Arrows
      BY <2>1, Zenon
    <3> QED
      BY <1>1, <3>1, <3>2 DEF M!Keys
  <2>2. CASE ~Whole
    <3>1. Decoded = [key |-> IF stdin[1] \in {"CR", "LF"} THEN "enter" ELSE "other",
                     size |-> 1]
      BY <2>2 DEF Decoded
    <3> QED
      BY <3>1 DEF M!Keys
  <2> QED
    BY <2>1, <2>2
<1> QED
  BY <1>2 DEF Consumed

\* What a write puts into the pipe.
LEMMA FittingBound ==
  ASSUME RendererTypeOK, NEW n \in Nat
  PROVE  Fitting(n) \in 0..n
<1>1. Len(stdin) \in Nat /\ PipeCap \in Nat /\ AtomicWrite \in Nat
  BY RendererAssumption DEF RendererTypeOK
<1> QED
  BY <1>1 DEF Fitting

\* send() makes bytes of bytes.
LEMMA RewrittenType ==
  ASSUME NEW s \in Seq(Bytes)
  PROVE  Rewritten(s) \in Seq(Bytes) /\ Len(Rewritten(s)) = Len(s)
<1>1. Len(s) \in Nat /\ DOMAIN s = 1..Len(s)
  OBVIOUS
<1>2. \A j \in 1..Len(s) :
        (IF j < Len(s) /\ s[j] = "CR" /\ s[j + 1] = "LF" THEN "?" ELSE s[j]) \in Bytes
  BY DEF Bytes
<1> QED
  BY <1>1, <1>2 DEF Rewritten

\* What a read of the server and the write after it move, as long as neither ends
\* within a key: the first keys on the wire, and as many of them as end in the
\* bytes that fit.
LEMMA RelayMoves ==
  ASSUME wire \in Seq(Bytes), sent \in Seq(M!Keys), UnderWay,
         NEW n \in 1..Len(wire), wire[n] \notin Unfinished,
         NEW k \in 0..n, k # 0 => wire[k] \notin Unfinished
  PROVE  LET m     == SubSeq(wire, 1, n)
             given == SubSeq(Rewritten(m), 1, k)
             rest  == SubSeq(wire, n + 1, Len(wire))
             on    == SubSeq(sent, 1, KeysIn(given))
             left  == SubSeq(sent, KeysIn(m) + 1, Len(sent))
         IN  /\ Uncut(given) /\ NoReturns(given)
             /\ on \in Seq(M!Keys) /\ Carries(given, on, 0, Len(on))
             /\ left \in Seq(M!Keys) /\ Carries(rest, left, 0, Len(left)) /\ Uncut(rest)
<1> DEFINE m     == SubSeq(wire, 1, n)
           t     == Rewritten(m)
           given == SubSeq(t, 1, k)
           rest  == SubSeq(wire, n + 1, Len(wire))
<1>1. /\ Len(wire) \in Nat /\ n \in 0..Len(wire) /\ n \in Nat /\ Len(sent) \in Nat
      /\ m \in Seq(Bytes) /\ Len(m) = n /\ \A j \in 1..n : m[j] = wire[j]
  OBVIOUS
<1>2. Uncut(m) /\ Uncut(rest)
  BY UncutParted DEF UnderWay, Unfinished
<1>3. PICK u \in 0..Len(sent) : Carries(m, sent, 0, u) /\ Carries(rest, sent, u, Len(sent))
  <2>1. 0 \in Nat /\ 0 <= Len(sent)
    BY <1>1
  <2> QED
    BY <1>1, <2>1, CarriesParted DEF UnderWay
<1> HIDE DEF m
<1>4. /\ t \in Seq(Bytes) /\ Len(t) = n /\ \A j \in 1..n : t[j] \in {m[j], "?"}
      /\ Uncut(t) /\ NoReturns(t) /\ Carries(t, sent, 0, u)
  BY <1>1, <1>2, <1>3, RewrittenUncut
<1> HIDE DEF t
<1>5. k \in 0..Len(t) /\ u \in Nat /\ 0 \in Nat /\ 0 <= u /\ u <= Len(sent)
  BY <1>1, <1>4
<1>6. PICK v \in 0..u : Carries(given, sent, 0, v)
  BY <1>4, <1>5, CarriesParted
<1>7. Len(given) = k /\ \A j \in 1..k : given[j] = t[j]
  BY <1>4, <1>5, Parted
<1>8. Uncut(given)
  <2>1. CASE k = 0
    <3>1. Len(given) = 0
      BY <1>7, <2>1
    <3> HIDE DEF given
    <3> QED
      BY <3>1 DEF Uncut
  <2>2. CASE k # 0
    <3>1. k \in 1..Len(t)
      BY <1>5, <2>2
    <3>2. t[k] \in {wire[k], "?"}
      BY <1>1, <1>4, <3>1
    <3>3. t[k] \notin {"ESC", "[", "CR"}
      BY <2>2, <3>2 DEF Unfinished
    <3> QED
      BY <1>4, <3>1, <3>3, UncutParted
  <2> QED
    BY <2>1, <2>2
<1>9. NoReturns(given)
  <2> HIDE DEF given
  <2>1. \A j \in 1..k : j \in 1..n
    OBVIOUS
  <2> QED
    BY <1>4, <1>7, <2>1 DEF NoReturns
<1> HIDE DEF given, rest
<1>10. KeysIn(m) = u /\ KeysIn(given) = v /\ v \in Nat
  <2>1. KeysIn(m) = u - 0
    BY <1>3, <1>5, CarriesCount
  <2>2. v \in Nat /\ 0 <= v
    OBVIOUS
  <2>3. KeysIn(given) = v - 0
    BY <1>5, <1>6, <2>2, CarriesCount
  <2> QED
    BY <1>5, <2>1, <2>2, <2>3
<1> DEFINE on   == SubSeq(sent, 1, v)
           left == SubSeq(sent, u + 1, Len(sent))
<1>11. /\ v \in 0..Len(sent) /\ u \in 0..Len(sent)
  BY <1>5
<1>12. /\ on \in Seq(M!Keys) /\ Len(on) = v /\ \A j \in 1..v : on[j] = sent[j]
       /\ left \in Seq(M!Keys) /\ Len(left) = Len(sent) - u
       /\ \A j \in 1..Len(sent) - u : left[j] = sent[u + j]
  BY <1>11, Parted
<1> HIDE DEF on, left
<1>13. Carries(given, on, 0, Len(on))
  <2>1. /\ 0 \in Nat /\ v \in Nat /\ 0 <= v
        /\ \A j \in 1..v - 0 : on[0 + j] = sent[0 + j]
    BY <1>10, <1>12
  <2>2. Carries(given, on, 0, 0 + (v - 0))
    BY <1>6, <2>1, CarriesShifted
  <2>3. 0 + (v - 0) = Len(on)
    BY <1>10, <1>12
  <2> QED
    BY <2>2, <2>3
<1>14. Carries(rest, left, 0, Len(left))
  <2>1. /\ 0 \in Nat /\ Len(sent) \in Nat
        /\ \A j \in 1..Len(sent) - u : left[0 + j] = sent[u + j]
    <3>1. \A j \in 1..Len(sent) - u : 0 + j = j
      BY <1>1
    <3> QED
      BY <1>1, <1>12, <3>1
  <2>2. Carries(rest, left, 0, 0 + (Len(sent) - u))
    BY <1>3, <1>5, <2>1, CarriesShifted
  <2>3. 0 + (Len(sent) - u) = Len(left)
    BY <1>1, <1>5, <1>12
  <2> QED
    BY <2>2, <2>3
<1> QED
  BY <1>2, <1>8, <1>9, <1>10, <1>12, <1>13, <1>14 DEF m, t, given, rest, on, left

\* Whatever the server reads, it leaves bytes behind.
LEMMA RelayTypes ==
  ASSUME RendererTypeOK, InputInv, Relay
  PROVE  /\ stdin' \in Seq(Bytes) /\ wire' \in Seq(Bytes) /\ whole' \in BOOLEAN
         /\ sent' \in Seq(M!Keys) /\ passed' \in Seq(M!Keys)
<1>1. PICK n \in 1..Len(wire) :
        LET m     == SubSeq(wire, 1, n)
            k     == IF IsCommand(m) THEN 0 ELSE Fitting(n)
            given == SubSeq(Rewritten(m), 1, k)
        IN  /\ stdin' = stdin \o given
            /\ wire' = SubSeq(wire, n + 1, Len(wire))
            /\ whole' = (whole /\ \A cut \in {n, k} \ {0} : wire[cut] \notin Unfinished)
            /\ sent' = IF whole' THEN SubSeq(sent, KeysIn(m) + 1, Len(sent)) ELSE <<>>
            /\ passed' = IF whole' THEN passed \o SubSeq(sent, 1, KeysIn(given)) ELSE <<>>
  BY DEF Relay
<1> DEFINE m     == SubSeq(wire, 1, n)
           k     == IF IsCommand(m) THEN 0 ELSE Fitting(n)
           given == SubSeq(Rewritten(m), 1, k)
<1>2. /\ stdin \in Seq(Bytes) /\ wire \in Seq(Bytes) /\ whole \in BOOLEAN
      /\ sent \in Seq(M!Keys) /\ passed \in Seq(M!Keys) /\ n \in Nat
  BY DEF RendererTypeOK
<1>3. m \in Seq(Bytes) /\ Len(m) = n
  BY <1>2
<1>4. k \in 0..n
  BY <1>2, FittingBound
<1>5. given \in Seq(Bytes)
  <2>1. Rewritten(m) \in Seq(Bytes) /\ Len(Rewritten(m)) = n
    BY <1>3, RewrittenType
  <2> HIDE DEF m, k
  <2> QED
    BY <1>4, <2>1, Parted
<1> HIDE DEF m, k, given
<1>6. stdin' \in Seq(Bytes)
  BY <1>1, <1>2, <1>5 DEF m, k, given
<1>7. wire' \in Seq(Bytes)
  BY <1>1, <1>2
<1>8. whole' \in BOOLEAN
  BY <1>1, Zenon
<1>9. CASE whole'
  <2>1. whole /\ wire[n] \notin Unfinished /\ (k # 0 => wire[k] \notin Unfinished)
    <3>1. whole /\ \A cut \in {n, k} \ {0} : wire[cut] \notin Unfinished
      BY <1>1, <1>9, Zenon DEF m, k
    <3>2. n # 0
      OBVIOUS
    <3> QED
      BY <3>1, <3>2
  <2>2. UnderWay
    BY <2>1 DEF InputInv
  <2>3. /\ SubSeq(sent, 1, KeysIn(given)) \in Seq(M!Keys)
        /\ SubSeq(sent, KeysIn(m) + 1, Len(sent)) \in Seq(M!Keys)
    BY <1>2, <1>4, <2>1, <2>2, RelayMoves DEF m, given
  <2>4. /\ sent' = SubSeq(sent, KeysIn(m) + 1, Len(sent))
        /\ passed' = passed \o SubSeq(sent, 1, KeysIn(given))
    BY <1>1, <1>9 DEF m, k, given
  <2> QED
    BY <1>2, <1>6, <1>7, <1>8, <2>3, <2>4
<1>10. CASE ~ whole'
  <2>1. sent' = <<>> /\ passed' = <<>>
    BY <1>1, <1>10, Zenon
  <2> QED
    BY <1>6, <1>7, <1>8, <2>1
<1> QED
  BY <1>9, <1>10

-----------------------------------------------------------------------------
(* Steps of the program.                                                   *)

\* Choosing an option is pressing Enter in the abstract menu, unless the stack
\* is full.
LEMMA ChooseCorrect ==
  ASSUME MenuInv, Choose
  PROVE  MenuInv' /\ (Shown!Press("enter") \/ (View' = View /\ place' = "overflow"))
<1> USE DEF MenuInv
<1>1. /\ place = "chosen" /\ stack \in Seq(Menu) /\ stack # <<>> /\ i \in 0..2
      /\ Len(stack) <= MaxDepth /\ ch \in M!Keys \cup {"ERR"}
      /\ menu_message \in M!Messages /\ Top \in Menu
  BY DEF Choose, RendererTypeOK, StackInv, Places, Top
<1>2. UNCHANGED <<known, stdin, input>>
  BY DEF Choose
<1>3. View = M!At(Top, i, menu_message)
  BY <1>1 DEF View
<1>4. View # M!Over /\ View.menu = Top /\ View.option = i /\ View.message = menu_message
  BY <1>1, <1>3 DEF M!Over, M!At, Menu
<1>5. Shown!After(View, "enter") =
        IF Top = "menu1"
          THEN IF i = 2 THEN M!Over
               ELSE IF i = 1 THEN M!At("menu2", 0, menu_message)
               ELSE M!At("menu1", 0, "A")
          ELSE IF i = 2 THEN M!At("menu1", 0, menu_message)
               ELSE M!At("menu2", i, IF i = 0 THEN "B1" ELSE "B2")
  BY <1>4 DEF Shown!After, Shown!Over, Shown!At, M!Over, M!At, Shown!Chosen
\* A call by the menu on top with a message that is one.
<1>6. ASSUME NEW menu \in Menu, NEW option \in 0..2, Call(menu, option),
             menu_message' \in M!Messages
      PROVE  /\ MenuInv'
             /\ \/ View' = M!At(menu, option, menu_message')
                \/ View' = M!At(Top, i, menu_message') /\ place' = "overflow"
  <2>1. CASE place' = "draw"
    <3>1. /\ stack' \in Seq(Menu) /\ stack' # <<>> /\ Len(stack') <= MaxDepth
          /\ stack'[Len(stack')] = menu
          /\ i' = option /\ ch' = "other"
      BY <1>6, <2>1, CallCorrect
    <3>2. MenuInv'
      BY <1>2, <1>6, <2>1, <3>1 DEF RendererTypeOK, StackInv, Places, input, M!Keys
    <3>3. View' = M!At(menu, option, menu_message')
      BY <2>1, <3>1 DEF View, Top
    <3> QED
      BY <3>2, <3>3
  <2>2. CASE place' = "overflow"
    <3>1. stack' = stack /\ i' = i /\ ch' = ch
      BY <1>6, <2>2, CallCorrect
    <3>2. MenuInv'
      BY <1>1, <1>2, <1>6, <2>2, <3>1 DEF RendererTypeOK, StackInv, Places, input
    <3>3. View' = M!At(Top, i, menu_message')
      BY <2>2, <3>1 DEF View, Top
    <3> QED
      BY <2>2, <3>2, <3>3
  <2> QED
    BY <1>6, <2>1, <2>2, CallCorrect
<1>7. CASE Leave
  <2>1. Top = "menu1" /\ i = 2 /\ place' = "goodbye" /\ UNCHANGED <<stack, i, ch, menu_message>>
    BY <1>7 DEF Leave
  <2>2. MenuInv'
    BY <1>1, <1>2, <2>1 DEF RendererTypeOK, StackInv, Places, input
  <2>3. View' = M!Over
    BY <2>1 DEF View
  <2> QED
    BY <1>5, <2>1, <2>2, <2>3 DEF Shown!Press
<1>8. CASE ChooseA
  <2>1. Top = "menu1" /\ i = 0 /\ menu_message' = "A" /\ Call("menu1", 0)
    BY <1>8 DEF ChooseA
  <2>2. MenuInv' /\ View' = M!At("menu1", 0, "A")
    BY <1>6, <2>1 DEF Menu, M!Messages
  <2> QED
    BY <1>5, <2>1, <2>2 DEF Shown!Press
<1>9. CASE ChooseB
  <2>1. Top = "menu1" /\ i = 1 /\ menu_message' = menu_message /\ Call("menu2", 0)
    BY <1>9 DEF ChooseB
  <2>2. MenuInv' /\ (View' = M!At("menu2", 0, menu_message) \/ (View' = View /\ place' = "overflow"))
    BY <1>1, <1>3, <1>6, <2>1 DEF Menu
  <2> QED
    BY <1>5, <2>1, <2>2 DEF Shown!Press
<1>10. CASE GoBack
  <2>1. Top = "menu2" /\ i = 2 /\ menu_message' = menu_message /\ Call("menu1", 0)
    BY <1>10 DEF GoBack
  <2>2. MenuInv' /\ (View' = M!At("menu1", 0, menu_message) \/ (View' = View /\ place' = "overflow"))
    BY <1>1, <1>3, <1>6, <2>1 DEF Menu
  <2> QED
    BY <1>5, <2>1, <2>2 DEF Shown!Press
<1>11. CASE ChooseB1orB2
  <2>1. /\ Top = "menu2" /\ i # 2 /\ Call("menu2", i)
        /\ menu_message' = IF i = 0 THEN "B1" ELSE "B2"
    BY <1>11 DEF ChooseB1orB2
  <2>2. MenuInv' /\ View' = M!At("menu2", i, menu_message')
    BY <1>1, <1>6, <2>1 DEF Menu, M!Messages
  <2> QED
    BY <1>1, <1>5, <2>1, <2>2 DEF Shown!Press
<1> QED
  BY <1>7, <1>8, <1>9, <1>10, <1>11 DEF Choose

\* Drawing follows the key that was read last.
LEMMA DrawCorrect ==
  ASSUME MenuInv, Draw
  PROVE  MenuInv' /\ [Shown!Next]_View
<1> USE DEF MenuInv
<1>1. /\ place = "draw" /\ place' = "key" /\ i' = Moved
      /\ UNCHANGED <<known, stack, ch, menu_message, stdin, input>>
  BY DEF Draw
<1>2. i \in 0..2 /\ stack \in Seq(Menu) /\ stack # <<>> /\ Top \in Menu
  BY <1>1 DEF RendererTypeOK, StackInv, Places, Top
<1>3. Moved \in 0..2
  BY <1>2 DEF Moved
<1>4. MenuInv'
  BY <1>1, <1>3 DEF RendererTypeOK, StackInv, Places, input
<1>5. View = M!At(Top, i, menu_message) /\ View' = M!At(Top, Moved, menu_message)
  BY <1>1 DEF View, Top
<1>6. View # M!Over /\ View.menu = Top /\ View.option = i /\ View.message = menu_message
  BY <1>2, <1>5 DEF M!Over, M!At, Menu
<1>7. CASE ch = "up"
  <2>1. Moved = (i + 2) % 3
    BY <1>2, <1>7 DEF Moved
  <2>2. Shown!Press("up")
    BY <1>5, <1>6, <2>1
    DEF Shown!Press, Shown!After, Shown!Over, Shown!At, M!Over, M!At
  <2> QED
    BY <1>4, <2>2 DEF Shown!Next, Shown!Keys
<1>8. CASE ch = "down"
  <2>1. Moved = (i + 1) % 3
    BY <1>2, <1>8 DEF Moved
  <2>2. Shown!Press("down")
    BY <1>5, <1>6, <2>1
    DEF Shown!Press, Shown!After, Shown!Over, Shown!At, M!Over, M!At
  <2> QED
    BY <1>4, <2>2 DEF Shown!Next, Shown!Keys
<1>9. CASE ch \notin {"up", "down"}
  <2>1. Moved = i
    BY <1>9 DEF Moved
  <2> QED
    BY <1>4, <1>5, <2>1
<1> QED
  BY <1>7, <1>8, <1>9

\* Every other step of the program leaves the view as it is.
LEMMA ProgramCorrect ==
  ASSUME MenuInv, Program
  PROVE  MenuInv' /\ [Shown!Next]_View
<1> USE DEF MenuInv
<1>1. CASE SetUp
  BY <1>1 DEF SetUp, RendererTypeOK, StackInv, Places, input, View
<1>2. CASE Splash
  <2>1. /\ place = "splash" /\ stack = <<>> /\ menu_message = "blank" /\ Call("menu1", 0)
        /\ UNCHANGED <<known, menu_message, stdin, input>>
    BY <1>2 DEF Splash, StackInv
  <2>2. /\ place' = "draw" /\ i' = 0 /\ ch' = "other"
        /\ stack' \in Seq(Menu) /\ stack' # <<>> /\ Len(stack') <= MaxDepth
        /\ stack'[Len(stack')] = "menu1"
    BY <2>1, CallCorrect DEF Menu
  <2>3. MenuInv'
    BY <2>1, <2>2 DEF RendererTypeOK, StackInv, Places, input, M!Keys
  <2>4. View' = View
    BY <2>1, <2>2 DEF View, Top, M!Start
  <2> QED
    BY <2>3, <2>4
<1>3. CASE ReadKey
  <2>1. /\ place = "key" /\ stdin # <<>> /\ ch' = Decoded.key
        /\ stdin' = Consumed(Decoded) /\ place' \in {"chosen", "draw"}
        /\ UNCHANGED <<known, stack, i, menu_message, input>>
    BY <1>3 DEF ReadKey
  <2>2. stdin \in Seq(Bytes)
    BY DEF RendererTypeOK
  <2>3. ch' \in M!Keys /\ stdin' \in Seq(Bytes)
    BY <2>1, <2>2, DecodedType
  <2>4. MenuInv'
    BY <2>1, <2>3 DEF RendererTypeOK, StackInv, Places, input
  <2>5. View' = View
    BY <2>1 DEF View, Top
  <2> QED
    BY <2>4, <2>5
<1>4. CASE ReadFails
  BY <1>4 DEF ReadFails, RendererTypeOK, StackInv, Places, input, View, Top
<1>5. CASE Choose
  <2>1. MenuInv' /\ (Shown!Press("enter") \/ View' = View)
    BY <1>5, ChooseCorrect
  <2>2. Shown!Press("enter") => Shown!Next
    BY DEF Shown!Next, Shown!Keys
  <2> QED
    BY <2>1, <2>2
<1>6. CASE Goodbye
  BY <1>6 DEF Goodbye, RendererTypeOK, StackInv, Places, input, View
<1>7. CASE Return
  <2>1. /\ place = "return" /\ stack \in Seq(Menu) /\ stack # <<>> /\ Len(stack) <= MaxDepth
        /\ stack' = SubSeq(stack, 1, Len(stack) - 1)
        /\ place' = IF stack' = <<>> THEN "finish" ELSE "return"
        /\ UNCHANGED <<known, i, ch, menu_message, stdin, input>>
    BY <1>7 DEF Return, Resumes, RendererTypeOK, StackInv, Places
  <2>2. stack' \in Seq(Menu) /\ Len(stack') <= MaxDepth
    BY <2>1, RendererAssumption
  <2>3. MenuInv'
    BY <2>1, <2>2 DEF RendererTypeOK, StackInv, Places, input
  <2>4. View' = View
    BY <2>1 DEF View
  <2> QED
    BY <2>3, <2>4
<1>8. CASE Finish
  BY <1>8 DEF Finish, RendererTypeOK, StackInv, Places, input, View
<1>9. CASE Draw
  BY <1>9, DrawCorrect
<1> QED
  BY <1>1, <1>2, <1>3, <1>4, <1>5, <1>6, <1>7, <1>8, <1>9 DEF Program

\* A question mark, if it fits, is a byte that is no key.
Marked == SubSeq(<<"?">>, 1, Fitting(1))

LEMMA MarkedNone ==
  ASSUME RendererTypeOK
  PROVE  Marked \in Seq(Bytes) /\ Ends(Marked) = {} /\ Uncut(Marked) /\ NoReturns(Marked)
<1>1. Fitting(1) \in 0..1
  BY FittingBound
<1>2. Marked = <<>> \/ Marked = <<"?">>
  <2>1. CASE Fitting(1) = 0
    BY <2>1 DEF Marked
  <2>2. CASE Fitting(1) = 1
    <3> DEFINE mark == <<"?">>
               one  == SubSeq(mark, 1, 1)
    <3>1. mark \in Seq(Bytes) /\ Len(mark) = 1
      BY DEF Bytes
    <3>2. one \in Seq(Bytes) /\ Len(one) = 1 /\ one[1] = mark[1]
      <4>1. 1 \in 0..Len(mark) /\ 1 \in 1..1
        BY <3>1
      <4> HIDE DEF mark
      <4> QED
        BY <3>1, <4>1, Parted
    <3>3. one = mark
      <4>1. \A j \in 1..1 : j = 1
        OBVIOUS
      <4> HIDE DEF mark, one
      <4> QED
        BY <3>1, <3>2, <4>1, SeqEqual
    <3> QED
      BY <2>2, <3>3 DEF Marked
  <2> QED
    BY <1>1, <2>1, <2>2
<1>3. CASE Marked = <<>>
  BY <1>3 DEF Ends, Uncut, NoReturns
<1>4. CASE Marked = <<"?">>
  BY <1>4 DEF Bytes, Ends, KeyEnds, Uncut, NoReturns
<1> QED
  BY <1>2, <1>3, <1>4

\* What the user, the server and the silence do is not seen until it is read.
LEMMA InputCorrect ==
  ASSUME MenuInv, InputInv, (\E key \in UserKeys : Type(key)) \/ Answer \/ Relay \/ Nudge
  PROVE  MenuInv' /\ View' = View
<1> USE DEF MenuInv
<1>1. UNCHANGED <<known, program>>
  BY DEF Type, Answer, Relay, Nudge
<1>2. View' = View
  BY <1>1 DEF program, View, Top
<1>3. ASSUME NEW key \in UserKeys, Type(key)
      PROVE  RendererTypeOK'
  <2>1. key \in M!Keys
    BY RendererAssumption
  <2>2. Encoded(key) \in Seq(Bytes)
    <3>1. /\ DOMAIN Arrows = {"up", "down"}
          /\ Arrows["up"] = <<"ESC", "[", "A">> /\ Arrows["down"] = <<"ESC", "[", "B">>
      BY DEF Arrows
    <3>2. <<"ESC", "[", "A">> \in Seq(Bytes) /\ <<"ESC", "[", "B">> \in Seq(Bytes)
      BY DEF Bytes
    <3>3. <<"CR", "LF">> \in Seq(Bytes) /\ <<"q">> \in Seq(Bytes)
      BY DEF Bytes
    <3> QED
      BY <2>1, <3>1, <3>2, <3>3 DEF Encoded, M!Keys
  <2>3. inputs' \in 0..MaxInputs
    BY <1>3, RendererAssumption DEF Type, Arrives, RendererTypeOK
  <2>4. sent' \in Seq(M!Keys)
    BY <1>3, <2>1 DEF Type, RendererTypeOK
  <2>5. wire' \in Seq(Bytes)
    BY <1>3, <2>2 DEF Type, RendererTypeOK
  <2> QED
    BY <1>1, <1>3, <2>3, <2>4, <2>5 DEF Type, RendererTypeOK, program
<1>4. ASSUME Relay
      PROVE  RendererTypeOK'
  BY <1>1, <1>4, RelayTypes DEF Relay, RendererTypeOK, program
<1>5. ASSUME Nudge
      PROVE  RendererTypeOK'
  <2>1. Marked \in Seq(Bytes) /\ stdin' = stdin \o Marked
    BY <1>5, MarkedNone DEF Nudge, Marked
  <2>2. stdin' \in Seq(Bytes)
    BY <2>1 DEF RendererTypeOK
  <2>3. inputs' \in 0..MaxInputs
    BY <1>5, RendererAssumption DEF Nudge, Arrives, RendererTypeOK
  <2> QED
    BY <1>1, <1>5, <2>2, <2>3 DEF Nudge, RendererTypeOK, program
<1>6. ASSUME Answer
      PROVE  RendererTypeOK'
  <2>1. <<"IAC", "WONT">> \in Seq(Bytes)
    BY DEF Bytes
  <2>2. wire' \in Seq(Bytes)
    BY <1>6, <2>1 DEF Answer, RendererTypeOK
  <2>3. inputs' \in 0..MaxInputs
    BY <1>6, RendererAssumption DEF Answer, Arrives, RendererTypeOK
  <2> QED
    BY <1>1, <1>6, <2>2, <2>3 DEF Answer, RendererTypeOK, program
<1>7. RendererTypeOK'
  BY <1>3, <1>4, <1>5, <1>6
<1>8. StackInv'
  BY <1>1 DEF StackInv, program
<1> QED
  BY <1>2, <1>7, <1>8

\* The invariant is kept by every step, and every step of the program is one of
\* the menus or none.
LEMMA StepCorrect ==
  ASSUME MenuInv, InputInv, [RendererNext]_rendererVars
  PROVE  MenuInv' /\ [Shown!Next]_View
<1>1. CASE Program
  BY <1>1, ProgramCorrect
<1>2. CASE (\E key \in UserKeys : Type(key)) \/ Answer \/ Relay \/ Nudge
  BY <1>2, InputCorrect
<1>3. CASE UNCHANGED rendererVars
  BY <1>3 DEF rendererVars, program, input, MenuInv, RendererTypeOK, StackInv, View, Top
<1> QED
  BY <1>1, <1>2, <1>3 DEF RendererNext

-----------------------------------------------------------------------------
(* The keys that were read and the view.                                   *)

\* Enter, and only it, leads out of displayMenu().
LEMMA ChoiceCorrect ==
  ASSUME MenuInv, ChoiceInv, [RendererNext]_rendererVars
  PROVE  ChoiceInv'
<1>1. CASE ReadKey
  <2>1. ch' = Decoded.key /\ place' = IF ch' = "enter" THEN "chosen" ELSE "draw"
    BY <1>1 DEF ReadKey
  <2>2. ch' \in M!Keys
    BY <1>1, <2>1, DecodedType DEF ReadKey, MenuInv, RendererTypeOK
  <2> QED
    BY <2>1, <2>2 DEF ChoiceInv, M!Keys
<1>2. ASSUME NEW menu \in Menu, NEW option \in 0..2, Call(menu, option), known' = known
      PROVE  ChoiceInv'
  BY <1>2, CallCorrect DEF ChoiceInv, MenuInv
<1>3. CASE Splash
  BY <1>2, <1>3 DEF Splash, Menu
<1>4. CASE Choose
  <2>1. known' = known /\ i \in 0..2
    BY <1>4 DEF Choose, MenuInv, RendererTypeOK
  <2>2. Leave \/ \E menu \in Menu, option \in 0..2 : Call(menu, option)
    BY <1>4, <2>1 DEF Choose, ChooseA, ChooseB, GoBack, ChooseB1orB2, Menu
  <2>3. CASE Leave
    BY <2>1, <2>3 DEF Leave, ChoiceInv
  <2> QED
    BY <1>2, <2>1, <2>2, <2>3
<1>5. CASE SetUp \/ Draw \/ ReadFails \/ Goodbye \/ Return \/ Finish
  BY <1>5 DEF SetUp, Draw, ReadFails, Goodbye, Return, Resumes, Finish, ChoiceInv
<1>6. CASE \/ (\E key \in UserKeys : Type(key)) \/ Answer \/ Relay \/ Nudge
           \/ UNCHANGED rendererVars
  BY <1>6 DEF Type, Answer, Relay, Nudge, rendererVars, program, ChoiceInv
<1> QED
  BY <1>1, <1>3, <1>4, <1>5, <1>6 DEF RendererNext, Program

\* Drawing follows a key that is not a choice.
LEMMA DrawFollows ==
  ASSUME MenuInv, Draw, ch # "enter"
  PROVE  View' = M!After(View, ch)
<1>1. /\ place = "draw" /\ place' = "key" /\ i' = Moved
      /\ UNCHANGED <<stack, menu_message>>
  BY DEF Draw
<1>2. i \in 0..2 /\ Top \in Menu
  BY <1>1 DEF MenuInv, RendererTypeOK, StackInv, Places, Top
<1>3. View = M!At(Top, i, menu_message) /\ View' = M!At(Top, Moved, menu_message)
  BY <1>1 DEF View, Top
<1>4. View # M!Over /\ View.menu = Top /\ View.option = i /\ View.message = menu_message
  BY <1>2, <1>3 DEF M!Over, M!At, Menu
<1>5. Moved = IF ch = "up" THEN (i + 2) % 3 ELSE IF ch = "down" THEN (i + 1) % 3 ELSE i
  BY <1>2 DEF Moved
<1>6. M!After(View, ch) = M!At(Top, Moved, menu_message)
  BY <1>3, <1>4, <1>5 DEF M!After
<1> QED
  BY <1>3, <1>6

\* A step that reads nothing follows the key that was read last, at most, and
\* makes no more calls than there were choices.
LEMMA NothingRead ==
  ASSUME MenuInv, ChoiceInv, Program, ~ ReadKey
  PROVE  /\ UNCHANGED <<known, stdin, input>>
         /\ known /\ place' # "overflow" =>
              place # "overflow" /\ M!After(View', Latest') = M!After(View, Latest)
         /\ Spent' <= Spent
<1>1. stack \in Seq(Menu) /\ Len(stack) \in Nat /\ MaxDepth \in Nat \ {0}
  BY RendererAssumption DEF MenuInv, RendererTypeOK
<1>2. \A v : M!After(v, "other") = v
  BY DEF M!After
<1>3. CASE Splash
  <2>1. /\ place = "splash" /\ stack = <<>> /\ menu_message = "blank" /\ Call("menu1", 0)
        /\ UNCHANGED <<known, menu_message, stdin, input>>
    BY <1>3 DEF Splash, StackInv, MenuInv
  <2>2. /\ place' = "draw" /\ i' = 0 /\ ch' = "other"
        /\ Len(stack') = 1 /\ stack'[Len(stack')] = "menu1"
    BY <1>1, <2>1, CallCorrect DEF Menu, MenuInv
  <2>3. View' = View
    BY <2>1, <2>2 DEF View, Top, M!Start
  <2> QED
    BY <2>1, <2>2, <2>3 DEF Latest, Spent
<1>4. CASE Draw
  <2>1. /\ place = "draw" /\ place' = "key" /\ ch # "enter"
        /\ UNCHANGED <<known, stack, stdin, input>>
    BY <1>4 DEF Draw, ChoiceInv
  <2>2. View' = M!After(View, ch)
    BY <1>4, <2>1, DrawFollows
  <2>3. Latest = ch /\ Latest' = "other" /\ Spent' = Spent
    BY <2>1 DEF Latest, Spent
  <2>4. Spent \in Int
    BY <1>1, <2>1 DEF Spent
  <2> QED
    BY <1>2, <2>1, <2>2, <2>3, <2>4
<1>5. CASE Choose
  <2>1. place = "chosen" /\ ch = "enter" /\ i \in 0..2 /\ UNCHANGED <<known, stdin, input>>
    BY <1>5 DEF Choose, ChoiceInv, MenuInv, RendererTypeOK
  <2>2. Shown!Press("enter") \/ place' = "overflow"
    BY <1>5, ChooseCorrect
  <2>3. Shown!After(View, "enter") = M!After(View, "enter")
    BY DEF Shown!After, M!After, Shown!Over, M!Over, Shown!At, M!At,
           Shown!Chosen, M!Chosen
  <2>4. \/ place' = "goodbye"
        \/ \E menu \in Menu, option \in 0..2 : Call(menu, option)
    BY <1>5, <2>1 DEF Choose, Leave, ChooseA, ChooseB, GoBack, ChooseB1orB2, Menu
  <2>5. \/ place' = "goodbye"
        \/ place' = "draw" /\ ch' = "other" /\ Len(stack') = Len(stack) + 1
        \/ place' = "overflow" /\ Len(stack) = MaxDepth
    BY <2>4, CallCorrect DEF MenuInv
  <2>6. Latest = "enter" /\ (place' # "overflow" => Latest' = "other")
    BY <2>1, <2>5 DEF Latest
  <2>7. Spent = Len(stack) /\ Spent' <= Spent
    BY <1>1, <2>1, <2>5 DEF Spent
  <2> QED
    BY <1>2, <2>1, <2>2, <2>3, <2>6, <2>7 DEF Shown!Press
<1>6. CASE ReadFails
  BY <1>1, <1>6 DEF ReadFails, Spent
<1>7. CASE SetUp \/ Goodbye \/ Return \/ Finish
  <2>1. /\ place \in Places \ {"draw", "key", "chosen", "overflow"}
        /\ place' \in Places \ {"draw", "key", "chosen", "overflow"}
        /\ UNCHANGED <<known, stdin, input>>
    BY <1>7 DEF SetUp, Goodbye, Return, Resumes, Finish, Places
  <2>2. View' = View
    BY <1>7 DEF SetUp, Goodbye, Return, Resumes, Finish, View
  <2> QED
    BY <2>1, <2>2 DEF Latest, Spent
<1> QED
  BY <1>3, <1>4, <1>5, <1>6, <1>7 DEF Program

\* The program reads the keys in their order.
LEMMA ProgramKeepsInput ==
  ASSUME MenuInv, ChoiceInv, InputInv, Program
  PROVE  InputInv'
<1>1. /\ UNCHANGED <<wire, whole, sent, passed>>
      /\ passed \in Seq(M!Keys) /\ Len(passed) \in Nat
      /\ stdin \in Seq(Bytes) /\ stack \in Seq(Menu) /\ Len(stack) \in Nat
  <2>1. UNCHANGED input
    BY DEF Program, SetUp, Splash, Draw, ReadKey, ReadFails, Choose, Goodbye, Return, Finish
  <2> QED
    BY <2>1 DEF input, MenuInv, RendererTypeOK
<1>2. SUFFICES ASSUME whole PROVE \E p \in 0..Len(passed) : Waits(p)'
  BY <1>1 DEF InputInv, UnderWay
<1>3. PICK p \in 0..Len(passed) : Waits(p)
  BY <1>2 DEF InputInv
<1>4. /\ p \in Nat /\ p <= Len(passed)
      /\ Carries(stdin, passed, p, Len(passed)) /\ Uncut(stdin) /\ NoReturns(stdin)
      /\ known /\ place # "overflow" => Walk(passed)[p] = M!After(View, Latest)
      /\ Spent <= Cardinality(Enters(passed, p))
  BY <1>1, <1>3 DEF Waits, ReadUpTo
<1>5. Cardinality(Enters(passed, p)) \in Nat
  BY <1>4, EntersCounted
<1>6. CASE ~ ReadKey
  <2>1. /\ UNCHANGED <<known, stdin, input>>
        /\ known /\ place' # "overflow" =>
             place # "overflow" /\ M!After(View', Latest') = M!After(View, Latest)
        /\ Spent' <= Spent
    BY <1>6, NothingRead
  <2>2. Spent \in Int /\ Spent' \in Int
    <3>1. Len(stack') \in Nat /\ MaxDepth \in Nat
      BY StepCorrect, RendererAssumption DEF MenuInv, RendererTypeOK, RendererNext
    <3> QED
      BY <1>1, <3>1 DEF Spent
  <2>3. ReadUpTo(p)'
    BY <1>1, <1>4, <1>5, <2>1, <2>2 DEF ReadUpTo
  <2>4. Waits(p)'
    BY <1>1, <1>4, <2>1, <2>3 DEF Waits
  <2> QED
    BY <2>4
<1>7. CASE ReadKey
  <2>1. /\ place = "key" /\ known /\ stdin # <<>>
        /\ ch' = Decoded.key /\ stdin' = Consumed(Decoded)
        /\ place' = IF ch' = "enter" THEN "chosen" ELSE "draw"
        /\ UNCHANGED <<known, stack, i, menu_message>>
    BY <1>7 DEF ReadKey
  <2>2. /\ View' = View /\ Latest = "other" /\ Latest' = ch'
        /\ Spent = Len(stack) - 1
        /\ Spent' = IF ch' = "enter" THEN Len(stack) ELSE Len(stack) - 1
    BY <2>1 DEF View, Top, Latest, Spent
  <2>3. /\ Uncut(stdin') /\ NoReturns(stdin')
        /\ \/ /\ p + 1 <= Len(passed) /\ ch' = passed[p + 1]
              /\ Carries(stdin', passed, p + 1, Len(passed))
           \/ ch' = "other" /\ Carries(stdin', passed, p, Len(passed))
    BY <1>1, <1>4, <2>1, DecodedCarries
  <2>4. Walk(passed)[p] = View
    BY <1>4, <2>1, <2>2 DEF M!After
  <2>5. CASE /\ p + 1 <= Len(passed) /\ ch' = passed[p + 1]
             /\ Carries(stdin', passed, p + 1, Len(passed))
    <3>1. p + 1 \in 0..Len(passed) /\ p + 1 \in 1..Len(passed) /\ (p + 1) - 1 = p
      BY <1>1, <1>3, <1>4, <2>5
    <3>2. Walk(passed)[p + 1] = M!After(View', Latest')
      BY <1>1, <2>2, <2>4, <2>5, <3>1, WalkIs
    <3>3. Cardinality(Enters(passed, p + 1)) =
            Cardinality(Enters(passed, p)) + (IF passed[p + 1] = "enter" THEN 1 ELSE 0)
      BY <1>4, EntersCounted
    <3>4. Spent' <= Cardinality(Enters(passed, p + 1))
      BY <1>1, <1>4, <1>5, <2>2, <2>5, <3>3
    <3>5. ReadUpTo(p + 1)'
      BY <1>1, <3>2, <3>4 DEF ReadUpTo
    <3>6. Waits(p + 1)'
      BY <1>1, <2>3, <2>5, <3>5 DEF Waits
    <3> QED
      BY <3>1, <3>6
  <2>6. CASE ch' = "other" /\ Carries(stdin', passed, p, Len(passed))
    <3>1. Walk(passed)[p] = M!After(View', Latest')
      BY <2>2, <2>4, <2>6 DEF M!After
    <3>2. Spent' <= Cardinality(Enters(passed, p))
      BY <1>4, <2>2, <2>6
    <3>3. ReadUpTo(p)'
      BY <1>1, <3>1, <3>2 DEF ReadUpTo
    <3>4. Waits(p)'
      BY <1>1, <2>3, <2>6, <3>3 DEF Waits
    <3> QED
      BY <3>4
  <2> QED
    BY <2>3, <2>5, <2>6
<1> QED
  BY <1>6, <1>7

\* A step that the program has no part in, and that gives it nothing.
LEMMA StillWaits ==
  ASSUME UNCHANGED <<known, program, stdin, passed>>, NEW p, Waits(p)
  PROVE  Waits(p)'
<1>1. View' = View /\ Latest' = Latest /\ Spent' = Spent /\ place' = place
  BY DEF program, View, Top, Latest, Spent
<1> QED
  BY <1>1 DEF Waits, ReadUpTo

\* Bytes that are put behind the others with the keys they carry.
LEMMA WaitsForMore ==
  ASSUME UNCHANGED <<known, program>>, NEW p \in 0..Len(passed), Waits(p),
         stdin \in Seq(Bytes), passed \in Seq(M!Keys),
         NEW given \in Seq(Bytes), Uncut(given), NoReturns(given),
         NEW on \in Seq(M!Keys), Carries(given, on, 0, Len(on)),
         stdin' = stdin \o given, passed' = passed \o on
  PROVE  p \in 0..Len(passed') /\ Waits(p)'
<1>1. /\ Len(passed) \in Nat /\ Len(on) \in Nat /\ passed' \in Seq(M!Keys)
      /\ Len(passed') = Len(passed) + Len(on)
      /\ \A k \in 1..Len(passed) : passed'[k] = passed[k]
      /\ \A k \in 1..Len(on) : passed'[Len(passed) + k] = on[k]
  BY Joined
<1>2. /\ p \in Nat /\ p <= Len(passed)
      /\ Carries(stdin, passed, p, Len(passed)) /\ Uncut(stdin) /\ NoReturns(stdin)
      /\ ReadUpTo(p)
  BY <1>1 DEF Waits
<1>3. Carries(stdin, passed', p, Len(passed))
  <2>1. \A j \in 1..Len(passed) - p : passed'[p + j] = passed[p + j]
    <3>1. \A j \in 1..Len(passed) - p : p + j \in 1..Len(passed)
      BY <1>1
    <3> QED
      BY <1>1, <3>1
  <2>2. Carries(stdin, passed', p, p + (Len(passed) - p))
    BY <1>1, <1>2, <2>1, CarriesShifted
  <2>3. p + (Len(passed) - p) = Len(passed)
    BY <1>1
  <2> QED
    BY <2>2, <2>3
<1>4. Carries(given, passed', Len(passed), Len(passed'))
  <2>1. 0 \in Nat /\ 0 <= Len(on) /\ \A j \in 1..Len(on) - 0 : passed'[Len(passed) + j] = on[0 + j]
    BY <1>1
  <2>2. Carries(given, passed', Len(passed), Len(passed) + (Len(on) - 0))
    BY <1>1, <2>1, CarriesShifted
  <2>3. Len(passed) + (Len(on) - 0) = Len(passed')
    BY <1>1
  <2> QED
    BY <2>2, <2>3
<1>5. Carries(stdin', passed', p, Len(passed'))
  <2>1. Len(passed') \in Nat /\ Len(passed) <= Len(passed')
    BY <1>1
  <2> QED
    BY <1>1, <1>2, <1>3, <1>4, <2>1, CarriesJoined
<1>6. Uncut(stdin') /\ NoReturns(stdin')
  BY <1>2, UncutJoined, NoReturnsJoined
<1>7. ReadUpTo(p)'
  <2>1. Walk(passed')[p] = Walk(passed)[p] /\ Enters(passed', p) = Enters(passed, p)
    BY WalkGrows, EntersSame
  <2>2. View' = View /\ Latest' = Latest /\ Spent' = Spent /\ place' = place /\ known' = known
    BY DEF program, View, Top, Latest, Spent
  <2> QED
    BY <1>2, <2>1, <2>2 DEF ReadUpTo
<1>8. Waits(p)'
  BY <1>5, <1>6, <1>7 DEF Waits
<1> QED
  BY <1>1, <1>8

\* Keys are typed behind the others, and nothing that is read changes.
LEMMA TypeKeepsInput ==
  ASSUME MenuInv, InputInv, NEW key \in UserKeys, Type(key)
  PROVE  InputInv'
<1>1. /\ UNCHANGED <<known, program, stdin, passed, whole>>
      /\ sent' = IF whole THEN Append(sent, key) ELSE <<>>
      /\ wire' = wire \o Encoded(key)
      /\ key \in M!Keys /\ sent \in Seq(M!Keys) /\ wire \in Seq(Bytes)
  BY RendererAssumption DEF Type, MenuInv, RendererTypeOK
<1>2. SUFFICES ASSUME whole PROVE UnderWay' /\ \E p \in 0..Len(passed) : Waits(p)'
  BY <1>1 DEF InputInv
<1>3. /\ Len(sent) \in Nat /\ sent' = Append(sent, key) /\ Len(sent') = Len(sent) + 1
      /\ sent'[Len(sent) + 1] = key /\ \A j \in 1..Len(sent) : sent'[j] = sent[j]
  BY <1>1, <1>2
<1>4. Carries(wire, sent, 0, Len(sent)) /\ Uncut(wire)
  BY <1>2 DEF InputInv, UnderWay
<1>5. Carries(wire, sent', 0, Len(sent))
  <2>1. 0 \in Nat /\ 0 <= Len(sent) /\ \A j \in 1..Len(sent) - 0 : sent'[0 + j] = sent[0 + j]
    BY <1>3
  <2>2. Carries(wire, sent', 0, 0 + (Len(sent) - 0))
    BY <1>3, <1>4, <2>1, CarriesShifted
  <2>3. 0 + (Len(sent) - 0) = Len(sent)
    BY <1>3
  <2> QED
    BY <2>2, <2>3
<1>6. /\ Encoded(key) \in Seq(Bytes) /\ Uncut(Encoded(key))
      /\ Carries(Encoded(key), sent', Len(sent), Len(sent) + 1)
  BY <1>1, <1>3, EncodedCarries
<1>7. Carries(wire', sent', 0, Len(sent'))
  <2>1. 0 \in Nat /\ Len(sent) + 1 \in Nat /\ 0 <= Len(sent) /\ Len(sent) <= Len(sent) + 1
    BY <1>3
  <2> QED
    BY <1>1, <1>3, <1>5, <1>6, <2>1, CarriesJoined
<1>8. UnderWay'
  BY <1>1, <1>4, <1>6, <1>7, UncutJoined DEF UnderWay
<1> QED
  BY <1>1, <1>2, <1>8, StillWaits DEF InputInv

\* The answer to a probe is no key.
LEMMA AnswerKeepsInput ==
  ASSUME MenuInv, InputInv, Answer
  PROVE  InputInv'
<1> DEFINE answer == <<"IAC", "WONT">>
<1>1. /\ UNCHANGED <<known, program, stdin, passed, sent, whole>>
      /\ wire' = wire \o answer /\ wire \in Seq(Bytes) /\ Len(sent) \in Nat
  BY DEF Answer, MenuInv, RendererTypeOK
<1>2. SUFFICES ASSUME whole PROVE UnderWay' /\ \E p \in 0..Len(passed) : Waits(p)'
  BY <1>1 DEF InputInv
<1>3. Carries(wire, sent, 0, Len(sent)) /\ Uncut(wire)
  BY <1>2 DEF InputInv, UnderWay
<1>4. answer \in Seq(Bytes) /\ Ends(answer) = {} /\ Uncut(answer)
  BY DEF Bytes, Ends, KeyEnds, Uncut
<1> HIDE DEF answer
<1>5. 0 \in Nat /\ 0 <= Len(sent) /\ Len(sent) <= Len(sent)
  BY <1>1
<1>6. Carries(answer, sent, Len(sent), Len(sent))
  BY <1>1, <1>4, <1>5, CarriesNone
<1>7. Carries(wire', sent, 0, Len(sent))
  BY <1>1, <1>3, <1>4, <1>5, <1>6, CarriesJoined
<1>8. UnderWay'
  BY <1>1, <1>3, <1>4, <1>7, UncutJoined DEF UnderWay
<1> QED
  BY <1>1, <1>2, <1>8, StillWaits DEF InputInv

\* What the server reads moves on, or is lost, in whole keys, as long as neither the
\* read nor the write ends within one.
LEMMA RelayKeepsInput ==
  ASSUME MenuInv, InputInv, Relay
  PROVE  InputInv'
<1>1. /\ UNCHANGED <<known, program>> /\ RendererTypeOK
      /\ stdin \in Seq(Bytes) /\ wire \in Seq(Bytes)
      /\ sent \in Seq(M!Keys) /\ passed \in Seq(M!Keys)
  BY DEF Relay, MenuInv, RendererTypeOK
<1>2. PICK n \in 1..Len(wire) :
        LET m     == SubSeq(wire, 1, n)
            k     == IF IsCommand(m) THEN 0 ELSE Fitting(n)
            given == SubSeq(Rewritten(m), 1, k)
        IN  /\ stdin' = stdin \o given
            /\ wire' = SubSeq(wire, n + 1, Len(wire))
            /\ whole' = (whole /\ \A cut \in {n, k} \ {0} : wire[cut] \notin Unfinished)
            /\ sent' = IF whole' THEN SubSeq(sent, KeysIn(m) + 1, Len(sent)) ELSE <<>>
            /\ passed' = IF whole' THEN passed \o SubSeq(sent, 1, KeysIn(given)) ELSE <<>>
  BY DEF Relay
<1> DEFINE m     == SubSeq(wire, 1, n)
           k     == IF IsCommand(m) THEN 0 ELSE Fitting(n)
           given == SubSeq(Rewritten(m), 1, k)
           rest  == SubSeq(wire, n + 1, Len(wire))
           on    == SubSeq(sent, 1, KeysIn(given))
           left  == SubSeq(sent, KeysIn(m) + 1, Len(sent))
<1>3. m \in Seq(Bytes) /\ Len(m) = n /\ n \in Nat
  BY <1>1
<1>4. k \in 0..n
  BY <1>1, <1>3, FittingBound
<1>5. given \in Seq(Bytes)
  <2>1. Rewritten(m) \in Seq(Bytes) /\ Len(Rewritten(m)) = n
    BY <1>3, RewrittenType
  <2> HIDE DEF m, k
  <2> QED
    BY <1>4, <2>1, Parted
<1>6. stdin' = stdin \o given /\ wire' = rest
  BY <1>2
<1> HIDE DEF m, k, given, rest, on, left
<1>7. SUFFICES ASSUME whole' PROVE UnderWay' /\ \E p \in 0..Len(passed') : Waits(p)'
  BY DEF InputInv
<1>8. sent' = left /\ passed' = passed \o on
  BY <1>2, <1>7 DEF m, k, given, on, left
<1>9. whole /\ wire[n] \notin Unfinished /\ (k # 0 => wire[k] \notin Unfinished)
  <2>1. whole /\ \A cut \in {n, k} \ {0} : wire[cut] \notin Unfinished
    BY <1>2, <1>7, Zenon DEF m, k
  <2>2. n # 0
    OBVIOUS
  <2> QED
    BY <2>1, <2>2
<1>10. /\ Uncut(given) /\ NoReturns(given)
       /\ on \in Seq(M!Keys) /\ Carries(given, on, 0, Len(on))
       /\ Carries(rest, left, 0, Len(left)) /\ Uncut(rest)
  <2>1. UnderWay
    BY <1>9 DEF InputInv
  <2> QED
    BY <1>1, <1>4, <1>9, <2>1, RelayMoves DEF m, given, rest, on, left
<1>11. UnderWay'
  BY <1>6, <1>8, <1>10 DEF UnderWay
<1>12. PICK p \in 0..Len(passed) : Waits(p)
  BY <1>9 DEF InputInv
<1>13. p \in 0..Len(passed') /\ Waits(p)'
  BY <1>1, <1>5, <1>6, <1>8, <1>10, <1>12, WaitsForMore
<1> QED
  BY <1>11, <1>13

\* A question mark is no key.
LEMMA NudgeKeepsInput ==
  ASSUME MenuInv, InputInv, Nudge
  PROVE  InputInv'
<1>1. /\ UNCHANGED <<known, program, wire, sent, passed, whole>>
      /\ stdin \in Seq(Bytes) /\ passed \in Seq(M!Keys) /\ stdin' = stdin \o Marked
  BY DEF Nudge, Marked, MenuInv, RendererTypeOK
<1>2. SUFFICES ASSUME whole PROVE UnderWay' /\ \E p \in 0..Len(passed') : Waits(p)'
  BY <1>1 DEF InputInv
<1>3. UnderWay'
  BY <1>1, <1>2 DEF InputInv, UnderWay
<1>4. PICK p \in 0..Len(passed) : Waits(p)
  BY <1>2 DEF InputInv
<1>5. Marked \in Seq(Bytes) /\ Ends(Marked) = {} /\ Uncut(Marked) /\ NoReturns(Marked)
  BY MarkedNone DEF MenuInv
<1> DEFINE on == <<>>
<1>6. on \in Seq(M!Keys) /\ Len(on) = 0 /\ passed' = passed \o on
  BY <1>1
<1> HIDE DEF on
<1>7. Carries(Marked, on, 0, Len(on))
  BY <1>5, <1>6, CarriesNone
<1>8. p \in 0..Len(passed') /\ Waits(p)'
  BY <1>1, <1>4, <1>5, <1>6, <1>7, WaitsForMore
<1> QED
  BY <1>3, <1>8

\* The whole invariant.
ReadingInv == MenuInv /\ ChoiceInv /\ InputInv

\* It holds at first.
LEMMA ReadingInit == RendererInit => ReadingInv
<1> SUFFICES ASSUME RendererInit PROVE ReadingInv
  OBVIOUS
<1>1. /\ place = "start" /\ stack = <<>> /\ i = 0 /\ ch = "other" /\ menu_message = "blank"
      /\ stdin = <<>> /\ wire = <<>> /\ sent = <<>> /\ Len(sent) = 0
      /\ passed = <<>> /\ Len(passed) = 0
  BY DEF RendererInit
<1>2. MenuInv /\ View = M!Start
  BY InitCorrect
<1>3. ChoiceInv
  BY <1>1 DEF ChoiceInv
<1>4. /\ Uncut(stdin) /\ Uncut(wire) /\ NoReturns(stdin) /\ Ends(stdin) = {} /\ Ends(wire) = {}
  BY <1>1 DEF Uncut, NoReturns, Ends
<1>5. Carries(stdin, passed, 0, 0) /\ Carries(wire, sent, 0, 0)
  BY <1>4, CarriesNone
<1>6. ReadUpTo(0)
  <2>1. passed \in Seq(M!Keys)
    BY <1>2 DEF MenuInv, RendererTypeOK
  <2>2. Walk(passed)[0] = M!Start
    BY <2>1, WalkIs
  <2>3. Spent = 0 /\ Latest = "other"
    BY <1>1 DEF Spent, Latest
  <2>4. Cardinality(Enters(passed, 0)) \in Nat
    BY EntersCounted
  <2> QED
    BY <1>2, <2>2, <2>3, <2>4 DEF ReadUpTo, M!After
<1>7. Waits(0) /\ UnderWay
  BY <1>1, <1>4, <1>5, <1>6 DEF Waits, UnderWay
<1>8. InputInv
  BY <1>1, <1>7 DEF InputInv
<1> QED
  BY <1>2, <1>3, <1>8 DEF ReadingInv

\* Every step keeps it.
LEMMA ReadingStep ==
  ASSUME ReadingInv, [RendererNext]_rendererVars
  PROVE  ReadingInv'
<1>1. MenuInv' /\ ChoiceInv'
  BY StepCorrect, ChoiceCorrect DEF ReadingInv
<1>2. CASE UNCHANGED rendererVars
  <2>1. UNCHANGED <<known, program, stdin, passed>> /\ UNCHANGED <<wire, sent, whole>>
    BY <1>2 DEF rendererVars, input
  <2>2. UnderWay' = UnderWay
    BY <2>1 DEF UnderWay
  <2>3. InputInv'
    BY <2>1, <2>2, StillWaits DEF ReadingInv, InputInv
  <2> QED
    BY <1>1, <2>3 DEF ReadingInv
<1>3. CASE RendererNext
  BY <1>1, <1>3, ProgramKeepsInput, TypeKeepsInput, AnswerKeepsInput, RelayKeepsInput,
     NudgeKeepsInput
  DEF RendererNext, ReadingInv
<1> QED
  BY <1>2, <1>3

\* With nothing left to read, the keys that were passed on are those that were
\* read; and at the end there is nothing that keys could change.
LEMMA ReadingMenus == ReadingInv => MenuFollowsKeys
<1> SUFFICES ASSUME ReadingInv, whole, known, Settled \/ place = "exited"
             PROVE  View = Walk(passed)[Len(passed)]
  BY DEF MenuFollowsKeys
<1>1. passed \in Seq(M!Keys) /\ Len(passed) \in Nat
  BY DEF ReadingInv, MenuInv, RendererTypeOK
<1>2. PICK p \in 0..Len(passed) : Waits(p)
  BY DEF ReadingInv, InputInv
<1>3. p \in Nat /\ p <= Len(passed)
  BY <1>1, <1>2
<1>4. Walk(passed)[p] = View
  <2>1. place # "overflow" /\ Latest = "other"
    BY DEF Settled, Latest
  <2> QED
    BY <1>2, <2>1 DEF Waits, ReadUpTo, M!After
<1>5. CASE Settled
  <2>1. Ends(stdin) = {}
    BY <1>5 DEF Settled, Ends
  <2>2. Carries(stdin, passed, p, Len(passed))
    BY <1>2 DEF Waits
  <2>3. Len(passed) = p
    BY <1>1, <1>3, <2>1, <2>2, CarriesNone
  <2> QED
    BY <1>4, <2>3
<1>6. CASE place = "exited"
  <2>1. View = M!Over
    BY <1>6 DEF View
  <2> QED
    BY <1>1, <1>4, <2>1, OverStays
<1> QED
  BY <1>5, <1>6

\* The stack is full only when as many choices have been read as calls fit in it.
LEMMA ReadingChoices == ReadingInv => OverflowNeedsChoices
<1> SUFFICES ASSUME ReadingInv, place = "overflow", whole
             PROVE  Cardinality(Enters(passed, Len(passed))) >= MaxDepth
  BY DEF OverflowNeedsChoices
<1>1. Len(passed) \in Nat /\ MaxDepth \in Nat
  BY RendererAssumption DEF ReadingInv, MenuInv, RendererTypeOK
<1>2. PICK p \in 0..Len(passed) : Waits(p)
  BY DEF ReadingInv, InputInv
<1>3. p \in Nat /\ p <= Len(passed)
  BY <1>1
<1>4. MaxDepth <= Cardinality(Enters(passed, p))
  BY <1>2 DEF Waits, ReadUpTo, Spent
<1>5. /\ Cardinality(Enters(passed, p)) \in Nat
      /\ Cardinality(Enters(passed, Len(passed))) \in Nat
  BY <1>1, <1>3, EntersCounted
<1>6. Cardinality(Enters(passed, p)) <= Cardinality(Enters(passed, Len(passed)))
  BY <1>1, <1>3, EntersGrow
<1> QED
  BY <1>1, <1>4, <1>5, <1>6

-----------------------------------------------------------------------------
(* The theorems.                                                           *)

LEMMA ReadingAlways == RendererSpec => []ReadingInv
<1> QED
  BY ReadingInit, ReadingStep, PTL DEF RendererSpec

\* Types: the selection stays on the list and the calls fit the stack, whatever
\* bytes reach the program.
THEOREM RendererTypeCorrect == RendererSpec => []RendererTypeOK
<1>1. ReadingInv => RendererTypeOK
  BY DEF ReadingInv, MenuInv
<1> QED
  BY <1>1, ReadingAlways, PTL

\* The program, with its calls and returns, implements the menus.
THEOREM RendererImplementsMenus == RendererSpec => WalksThroughMenus
<1>1. RendererInit => Shown!Init
  BY InitCorrect DEF Shown!Init, Shown!Start, Shown!At, M!Start, M!At
<1>2. ReadingInv /\ [RendererNext]_rendererVars => [Shown!Next]_View
  BY StepCorrect DEF ReadingInv
<1> QED
  BY <1>1, <1>2, ReadingAlways, PTL DEF RendererSpec, WalksThroughMenus, Shown!Spec

\* The menu that waits for a key is the one to which exactly those keys lead that
\* the server passed on, wherever between keys it cuts, whatever it drops with a
\* command or at a full pipe, and however many question marks it adds.
THEOREM MenusFollowKeys == RendererSpec => []MenuFollowsKeys
<1> QED
  BY ReadingAlways, ReadingMenus, PTL

\* The program runs out of stack only after it was given as many choices as calls
\* fit in it.
THEOREM StackLastsForChoices == RendererSpec => []OverflowNeedsChoices
<1> QED
  BY ReadingAlways, ReadingChoices, PTL
=============================================================================
