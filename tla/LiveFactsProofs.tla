--------------------------- MODULE LiveFactsProofs ---------------------------
(***************************************************************************)
(* Lemmas about LiveFacts: what an observation does to the facts of a      *)
(* draft, and what the replay of facts through the kernel returns. The     *)
(* replay is a loop; its invariant is a set of records, Replays(facts),    *)
(* that one turn does not leave; when the loop is over, no pick is pending *)
(* that has an open slot.                                                  *)
(***************************************************************************)
EXTENDS LiveFacts, SoundDraftProofs, SequenceTheorems

----------------------------------------------------------------------------
(* Sequences and loops                                                     *)

LEMMA RemovedAt ==
  ASSUME NEW S, NEW s \in Seq(S), NEW m \in 1..Len(s)
  PROVE  /\ RemoveAt(s, m) \in Seq(S)
         /\ Len(RemoveAt(s, m)) = Len(s) - 1
         /\ DOMAIN RemoveAt(s, m) = 1..(Len(s) - 1)
         /\ \A i \in 1..(Len(s) - 1) : RemoveAt(s, m)[i] = IF i < m THEN s[i] ELSE s[i + 1]
<1> DEFINE a == SubSeq(s, 1, m - 1)
           b == SubSeq(s, m + 1, Len(s))
<1>1. Len(s) \in Nat /\ \A i \in 1..Len(s) : s[i] \in S
  OBVIOUS
<1>2. /\ a \in Seq(S) /\ Len(a) = m - 1
      /\ \A i \in 1..(m - 1) : a[i] = s[i]
  OBVIOUS
<1>3. /\ b \in Seq(S) /\ Len(b) = Len(s) - m
      /\ \A i \in 1..(Len(s) - m) : b[i] = s[m + i]
  OBVIOUS
<1>4. RemoveAt(s, m) = a \o b
  BY DEF RemoveAt
<1> HIDE DEF a, b
<1>5. /\ a \o b \in Seq(S) /\ Len(a \o b) = Len(s) - 1
      /\ \A i \in 1..(Len(s) - 1) : (a \o b)[i] = IF i <= m - 1 THEN a[i] ELSE b[i - (m - 1)]
  <2>1. Len(a) + Len(b) = Len(s) - 1
    BY <1>1, <1>2, <1>3
  <2>2. /\ a \o b \in Seq(S) /\ Len(a \o b) = Len(a) + Len(b)
        /\ \A i \in 1..(Len(a) + Len(b)) : (a \o b)[i] = IF i <= Len(a) THEN a[i] ELSE b[i - Len(a)]
    BY <1>2, <1>3, ConcatProperties, Zenon
  <2>3. QED BY <1>2, <2>1, <2>2
<1>6. ASSUME NEW i \in 1..(Len(s) - 1)
      PROVE  (a \o b)[i] = IF i < m THEN s[i] ELSE s[i + 1]
  <2>1. CASE i < m
    BY <1>2, <1>5, <2>1
  <2>2. CASE ~(i < m)
    <3>1. i - (m - 1) \in 1..(Len(s) - m) /\ m + (i - (m - 1)) = i + 1
      BY <1>1, <2>2
    <3>2. QED BY <1>3, <1>5, <2>2, <3>1
  <2>3. QED BY <2>1, <2>2
<1>7. QED BY <1>1, <1>4, <1>5, <1>6

(* A loop of N turns, each of which stays within a set.                    *)
Loops(f, N, X, x, turn) ==
  f \in [0..N -> X] /\ f[0] = x /\ \A n \in 1..N : f[n] = turn[n][f[n - 1]]

LEMMA LoopExists ==
  ASSUME NEW N \in Nat, NEW X, NEW x \in X, NEW turn, turn \in [1..N -> [X -> X]]
  PROVE  \E f : Loops(f, N, X, x, turn)
<1> DEFINE Upto(m, f) == f[0] = x /\ \A n \in 1..m : f[n] = turn[n][f[n - 1]]
           Stuck == {m \in 0..N : ~\E f \in [0..m -> X] : Upto(m, f)}
<1>1. ASSUME Stuck # {} PROVE FALSE
  <2>1. PICK m \in Stuck : \A k \in Stuck : m <= k
    <3>1. Stuck \in SUBSET Nat
      OBVIOUS
    <3> HIDE DEF Stuck
    <3>2. QED BY <1>1, <3>1, LeastNatural
  <2>2. m \in 0..N /\ ~\E f \in [0..m -> X] : Upto(m, f)
    OBVIOUS
  <2>3. m # 0
    <3>1. [n \in 0..0 |-> x] \in [0..0 -> X] /\ Upto(0, [n \in 0..0 |-> x])
      OBVIOUS
    <3>2. QED BY <2>2, <3>1
  <2>4. m - 1 \in 0..N /\ m - 1 \notin Stuck
    <3>1. m - 1 \in 0..N /\ ~(m <= m - 1)
      BY <2>2, <2>3
    <3> HIDE DEF Stuck
    <3>2. QED BY <2>1, <3>1
  <2>5. PICK f \in [0..(m - 1) -> X] : Upto(m - 1, f)
    BY <2>4
  <2> DEFINE g == [n \in 0..m |-> IF n = m THEN turn[m][f[m - 1]] ELSE f[n]]
  <2>6. f[m - 1] \in X /\ turn[m] \in [X -> X]
    BY <2>2, <2>3, <2>5
  <2>7. g \in [0..m -> X]
    BY <2>2, <2>5, <2>6
  <2>8. g[0] = x
    BY <2>2, <2>3, <2>5
  <2>9. ASSUME NEW n \in 1..m PROVE g[n] = turn[n][g[n - 1]]
    <3>1. g[n - 1] = f[n - 1]
      BY <2>2
    <3>2. CASE n = m
      BY <2>2, <3>1, <3>2
    <3>3. CASE n # m
      <4>1. n \in 1..(m - 1) /\ g[n] = f[n]
        BY <2>2, <3>3
      <4>2. QED BY <2>5, <3>1, <4>1
    <3>4. QED BY <3>2, <3>3
  <2>10. QED BY <2>2, <2>7, <2>8, <2>9
<1>2. N \notin Stuck
  BY <1>1
<1>3. QED BY <1>2 DEF Loops

(* SealAll is that loop, in whatever set holds the replay and is not left  *)
(* by SealNext.                                                            *)
LEMMA SealAllTurns ==
  ASSUME NEW X, NEW r \in X, NEW N \in Nat, N = Len(r.pending),
         \A t \in X : SealNext(t) \in X
  PROVE  \E after \in [0..N -> X] :
           /\ after[0] = r
           /\ \A n \in 1..N : after[n] = SealNext(after[n - 1])
           /\ SealAll(r) = after[N]
<1> DEFINE Loop(f) == f = [n \in 0..N |-> IF n = 0 THEN r ELSE SealNext(f[n - 1])]
           after == CHOOSE f : Loop(f)
<1>1. \E f : Loop(f)
  <2> DEFINE turn == [n \in 1..N |-> [t \in X |-> SealNext(t)]]
  <2>1. turn \in [1..N -> [X -> X]]
    OBVIOUS
  <2>2. PICK f \in [0..N -> X] : f[0] = r /\ \A n \in 1..N : f[n] = turn[n][f[n - 1]]
    <3> HIDE DEF turn, after, Loop
    <3>1. \E f : Loops(f, N, X, r, turn)
      BY <2>1, LoopExists
    <3>2. QED BY <3>1 DEF Loops
  <2>3. ASSUME NEW n \in 0..N PROVE f[n] = IF n = 0 THEN r ELSE SealNext(f[n - 1])
    <3>1. CASE n = 0
      BY <2>2, <3>1
    <3>2. CASE n # 0
      <4>1. n \in 1..N /\ n - 1 \in 0..N /\ f[n - 1] \in X
        BY <2>2, <3>2
      <4>2. turn[n][f[n - 1]] = SealNext(f[n - 1])
        BY <4>1
      <4>3. QED BY <2>2, <3>2, <4>1, <4>2
    <3>3. QED BY <3>1, <3>2
  <2>4. f = [n \in 0..N |-> f[n]]
    BY <2>2
  <2>5. Loop(f)
    BY <2>3, <2>4
  <2>6. QED BY <2>5
<1>2. Loop(after)
  BY <1>1
<1>3. ASSUME NEW n \in 0..N PROVE after[n] = IF n = 0 THEN r ELSE SealNext(after[n - 1])
  BY <1>2
<1>4. SealAll(r) = after[N]
  BY DEF SealAll
<1> DEFINE Left == {n \in 0..N : after[n] \notin X}
<1> HIDE DEF after, Loop
<1>5. ASSUME Left # {} PROVE FALSE
  <2>1. PICK n \in Left : \A k \in Left : n <= k
    <3>1. Left \in SUBSET Nat
      OBVIOUS
    <3> HIDE DEF Left
    <3>2. QED BY <1>5, <3>1, LeastNatural
  <2>2. n # 0
    BY <1>3
  <2>3. n - 1 \in 0..N /\ n - 1 \notin Left
    BY <2>1, <2>2
  <2>4. QED BY <1>3, <2>2, <2>3
<1>6. after \in [0..N -> X]
  <2>1. after = [n \in 0..N |-> IF n = 0 THEN r ELSE SealNext(after[n - 1])]
    BY <1>2 DEF Loop
  <2>2. DOMAIN after = 0..N /\ after = [n \in DOMAIN after |-> after[n]]
    BY <2>1, Zenon
  <2>3. \A n \in 0..N : after[n] \in X
    BY <1>5
  <2>4. QED BY <2>2, <2>3
<1>7. after[0] = r /\ \A n \in 1..N : after[n] = SealNext(after[n - 1])
  BY <1>3
<1>8. QED BY <1>4, <1>6, <1>7

LEMMA SealAllStays ==
  ASSUME NEW X, NEW r \in X, Len(r.pending) \in Nat,
         \A t \in X : SealNext(t) \in X
  PROVE  SealAll(r) \in X
<1> DEFINE N == Len(r.pending)
<1>1. PICK after \in [0..N -> X] : SealAll(r) = after[N]
  <2> HIDE DEF N
  <2>1. N = Len(r.pending) /\ N \in Nat
    BY DEF N
  <2>2. QED BY <2>1, SealAllTurns
<1>2. QED BY <1>1

(* No pending pick has an open slot: the loop has nothing left to do.      *)
NoneReady(r) == \A i \in DOMAIN r.pending : OpenFor(r.draft, r.pending[i].side) = {}

LEMMA NoneReadyStays ==
  ASSUME NEW r, NoneReady(r)
  PROVE  SealNext(r) = r
<1>1. {i \in DOMAIN r.pending : OpenFor(r.draft, r.pending[i].side) # {}} = {}
  BY DEF NoneReady
<1>2. QED BY <1>1 DEF SealNext

(* A loop of as many turns as picks, each of which takes one as long as one*)
(* can be taken, ends with none that can.                                  *)
LEMMA SealAllSettles ==
  ASSUME NEW X, NEW r \in X, Len(r.pending) \in Nat,
         \A t \in X : /\ SealNext(t) \in X
                      /\ t.pending \in Seq(LivePicks)
                      /\ (NoneReady(t) /\ SealNext(t) = t)
                           \/ Len(SealNext(t).pending) = Len(t.pending) - 1
  PROVE  NoneReady(SealAll(r))
<1> DEFINE N == Len(r.pending)
<1>1. PICK after \in [0..N -> X] :
        /\ after[0] = r
        /\ \A n \in 1..N : after[n] = SealNext(after[n - 1])
        /\ SealAll(r) = after[N]
  <2> HIDE DEF N
  <2>1. N = Len(r.pending) /\ N \in Nat
    BY DEF N
  <2>2. QED BY <2>1, SealAllTurns
<1> DEFINE Goes(n) == NoneReady(after[n]) \/ Len(after[n].pending) = N - n
           Stopped == {n \in 0..N : ~Goes(n)}
<1>2. Goes(0)
  BY <1>1
<1>3. ASSUME NEW n \in 1..N, Goes(n - 1) PROVE Goes(n)
  <2>1. after[n - 1] \in X /\ after[n] = SealNext(after[n - 1]) /\ N \in Nat
    <3>1. n - 1 \in 0..N /\ N \in Nat
      OBVIOUS
    <3> HIDE DEF N
    <3>2. QED BY <1>1, <3>1
  <2>2. CASE NoneReady(after[n - 1]) /\ SealNext(after[n - 1]) = after[n - 1]
    BY <2>1, <2>2
  <2>3. CASE Len(SealNext(after[n - 1]).pending) = Len(after[n - 1].pending) - 1
    <3>1. CASE Len(after[n - 1].pending) = N - (n - 1)
      BY <2>1, <2>3, <3>1
    <3>2. CASE NoneReady(after[n - 1])
      <4>1. SealNext(after[n - 1]) = after[n - 1]
        BY <3>2, NoneReadyStays
      <4>2. QED BY <2>1, <3>2, <4>1
    <3>3. QED BY <1>3, <3>1, <3>2
  <2>4. QED BY <2>1, <2>2, <2>3
<1> HIDE DEF Goes
<1>4. ASSUME Stopped # {} PROVE FALSE
  <2>1. PICK n \in Stopped : \A k \in Stopped : n <= k
    <3>1. Stopped \in SUBSET Nat
      OBVIOUS
    <3> HIDE DEF Stopped
    <3>2. QED BY <1>4, <3>1, LeastNatural
  <2>2. n # 0
    BY <1>2
  <2>3. n \in 1..N /\ n - 1 \in 0..N /\ n - 1 \notin Stopped
    BY <2>1, <2>2
  <2>4. QED BY <1>3, <2>3
<1>5. Goes(N)
  BY <1>4
<1>6. CASE Len(after[N].pending) = N - N
  <2>1. after[N].pending \in Seq(LivePicks) /\ Len(after[N].pending) = 0
    BY <1>1, <1>6
  <2>2. DOMAIN after[N].pending = {}
    BY <2>1
  <2>3. QED BY <1>1, <2>2 DEF NoneReady
<1>7. QED BY <1>1, <1>5, <1>6 DEF Goes


----------------------------------------------------------------------------
(* Sequences of picks that name each hero once                             *)

OnceEach(s) == \A i, j \in DOMAIN s : s[i].heroId = s[j].heroId => i = j

LEMMA RemovedPick ==
  ASSUME NEW S, NEW s \in Seq(S), OnceEach(s), NEW m \in 1..Len(s)
  PROVE  /\ OnceEach(RemoveAt(s, m))
         /\ ToSet(RemoveAt(s, m)) = ToSet(s) \ {s[m]}
         /\ \A p \in ToSet(s) \ {s[m]} : p.heroId # s[m].heroId
<1> DEFINE t == RemoveAt(s, m)
           from(i) == IF i < m THEN i ELSE i + 1
<1>1. DOMAIN s = 1..Len(s) /\ Len(s) \in Nat
  OBVIOUS
<1>2. DOMAIN t = 1..(Len(s) - 1) /\ \A i \in 1..(Len(s) - 1) : t[i] = s[from(i)]
  <2>1. \A i \in 1..(Len(s) - 1) : t[i] = IF i < m THEN s[i] ELSE s[i + 1]
    BY RemovedAt
  <2>2. DOMAIN t = 1..(Len(s) - 1)
    BY RemovedAt
  <2> HIDE DEF t
  <2>3. QED BY <2>1, <2>2
<1>3. \A i \in 1..(Len(s) - 1) : from(i) \in 1..Len(s) /\ from(i) # m
  BY <1>1
<1>4. \A i, j \in 1..(Len(s) - 1) : from(i) = from(j) => i = j
  BY <1>1
<1>5. ASSUME NEW k \in 1..Len(s), k # m PROVE \E i \in 1..(Len(s) - 1) : from(i) = k
  <2>1. CASE k < m
    <3>1. k \in 1..(Len(s) - 1) /\ from(k) = k
      BY <1>1, <2>1
    <3>2. QED BY <3>1
  <2>2. CASE k > m
    <3>1. k - 1 \in 1..(Len(s) - 1) /\ from(k - 1) = k
      BY <1>1, <2>2
    <3>2. QED BY <3>1
  <2>3. QED BY <1>1, <1>5, <2>1, <2>2
<1> HIDE DEF t, from
<1>6. \A i, j \in 1..Len(s) : s[i].heroId = s[j].heroId => i = j
  BY <1>1 DEF OnceEach
<1>7. OnceEach(t)
  BY <1>2, <1>3, <1>4, <1>6 DEF OnceEach
<1>8. ASSUME NEW k \in 1..Len(s), k # m PROVE s[k] # s[m] /\ s[k].heroId # s[m].heroId
  BY <1>6, <1>8
<1>9. ASSUME NEW p \in ToSet(s), p # s[m] PROVE p \in ToSet(t) /\ p.heroId # s[m].heroId
  <2>1. PICK k \in 1..Len(s) : p = s[k]
    BY <1>1 DEF ToSet
  <2>2. k # m
    BY <1>9, <2>1
  <2>3. PICK i \in 1..(Len(s) - 1) : from(i) = k
    BY <1>5, <2>2
  <2>4. t[i] = p
    BY <1>2, <2>1, <2>3
  <2>5. QED BY <1>2, <1>8, <2>1, <2>2, <2>4 DEF ToSet
<1>10. ASSUME NEW p \in ToSet(t) PROVE p \in ToSet(s) /\ p # s[m]
  <2>1. PICK i \in 1..(Len(s) - 1) : p = t[i]
    BY <1>2 DEF ToSet
  <2>2. p = s[from(i)] /\ from(i) \in 1..Len(s) /\ from(i) # m
    BY <1>2, <1>3, <2>1
  <2>3. QED BY <1>1, <1>8, <2>2 DEF ToSet
<1>11. QED BY <1>7, <1>9, <1>10 DEF t

LEMMA AddedPick ==
  ASSUME NEW S, NEW s \in Seq(S), NEW p \in S
  PROVE  /\ Append(s, p) \in Seq(S)
         /\ ToSet(Append(s, p)) = ToSet(s) \cup {p}
         /\ (OnceEach(s) /\ \A q \in ToSet(s) : q.heroId # p.heroId) => OnceEach(Append(s, p))
<1> DEFINE t == Append(s, p)
<1>1. /\ DOMAIN s = 1..Len(s) /\ DOMAIN t = 1..(Len(s) + 1) /\ Len(s) \in Nat
      /\ \A i \in 1..Len(s) : t[i] = s[i]
      /\ t[Len(s) + 1] = p
      /\ t \in Seq(S)
  OBVIOUS
<1> HIDE DEF t
<1>2. \A i \in DOMAIN t : (i \in DOMAIN s /\ t[i] = s[i]) \/ (i = Len(s) + 1 /\ t[i] = p)
  BY <1>1
<1>3. \A i \in DOMAIN s : i \in DOMAIN t /\ t[i] = s[i] /\ s[i] \in ToSet(s)
  BY <1>1 DEF ToSet
<1>4. Len(s) + 1 \in DOMAIN t
  BY <1>1
<1>5. ToSet(t) = ToSet(s) \cup {p}
  BY <1>1, <1>2, <1>3, <1>4 DEF ToSet
<1>6. ASSUME OnceEach(s), \A q \in ToSet(s) : q.heroId # p.heroId
      PROVE  OnceEach(t)
  BY <1>2, <1>3, <1>6 DEF OnceEach
<1>7. QED BY <1>1, <1>5, <1>6 DEF t

----------------------------------------------------------------------------
(* What an observation does to the facts                                   *)

(* Each hero is banned, picked once, or neither.                           *)
SoundFacts(f) ==
  /\ f \in LiveFactsSet
  /\ OnceEach(f.picks)
  /\ \A p \in ToSet(f.picks) : p.heroId \notin f.bans

(* The facts only gain what the observation is about.                      *)
Gains(f, g, o) ==
  /\ \A h \in g.bans \ f.bans : o.type = "ban" /\ h = o.heroId
  /\ \A p \in ToSet(g.picks) :
       \/ \E q \in ToSet(f.picks) : q.side = p.side /\ q.heroId = p.heroId
       \/ o.type = "pick" /\ p.side = o.side /\ p.heroId = o.heroId

LEMMA MinOf ==
  ASSUME NEW S \in SUBSET Nat, S # {}
  PROVE  Min(S) \in S /\ \A x \in S : Min(S) <= x
BY LeastNatural DEF Min

LEMMA PicksInSeq ==
  ASSUME NEW S, NEW s \in Seq(S)
  PROVE  /\ DOMAIN s = 1..Len(s) /\ Len(s) \in Nat
         /\ \A i \in DOMAIN s : s[i] \in S /\ s[i] \in ToSet(s)
         /\ \A p \in ToSet(s) : p \in S /\ \E i \in DOMAIN s : p = s[i]
BY DEF ToSet

LEMMA WithoutPickKeeps ==
  ASSUME NEW f \in LiveFactsSet, OnceEach(f.picks), NEW h
  PROVE  /\ WithoutPick(f, h) \in Seq(LivePicks)
         /\ OnceEach(WithoutPick(f, h))
         /\ ToSet(WithoutPick(f, h)) = {p \in ToSet(f.picks) : p.heroId # h}
<1> DEFINE at == {i \in DOMAIN f.picks : f.picks[i].heroId = h}
<1>1. f.picks \in Seq(LivePicks)
  BY DEF LiveFactsSet
<1>2. /\ DOMAIN f.picks = 1..Len(f.picks) /\ Len(f.picks) \in Nat
      /\ \A p \in ToSet(f.picks) : \E i \in DOMAIN f.picks : p = f.picks[i]
  BY <1>1, PicksInSeq
<1>3. CASE at = {}
  <2>1. WithoutPick(f, h) = f.picks
    BY <1>3 DEF WithoutPick
  <2>2. \A p \in ToSet(f.picks) : p.heroId # h
    BY <1>2, <1>3
  <2>3. QED BY <1>1, <2>1, <2>2
<1>4. CASE at # {}
  <2>1. at \in SUBSET Nat
    BY <1>2
  <2>2. Min(at) \in at
    <3> HIDE DEF at
    <3>1. QED BY <1>4, <2>1, MinOf
  <2> DEFINE m == Min(at)
  <2>3. m \in 1..Len(f.picks) /\ f.picks[m].heroId = h
    BY <1>2, <2>2
  <2>4. WithoutPick(f, h) = RemoveAt(f.picks, m)
    BY <1>4 DEF WithoutPick
  <2> HIDE DEF m
  <2>5. /\ RemoveAt(f.picks, m) \in Seq(LivePicks)
        /\ OnceEach(RemoveAt(f.picks, m))
        /\ ToSet(RemoveAt(f.picks, m)) = ToSet(f.picks) \ {f.picks[m]}
        /\ \A p \in ToSet(f.picks) \ {f.picks[m]} : p.heroId # f.picks[m].heroId
    BY <1>1, <2>3, RemovedAt, RemovedPick
  <2>6. QED BY <2>3, <2>4, <2>5
<1>5. QED BY <1>3, <1>4

LEMMA StaleLocalPickKeeps ==
  ASSUME NEW f, SoundFacts(f), NEW h \in Heroes
  PROVE  LET g == WithoutStaleLocalPick(f, h) IN
         /\ SoundFacts(g) /\ g.bans = f.bans /\ ToSet(g.picks) \subseteq ToSet(f.picks)
<1>1. CASE f.localOnlyPick \in {NoHero, h}
  BY <1>1 DEF WithoutStaleLocalPick
<1>2. CASE f.localOnlyPick \notin {NoHero, h}
  <2> DEFINE w == WithoutPick(f, f.localOnlyPick)
             g == [f EXCEPT !.picks = w, !.localOnlyPick = NoHero]
  <2>1. g = WithoutStaleLocalPick(f, h)
    BY <1>2 DEF WithoutStaleLocalPick
  <2>2. w \in Seq(LivePicks) /\ OnceEach(w) /\ ToSet(w) \subseteq ToSet(f.picks)
    BY WithoutPickKeeps DEF SoundFacts
  <2> HIDE DEF w
  <2>3. g \in LiveFactsSet /\ g.picks = w /\ g.bans = f.bans
    BY <2>2 DEF SoundFacts, LiveFactsSet
  <2>4. QED BY <2>1, <2>2, <2>3 DEF SoundFacts
<1>3. QED BY <1>1, <1>2

LEMMA RestateKeeps ==
  ASSUME NEW f, SoundFacts(f), NEW o, o.heroId \in Heroes,
         o.position \in Positions \cup {NoPosition}, o.viaLocalHero \in BOOLEAN
  PROVE  SoundFacts(RestatePick(f, o)) /\ Gains(f, RestatePick(f, o), o)
<1> DEFINE gained(p) == IF p.heroId = o.heroId /\ p.position = NoPosition
                        THEN [p EXCEPT !.position = o.position] ELSE p
           s == [i \in DOMAIN f.picks |-> gained(f.picks[i])]
           g == RestatePick(f, o)
<1>1. f.picks \in Seq(LivePicks) /\ f \in LiveFactsSet
  BY DEF SoundFacts, LiveFactsSet
<1>2. /\ DOMAIN f.picks = 1..Len(f.picks) /\ Len(f.picks) \in Nat
      /\ \A i \in DOMAIN f.picks : f.picks[i] \in LivePicks /\ f.picks[i] \in ToSet(f.picks)
  BY <1>1, PicksInSeq
<1>3. \A p \in LivePicks :
        gained(p) \in LivePicks /\ gained(p).side = p.side /\ gained(p).heroId = p.heroId
  BY DEF LivePicks
<1> HIDE DEF gained
<1>4. /\ DOMAIN s = DOMAIN f.picks
      /\ \A i \in DOMAIN s : /\ s[i] \in LivePicks /\ f.picks[i] \in ToSet(f.picks)
                             /\ s[i].side = f.picks[i].side /\ s[i].heroId = f.picks[i].heroId
  BY <1>2, <1>3
<1>5. s \in Seq(LivePicks)
  <2>1. s \in [1..Len(f.picks) -> LivePicks]
    BY <1>2, <1>4
  <2> HIDE DEF s
  <2>2. QED BY <1>2, <2>1, SeqDef
<1>6. g.picks = s /\ g.bans = f.bans /\ g \in LiveFactsSet
  <2>1. g = [f EXCEPT !.picks = s,
                      !.localOnlyPick = IF @ = o.heroId /\ ~o.viaLocalHero THEN NoHero ELSE @]
    BY DEF RestatePick, gained
  <2> HIDE DEF s, g
  <2>2. QED BY <1>1, <1>5, <2>1 DEF LiveFactsSet
<1> HIDE DEF s, g
<1>7. OnceEach(s)
  BY <1>4 DEF OnceEach, SoundFacts
<1>8. \A p \in ToSet(s) : \E q \in ToSet(f.picks) : q.side = p.side /\ q.heroId = p.heroId
  BY <1>4 DEF ToSet
<1>9. SoundFacts(g)
  BY <1>6, <1>7, <1>8 DEF SoundFacts
<1>10. Gains(f, g, o)
  BY <1>6, <1>8 DEF Gains
<1>11. QED BY <1>9, <1>10 DEF g

(* What the observations of each type carry.                               *)
LEMMA ObservationTypes ==
  ASSUME NEW o \in Observations
  PROVE  /\ o.type \in {"draft_started", "side", "bans_closed", "local_hero", "ban", "unban",
                        "revert", "pick"}
         /\ o.type = "side" => o.side \in Sides
         /\ o.type = "local_hero" => o.heroId \in Heroes \cup {NoHero}
         /\ o.type \in {"ban", "unban", "revert", "pick"} => o.heroId \in Heroes
         /\ o.type \in {"revert", "pick"} => o.side \in Sides
         /\ o.type = "pick" => /\ o.viaLocalHero \in BOOLEAN
                                /\ o.position \in Positions \cup {NoPosition}
<1>1. CASE o = DraftStarted
  BY <1>1 DEF DraftStarted
<1>2. CASE o = BansClosed
  BY <1>2 DEF BansClosed
<1>3. CASE \E side \in Sides : o = SideIs(side)
  BY <1>3 DEF SideIs
<1>4. CASE \E h \in Heroes : o = Ban(h)
  BY <1>4 DEF Ban
<1>5. CASE \E h \in Heroes : o = Unban(h)
  BY <1>5 DEF Unban
<1>6. CASE \E h \in Heroes \cup {NoHero} : o = LocalHero(h)
  BY <1>6 DEF LocalHero
<1>7. CASE \E side \in Sides, h \in Heroes : o = Revert(side, h)
  BY <1>7 DEF Revert
<1>8. CASE \E side \in Sides, h \in Heroes : o = LocalPick(side, h)
  BY <1>8 DEF LocalPick
<1>9. CASE \E side \in Sides, h \in Heroes, position \in Positions \cup {NoPosition} :
             o = Pick(side, h, position)
  BY <1>9 DEF Pick
<1>10. QED
  BY <1>1, <1>2, <1>3, <1>4, <1>5, <1>6, <1>7, <1>8, <1>9 DEF Observations

LEMMA ApplyPickKeeps ==
  ASSUME NEW f, SoundFacts(f), NEW o \in Observations, o.type = "pick"
  PROVE  SoundFacts(ApplyPick(f, o)) /\ Gains(f, ApplyPick(f, o), o)
<1>1. /\ o.side \in Sides /\ o.heroId \in Heroes
      /\ o.position \in Positions \cup {NoPosition} /\ o.viaLocalHero \in BOOLEAN
  BY ObservationTypes
<1>2. Gains(f, f, o)
  BY DEF Gains
<1>3. CASE \/ o.heroId \in f.bans
           \/ ~HasPick(f, o.side, o.heroId) /\ \/ o.heroId \in PickedHeroes(f)
                                               \/ Cardinality(PicksOfSide(f, o.side)) >= MAX_LIVE_PICKS_PER_SIDE
  BY <1>2, <1>3 DEF ApplyPick
<1>4. CASE o.heroId \notin f.bans /\ HasPick(f, o.side, o.heroId)
  BY <1>1, <1>4, RestateKeeps DEF ApplyPick
<1>5. CASE /\ o.heroId \notin f.bans /\ ~HasPick(f, o.side, o.heroId)
           /\ o.heroId \notin PickedHeroes(f)
           /\ ~(Cardinality(PicksOfSide(f, o.side)) >= MAX_LIVE_PICKS_PER_SIDE)
  <2> DEFINE p == [side |-> o.side, heroId |-> o.heroId, position |-> o.position]
             s == Append(f.picks, p)
             g == AddPick(f, o)
  <2>1. ApplyPick(f, o) = g
    BY <1>5 DEF ApplyPick
  <2>2. f.picks \in Seq(LivePicks) /\ p \in LivePicks
    BY <1>1 DEF SoundFacts, LiveFactsSet, LivePicks
  <2>3. \A q \in ToSet(f.picks) : q.heroId # o.heroId
    BY <1>5, <2>2, PicksInSeq DEF PickedHeroes
  <2>4. s \in Seq(LivePicks) /\ ToSet(s) = ToSet(f.picks) \cup {p} /\ OnceEach(s)
    <3>1. p.heroId = o.heroId
      OBVIOUS
    <3> HIDE DEF p
    <3>2. QED BY <2>2, <2>3, <3>1, AddedPick DEF SoundFacts
  <2>5. g.picks = s /\ g.bans = f.bans /\ g \in LiveFactsSet
    <3>1. g = [f EXCEPT !.picks = s,
                        !.localOnlyPick = IF o.viaLocalHero THEN o.heroId ELSE @]
      BY DEF AddPick
    <3> HIDE DEF s, g
    <3>2. QED BY <1>1, <2>4, <3>1 DEF SoundFacts, LiveFactsSet
  <2>6. SoundFacts(g)
    <3>1. p.heroId = o.heroId
      OBVIOUS
    <3> HIDE DEF p, s, g
    <3>2. QED BY <1>5, <2>4, <2>5, <3>1 DEF SoundFacts
  <2>7. Gains(f, g, o)
    <3>1. p.heroId = o.heroId /\ p.side = o.side
      OBVIOUS
    <3> HIDE DEF p, s, g
    <3>2. QED BY <2>4, <2>5, <3>1 DEF Gains
  <2>8. QED BY <2>1, <2>6, <2>7
<1>6. QED BY <1>3, <1>4, <1>5

(* An observation leaves the facts sound, and they only gain what it is    *)
(* about.                                                                  *)
LEMMA AppliedFacts ==
  ASSUME NEW f, SoundFacts(f), NEW o \in Observations
  PROVE  SoundFacts(ApplyLiveObservation(f, o)) /\ Gains(f, ApplyLiveObservation(f, o), o)
<1> DEFINE g == ApplyLiveObservation(f, o)
<1>1. f \in LiveFactsSet /\ f.picks \in Seq(LivePicks)
  BY DEF SoundFacts, LiveFactsSet
<1>2. ASSUME NEW h \in LiveFactsSet, h.picks = f.picks, h.bans \subseteq f.bans
      PROVE  SoundFacts(h) /\ Gains(f, h, o)
  BY <1>2 DEF SoundFacts, Gains
<1>3. CASE o.type = "draft_started"
  <2>1. g = [f EXCEPT !.started = TRUE]
    BY <1>3 DEF ApplyLiveObservation
  <2>2. g \in LiveFactsSet /\ g.picks = f.picks /\ g.bans = f.bans
    BY <1>1, <2>1 DEF LiveFactsSet
  <2> HIDE DEF g
  <2>3. QED BY <1>2, <2>2 DEF g
<1>4. CASE o.type = "side"
  <2>1. g = [f EXCEPT !.localSide = o.side]
    BY <1>4 DEF ApplyLiveObservation
  <2>2. g \in LiveFactsSet /\ g.picks = f.picks /\ g.bans = f.bans
    BY <1>1, <1>4, <2>1, ObservationTypes DEF LiveFactsSet
  <2> HIDE DEF g
  <2>3. QED BY <1>2, <2>2 DEF g
<1>5. CASE o.type = "bans_closed"
  <2>1. g = [f EXCEPT !.bansClosed = TRUE]
    BY <1>5 DEF ApplyLiveObservation
  <2>2. g \in LiveFactsSet /\ g.picks = f.picks /\ g.bans = f.bans
    BY <1>1, <2>1 DEF LiveFactsSet
  <2> HIDE DEF g
  <2>3. QED BY <1>2, <2>2 DEF g
<1>6. CASE o.type = "local_hero"
  <2>1. g = [f EXCEPT !.localHeroId = o.heroId]
    BY <1>6 DEF ApplyLiveObservation
  <2>2. g \in LiveFactsSet /\ g.picks = f.picks /\ g.bans = f.bans
    BY <1>1, <1>6, <2>1, ObservationTypes DEF LiveFactsSet
  <2> HIDE DEF g
  <2>3. QED BY <1>2, <2>2 DEF g
<1>7. CASE o.type = "ban"
  <2>1. o.heroId \in Heroes
    BY <1>7, ObservationTypes
  <2>2. g = ApplyBan(f, o.heroId)
    BY <1>7 DEF ApplyLiveObservation
  <2>3. CASE o.heroId \in PickedHeroes(f) \/ Cardinality(f.bans) >= MAX_LIVE_BANS
    <3>1. g = f
      BY <2>2, <2>3 DEF ApplyBan
    <3>2. QED BY <1>1, <1>2, <3>1
  <2>4. CASE ~(o.heroId \in PickedHeroes(f) \/ Cardinality(f.bans) >= MAX_LIVE_BANS)
    <3>1. g = [f EXCEPT !.bans = @ \cup {o.heroId}]
      BY <2>2, <2>4 DEF ApplyBan
    <3>2. g \in LiveFactsSet /\ g.picks = f.picks /\ g.bans = f.bans \cup {o.heroId}
      BY <1>1, <2>1, <3>1 DEF LiveFactsSet
    <3>3. \A q \in ToSet(f.picks) : q.heroId # o.heroId
      BY <1>1, <2>4, PicksInSeq DEF PickedHeroes
    <3> HIDE DEF g
    <3>4. SoundFacts(g)
      BY <3>2, <3>3 DEF SoundFacts
    <3>5. Gains(f, g, o)
      BY <1>7, <3>2 DEF Gains
    <3>6. QED BY <3>4, <3>5 DEF g
  <2>5. QED BY <2>3, <2>4
<1>8. CASE o.type = "unban"
  <2>1. g = [f EXCEPT !.bans = @ \ {o.heroId}]
    BY <1>8 DEF ApplyLiveObservation
  <2>2. g \in LiveFactsSet /\ g.picks = f.picks /\ g.bans \subseteq f.bans
    BY <1>1, <2>1 DEF LiveFactsSet
  <2> HIDE DEF g
  <2>3. QED BY <1>2, <2>2 DEF g
<1>9. CASE o.type = "revert"
  <2>1. g = ApplyRevert(f, o)
    BY <1>9 DEF ApplyLiveObservation
  <2>2. CASE ~HasPick(f, o.side, o.heroId)
    <3>1. g = f
      BY <2>1, <2>2 DEF ApplyRevert
    <3>2. QED BY <1>1, <1>2, <3>1
  <2>3. CASE HasPick(f, o.side, o.heroId)
    <3> DEFINE w == WithoutPick(f, o.heroId)
    <3>1. w \in Seq(LivePicks) /\ OnceEach(w) /\ ToSet(w) \subseteq ToSet(f.picks)
      BY <1>1, WithoutPickKeeps DEF SoundFacts
    <3>2. g = [f EXCEPT !.picks = w, !.localOnlyPick = IF @ = o.heroId THEN NoHero ELSE @]
      BY <2>1, <2>3 DEF ApplyRevert
    <3> HIDE DEF w, g
    <3>3. g \in LiveFactsSet /\ g.picks = w /\ g.bans = f.bans
      BY <1>1, <3>1, <3>2 DEF LiveFactsSet
    <3>4. SoundFacts(g)
      BY <3>1, <3>3 DEF SoundFacts
    <3>5. Gains(f, g, o)
      BY <3>1, <3>3 DEF Gains
    <3>6. QED BY <3>4, <3>5 DEF g
  <2>4. QED BY <2>2, <2>3
<1>10. CASE o.type = "pick"
  <2> DEFINE e == IF o.viaLocalHero THEN WithoutStaleLocalPick(f, o.heroId) ELSE f
  <2>1. g = ApplyPick(e, o)
    BY <1>10 DEF ApplyLiveObservation
  <2>2. SoundFacts(e) /\ e.bans = f.bans /\ ToSet(e.picks) \subseteq ToSet(f.picks)
    BY <1>10, ObservationTypes, StaleLocalPickKeeps
  <2> HIDE DEF e, g
  <2>3. SoundFacts(g) /\ Gains(e, g, o)
    BY <1>10, <2>1, <2>2, ApplyPickKeeps
  <2>4. Gains(f, g, o)
    BY <2>2, <2>3 DEF Gains
  <2>5. QED BY <2>3, <2>4 DEF g
<1>11. QED
  BY <1>3, <1>4, <1>5, <1>6, <1>7, <1>8, <1>9, <1>10, ObservationTypes

----------------------------------------------------------------------------
(* A hero nobody has sealed is sealed in an open slot                      *)

(* The draft has the hero of a seal in its slot, sealed or confirmed.      *)
HeldAt(d, s) ==
  \/ /\ s.round = d.round
     /\ [side |-> s.side, slotIndex |-> s.slotIndex, heroId |-> s.heroId] \in d.sealed
  \/ [side |-> s.side, round |-> s.round, slotIndex |-> s.slotIndex, heroId |-> s.heroId]
       \in d.confirmedPicks

(* A submission that leaves no hero sealed twice: nothing is banned, no    *)
(* authority is awaited, and every hero stays where it is.                 *)
Places(d, a, slot, h) ==
  /\ Sound(a) /\ a.pendingCollision = NoHero /\ a.bannedHeroes = d.bannedHeroes
  /\ d.phase # BAN_RESOLUTION => a.phase # BAN_RESOLUTION
  /\ \A s : HeldAt(d, s) => HeldAt(a, s)
  /\ \A s : (s.round = d.round /\ SlotOf(s) = slot /\ s.heroId = h) => HeldAt(a, s)
  /\ \A e \in a.sealed : e \in d.sealed \cup {Entry(slot, h)}
  /\ \A p \in a.confirmedPicks \ d.confirmedPicks :
       \E e \in d.sealed \cup {Entry(slot, h)} : p.side = e.side /\ p.heroId = e.heroId

LEMMA SubmitPlaces ==
  ASSUME NEW d, Sound(d), NEW slot, NEW h \in Heroes, IsSealedSelectionLegal(d, slot, h),
         \A e \in d.sealed : e.heroId # h,
         \A e, f \in d.sealed : e.heroId = f.heroId => e = f
  PROVE  /\ AcceptsSealedSelection(d, slot, h)
         /\ Places(d, SubmitSealedSelection(d, slot, h), slot, h)
<1> DEFINE b == Seal(d, slot, h)
           a == SubmitSealedSelection(d, slot, h)
<1>1. /\ slot \in d.openSlots /\ slot \in [side : Sides, slotIndex : Nat]
      /\ d.round \in Rounds /\ d.pendingCollision = NoHero
  BY SealKeepsParts
<1>2. /\ b \in Drafts /\ b.sealed = d.sealed \cup {Entry(slot, h)}
      /\ SlotOf(Entry(slot, h)) = slot /\ Entry(slot, h).heroId = h /\ Entry(slot, h).side = slot.side
      /\ b.bannedHeroes = d.bannedHeroes /\ b.confirmedPicks = d.confirmedPicks
      /\ b.round = d.round /\ b.phase = d.phase /\ b.pendingCollision = d.pendingCollision
  BY <1>1, SealFields
<1>3. \A e, f \in b.sealed : e.heroId = f.heroId => e = f
  BY <1>2
<1>4. Collisions(b) = {}
  BY <1>3 DEF Collisions, Entries
<1>5. ClosesBatch(d, slot) => ~ResolutionFails(b)
  <2>1. ~ResolutionFails(b)
    BY <1>4 DEF ResolutionFails
  <2>2. QED BY <2>1
<1>6. AcceptsSealedSelection(d, slot, h)
  BY <1>1, <1>5 DEF AcceptsSealedSelection
<1>7. Sound(a)
  BY <1>6, SubmitIsSound
<1>8. ASSUME NEW s, s.round = d.round, SlotOf(s) = slot, s.heroId = h
      PROVE  [side |-> s.side, slotIndex |-> s.slotIndex, heroId |-> s.heroId] = Entry(slot, h)
  <2>1. s.side = slot.side /\ s.slotIndex = slot.slotIndex
    <3>1. SlotOf(s).side = s.side /\ SlotOf(s).slotIndex = s.slotIndex
      BY DEF SlotOf
    <3>2. QED BY <1>8, <3>1
  <2>2. QED BY <1>8, <2>1 DEF Entry
<1>9. CASE ~ClosesBatch(d, slot)
  <2>1. a = b
    BY <1>9 DEF SubmitSealedSelection
  <2> HIDE DEF a, b
  <2>2. \A s : HeldAt(d, s) => HeldAt(a, s)
    BY <1>2, <2>1 DEF HeldAt
  <2>3. ASSUME NEW s, s.round = d.round, SlotOf(s) = slot, s.heroId = h PROVE HeldAt(a, s)
    <3>1. [side |-> s.side, slotIndex |-> s.slotIndex, heroId |-> s.heroId] = Entry(slot, h)
      BY <1>8, <2>3
    <3>2. QED BY <1>2, <2>1, <2>3, <3>1 DEF HeldAt
  <2>4. Places(d, a, slot, h)
    BY <1>1, <1>2, <1>7, <2>1, <2>2, <2>3 DEF Places
  <2>5. QED BY <1>6, <2>4 DEF a
<1>10. CASE ClosesBatch(d, slot)
  <2>1. a = ResolveRound(b)
    BY <1>10 DEF SubmitSealedSelection
  <2>2. Closed(b)
    BY <1>10, SealCloses
  <2> HIDE DEF a, b
  <2>3. Advances(b, a) /\ a.bannedHeroes = b.bannedHeroes
    BY <1>4, <2>1, <2>2, NoCollisionAdvances
  <2>4. a.sealed = {} /\ a.confirmedPicks = b.confirmedPicks \cup {Confirm(b, e) : e \in b.sealed}
    BY <2>3 DEF Advances
  <2>5. a.pendingCollision = NoHero
    <3>1. Unresolved(a) = {}
      BY <2>4 DEF Unresolved, Contested, Collisions, Entries
    <3>2. QED BY <1>7, <3>1 DEF Sound, WaitsRightly
  <2>6. ASSUME NEW s, s.round = d.round,
               [side |-> s.side, slotIndex |-> s.slotIndex, heroId |-> s.heroId] \in b.sealed
        PROVE  HeldAt(a, s)
    <3> DEFINE e == [side |-> s.side, slotIndex |-> s.slotIndex, heroId |-> s.heroId]
    <3>1. Confirm(b, e) = [side |-> s.side, round |-> s.round, slotIndex |-> s.slotIndex, heroId |-> s.heroId]
      BY <1>2, <2>6 DEF Confirm
    <3>2. Confirm(b, e) \in a.confirmedPicks
      BY <2>4, <2>6
    <3>3. QED BY <3>1, <3>2 DEF HeldAt
  <2>7. \A s : HeldAt(d, s) => HeldAt(a, s)
    <3>1. ASSUME NEW s, HeldAt(d, s) PROVE HeldAt(a, s)
      <4>1. CASE s.round = d.round /\ [side |-> s.side, slotIndex |-> s.slotIndex, heroId |-> s.heroId] \in d.sealed
        BY <1>2, <2>6, <4>1
      <4>2. CASE [side |-> s.side, round |-> s.round, slotIndex |-> s.slotIndex, heroId |-> s.heroId] \in d.confirmedPicks
        BY <1>2, <2>4, <4>2 DEF HeldAt
      <4>3. QED BY <3>1, <4>1, <4>2 DEF HeldAt
    <3>2. QED BY <3>1
  <2>8. ASSUME NEW s, s.round = d.round, SlotOf(s) = slot, s.heroId = h PROVE HeldAt(a, s)
    BY <1>2, <1>8, <2>6, <2>8
  <2>9. ASSUME NEW p \in a.confirmedPicks \ d.confirmedPicks
        PROVE  \E e \in d.sealed \cup {Entry(slot, h)} : p.side = e.side /\ p.heroId = e.heroId
    <3>1. PICK e \in b.sealed : p = Confirm(b, e)
      BY <1>2, <2>4
    <3>2. p.side = e.side /\ p.heroId = e.heroId
      BY <3>1 DEF Confirm
    <3>3. QED BY <1>2, <3>1, <3>2
  <2>10. Places(d, a, slot, h)
    <3>1. a.phase # BAN_RESOLUTION
      BY <1>2, <2>3 DEF Advances, Drafts, BAN_RESOLUTION
    <3>2. QED BY <1>2, <1>7, <2>3, <2>4, <2>5, <2>7, <2>8, <2>9, <3>1 DEF Places
  <2>11. QED BY <1>6, <2>10 DEF a
<1>11. QED BY <1>9, <1>10

----------------------------------------------------------------------------
(* The replay                                                              *)

LiveSeals ==
  [ side : Sides, round : Rounds, slotIndex : Nat, heroId : Heroes,
    position : Positions \cup {NoPosition} ]
StatedPick(s) == [side |-> s.side, heroId |-> s.heroId, position |-> s.position]

(* Between two turns of the loop the picks of the facts are pending or     *)
(* sealed, the draft holds the sealed ones and nothing else, and none was  *)
(* refused.                                                                *)
Replaying(f, r) ==
  /\ r \in [draft : Drafts, pending : Seq(LivePicks), seals : Seq(LiveSeals), rejected : {0}]
  /\ Sound(r.draft) /\ r.draft.pendingCollision = NoHero /\ r.draft.bannedHeroes = f.bans
  /\ OnceEach(r.pending) /\ OnceEach(r.seals)
  /\ \A p \in ToSet(r.pending), s \in ToSet(r.seals) : p.heroId # s.heroId
  /\ ToSet(f.picks) = ToSet(r.pending) \cup {StatedPick(s) : s \in ToSet(r.seals)}
  /\ \A s \in ToSet(r.seals) : HeldAt(r.draft, s)
  /\ \A e \in r.draft.sealed \cup r.draft.confirmedPicks :
       \E s \in ToSet(r.seals) : s.side = e.side /\ s.heroId = e.heroId

Replays(f) ==
  {r \in [draft : Drafts, pending : Seq(LivePicks), seals : Seq(LiveSeals), rejected : {0}] :
     Replaying(f, r)}

(* The least open slot of a pick's side takes it.                          *)
LEMMA PendingIsLegal ==
  ASSUME NEW f, SoundFacts(f), NEW r, Replaying(f, r), NEW p \in ToSet(r.pending),
         OpenFor(r.draft, p.side) # {},
         NEW slot, slot = [side |-> p.side, slotIndex |-> Min(OpenFor(r.draft, p.side))]
  PROVE  /\ IsSealedSelectionLegal(r.draft, slot, p.heroId)
         /\ p \in LivePicks /\ r.draft.round \in Rounds /\ slot \in [side : Sides, slotIndex : Nat]
         /\ \A e \in r.draft.sealed : e.heroId # p.heroId
         /\ \A e, g \in r.draft.sealed : e.heroId = g.heroId => e = g
<1> DEFINE d == r.draft
           open == OpenFor(d, p.side)
<1>1. /\ d \in Drafts /\ Sound(d) /\ r.pending \in Seq(LivePicks) /\ r.seals \in Seq(LiveSeals)
      /\ d.openSlots \in SUBSET [side : Sides, slotIndex : Nat]
  BY DEF Replaying, Drafts
<1>2. p \in LivePicks
  BY <1>1, PicksInSeq
<1>3. d.round # 0 /\ LegalGameplayActions(d) = d.openSlots
  BY DEF OpenFor, LegalGameplayActions
<1>4. open \in SUBSET Nat
  BY <1>1, <1>3 DEF OpenFor
<1>5. Min(open) \in open
  <2> HIDE DEF open
  <2>1. open # {}
    BY DEF open
  <2>2. QED BY <1>4, <2>1, MinOf
<1>6. slot \in d.openSlots
  <2>1. PICK t \in d.openSlots : t.side = p.side /\ t.slotIndex = Min(open)
    BY <1>3, <1>5 DEF OpenFor
  <2> HIDE DEF open
  <2>2. t = [side |-> p.side, slotIndex |-> Min(open)]
    BY <1>1, <2>1
  <2>3. QED BY <2>2 DEF open
<1>7. \A e \in d.sealed \cup d.confirmedPicks : e.heroId # p.heroId
  BY DEF Replaying
<1>8. p.heroId \notin d.bannedHeroes
  BY DEF Replaying, SoundFacts
<1>9. ~HeroAlreadyTaken(d, p.heroId)
  BY <1>7, <1>8 DEF HeroAlreadyTaken, HeroesOf
<1>10. ASSUME NEW e \in d.sealed, NEW g \in d.sealed, e.heroId = g.heroId PROVE e = g
  <2>1. PICK s \in ToSet(r.seals) : s.side = e.side /\ s.heroId = e.heroId
    BY DEF Replaying
  <2>2. PICK t \in ToSet(r.seals) : t.side = g.side /\ t.heroId = g.heroId
    BY DEF Replaying
  <2>3. s = t
    BY <1>1, <1>10, <2>1, <2>2, PicksInSeq DEF Replaying, OnceEach
  <2>4. QED BY <1>1, <1>10, <2>1, <2>2, <2>3 DEF Sound, HeldOnce
<1>11. d.round \in Rounds
  BY <1>1, <1>3 DEF Drafts, Rounds
<1>12. QED
  BY <1>1, <1>2, <1>3, <1>6, <1>7, <1>9, <1>10, <1>11 DEF IsSealedSelectionLegal

LEMMA TurnStays ==
  ASSUME NEW f, SoundFacts(f), NEW r, Replaying(f, r)
  PROVE  /\ Replaying(f, SealNext(r))
         /\ r.draft.phase # BAN_RESOLUTION => SealNext(r).draft.phase # BAN_RESOLUTION
         /\ NoneReady(r) \/ Len(SealNext(r).pending) = Len(r.pending) - 1
<1> DEFINE ready == {i \in DOMAIN r.pending : OpenFor(r.draft, r.pending[i].side) # {}}
<1>1. CASE ready = {}
  BY <1>1 DEF SealNext, NoneReady
<1>2. CASE ready # {}
  <2>1. /\ r.pending \in Seq(LivePicks) /\ r.seals \in Seq(LiveSeals) /\ r.rejected = 0
        /\ DOMAIN r.pending = 1..Len(r.pending) /\ Len(r.pending) \in Nat
    BY PicksInSeq DEF Replaying
  <2> DEFINE m == Min(ready)
  <2>2. m \in 1..Len(r.pending) /\ OpenFor(r.draft, r.pending[m].side) # {}
    <3>1. ready \in SUBSET Nat
      BY <2>1
    <3>2. m \in ready
      <4> HIDE DEF ready
      <4>1. QED BY <1>2, <3>1, MinOf
    <3> HIDE DEF m
    <3>3. QED BY <2>1, <3>2
  <2> HIDE DEF m
  <2> DEFINE pick == r.pending[m]
             slot == [side |-> pick.side, slotIndex |-> Min(OpenFor(r.draft, pick.side))]
             rest == RemoveAt(r.pending, m)
             seal == [side |-> pick.side, round |-> r.draft.round, slotIndex |-> slot.slotIndex,
                      heroId |-> pick.heroId, position |-> pick.position]
             d == SubmitSealedSelection(r.draft, slot, pick.heroId)
             t == [r EXCEPT !.pending = rest, !.draft = d, !.seals = Append(@, seal)]
  <2>3. SealNext(r) =
          IF ~AcceptsSealedSelection(r.draft, slot, pick.heroId)
          THEN [r EXCEPT !.pending = rest, !.rejected = @ + 1] ELSE t
    BY <1>2 DEF SealNext, m
  <2>4. pick \in ToSet(r.pending)
    BY <2>1, <2>2, PicksInSeq
  <2>5. /\ IsSealedSelectionLegal(r.draft, slot, pick.heroId)
        /\ pick \in LivePicks /\ r.draft.round \in Rounds /\ slot \in [side : Sides, slotIndex : Nat]
        /\ \A e \in r.draft.sealed : e.heroId # pick.heroId
        /\ \A e, g \in r.draft.sealed : e.heroId = g.heroId => e = g
    <3>1. OpenFor(r.draft, pick.side) # {}
      BY <2>2
    <3>2. slot = [side |-> pick.side, slotIndex |-> Min(OpenFor(r.draft, pick.side))]
      OBVIOUS
    <3> HIDE DEF pick, slot
    <3>3. QED BY <2>4, <3>1, <3>2, PendingIsLegal
  <2>6. /\ seal \in LiveSeals /\ StatedPick(seal) = pick
        /\ seal.side = pick.side /\ seal.heroId = pick.heroId
        /\ seal.round = r.draft.round /\ SlotOf(seal) = slot
    BY <2>5 DEF LivePicks, LiveSeals, StatedPick, SlotOf
  <2>7. /\ Entry(slot, pick.heroId).side = seal.side
        /\ Entry(slot, pick.heroId).heroId = seal.heroId
        /\ pick.heroId \in Heroes
    BY <2>5, <2>6 DEF Entry, LivePicks
  <2>8. Sound(r.draft)
    BY DEF Replaying
  <2> HIDE DEF pick, slot, seal, d
  <2>9. AcceptsSealedSelection(r.draft, slot, pick.heroId) /\ Places(r.draft, d, slot, pick.heroId)
    BY <2>5, <2>7, <2>8, SubmitPlaces DEF d
  <2>10. /\ rest \in Seq(LivePicks) /\ OnceEach(rest) /\ Len(rest) = Len(r.pending) - 1
         /\ ToSet(rest) = ToSet(r.pending) \ {pick}
         /\ \A p \in ToSet(rest) : p.heroId # pick.heroId
    BY <2>1, <2>2, RemovedAt, RemovedPick DEF Replaying, pick
  <2>11. \A s \in ToSet(r.seals) : s.heroId # seal.heroId
    BY <2>4, <2>6 DEF Replaying
  <2>12. /\ Append(r.seals, seal) \in Seq(LiveSeals) /\ OnceEach(Append(r.seals, seal))
         /\ ToSet(Append(r.seals, seal)) = ToSet(r.seals) \cup {seal}
    BY <2>1, <2>6, <2>11, AddedPick DEF Replaying
  <2> HIDE DEF rest
  <2>13. /\ t \in [draft : Drafts, pending : Seq(LivePicks), seals : Seq(LiveSeals), rejected : {0}]
         /\ t.draft = d /\ t.pending = rest /\ t.seals = Append(r.seals, seal) /\ t.rejected = 0
    <3>1. d \in Drafts
      BY <2>9 DEF Places, Sound
    <3>2. r \in [draft : Drafts, pending : Seq(LivePicks), seals : Seq(LiveSeals), rejected : {0}]
      BY DEF Replaying
    <3>3. QED BY <2>10, <2>12, <3>1, <3>2
  <2>14. SealNext(r) = t
    BY <2>3, <2>9
  <2> HIDE DEF t
  <2>15. ToSet(f.picks) = ToSet(t.pending) \cup {StatedPick(s) : s \in ToSet(t.seals)}
    <3>1. ToSet(f.picks) = ToSet(r.pending) \cup {StatedPick(s) : s \in ToSet(r.seals)}
      BY DEF Replaying
    <3>2. {StatedPick(s) : s \in ToSet(t.seals)} = {StatedPick(s) : s \in ToSet(r.seals)} \cup {pick}
      BY <2>6, <2>12, <2>13
    <3>3. ToSet(t.pending) \cup {pick} = ToSet(r.pending)
      BY <2>4, <2>10, <2>13
    <3>4. QED BY <3>1, <3>2, <3>3
  <2>16. \A p \in ToSet(t.pending), s \in ToSet(t.seals) : p.heroId # s.heroId
    BY <2>6, <2>10, <2>12, <2>13 DEF Replaying
  <2>17. \A s \in ToSet(t.seals) : HeldAt(t.draft, s)
    BY <2>6, <2>9, <2>12, <2>13 DEF Replaying, Places
  <2>18. ASSUME NEW e \in t.draft.sealed \cup t.draft.confirmedPicks
         PROVE  \E s \in ToSet(t.seals) : s.side = e.side /\ s.heroId = e.heroId
    <3>1. \E g \in r.draft.sealed \cup r.draft.confirmedPicks \cup {Entry(slot, pick.heroId)} :
            e.side = g.side /\ e.heroId = g.heroId
      BY <2>9, <2>13, <2>18 DEF Places
    <3>2. \A g \in r.draft.sealed \cup r.draft.confirmedPicks :
            \E s \in ToSet(r.seals) : s.side = g.side /\ s.heroId = g.heroId
      BY DEF Replaying
    <3>3. QED BY <2>7, <2>12, <2>13, <3>1, <3>2
  <2>19. Replaying(f, t)
    BY <2>9, <2>10, <2>12, <2>13, <2>15, <2>16, <2>17, <2>18 DEF Replaying, Places
  <2>20. /\ r.draft.phase # BAN_RESOLUTION => t.draft.phase # BAN_RESOLUTION
         /\ Len(t.pending) = Len(r.pending) - 1
    BY <2>9, <2>10, <2>13 DEF Places
  <2>21. QED BY <2>14, <2>19, <2>20
<1>3. QED BY <1>1, <1>2

(* The draft a replay starts from holds the bans of the facts, no pick, and*)
(* is sound, whether or not it is past its bans.                           *)
LEMMA ReplayStarts ==
  ASSUME NEW f, SoundFacts(f), NEW d, d \in {WithBans(f), BanResolutionComplete(WithBans(f))}
  PROVE  Replaying(f, [draft |-> d, pending |-> f.picks, seals |-> <<>>, rejected |-> 0])
<1> DEFINE b == WithBans(f)
<1>1. f.bans \in SUBSET Heroes /\ f.picks \in Seq(LivePicks) /\ OnceEach(f.picks)
  BY DEF SoundFacts, LiveFactsSet
<1>2. Sound(NewDraft) /\ AcceptsResolvedBans(NewDraft, f.bans)
  BY NewIsSound DEF NewDraft, AcceptsResolvedBans
<1>3. /\ Sound(b) /\ b.bannedHeroes = f.bans /\ b.sealed = {} /\ b.confirmedPicks = {}
      /\ b.pendingCollision = NoHero /\ b.phase = BAN_RESOLUTION /\ ~b.banResolutionComplete
  <2>1. CASE f.bans = {}
    BY <1>2, <2>1 DEF WithBans, NewDraft
  <2>2. CASE f.bans # {}
    <3>1. b = RecordResolvedBans(NewDraft, f.bans)
      BY <2>2 DEF WithBans
    <3>2. Sound(RecordResolvedBans(NewDraft, f.bans))
      BY <1>1, <1>2, RecordIsSound
    <3>3. QED BY <3>1, <3>2 DEF RecordResolvedBans, NewDraft
  <2>3. QED BY <2>1, <2>2
<1> HIDE DEF b
<1>4. CASE d = b
  <2>1. /\ Sound(d) /\ d.bannedHeroes = f.bans /\ d.sealed = {} /\ d.confirmedPicks = {}
        /\ d.pendingCollision = NoHero /\ d \in Drafts
    BY <1>3, <1>4 DEF Sound
  <2>2. QED BY <1>1, <2>1 DEF Replaying, OnceEach, ToSet
<1>5. CASE d = BanResolutionComplete(b)
  <2>1. Sound(d)
    BY <1>3, <1>5, BansCompleteIsSound DEF AcceptsBanResolutionComplete
  <2>2. d.bannedHeroes = f.bans /\ d.confirmedPicks = {}
    BY <1>3, <1>5, BansCompleteKeeps DEF Sound
  <2>3. d.sealed = {} /\ d.pendingCollision = NoHero /\ d \in Drafts
    <3>1. b \in Drafts
      BY <1>3 DEF Sound
    <3>2. QED BY <1>5, <2>1, <3>1 DEF BanResolutionComplete, EnterRound, Sound, Drafts
  <2>4. QED BY <1>1, <2>1, <2>2, <2>3 DEF Replaying, OnceEach, ToSet
<1>6. QED BY <1>4, <1>5 DEF b

(* What a replay returns: each pick of the facts sealed in the draft or    *)
(* deferred, none refused, and none deferred that has an open slot once    *)
(* the draft is past its bans.                                             *)
LEMMA ReplayedPicks ==
  ASSUME NEW f, SoundFacts(f)
  PROVE  /\ Replaying(f, ReplayPicks(f))
         /\ Picking(f) => /\ ReplayPicks(f).draft.phase # BAN_RESOLUTION
                          /\ NoneReady(ReplayPicks(f))
<1> DEFINE start(d) == [draft |-> d, pending |-> f.picks, seals |-> <<>>, rejected |-> 0]
<1>1. CASE ~Picking(f)
  BY <1>1, ReplayStarts DEF ReplayPicks
<1>2. CASE Picking(f)
  <2> DEFINE r == start(BanResolutionComplete(WithBans(f)))
             X == {t \in Replays(f) : t.draft.phase # BAN_RESOLUTION}
  <2>1. Replaying(f, r)
    BY ReplayStarts
  <2>2. ReplayPicks(f) = SealAll(r)
    BY <1>2 DEF ReplayPicks
  <2>3. r.pending \in Seq(LivePicks) /\ Len(r.pending) \in Nat
    <3>1. f.picks \in Seq(LivePicks)
      BY DEF SoundFacts, LiveFactsSet
    <3>2. Len(f.picks) \in Nat
      BY <3>1
    <3>3. QED BY <3>1, <3>2
  <2>4. r.draft.phase # BAN_RESOLUTION
    <3>1. Replaying(f, start(WithBans(f)))
      BY ReplayStarts
    <3>2. WithBans(f) \in Drafts
      BY <3>1 DEF Replaying
    <3> DEFINE b == WithBans(f)
               a == BanResolutionComplete(b)
    <3>3. b \in Drafts
      BY <3>2
    <3> HIDE DEF b
    <3>4. a.phase = 1
      BY <3>3 DEF BanResolutionComplete, EnterRound, Drafts
    <3> HIDE DEF a
    <3>5. r.draft = a
      BY DEF a, b
    <3>6. QED BY <3>4, <3>5 DEF BAN_RESOLUTION
  <2> HIDE DEF r
  <2>5. r \in X
    BY <2>1, <2>4 DEF Replays, Replaying
  <2>6. ASSUME NEW t \in X
        PROVE  /\ SealNext(t) \in X
               /\ t.pending \in Seq(LivePicks)
               /\ (NoneReady(t) /\ SealNext(t) = t) \/ Len(SealNext(t).pending) = Len(t.pending) - 1
    <3>1. Replaying(f, t) /\ t.draft.phase # BAN_RESOLUTION
      BY DEF Replays
    <3>2. /\ Replaying(f, SealNext(t)) /\ SealNext(t).draft.phase # BAN_RESOLUTION
          /\ NoneReady(t) \/ Len(SealNext(t).pending) = Len(t.pending) - 1
      BY <3>1, TurnStays
    <3>3. NoneReady(t) => SealNext(t) = t
      BY NoneReadyStays
    <3>4. QED BY <3>1, <3>2, <3>3 DEF Replays, Replaying
  <2> HIDE DEF X
  <2>7. SealAll(r) \in X
    BY <2>3, <2>5, <2>6, SealAllStays
  <2>8. NoneReady(SealAll(r))
    BY <2>3, <2>5, <2>6, SealAllSettles
  <2>9. QED BY <1>2, <2>2, <2>7, <2>8 DEF X, Replays
<1>3. QED BY <1>1, <1>2

----------------------------------------------------------------------------
(* The bindings                                                            *)

(* A sound draft holds one hero in a slot.                                 *)
LEMMA HeldOnePerSlot ==
  ASSUME NEW d, Sound(d), NEW s, NEW t, HeldAt(d, s), HeldAt(d, t),
         s.side = t.side, s.round = t.round, s.slotIndex = t.slotIndex
  PROVE  s.heroId = t.heroId
<1> DEFINE entry(x) == [side |-> x.side, slotIndex |-> x.slotIndex, heroId |-> x.heroId]
           pick(x) == [side |-> x.side, round |-> x.round, slotIndex |-> x.slotIndex, heroId |-> x.heroId]
<1>1. \A x : SlotOf(entry(x)) = SlotOf(x) /\ SlotOf(pick(x)) = SlotOf(x)
  BY DEF SlotOf
<1>2. SlotOf(s) = SlotOf(t)
  BY DEF SlotOf
<1>3. \A x : (x.round = d.round /\ entry(x) \in d.sealed) => d.round \in Rounds
  BY RoundsAssumption DEF Sound, Drafts, Rounds
<1>4. \A x : (x.round = d.round /\ entry(x) \in d.sealed) => SlotOf(x) \in SlotsOf(d.sealed)
  BY <1>1 DEF SlotsOf
<1>5. \A x : (x.round = d.round /\ pick(x) \in d.confirmedPicks)
               => SlotOf(x) \in ConfirmedSlots(d, d.round)
  BY <1>1 DEF ConfirmedSlots, SlotsOf
<1>6. CASE s.round = d.round /\ entry(s) \in d.sealed
  <2>1. d.round # 0 /\ SlotsOf(d.sealed) \cap ConfirmedSlots(d, d.round) = {}
    BY <1>3, <1>6, RoundsAssumption DEF Sound, Conserved, Rounds
  <2>2. entry(t) \in d.sealed
    BY <1>2, <1>4, <1>5, <1>6, <2>1 DEF HeldAt
  <2>3. entry(s) = entry(t)
    BY <1>1, <1>2, <1>6, <2>2 DEF Sound, Conserved
  <2>4. QED BY <2>3
<1>7. CASE pick(s) \in d.confirmedPicks
  <2>1. pick(t) \in d.confirmedPicks
    <3>1. CASE t.round = d.round /\ entry(t) \in d.sealed
      <4>1. d.round # 0 /\ SlotsOf(d.sealed) \cap ConfirmedSlots(d, d.round) = {}
        BY <1>3, <3>1, RoundsAssumption DEF Sound, Conserved, Rounds
      <4>2. QED BY <1>2, <1>4, <1>5, <1>7, <3>1, <4>1
    <3>2. QED BY <3>1 DEF HeldAt
  <2>2. pick(s) = pick(t)
    <3>1. pick(s).round = pick(t).round
      OBVIOUS
    <3>2. QED BY <1>1, <1>2, <1>7, <2>1, <3>1 DEF Sound, Conserved
  <2>3. QED BY <2>2
<1>8. QED BY <1>6, <1>7 DEF HeldAt

(* What a binding says of the seal s it is about.                          *)
Binds(b, s, side, humanPosition, localHeroId) ==
  /\ s.side = side /\ b.round = s.round /\ b.slotIndex = s.slotIndex
  /\ b.assignedPosition # NoPosition
  /\ \/ b.provenance = "EXPLICIT" /\ b.assignedPosition = s.position
     \/ /\ b.provenance = "LOCAL_PLAYER" /\ b.assignedPosition = humanPosition
        /\ s.heroId = localHeroId

LEMMA OwnBindingsSay ==
  ASSUME NEW seals \in Seq(LiveSeals), NEW side, NEW humanPosition \in Positions \cup {NoPosition},
         NEW localHeroId, NEW b \in OwnBindings(seals, side, humanPosition, localHeroId)
  PROVE  /\ b \in [round : Rounds, slotIndex : Nat, assignedPosition : Positions,
                   provenance : {"EXPLICIT", "LOCAL_PLAYER"}]
         /\ \E s \in ToSet(seals) : Binds(b, s, side, humanPosition, localHeroId)
<1>1. /\ DOMAIN seals = 1..Len(seals)
      /\ \A i \in DOMAIN seals : seals[i] \in LiveSeals /\ seals[i] \in ToSet(seals)
  BY PicksInSeq
<1>2. CASE \E i \in Explicit(seals, side) : b = Binding(seals[i], seals[i].position, "EXPLICIT")
  <2>1. PICK i \in Explicit(seals, side) : b = Binding(seals[i], seals[i].position, "EXPLICIT")
    BY <1>2
  <2>2. i \in DOMAIN seals /\ seals[i].side = side /\ seals[i].position # NoPosition
    BY DEF Explicit, Own
  <2>3. seals[i] \in LiveSeals /\ seals[i] \in ToSet(seals) /\ seals[i].position \in Positions
    BY <1>1, <2>2 DEF LiveSeals
  <2>4. b \in [round : Rounds, slotIndex : Nat, assignedPosition : Positions,
               provenance : {"EXPLICIT", "LOCAL_PLAYER"}]
    BY <2>1, <2>3 DEF Binding, LiveSeals
  <2>5. Binds(b, seals[i], side, humanPosition, localHeroId)
    BY <2>1, <2>2 DEF Binding, Binds
  <2>6. QED BY <2>3, <2>4, <2>5
<1>3. CASE \E i \in LocalBound(seals, side, humanPosition, localHeroId) :
             b = Binding(seals[i], humanPosition, "LOCAL_PLAYER")
  <2>1. PICK i \in LocalBound(seals, side, humanPosition, localHeroId) :
               b = Binding(seals[i], humanPosition, "LOCAL_PLAYER")
    BY <1>3
  <2>2. /\ i \in DOMAIN seals /\ seals[i].side = side /\ seals[i].heroId = localHeroId
        /\ humanPosition # NoPosition
    BY DEF LocalBound, Own
  <2>3. seals[i] \in LiveSeals /\ seals[i] \in ToSet(seals) /\ humanPosition \in Positions
    BY <1>1, <2>2
  <2>4. b \in [round : Rounds, slotIndex : Nat, assignedPosition : Positions,
               provenance : {"EXPLICIT", "LOCAL_PLAYER"}]
    BY <2>1, <2>3 DEF Binding, LiveSeals
  <2>5. Binds(b, seals[i], side, humanPosition, localHeroId)
    BY <2>1, <2>2 DEF Binding, Binds
  <2>6. QED BY <2>3, <2>4, <2>5
<1>4. QED BY <1>2, <1>3 DEF OwnBindings

(* No position is bound twice.                                             *)
LEMMA OwnBindingsOnce ==
  ASSUME NEW seals \in Seq(LiveSeals), OnceEach(seals), NEW side, NEW humanPosition, NEW localHeroId,
         NEW b \in OwnBindings(seals, side, humanPosition, localHeroId),
         NEW c \in OwnBindings(seals, side, humanPosition, localHeroId),
         b.assignedPosition = c.assignedPosition
  PROVE  b = c
<1> DEFINE E == Explicit(seals, side)
           L == LocalBound(seals, side, humanPosition, localHeroId)
           stated(x) == \E i \in E : x = Binding(seals[i], seals[i].position, "EXPLICIT")
           local(x) == \E i \in L : x = Binding(seals[i], humanPosition, "LOCAL_PLAYER")
<1>1. (stated(b) \/ local(b)) /\ (stated(c) \/ local(c))
  BY DEF OwnBindings
<1>2. \A s, p, w : Binding(s, p, w).assignedPosition = p
  BY DEF Binding
<1>3. \A i, j \in E : seals[i].position = seals[j].position => i = j
  BY DEF Explicit, Own
<1>4. \A i, j \in L : i = j
  BY DEF LocalBound, Own, OnceEach
<1>5. \A i \in L, j \in E : seals[j].position # humanPosition
  BY DEF LocalBound
<1>6. CASE stated(b) /\ stated(c)
  BY <1>2, <1>3, <1>6
<1>7. CASE local(b) /\ local(c)
  BY <1>4, <1>7
<1>8. ~(stated(b) /\ local(c)) /\ ~(local(b) /\ stated(c))
  BY <1>2, <1>5
<1>9. QED BY <1>1, <1>6, <1>7, <1>8
=============================================================================
