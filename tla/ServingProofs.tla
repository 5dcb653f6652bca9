--------------------------- MODULE ServingProofs ----------------------------
(***************************************************************************)
(* What the server promises to those who ask: of the keys that let a       *)
(* request in (Access), that it implements Keys, serves only what is       *)
(* allowed and counts each use once; of a chat (Answering), that its       *)
(* context is sound, its calls get their results, its answer is whole, and *)
(* it is not given up while a host is up. For every set of keys, changes,  *)
(* chunks, pages and hosts, every budget and every number of crashes,      *)
(* failures and rounds. Both count with sums over functions, of which the  *)
(* first section says what they are.                                       *)
(***************************************************************************)
EXTENDS Access, Answering, TLAPS, FiniteSetTheorems

-----------------------------------------------------------------------------
(* Sums of functions, and sequences of steps.                              *)

\* The element of a set that the sum over the set takes first, and what the sum is over
\* each subset, f being what is summed.
Pick(s) == CHOOSE x \in s : TRUE
Sums(f, g, t) == g = [s \in SUBSET t |-> IF s = {} THEN 0 ELSE f[Pick(s)] + g[s \ {Pick(s)}]]

\* Induction over the subsets of a finite set: there is no counterexample if there is
\* a smaller one below each.
LEMMA NoSmallest ==
    ASSUME NEW S, IsFiniteSet(S), NEW bad \in SUBSET (SUBSET S),
           \A t \in bad : \E u \in bad : u \subseteq t /\ u # t
    PROVE  bad = {}
  <1> DEFINE Less == StrictSubsetOrdering(S)
  <1>1. IsWellFoundedOn(Less, SUBSET S)
    <2>1. IsWellFoundedOn(StrictSubsetOrdering(S), FiniteSubsetsOf(S))
      BY FS_StrictSubsetOrderingWellFounded
    <2>2. FiniteSubsetsOf(S) = SUBSET S
      BY FS_FiniteSubsetsOfFinite
    <2> QED
      BY <2>1, <2>2
  <1>2. \A t, u \in SUBSET S : u \subseteq t /\ u # t => <<u, t>> \in Less
    BY DEF StrictSubsetOrdering
  <1> HIDE DEF Less
  <1>3. SUFFICES ASSUME bad # {} PROVE FALSE
    OBVIOUS
  <1>4. PICK t \in bad : \A u \in bad : ~(<<u, t>> \in Less)
    BY <1>1, <1>3, WFMin
  <1> QED
    BY <1>2, <1>4

\* The sums over the subsets of two sets agree on the subsets of both.
LEMMA SumsAgree ==
    ASSUME NEW S, IsFiniteSet(S), NEW t \in SUBSET S, NEW u \in SUBSET S,
           NEW f, NEW e, \A x \in t \cap u : f[x] = e[x],
           NEW g, NEW h, Sums(f, g, t), Sums(e, h, u),
           NEW s \in (SUBSET t) \cap (SUBSET u)
    PROVE  g[s] = h[s]
  <1> DEFINE bad == {r \in (SUBSET t) \cap (SUBSET u) : g[r] # h[r]}
  <1>1. ASSUME NEW r \in bad PROVE \E q \in bad : q \subseteq r /\ q # r
    <2>1. g[r] = IF r = {} THEN 0 ELSE f[Pick(r)] + g[r \ {Pick(r)}]
      BY DEF Sums
    <2>2. h[r] = IF r = {} THEN 0 ELSE e[Pick(r)] + h[r \ {Pick(r)}]
      BY DEF Sums
    <2>3. r # {} => Pick(r) \in r
      BY DEF Pick
    <2>4. r \ {Pick(r)} \in (SUBSET t) \cap (SUBSET u)
      OBVIOUS
    <2> QED
      BY <1>1, <2>1, <2>2, <2>3, <2>4
  <1>2. bad \in SUBSET (SUBSET S)
    OBVIOUS
  <1>3. bad = {}
    <2> HIDE DEF bad
    <2> QED
      BY <1>1, <1>2, NoSmallest
  <1> QED
    BY <1>3

\* There are sums over the subsets of every finite set.
LEMMA SumsExist ==
    ASSUME NEW S, IsFiniteSet(S), NEW f
    PROVE  \E g : Sums(f, g, S)
  <1> DEFINE bad == {t \in SUBSET S : ~ \E g : Sums(f, g, t)}
             G(t) == CHOOSE g : Sums(f, g, t)
             all(t) == [s \in SUBSET t |-> IF s = {} THEN 0 ELSE f[Pick(s)] + G(s \ {Pick(s)})[s \ {Pick(s)}]]
  <1>1. ASSUME NEW t \in bad PROVE \E u \in bad : u \subseteq t /\ u # t
    <2>1. SUFFICES ASSUME \A u \in SUBSET t : u # t => Sums(f, G(u), u) PROVE Sums(f, all(t), t)
      BY <1>1
    <2>2. ASSUME NEW s \in SUBSET t, s # {} PROVE all(t)[s \ {Pick(s)}] = G(s \ {Pick(s)})[s \ {Pick(s)}]
      <3> DEFINE r == s \ {Pick(s)}
      <3>1. Pick(s) \in s
        BY <2>2 DEF Pick
      <3>2. r \in SUBSET t /\ r # t /\ r \in SUBSET S
        BY <3>1
      <3>3. Sums(f, G(r), r)
        BY <2>1, <3>2
      <3>4. all(t)[r] = IF r = {} THEN 0 ELSE f[Pick(r)] + G(r \ {Pick(r)})[r \ {Pick(r)}]
        BY <3>2
      <3>5. G(r)[r] = IF r = {} THEN 0 ELSE f[Pick(r)] + G(r)[r \ {Pick(r)}]
        <4> HIDE DEF r, G
        <4> QED
          BY <3>3 DEF Sums
      <3>6. ASSUME r # {} PROVE G(r \ {Pick(r)})[r \ {Pick(r)}] = G(r)[r \ {Pick(r)}]
        <4> DEFINE q == r \ {Pick(r)}
        <4>1. Pick(r) \in r
          BY <3>6 DEF Pick
        <4>2. q \in SUBSET t /\ q # t /\ q \in SUBSET S /\ q \in (SUBSET q) \cap (SUBSET r)
          BY <3>2, <4>1
        <4>3. Sums(f, G(q), q)
          BY <2>1, <4>2
        <4> HIDE DEF q, r, G
        <4>4. G(q)[q] = G(r)[q]
          <5>1. q \in SUBSET S /\ r \in SUBSET S /\ \A x \in q \cap r : f[x] = f[x]
            BY <3>2, <4>2
          <5> QED
            BY <3>3, <4>2, <4>3, <5>1, SumsAgree, SMTT(60)
        <4> QED
          BY <4>4 DEF q
      <3> QED
        BY <3>4, <3>5, <3>6
    <2> HIDE DEF G
    <2>3. all(t) = [s \in SUBSET t |-> IF s = {} THEN 0 ELSE f[Pick(s)] + all(t)[s \ {Pick(s)}]]
      BY <2>2
    <2> QED
      BY <2>3 DEF Sums
  <1>2. bad \in SUBSET (SUBSET S)
    OBVIOUS
  <1>3. bad = {}
    <2> HIDE DEF bad
    <2> QED
      BY <1>1, <1>2, NoSmallest
  <1> QED
    BY <1>3

\* So the sum of a function is one of them, at its domain.
LEMMA SumIs ==
    ASSUME NEW S, IsFiniteSet(S), NEW f, DOMAIN f = S
    PROVE  \E g : Sums(f, g, S) /\ SumFunction(f) = g[S]
  <1> DEFINE g == CHOOSE g : Sums(f, g, S)
  <1>1. Sums(f, g, S)
    BY SumsExist
  <1>2. SumFunction(f) =
            (CHOOSE h : h = [s \in SUBSET S |-> IF s = {} THEN 0
                                 ELSE f[CHOOSE x \in s : TRUE] + h[s \ {CHOOSE x \in s : TRUE}]])[S]
    BY DEF SumFunction, SumFunctionOnSet, FoldFunctionOnSet, MapThenFoldSet
  <1>3. SumFunction(f) = g[S]
    BY <1>2 DEF Sums, Pick
  <1> QED
    BY <1>1, <1>3

\* A sum of numbers is a number; it is 0 if all of them are.
LEMMA SumType ==
    ASSUME NEW S, IsFiniteSet(S), NEW f \in [S -> Nat]
    PROVE  SumFunction(f) \in Nat /\ ((\A x \in S : f[x] = 0) => SumFunction(f) = 0)
  <1>1. PICK g : Sums(f, g, S) /\ SumFunction(f) = g[S]
    BY SumIs
  <1> DEFINE bad == {t \in SUBSET S : ~(g[t] \in Nat /\ ((\A x \in S : f[x] = 0) => g[t] = 0))}
  <1>2. ASSUME NEW t \in bad PROVE \E u \in bad : u \subseteq t /\ u # t
    <2>1. g[t] = IF t = {} THEN 0 ELSE f[Pick(t)] + g[t \ {Pick(t)}]
      BY <1>1 DEF Sums
    <2>2. t # {} => Pick(t) \in t /\ Pick(t) \in S
      BY DEF Pick
    <2> QED
      BY <2>1, <2>2
  <1>3. bad = {}
    <2>1. bad \in SUBSET (SUBSET S)
      OBVIOUS
    <2> HIDE DEF bad
    <2> QED
      BY <1>2, <2>1, NoSmallest
  <1> QED
    BY <1>1, <1>3

\* When one of the numbers changes, the sum changes by as much.
LEMMA SumOfChange ==
    ASSUME NEW S, IsFiniteSet(S), NEW f \in [S -> Nat], NEW e \in [S -> Nat], NEW c \in S,
           \A x \in S : x # c => e[x] = f[x]
    PROVE  SumFunction(e) + f[c] = SumFunction(f) + e[c]
  <1>1. PICK g : Sums(f, g, S) /\ SumFunction(f) = g[S]
    BY SumIs
  <1>2. PICK h : Sums(e, h, S) /\ SumFunction(e) = h[S]
    BY SumIs
  <1> DEFINE good(t) == /\ g[t] \in Nat /\ h[t] \in Nat
                        /\ IF c \in t THEN h[t] + f[c] = g[t] + e[c] ELSE h[t] = g[t]
             bad == {t \in SUBSET S : ~good(t)}
  <1>3. ASSUME NEW t \in bad PROVE \E u \in bad : u \subseteq t /\ u # t
    <2>1. g[t] = IF t = {} THEN 0 ELSE f[Pick(t)] + g[t \ {Pick(t)}]
      BY <1>1 DEF Sums
    <2>2. h[t] = IF t = {} THEN 0 ELSE e[Pick(t)] + h[t \ {Pick(t)}]
      BY <1>2 DEF Sums
    <2>3. t # {}
      BY <2>1, <2>2
    <2>4. Pick(t) \in t /\ Pick(t) \in S
      BY <2>3 DEF Pick
    <2> DEFINE u == t \ {Pick(t)}
    <2>5. SUFFICES ASSUME good(u) PROVE good(t)
      BY <2>4
    <2>6. c \in t <=> (c \in u \/ c = Pick(t))
      BY <2>4
    <2>7. f[Pick(t)] \in Nat /\ e[Pick(t)] \in Nat /\ f[c] \in Nat /\ e[c] \in Nat
      BY <2>4
    <2>8. Pick(t) # c => e[Pick(t)] = f[Pick(t)]
      BY <2>4
    <2>9. c \in u => c # Pick(t)
      OBVIOUS
    <2>10. g[t] = f[Pick(t)] + g[u] /\ h[t] = e[Pick(t)] + h[u]
      BY <2>1, <2>2, <2>3
    <2> HIDE DEF u
    <2> QED
      BY <2>5, <2>6, <2>7, <2>8, <2>9, <2>10
  <1>4. bad = {}
    <2>1. bad \in SUBSET (SUBSET S)
      OBVIOUS
    <2> HIDE DEF bad
    <2> QED
      BY <1>3, <2>1, NoSmallest
  <1>5. good(S)
    BY <1>4
  <1> QED
    BY <1>1, <1>2, <1>5

\* Induction over an interval: there is no counterexample if there is a smaller one below each.
LEMMA NoLeast ==
    ASSUME NEW N \in Nat, NEW bad \in SUBSET (0..N), 0 \notin bad,
           \A n \in 1..N : n \in bad => n - 1 \in bad
    PROVE  bad = {}
  <1> DEFINE below == {0..n : n \in bad}
  <1>1. IsFiniteSet(0..N)
    BY FS_Interval
  <1>2. below \in SUBSET (SUBSET (0..N))
    OBVIOUS
  <1>3. \A t \in below : \E u \in below : u \subseteq t /\ u # t
    <2> TAKE t \in below
    <2>1. PICK n \in bad : t = 0..n
      OBVIOUS
    <2>2. n \in 1..N /\ n - 1 \in bad
      OBVIOUS
    <2>3. 0..(n-1) \in below /\ 0..(n-1) \subseteq t /\ n \in t /\ n \notin 0..(n-1)
      BY <2>1, <2>2
    <2> QED
      BY <2>3
  <1>4. below = {}
    <2> DEFINE S == 0..N
    <2>1. IsFiniteSet(S) /\ below \in SUBSET (SUBSET S)
      BY <1>1, <1>2
    <2>2. \A t \in below : \E u \in below : u \subseteq t /\ u # t
      BY <1>3
    <2> HIDE DEF below, S
    <2> QED
      BY <2>1, <2>2, NoSmallest
  <1> QED
    BY <1>4

\* A function along an interval: its values are in a set, its first one is given, and
\* each other one comes from the one before.
StepsIn(next, N, T) == \A n \in 1..N : \A x \in T : next[n][x] \in T
Follows(g, start, next, N, T) ==
    /\ g \in [0..N -> T] /\ g[0] = start
    /\ \A n \in 1..N : g[n] = next[n][g[n - 1]]

\* There is one.
LEMMA Recursion ==
    ASSUME NEW N \in Nat, NEW T, NEW start \in T, NEW next, StepsIn(next, N, T)
    PROVE  \E g : Follows(g, start, next, N, T)
  <1> USE DEF StepsIn, Follows
  <1> DEFINE Along(g, m) == Follows(g, start, next, m, T)
             bad == {m \in 0..N : ~ \E g \in [0..m -> T] : Along(g, m)}
  <1>1. 0 \notin bad
    <2>1. Along([n \in 0..0 |-> start], 0)
      OBVIOUS
    <2> QED
      BY <2>1
  <1>2. ASSUME NEW m \in 1..N, m - 1 \notin bad PROVE m \notin bad
    <2>1. PICK g \in [0..(m-1) -> T] : Along(g, m - 1)
      <3>1. m - 1 \in 0..N
        OBVIOUS
      <3> QED
        BY <1>2, <3>1
    <2> DEFINE h == [n \in 0..m |-> IF n = m THEN next[m][g[m - 1]] ELSE g[n]]
    <2>2. h \in [0..m -> T]
      BY <2>1
    <2>3. h[0] = start
      BY <2>1
    <2>4. \A n \in 1..m : h[n] = next[n][h[n - 1]]
      <3> TAKE n \in 1..m
      <3>1. n - 1 \in 0..m /\ n - 1 # m /\ h[n - 1] = g[n - 1]
        OBVIOUS
      <3>2. CASE n = m
        BY <3>1, <3>2
      <3>3. CASE n # m
        <4>1. n \in 1..(m-1) /\ h[n] = g[n]
          BY <3>3
        <4> QED
          BY <2>1, <3>1, <4>1
      <3> QED
        BY <3>2, <3>3
    <2> QED
      BY <2>2, <2>3, <2>4
  <1>3. bad = {}
    <2> HIDE DEF bad
    <2>1. bad \in SUBSET (0..N)
      BY DEF bad
    <2> QED
      BY <1>1, <1>2, <2>1, NoLeast
  <1>4. PICK g \in [0..N -> T] : Along(g, N)
    <2> HIDE DEF bad
    <2>1. N \in 0..N /\ N \notin bad
      BY <1>3
    <2> QED
      BY <2>1 DEF bad
  <1> QED
    BY <1>4

\* Any element can be taken out of a sum first.
LEMMA SumsWithout ==
    ASSUME NEW S, IsFiniteSet(S), NEW f, \A x \in S : f[x] \in Nat, NEW g, Sums(f, g, S)
    PROVE  \A s \in SUBSET S : g[s] \in Nat /\ \A x \in s : g[s] = f[x] + g[s \ {x}]
  <1> DEFINE good(s) == g[s] \in Nat /\ \A x \in s : g[s] = f[x] + g[s \ {x}]
             bad == {s \in SUBSET S : ~good(s)}
  <1>1. ASSUME NEW s \in bad PROVE \E u \in bad : u \subseteq s /\ u # s
    <2>1. SUFFICES ASSUME \A u \in SUBSET s : u # s => good(u) PROVE good(s)
      BY <1>1
    <2>2. g[s] = IF s = {} THEN 0 ELSE f[Pick(s)] + g[s \ {Pick(s)}]
      BY DEF Sums
    <2>3. CASE s = {}
      BY <2>2, <2>3
    <2>4. CASE s # {}
      <3> DEFINE z == Pick(s)
      <3>1. z \in s
        BY <2>4 DEF Pick
      <3> HIDE DEF z
      <3>2. g[s] = f[z] + g[s \ {z}] /\ good(s \ {z}) /\ f[z] \in Nat
        BY <2>1, <2>2, <2>4, <3>1 DEF z
      <3>3. ASSUME NEW x \in s PROVE g[s] = f[x] + g[s \ {x}]
        <4>1. CASE x = z
          BY <3>2, <4>1
        <4>2. CASE x # z
          <5>1. good(s \ {x}) /\ z \in s \ {x} /\ x \in s \ {z} /\ f[x] \in Nat
            BY <2>1, <3>1, <4>2
          <5>2. (s \ {x}) \ {z} = (s \ {z}) \ {x}
            OBVIOUS
          <5>3. good((s \ {x}) \ {z})
            BY <2>1
          <5>4. g[s \ {z}] = f[x] + g[(s \ {z}) \ {x}] /\ g[s \ {x}] = f[z] + g[(s \ {x}) \ {z}]
            BY <3>2, <5>1
          <5> HIDE DEF bad
          <5> QED
            BY <3>2, <5>1, <5>2, <5>3, <5>4
        <4> QED
          BY <4>1, <4>2
      <3>4. g[s] \in Nat
        BY <3>2
      <3> QED
        BY <3>3, <3>4
    <2> QED
      BY <2>3, <2>4
  <1>2. bad \in SUBSET (SUBSET S)
    OBVIOUS
  <1>3. bad = {}
    <2> HIDE DEF bad
    <2> QED
      BY <1>1, <1>2, NoSmallest
  <1> QED
    BY <1>3

\* So a sum is one of its terms and the sum of the others.
LEMMA SumWithout ==
    ASSUME NEW S, IsFiniteSet(S), NEW f \in [S -> Nat], NEW x \in S
    PROVE  \E g : /\ Sums(f, g, S) /\ g[S \ {x}] \in Nat
                  /\ SumFunction(f) = f[x] + g[S \ {x}]
  <1>1. PICK g : Sums(f, g, S) /\ SumFunction(f) = g[S]
    BY SumIs
  <1>2. \A y \in S : f[y] \in Nat
    OBVIOUS
  <1>3. \A s \in SUBSET S : g[s] \in Nat /\ \A y \in s : g[s] = f[y] + g[s \ {y}]
    BY <1>1, <1>2, SumsWithout
  <1> QED
    BY <1>1, <1>3

\* The sum over a sequence that gets one more number.
LEMMA SumOfMore ==
    ASSUME NEW n \in Nat, NEW f \in [1..n -> Nat], NEW e \in [1..n + 1 -> Nat],
           \A i \in 1..n : e[i] = f[i]
    PROVE  SumFunction(f) \in Nat /\ SumFunction(e) = SumFunction(f) + e[n + 1]
  <1>1. IsFiniteSet(1..n) /\ IsFiniteSet(1..n + 1) /\ n + 1 \in 1..n + 1
    BY FS_Interval
  <1>2. PICK g : Sums(f, g, 1..n) /\ SumFunction(f) = g[1..n]
    BY <1>1, SumIs
  <1>3. PICK h : /\ Sums(e, h, 1..n + 1) /\ h[(1..n + 1) \ {n + 1}] \in Nat
                 /\ SumFunction(e) = e[n + 1] + h[(1..n + 1) \ {n + 1}]
    BY <1>1, SumWithout
  <1>4. (1..n + 1) \ {n + 1} = 1..n
    OBVIOUS
  <1>5. h[1..n] = g[1..n]
    <2>1. 1..n \in SUBSET (1..n + 1) /\ \A x \in (1..n) \cap (1..n + 1) : f[x] = e[x]
      OBVIOUS
    <2>2. 1..n \in (SUBSET (1..n)) \cap (SUBSET (1..n + 1))
      BY <2>1
    <2> QED
      BY <1>1, <1>2, <1>3, <2>1, <2>2, SumsAgree, SMTT(60)
  <1>6. e[n + 1] \in Nat
    BY <1>1
  <1>7. SumFunction(f) = h[1..n] /\ h[1..n] \in Nat
    BY <1>2, <1>3, <1>4, <1>5
  <1>8. SumFunction(e) = e[n + 1] + SumFunction(f)
    BY <1>3, <1>4, <1>7
  <1> DEFINE a == SumFunction(f)
             b == e[n + 1]
  <1>9. a \in Nat /\ b \in Nat
    BY <1>6, <1>7
  <1>10. b + a = a + b
    <2> HIDE DEF a, b
    <2> QED
      BY <1>9
  <1> QED
    BY <1>8, <1>9, <1>10

-----------------------------------------------------------------------------
(* The invariant of the key store.                                         *)

\* Every key has a permission set, and the builtin sets are there.
StoreSound ==
    /\ file.keys \in [Secrets -> [set : Names, active : BOOLEAN] \cup {None}]
    /\ file.sets \in [Names -> (SUBSET Powers) \cup {None}]
    /\ \A n \in Builtin : file.sets[n] # None
    /\ \A s \in Secrets : file.keys[s] # None => file.sets[file.keys[s].set] # None
    /\ file.written \in Nat

\* A copy with the signature of the file has its content.
CopySound ==
    cache # None =>
        /\ cache.written \in Nat /\ cache.written <= file.written
        /\ cache.written = file.written => cache.data = Store(file)

Steps == {"free", "asked", "taken"}
Kinds == {"create", "status", "assign", "reset", "delete", "rotate",
          "flush", "define", "redefine", "drop"}

\* The fields of an operation, the ones of its kind with a value.
Formed(o) ==
    /\ o \in [kind : Kinds \cup {None}, proc : Procs \cup {None}, key : Secrets \cup {None},
              new : Secrets \cup {None}, set : Names \cup {None}, policy : SUBSET Powers,
              active : BOOLEAN, deltas : {o.deltas}, copy : {o.copy}, step : Steps]
    /\ o.step # "free" =>
        /\ o.kind \in Kinds /\ o.proc \in Procs
        /\ o.kind \in {"status", "assign", "reset", "delete", "rotate"} => o.key \in Secrets
        /\ o.kind \in {"create", "rotate"} => o.new \in Secrets
        /\ o.kind \in {"create", "assign", "rotate", "define", "redefine", "drop"} => o.set \in Names
        /\ o.kind \in {"define", "drop"} => o.set \notin Builtin

ChangesFormed ==
    /\ change = [c \in Changes |-> change[c]]
    /\ \A c \in Changes : Formed(change[c])

\* A generated secret belongs to one operation until it is in the file.
NewSecrets ==
    /\ issued \subseteq Secrets
    /\ \A s \in Secrets : file.keys[s] # None => s \in issued
    /\ \A c \in Changes : change[c].new # None =>
           change[c].new \in issued /\ file.keys[change[c].new] = None
    /\ \A c, e \in Changes : change[c].new = change[e].new /\ change[c].new # None => c = e

\* What was read before the lock was taken still holds.
Current(o, d) ==
    /\ o.kind = "rotate" => d.keys[o.key].set = o.set
    /\ o.kind \in {"create", "assign"} => d.sets[o.set] # None

\* Whoever is about to write holds the lock and the latest file, with its own
\* change made and no other.
Exclusive ==
    \A c \in Changes : change[c].step = "taken" =>
        /\ lock = c
        /\ Current(change[c], Store(file))
        /\ Modified(change[c], Store(file)) # None
        /\ change[c].copy = Modified(change[c], Store(file))

IInv == StoreSound /\ CopySound /\ ChangesFormed /\ NewSecrets /\ Exclusive

-----------------------------------------------------------------------------
(* What a process reads.                                                   *)

\* With every set defined there is nothing to normalize, and the copy of the
\* server is good for as long as it is used: every view is the file.
LEMMA ViewIsFile ==
    ASSUME StoreSound, CopySound, NEW p
    PROVE  View(p) = Store(file)
  <1>1. Normalize(Store(file)) = Store(file)
    <2>1. \A s \in Secrets : ~(Store(file).keys[s] # None /\ Store(file).sets[Store(file).keys[s].set] = None)
      BY DEF StoreSound, Store
    <2>2. [s \in Secrets |-> IF Store(file).keys[s] # None /\ Store(file).sets[Store(file).keys[s].set] = None
                             THEN [Store(file).keys[s] EXCEPT !.set = User] ELSE Store(file).keys[s]]
          = Store(file).keys
      BY <2>1 DEF StoreSound, Store
    <2> QED
      BY <2>2 DEF Normalize, Store
  <1>2. CASE p = "server" /\ Fresh
    BY <1>2 DEF View, Fresh, CopySound
  <1>3. CASE ~(p = "server" /\ Fresh)
    BY <1>1, <1>3 DEF View
  <1> QED
    BY <1>2, <1>3

\* So a process may remember what it read.
LEMMA ReadingSound ==
    ASSUME StoreSound, CopySound, NEW p, Reading(p, Store(file)), UNCHANGED file
    PROVE  CopySound'
  BY DEF StoreSound, CopySound, Reading, Store

\* It holds at the start.
LEMMA Initially == Init => IInv
  <1> SUFFICES ASSUME Init PROVE IInv
    OBVIOUS
  <1>1. StoreSound /\ CopySound
    BY AccessStore DEF Init, StoreSound, CopySound, Builtin
  <1>2. ChangesFormed
    BY DEF Init, ChangesFormed, Formed, NoChange, Steps, Kinds
  <1>3. NewSecrets /\ Exclusive
    BY DEF Init, NewSecrets, Exclusive, NoChange
  <1> QED
    BY <1>1, <1>2, <1>3 DEF IInv

-----------------------------------------------------------------------------
(* Steps that do not write.                                                *)

\* An operation that an administrator may ask for has the fields of its kind,
\* and the secret it generates is new.
LEMMA AskedFormed ==
    ASSUME NEW d, \A s \in Secrets : d.keys[s] # None => d.keys[s].set \in Names, NEW p \in Procs,
           NEW asked \in AskedOfKeys(p, d) \cup AskedOfSets(p), ~Refused(asked)
    PROVE  /\ Formed(asked) /\ asked.step = "asked" /\ asked.deltas = NoUsage
           /\ asked.new # None => asked.new \in Secrets \ issued
  <1>1. \/ \E s \in Secrets \ issued, n \in Names : asked = Create(p, s, n)
        \/ \E s \in Secrets, active \in BOOLEAN : asked = Status(p, s, active)
        \/ \E s \in Secrets, n \in Names : asked = Assign(p, s, n)
        \/ \E s \in Secrets, t \in Secrets \ issued, n \in Names : asked = Rotate(p, s, t, n)
        \/ \E s \in Secrets, kind \in {"delete", "reset"} : asked = [Of(p, kind) EXCEPT !.key = s]
        \/ \E kind \in {"define", "redefine"}, n \in Names, q \in Policies : asked = Policy(p, kind, n, q)
        \/ \E n \in Names : asked = [Of(p, "drop") EXCEPT !.set = n]
    <2>1. CASE asked \in AskedOfSets(p)
      BY <2>1 DEF AskedOfSets
    <2>2. CASE asked \in AskedOfKeys(p, d)
      BY <2>2 DEF AskedOfKeys
    <2> QED
      BY <2>1, <2>2
  <1> DEFINE Op(kind, key, new, set, policy, active) ==
               [kind |-> kind, proc |-> p, key |-> key, new |-> new, set |-> set, policy |-> policy,
                active |-> active, deltas |-> NoUsage, copy |-> None, step |-> "asked"]
  <1>2. CASE \E s \in Secrets \ issued, n \in Names : asked = Create(p, s, n)
    <2>1. \E s \in Secrets \ issued, n \in Names : asked = Op("create", None, s, n, {}, FALSE)
      BY <1>2, ZenonT(60) DEF Create, Of, NoChange
    <2> QED
      BY <2>1 DEF Formed, Steps, Kinds, Refused
  <1>3. CASE \E s \in Secrets, active \in BOOLEAN : asked = Status(p, s, active)
    <2>1. \E s \in Secrets, active \in BOOLEAN : asked = Op("status", s, None, None, {}, active)
      BY <1>3 DEF Status, Of, NoChange
    <2> QED
      BY <2>1 DEF Formed, Steps, Kinds, Refused
  <1>4. CASE \E s \in Secrets, n \in Names : asked = Assign(p, s, n)
    <2>1. \E s \in Secrets, n \in Names : asked = Op("assign", s, None, n, {}, FALSE)
      BY <1>4, ZenonT(60) DEF Assign, Of, NoChange
    <2> QED
      BY <2>1 DEF Formed, Steps, Kinds, Refused
  <1>5. CASE \E s \in Secrets, t \in Secrets \ issued, n \in Names : asked = Rotate(p, s, t, n)
    <2>1. \E s \in Secrets, t \in Secrets \ issued, n \in Names : asked = Op("rotate", s, t, n, {}, FALSE)
      BY <1>5, ZenonT(60) DEF Rotate, Of, NoChange
    <2> QED
      BY <2>1 DEF Formed, Steps, Kinds, Refused
  <1>6. CASE \E s \in Secrets, kind \in {"delete", "reset"} : asked = [Of(p, kind) EXCEPT !.key = s]
    <2>1. \E s \in Secrets, kind \in {"delete", "reset"} : asked = Op(kind, s, None, None, {}, FALSE)
      BY <1>6 DEF Of, NoChange
    <2> QED
      BY <2>1 DEF Formed, Steps, Kinds, Refused
  <1>7. CASE \E kind \in {"define", "redefine"}, n \in Names, q \in Policies : asked = Policy(p, kind, n, q)
    <2>1. PICK kind \in {"define", "redefine"}, n \in Names, q \in Policies : asked = Policy(p, kind, n, q)
      BY <1>7
    <2>2. asked = Op(kind, None, None, n, q, FALSE)
      BY <2>1 DEF Policy, Of, NoChange
    <2> QED
      BY <2>1, <2>2, AccessBounds DEF Formed, Steps, Kinds, Refused
  <1>8. CASE \E n \in Names : asked = [Of(p, "drop") EXCEPT !.set = n]
    <2>1. \E n \in Names : asked = Op("drop", None, None, n, {}, FALSE)
      BY <1>8 DEF Of, NoChange
    <2> QED
      BY <2>1 DEF Formed, Steps, Kinds, Refused
  <1> QED
    BY <1>1, <1>2, <1>3, <1>4, <1>5, <1>6, <1>7, <1>8

\* A step that leaves the file, the operations and the lock alone.
LEMMA Quiet ==
    ASSUME IInv, CopySound', UNCHANGED <<file, lock, change, issued>>
    PROVE  IInv'
  BY DEF IInv, StoreSound, ChangesFormed, NewSecrets, Exclusive

\* Requests do not write the store.
LEMMA RequestSteps ==
    ASSUME IInv, NEW r \in Requests, Arrive(r) \/ LookUp(r) \/ Authenticate(r) \/ Serve(r)
    PROVE  IInv' /\ UNCHANGED file
  <1>1. View("server") = Store(file)
    BY ViewIsFile DEF IInv
  <1>2. UNCHANGED <<file, lock, change, issued>>
    BY DEF Arrive, LookUp, Authenticate, Serve
  <1>3. CASE Arrive(r)
    BY <1>2, <1>3, Quiet DEF Arrive, IInv, CopySound, Store
  <1>4. CASE LookUp(r) \/ Authenticate(r) \/ Serve(r)
    <2>1. Reading("server", Store(file))
      BY <1>1, <1>4 DEF LookUp, Authenticate, Serve
    <2> QED
      BY <1>2, <2>1, Quiet, ReadingSound DEF IInv
  <1> QED
    BY <1>2, <1>3, <1>4

\* Neither does the rate window that moves on.
LEMMA WindowStep ==
    ASSUME IInv, NEW i \in Identities, WindowMoves(i)
    PROVE  IInv' /\ UNCHANGED file
  BY Quiet DEF WindowMoves, IInv, CopySound, Store

\* Operations that end, in a crash or because a write failed, give up the lock.
LEMMA Dropped ==
    ASSUME IInv, CopySound', UNCHANGED <<file, issued>>, NEW gone \in SUBSET Changes,
           change' = [c \in Changes |-> IF c \in gone THEN NoChange ELSE change[c]],
           lock' = IF lock \in gone THEN None ELSE lock
    PROVE  IInv'
  <1>1. Formed(NoChange) /\ NoChange.new = None /\ NoChange.step = "free"
    BY DEF NoChange, Formed, Steps, Kinds
  <1>2. \A c \in Changes : change'[c] = IF c \in gone THEN NoChange ELSE change[c]
    OBVIOUS
  <1>3. ChangesFormed'
    BY <1>1, <1>2 DEF IInv, ChangesFormed
  <1>4. NewSecrets'
    BY <1>1, <1>2 DEF IInv, NewSecrets
  <1>5. Exclusive'
    <2> SUFFICES ASSUME NEW c \in Changes, change'[c].step = "taken"
                 PROVE  /\ lock' = c /\ Current(change'[c], Store(file))
                        /\ Modified(change'[c], Store(file)) # None
                        /\ change'[c].copy = Modified(change'[c], Store(file))
      BY DEF Exclusive
    <2>1. change'[c] = change[c] /\ c \notin gone
      BY <1>1, <1>2
    <2> QED
      BY <2>1 DEF IInv, Exclusive
  <1> QED
    BY <1>3, <1>4, <1>5 DEF IInv, StoreSound

\* A crash leaves the file, and the changes of the other process.
LEMMA CrashStep ==
    ASSUME IInv, NEW p \in Procs, Crash(p)
    PROVE  IInv' /\ UNCHANGED file
  <1> DEFINE hit == {c \in Changes : change[c].proc = p}
  <1>1. CopySound'
    BY DEF Crash, IInv, CopySound, Store
  <1>2. /\ change' = [c \in Changes |-> IF c \in hit THEN NoChange ELSE change[c]]
        /\ lock' = IF lock \in hit THEN None ELSE lock
        /\ UNCHANGED <<file, issued>>
    BY DEF Crash
  <1> HIDE DEF hit
  <1>3. hit \in SUBSET Changes
    BY DEF hit
  <1> QED
    BY <1>1, <1>2, <1>3, Dropped

\* The counts of a failed flush are given back, and a failed write of the script
\* leaves the server's copy alone. One of the server would leave an entry in it
\* that the file has not.
LEMMA SaveFailsStep ==
    ASSUME IInv, NEW c \in Changes, SaveFails(c), "unsaved" \notin Incidents
    PROVE  IInv' /\ UNCHANGED file
  <1>1. change[c].proc # "server" /\ UNCHANGED <<file, issued>>
    BY DEF SaveFails, Allowed
  <1>2. CopySound'
    BY <1>1 DEF SaveFails, IInv, CopySound, Store
  <1>3. change[c].step = "taken" /\ lock = c
    BY DEF SaveFails, IInv, Exclusive
  <1>4. /\ change' = [e \in Changes |-> IF e \in {c} THEN NoChange ELSE change[e]]
        /\ lock' = IF lock \in {c} THEN None ELSE lock
    BY <1>3 DEF SaveFails, Unlock, IInv, ChangesFormed
  <1>5. {c} \in SUBSET Changes
    OBVIOUS
  <1> QED
    BY <1>1, <1>2, <1>4, <1>5, Dropped

\* A new operation, which has not the lock.
LEMMA Begins ==
    ASSUME IInv, CopySound', UNCHANGED <<file, lock>>, NEW c \in Changes, NEW asked,
           Formed(asked), asked.step = "asked", change[c].step = "free",
           asked.new # None => asked.new \in Secrets \ issued,
           change' = [change EXCEPT ![c] = asked],
           issued' = issued \cup ({asked.new} \ {None})
    PROVE  IInv'
  <1>1. \A e \in Changes : change'[e] = IF e = c THEN asked ELSE change[e]
    BY DEF IInv, ChangesFormed
  <1>2. ChangesFormed'
    BY <1>1 DEF IInv, ChangesFormed
  <1>3. NewSecrets'
    BY <1>1 DEF IInv, NewSecrets
  <1>4. Exclusive'
    BY <1>1 DEF IInv, Exclusive
  <1> QED
    BY <1>2, <1>3, <1>4 DEF IInv, StoreSound

\* An operation that is asked for is one of its kind, with a secret of its own.
LEMMA AskStep ==
    ASSUME IInv, NEW c \in Changes, NEW p \in Procs, Ask(c, p)
    PROVE  IInv' /\ UNCHANGED file
  <1>1. View(p) = Store(file)
    BY ViewIsFile DEF IInv
  <1>2. PICK asked \in AskedOfKeys(p, Store(file)) \cup AskedOfSets(p) :
            /\ ~Refused(asked)
            /\ change' = [change EXCEPT ![c] = asked]
            /\ issued' = issued \cup ({asked.new} \ {None})
    BY <1>1 DEF Ask
  <1>3. Reading(p, Store(file)) /\ UNCHANGED <<file, lock>> /\ change[c].step = "free"
    BY <1>1 DEF Ask
  <1>4. CopySound'
    BY <1>3, ReadingSound DEF IInv
  <1>5. \A s \in Secrets : Store(file).keys[s] # None => Store(file).keys[s].set \in Names
    BY DEF IInv, StoreSound, Store
  <1>6. /\ Formed(asked) /\ asked.step = "asked"
        /\ asked.new # None => asked.new \in Secrets \ issued
    BY <1>2, <1>5, AskedFormed
  <1> QED
    BY <1>2, <1>3, <1>4, <1>6, Begins

\* So is a flush.
LEMMA FlushStep ==
    ASSUME IInv, NEW c \in Changes, Flush(c)
    PROVE  IInv' /\ UNCHANGED file
  <1> DEFINE flush == [NoChange EXCEPT !.kind = "flush", !.proc = "server",
                                       !.deltas = pending, !.step = "asked"]
  <1>1. Formed(flush) /\ flush.step = "asked" /\ flush.new = None
    BY DEF NoChange, Formed, Steps, Kinds, Procs
  <1>2. /\ change[c].step = "free" /\ UNCHANGED <<file, lock>>
        /\ change' = [change EXCEPT ![c] = flush] /\ UNCHANGED issued
    BY DEF Flush
  <1>3. CopySound'
    BY DEF Flush, IInv, CopySound, Store
  <1> HIDE DEF flush
  <1>4. issued' = issued \cup ({flush.new} \ {None})
    BY <1>1, <1>2
  <1> QED
    BY <1>1, <1>2, <1>3, <1>4, Begins

Taken(o, copy) == [o EXCEPT !.copy = copy, !.step = "taken"]

\* What an operation writes does not depend on its copy and its step.
LEMMA SameOperation ==
    ASSUME NEW o, Formed(o), NEW copy, NEW d
    PROVE  /\ Taken(o, copy).copy = copy /\ Taken(o, copy).step = "taken"
           /\ Taken(o, copy).new = o.new
           /\ o.step # "free" => Formed(Taken(o, copy))
           /\ Current(Taken(o, copy), d) = Current(o, d)
           /\ Modified(Taken(o, copy), d) = Modified(o, d)
  <1> DEFINE taken == Taken(o, copy)
  <1>2. /\ taken.kind = o.kind /\ taken.proc = o.proc /\ taken.key = o.key /\ taken.new = o.new
        /\ taken.set = o.set /\ taken.policy = o.policy /\ taken.active = o.active
        /\ taken.deltas = o.deltas /\ taken.copy = copy /\ taken.step = "taken"
    BY DEF Formed, Taken
  <1>3. o.step # "free" => Formed(taken)
    <2>1. taken \in [kind : {o.kind}, proc : {o.proc}, key : {o.key}, new : {o.new}, set : {o.set},
                     policy : {o.policy}, active : {o.active}, deltas : {o.deltas},
                     copy : {copy}, step : {"taken"}]
      BY DEF Formed, Taken
    <2> HIDE DEF taken
    <2> QED
      BY <1>2, <2>1 DEF Formed, Steps
  <1> HIDE DEF taken
  <1>4. Current(taken, d) = Current(o, d)
    BY <1>2 DEF Current
  <1>5. Modified(taken, d) = Modified(o, d)
    BY <1>2 DEF Modified, Add, Update, Delete, RotateStored, MergeUsage, Redefined
  <1> QED
    BY <1>2, <1>3, <1>4, <1>5 DEF taken

\* Whoever takes the lock has the latest file, with its own change made.
LEMMA TakeStep ==
    ASSUME IInv, NEW c \in Changes, NEW d, Take(c, d), Incidents \subseteq {"moved"}
    PROVE  IInv' /\ UNCHANGED file
  <1> DEFINE o == change[c]
             taken == Taken(o, Modified(o, Store(file)))
  <1>1. /\ o.step = "asked" /\ lock = None /\ d = Store(file)
        /\ UNCHANGED <<file, issued>>
    BY ViewIsFile DEF Take, Allowed, IInv
  <1>2. Formed(o) /\ o.kind \in Kinds
    BY <1>1 DEF IInv, ChangesFormed, Formed
  <1>3. CopySound'
    <2>1. Reading(o.proc, Store(file))
      BY <1>1, ViewIsFile DEF Take, IInv
    <2> QED
      BY <1>1, <2>1, ReadingSound DEF IInv
  <1>4. CASE Modified(o, Store(file)) = None
    <2>1. /\ change' = [e \in Changes |-> IF e \in {c} THEN NoChange ELSE change[e]]
          /\ lock' = IF lock \in {c} THEN None ELSE lock
      BY <1>1, <1>4, AccessStore DEF Take, IInv, ChangesFormed
    <2>2. {c} \in SUBSET Changes
      OBVIOUS
    <2> QED
      BY <1>1, <1>3, <2>1, <2>2, Dropped
  <1>5. CASE Modified(o, Store(file)) # None
    <2>1. change' = [change EXCEPT ![c] = taken] /\ lock' = c
      BY <1>1, <1>5 DEF Take, Taken
    <2>2. /\ taken.copy = Modified(o, Store(file)) /\ taken.step = "taken" /\ taken.new = o.new
          /\ Formed(taken)
          /\ Current(taken, Store(file)) = Current(o, Store(file))
          /\ Modified(taken, Store(file)) = Modified(o, Store(file))
      BY <1>1, <1>2, SameOperation
    <2>3. Current(o, Store(file))
      <3>1. o.kind = "rotate" => Store(file).keys[o.key] # None
        BY <1>5 DEF Modified
      <3> QED
        BY <1>1, <3>1 DEF Take, Allowed, Current
    <2> HIDE DEF taken
    <2>4. \A e \in Changes : change'[e] = IF e = c THEN taken ELSE change[e]
      BY <2>1 DEF IInv, ChangesFormed
    <2>5. ChangesFormed'
      BY <2>1, <2>2, <2>4 DEF IInv, ChangesFormed
    <2>6. NewSecrets'
      BY <1>1, <2>2, <2>4 DEF IInv, NewSecrets
    <2>7. \A e \in Changes : change[e].step # "taken"
      BY <1>1, AccessStore DEF IInv, Exclusive
    <2>8. Exclusive'
      BY <1>1, <1>5, <2>1, <2>2, <2>3, <2>4, <2>7 DEF Exclusive
    <2> QED
      BY <1>1, <1>3, <2>5, <2>6, <2>8 DEF IInv, StoreSound
  <1> QED
    BY <1>1, <1>4, <1>5

-----------------------------------------------------------------------------
(* The step that writes.                                                   *)

\* What each operation does to keys and sets is an operation of Keys, or
\* nothing, and the only new key is the one it generated.
LEMMA ModifiedIsKeysStep ==
    ASSUME StoreSound, NEW o, Formed(o), o.step # "free", Current(o, Store(file)),
           o.new # None => file.keys[o.new] = None,
           NEW m, m = Modified(o, Store(file)), m # None,
           file'.keys = m.keys, file'.sets = m.sets
    PROVE  /\ [K!Next]_<<file.keys, file.sets>>
           /\ \A s \in Secrets : file'.keys[s] # None => file.keys[s] # None \/ s = o.new
  <1> DEFINE d == Store(file)
             keys == file.keys
             sets == file.sets
  <1>0. d.keys = keys /\ d.sets = sets /\ o.kind \in Kinds
    BY DEF Store, Formed
  <1>1. CASE o.kind = "create"
    <2>1. m = Add(o, d)
      BY <1>1 DEF Modified
    <2>2. file'.keys = [keys EXCEPT ![o.new] = Record(o.set)] /\ file'.sets = sets
      BY <2>1 DEF Add, Store
    <2>3. o.new \in Secrets /\ o.set \in Names /\ keys[o.new] = None /\ sets[o.set] # None
      BY <1>0, <1>1, AccessStore DEF Formed, Current
    <2>4. K!Issue(o.new, o.set)
      BY <2>2, <2>3 DEF K!Issue, K!Put, Record
    <2> QED
      BY <2>2, <2>3, <2>4 DEF K!Next, StoreSound
  <1>2. CASE o.kind = "status"
    <2>1. m = Update(o, d) /\ keys[o.key] # None /\ o.key \in Secrets /\ o.active \in BOOLEAN
      BY <1>0, <1>2 DEF Modified, Formed
    <2>2. file'.keys = [keys EXCEPT ![o.key].active = o.active] /\ file'.sets = sets
      BY <1>2, <2>1 DEF Update, Store
    <2>3. K!SetStatus(o.key, o.active)
      BY <2>1, <2>2 DEF K!SetStatus, K!Put, StoreSound
    <2> QED
      BY <2>1, <2>2, <2>3 DEF K!Next, StoreSound
  <1>3. CASE o.kind = "assign"
    <2>1. m = Update(o, d) /\ keys[o.key] # None /\ o.key \in Secrets /\ o.set \in Names /\ sets[o.set] # None
      BY <1>0, <1>3 DEF Modified, Formed, Current
    <2>2. file'.keys = [keys EXCEPT ![o.key].set = o.set] /\ file'.sets = sets
      BY <1>3, <2>1 DEF Update, Store
    <2>3. K!Assign(o.key, o.set)
      BY <2>1, <2>2 DEF K!Assign, K!Put, StoreSound
    <2> QED
      BY <2>1, <2>2, <2>3 DEF K!Next, StoreSound
  <1>4. CASE o.kind = "delete"
    <2>1. m = Delete(o, d) /\ keys[o.key] # None /\ o.key \in Secrets
      BY <1>0, <1>4 DEF Modified, Formed
    <2>2. file'.keys = [keys EXCEPT ![o.key] = None] /\ file'.sets = sets
      BY <2>1 DEF Delete, Store
    <2>3. K!Revoke(o.key)
      BY <2>1, <2>2 DEF K!Revoke, K!Put
    <2> QED
      BY <2>1, <2>2, <2>3 DEF K!Next, StoreSound
  <1>5. CASE o.kind = "rotate"
    <2>1. /\ m = RotateStored(o, d) /\ keys[o.key] # None /\ keys[o.new] = None
          /\ o.key \in Secrets /\ o.new \in Secrets /\ keys[o.key].set = o.set
      BY <1>0, <1>5, AccessStore DEF Modified, Formed, Current
    <2>2. /\ file'.keys = [keys EXCEPT ![o.key] = None, ![o.new] = Record(o.set)]
          /\ file'.sets = sets
      BY <2>1 DEF RotateStored, Store
    <2>3. K!Rotate(o.key, o.new)
      BY <2>1, <2>2 DEF K!Rotate, Record
    <2> QED
      BY <2>1, <2>2, <2>3 DEF K!Next, StoreSound
  <1>6. CASE o.kind \in {"reset", "flush"}
    <2>1. m.keys = keys /\ m.sets = sets
      BY <1>6 DEF Modified, Update, MergeUsage, Store
    <2> QED
      BY <2>1
  <1>7. CASE o.kind = "define"
    <2>1. /\ m = Redefined(o, d) /\ sets[o.set] = None /\ o.set \in Names
          /\ o.set \notin Builtin /\ o.policy \in SUBSET Powers
      BY <1>0, <1>7 DEF Modified, Formed
    <2>2. file'.sets = [sets EXCEPT ![o.set] = o.policy] /\ file'.keys = keys
      BY <2>1 DEF Redefined, Store, Builtin
    <2>3. K!Define(o.set, o.policy)
      BY <2>1, <2>2 DEF K!Define, K!Builtin, Builtin
    <2> QED
      BY <2>1, <2>2, <2>3 DEF K!Next
  <1>8. CASE o.kind = "redefine"
    <2>1. m = Redefined(o, d) /\ sets[o.set] # None /\ o.set \in Names /\ o.policy \in SUBSET Powers
      BY <1>0, <1>8 DEF Modified, Formed
    <2>2. CASE o.set = Admin
      BY <1>0, <2>1, <2>2 DEF Redefined
    <2>3. CASE o.set # Admin
      <3>1. file'.sets = [sets EXCEPT ![o.set] = o.policy] /\ file'.keys = keys
        BY <2>1, <2>3 DEF Redefined, Store
      <3>2. K!Redefine(o.set, o.policy)
        BY <2>1, <2>3, <3>1 DEF K!Redefine
      <3> QED
        BY <2>1, <3>1, <3>2 DEF K!Next
    <2> QED
      BY <2>2, <2>3
  <1>9. CASE o.kind = "drop"
    <2>1. /\ m = [d EXCEPT !.sets[o.set] = None] /\ sets[o.set] # None /\ o.set \in Names
          /\ ~InUse(d, o.set) /\ o.set \notin Builtin
      BY <1>0, <1>9 DEF Modified, Formed
    <2>2. file'.sets = [sets EXCEPT ![o.set] = None] /\ file'.keys = keys
      BY <2>1 DEF Store
    <2>3. K!Drop(o.set)
      BY <1>0, <2>1, <2>2 DEF K!Drop, K!Builtin, Builtin, InUse
    <2> QED
      BY <2>1, <2>2, <2>3 DEF K!Next
  <1> QED
    BY <1>0, <1>1, <1>2, <1>3, <1>4, <1>5, <1>6, <1>7, <1>8, <1>9 DEF Kinds

\* No operation of Keys leaves a key without its set: a set in use is not
\* dropped, and a key is not given to a set that is not there.
LEMMA KeysStepSound ==
    ASSUME StoreSound, [K!Next]_<<file.keys, file.sets>>, file'.written \in Nat
    PROVE  StoreSound'
  <1>0. /\ \A r \in [set : Names, active : BOOLEAN] : r # None
        /\ \A p \in SUBSET Powers : p # None
    BY AccessStore
  <1>1. CASE \E s \in Secrets : K!Revoke(s)
    BY <1>0, <1>1 DEF K!Revoke, K!Put, StoreSound
  <1>2. CASE \E s \in Secrets, active \in BOOLEAN : K!SetStatus(s, active)
    BY <1>0, <1>2 DEF K!SetStatus, K!Put, StoreSound
  <1>3. CASE \E s \in Secrets, n \in Names : K!Issue(s, n) \/ K!Assign(s, n)
    <2>1. PICK s \in Secrets, n \in Names : K!Issue(s, n) \/ K!Assign(s, n)
      BY <1>3
    <2>2. \E r \in [set : Names, active : BOOLEAN] :
              r.set = n /\ file'.keys = [file.keys EXCEPT ![s] = r] /\ file'.sets = file.sets
      <3>1. CASE K!Issue(s, n)
        <4>1. /\ [set |-> n, active |-> TRUE] \in [set : Names, active : BOOLEAN]
              /\ [set |-> n, active |-> TRUE].set = n
          OBVIOUS
        <4> QED
          BY <3>1, <4>1 DEF K!Issue, K!Put
      <3>2. CASE K!Assign(s, n)
        <4>1. /\ [file.keys[s] EXCEPT !.set = n] \in [set : Names, active : BOOLEAN]
              /\ [file.keys[s] EXCEPT !.set = n].set = n
          BY <3>2 DEF K!Assign, StoreSound
        <4> QED
          BY <3>2, <4>1 DEF K!Assign, K!Put
      <3> QED
        BY <2>1, <3>1, <3>2
    <2>3. file.sets[n] # None
      BY <2>1 DEF K!Issue, K!Assign
    <2> QED
      BY <2>2, <2>3 DEF StoreSound
  <1>4. CASE \E old, new \in Secrets : K!Rotate(old, new)
    BY <1>0, <1>4 DEF K!Rotate, StoreSound
  <1>5. CASE \E n \in Names, p \in SUBSET Powers : K!Define(n, p) \/ K!Redefine(n, p)
    <2>1. PICK n \in Names, p \in SUBSET Powers :
              file'.sets = [file.sets EXCEPT ![n] = p] /\ file'.keys = file.keys
      BY <1>5 DEF K!Define, K!Redefine
    <2> QED
      BY <1>0, <2>1 DEF StoreSound
  <1>6. CASE \E n \in Names : K!Drop(n)
    BY <1>0, <1>6 DEF K!Drop, K!Builtin, Builtin, StoreSound
  <1>7. CASE UNCHANGED <<file.keys, file.sets>>
    BY <1>7 DEF StoreSound
  <1> QED
    BY <1>1, <1>2, <1>3, <1>4, <1>5, <1>6, <1>7 DEF K!Next

\* Whoever saves writes the latest file, with its own change made.
LEMMA SaveStep ==
    ASSUME IInv, NEW c \in Changes, Save(c)
    PROVE  IInv' /\ [K!Next]_<<file.keys, file.sets>>
  <1> DEFINE o == change[c]
  <1>1. /\ o.step = "taken" /\ Formed(o) /\ lock = c /\ Current(o, Store(file))
        /\ o.copy # None /\ o.copy = Modified(o, Store(file))
        /\ o.new # None => file.keys[o.new] = None
    BY DEF Save, IInv, ChangesFormed, Exclusive, NewSecrets
  <1>2. /\ file' = [keys |-> o.copy.keys, sets |-> o.copy.sets, usage |-> o.copy.usage,
                    written |-> file.written + 1]
        /\ cache' = IF o.proc = "server" THEN None ELSE cache
        /\ change' = [change EXCEPT ![c] = NoChange] /\ lock' = None
        /\ UNCHANGED issued
    BY <1>1 DEF Save, Unlock
  <1>3. file'.keys = o.copy.keys /\ file'.sets = o.copy.sets /\ file'.written = file.written + 1
    BY <1>2
  <1>4. /\ [K!Next]_<<file.keys, file.sets>>
        /\ \A s \in Secrets : file'.keys[s] # None => file.keys[s] # None \/ s = o.new
    BY <1>1, <1>3, ModifiedIsKeysStep DEF IInv
  <1>5. StoreSound'
    BY <1>3, <1>4, KeysStepSound, SMTT(60) DEF IInv, StoreSound
  <1>6. CopySound'
    BY <1>2, <1>3 DEF IInv, StoreSound, CopySound
  <1>7. \A e \in Changes : change'[e] = IF e = c THEN NoChange ELSE change[e]
    BY <1>2 DEF IInv, ChangesFormed
  <1>8. Formed(NoChange) /\ NoChange.new = None /\ NoChange.step = "free"
    BY DEF NoChange, Formed, Steps, Kinds
  <1>9. ChangesFormed'
    BY <1>2, <1>7, <1>8 DEF IInv, ChangesFormed
  <1>10. NewSecrets'
    <2>1. \A s \in Secrets : file'.keys[s] # None => s \in issued'
      BY <1>2, <1>4, AccessStore DEF IInv, NewSecrets
    <2>2. \A e \in Changes : change'[e].new # None =>
              change'[e].new \in issued' /\ file'.keys[change'[e].new] = None
      BY <1>2, <1>4, <1>7, <1>8 DEF IInv, NewSecrets
    <2>3. \A e, f \in Changes : change'[e].new = change'[f].new /\ change'[e].new # None => e = f
      BY <1>7, <1>8 DEF IInv, NewSecrets
    <2> QED
      BY <1>2, <2>1, <2>2, <2>3 DEF IInv, NewSecrets
  <1>11. Exclusive'
    <2>1. \A e \in Changes : change'[e].step # "taken"
      BY <1>1, <1>7, <1>8 DEF IInv, Exclusive
    <2> QED
      BY <2>1 DEF Exclusive
  <1> QED
    BY <1>4, <1>5, <1>6, <1>9, <1>10, <1>11 DEF IInv

-----------------------------------------------------------------------------
(* The theorems about the key store.                                       *)

\* Every step keeps the invariant.
LEMMA Step ==
    ASSUME IInv, [Next]_vars, Incidents \subseteq {"moved"}
    PROVE  IInv' /\ [K!Next]_<<file.keys, file.sets>>
  <1>1. ASSUME NEW c \in Changes, NEW p \in Procs, Ask(c, p)
        PROVE  IInv' /\ UNCHANGED file
    BY <1>1, AskStep
  <1>2. ASSUME NEW c \in Changes, Flush(c) PROVE IInv' /\ UNCHANGED file
    BY <1>2, FlushStep
  <1>3. ASSUME NEW c \in Changes, NEW d, Take(c, d) PROVE IInv' /\ UNCHANGED file
    BY <1>3, TakeStep
  <1>4. ASSUME NEW c \in Changes, Save(c) PROVE IInv' /\ [K!Next]_<<file.keys, file.sets>>
    BY <1>4, SaveStep
  <1>5. ASSUME NEW c \in Changes, SaveFails(c) PROVE IInv' /\ UNCHANGED file
    BY <1>5, SaveFailsStep
  <1>6. ASSUME NEW r \in Requests, Arrive(r) \/ LookUp(r) \/ Authenticate(r) \/ Serve(r)
        PROVE  IInv' /\ UNCHANGED file
    BY <1>6, RequestSteps
  <1>7. ASSUME NEW i \in Identities, WindowMoves(i) PROVE IInv' /\ UNCHANGED file
    BY <1>7, WindowStep
  <1>8. ASSUME NEW p \in Procs, Crash(p) PROVE IInv' /\ UNCHANGED file
    BY <1>8, CrashStep
  <1>9. CASE UNCHANGED vars
    BY <1>9, Quiet DEF vars, IInv, CopySound, Store
  <1> QED
    BY <1>1, <1>2, <1>3, <1>4, <1>5, <1>6, <1>7, <1>8, <1>9 DEF Next

\* Every key in the file has an existing permission set, the server's copy has
\* the content of the file whose signature it carries, and whoever is about to
\* write holds the lock and the latest file: no change of another process can
\* be lost.
THEOREM StoreInvariant ==
    ASSUME Incidents \subseteq {"moved"}
    PROVE  Spec => []IInv
  <1>1. IInv /\ [Next]_vars => IInv'
    BY Step
  <1> QED
    BY <1>1, Initially, PTL DEF Spec

\* Changes of the server and of the script take effect one by one on the latest
\* file, whatever crashes and whichever write of the script fails: Access
\* implements Keys.
THEOREM Implements ==
    ASSUME Incidents \subseteq {"moved"}
    PROVE  Spec => Serialized
  <1>1. Init => K!Init
    BY AccessStore DEF Init, K!Init, K!TypeOK, K!Records, K!Builtin
  <1>2. IInv /\ [Next]_vars => [K!Next]_<<file.keys, file.sets>>
    BY Step
  <1> QED
    BY <1>1, <1>2, StoreInvariant, PTL DEF Spec, Serialized, K!Spec

-----------------------------------------------------------------------------
(* Types of the key store, whatever the incidents.                         *)

\* An operation has the fields of its kind, and whoever has taken the locks has what
\* it is going to write.
Typed(o) ==
    /\ Formed(o) /\ o.deltas \in [Identities -> Nat]
    /\ o.step = "taken" => o.copy \in Stores

\* A request has the fields of a request.
Posed(q) ==
    q = [who |-> q.who, wants |-> q.wants, set |-> q.set, admin |-> q.admin, may |-> q.may, step |-> q.step]

\* Every variable has its type, and the file lock is of an operation that is about to write.
TInv ==
    /\ Store(file) \in Stores
    /\ cache # None => cache.data \in Stores
    /\ change = [c \in Changes |-> change[c]] /\ \A c \in Changes : Typed(change[c])
    /\ lock \in Changes \cup {None} /\ (lock # None => change[lock].step = "taken")
    /\ issued \subseteq Secrets
    /\ req = [r \in Requests |-> req[r]]
    /\ \A r \in Requests :
           /\ Posed(req[r])
           /\ req[r].step \in {"free", "arrived", "found", "known", "served", "ended"}
           /\ req[r].step \in {"arrived", "found"} => req[r].who \in Identities
    /\ bucket \in [Identities -> 0..Limit] /\ pending \in [Identities -> Nat]

\* What a process reads is a store.
LEMMA ViewTyped ==
    ASSUME TInv, NEW p
    PROVE  View(p) \in Stores
  <1>1. Normalize(Store(file)) \in Stores
    <2>1. \A s \in Secrets : file.keys[s] # None => [file.keys[s] EXCEPT !.set = User] \in Records
      BY AccessBounds DEF TInv, Stores, Store, Records
    <2> QED
      BY <2>1 DEF Normalize, TInv, Stores, Store
  <1> QED
    BY <1>1 DEF View, Fresh, TInv

\* What an unreadable file is taken for is a store.
LEMMA EmptyTyped == Empty \in Stores
  BY AccessStore DEF Empty, Stores, NoUsage

\* What a rotation makes of the store.
LEMMA RotatedIs ==
    ASSUME NEW o, NEW d \in Stores, o.key \in Secrets, o.new \in Secrets
    PROVE  RotateStored(o, d) = [keys |-> [[d.keys EXCEPT ![o.key] = None] EXCEPT ![o.new] = Record(o.set)],
                                  sets |-> d.sets, usage |-> [d.usage EXCEPT ![o.key] = 0]]
  <1>1. PICK k, s, u : d = [keys |-> k, sets |-> s, usage |-> u]
    BY DEF Stores
  <1>2. d.keys = k /\ d.sets = s /\ d.usage = u
    BY <1>1
  <1> DEFINE d0 == [keys |-> k, sets |-> s, usage |-> u]
             d1 == [keys |-> [k EXCEPT ![o.key] = None], sets |-> s, usage |-> u]
             d2 == [keys |-> [k EXCEPT ![o.key] = None], sets |-> s, usage |-> [u EXCEPT ![o.key] = 0]]
  <1>3. [d0 EXCEPT !.keys[o.key] = None] = d1
    OBVIOUS
  <1>4. [d1 EXCEPT !.usage[o.key] = 0] = d2
    OBVIOUS
  <1>5. [d2 EXCEPT !.keys[o.new] = Record(o.set)] =
            [keys |-> [[k EXCEPT ![o.key] = None] EXCEPT ![o.new] = Record(o.set)], sets |-> s, usage |-> [u EXCEPT ![o.key] = 0]]
    OBVIOUS
  <1>6. RotateStored(o, d0) = [[[d0 EXCEPT !.keys[o.key] = None] EXCEPT !.usage[o.key] = 0] EXCEPT !.keys[o.new] = Record(o.set)]
    BY DEF RotateStored
  <1>7. RotateStored(o, [keys |-> k, sets |-> s, usage |-> u]) =
            [keys |-> [[k EXCEPT ![o.key] = None] EXCEPT ![o.new] = Record(o.set)], sets |-> s, usage |-> [u EXCEPT ![o.key] = 0]]
    <2> HIDE DEF d1, d2
    <2>1. RotateStored(o, d0) = [d2 EXCEPT !.keys[o.new] = Record(o.set)]
      BY <1>3, <1>4, <1>6
    <2> QED
      BY <1>5, <2>1
  <1> QED
    BY <1>1, <1>2, <1>7

\* What an operation writes is a store.
LEMMA ModifiedTyped ==
    ASSUME NEW o, Typed(o), o.step # "free", NEW d \in Stores, Modified(o, d) # None
    PROVE  Modified(o, d) \in Stores
  <1>1. CASE o.kind = "create"
    <2>1. Record(o.set) \in Records
      BY <1>1 DEF Typed, Formed, Record, Records
    <2> QED
      BY <1>1, <2>1 DEF Typed, Formed, Modified, Add, Stores, Identities
  <1>2. CASE o.kind = "status"
    <2>1. o.key \in Secrets /\ d.keys[o.key] # None /\ Modified(o, d) = [d EXCEPT !.keys[o.key].active = o.active]
      BY <1>2 DEF Typed, Formed, Modified, Update
    <2>2. [d.keys[o.key] EXCEPT !.active = o.active] \in Records
      BY <2>1 DEF Stores, Records, Typed, Formed
    <2> QED
      BY <2>1, <2>2 DEF Stores
  <1>3. CASE o.kind = "assign"
    <2>1. o.key \in Secrets /\ d.keys[o.key] # None /\ Modified(o, d) = [d EXCEPT !.keys[o.key].set = o.set]
      BY <1>3 DEF Typed, Formed, Modified, Update
    <2>2. [d.keys[o.key] EXCEPT !.set = o.set] \in Records
      BY <1>3, <2>1 DEF Stores, Records, Typed, Formed
    <2> QED
      BY <2>1, <2>2 DEF Stores
  <1>4. CASE o.kind = "reset"
    BY <1>4 DEF Typed, Formed, Modified, Update, Stores, Identities
  <1>5. CASE o.kind = "delete"
    BY <1>5 DEF Typed, Formed, Modified, Delete, Stores, Identities
  <1>6. CASE o.kind = "rotate"
    <2>1. Record(o.set) \in Records
      BY <1>6 DEF Typed, Formed, Record, Records
    <2>2. o.key \in Secrets /\ o.new \in Secrets /\ Modified(o, d) = RotateStored(o, d)
      BY <1>6 DEF Typed, Formed, Modified
    <2> QED
      <3>1. o.key \in Identities /\ o.new \in Identities
        BY <2>2 DEF Identities
      <3>2. [[d.keys EXCEPT ![o.key] = None] EXCEPT ![o.new] = Record(o.set)] \in [Secrets -> Records \cup {None}]
        BY <2>1, <2>2 DEF Stores
      <3>3. [d.usage EXCEPT ![o.key] = 0] \in [Identities -> Nat]
        BY <3>1 DEF Stores
      <3>4. RotateStored(o, d) = [keys |-> [[d.keys EXCEPT ![o.key] = None] EXCEPT ![o.new] = Record(o.set)],
                                  sets |-> d.sets, usage |-> [d.usage EXCEPT ![o.key] = 0]]
        BY <2>2, RotatedIs
      <3> QED
        BY <2>2, <3>2, <3>3, <3>4 DEF Stores
  <1>7. CASE o.kind = "flush"
    BY <1>7 DEF Typed, Formed, Modified, MergeUsage, Stores, Identities
  <1>8. CASE o.kind \in {"define", "redefine"}
    <2>1. o.set \in Names /\ Modified(o, d) = Redefined(o, d)
      BY <1>8 DEF Typed, Formed, Modified
    <2> QED
      BY <2>1 DEF Redefined, Typed, Formed, Stores
  <1>9. CASE o.kind = "drop"
    BY <1>9 DEF Typed, Formed, Modified, Stores
  <1> QED
    BY <1>1, <1>2, <1>3, <1>4, <1>5, <1>6, <1>7, <1>8, <1>9 DEF Typed, Formed, Kinds

\* An operation that is free is typed.
LEMMA NoChangeTyped == Typed(NoChange) /\ NoChange.step = "free"
  BY DEF NoChange, NoUsage, Typed, Formed, Steps, Kinds

\* A save leaves requests where they are.
LEMMA SavedRequests ==
    ASSUME TInv, NEW c \in Changes, Save(c), NEW r \in Requests
    PROVE  req'[r].step = req[r].step /\ req'[r].who = req[r].who /\ Posed(req'[r])
  <1> DEFINE q == req[r]
             may == q.may \cup InForce(Store(file'), q.who)
  <1>1. q = [who |-> q.who, wants |-> q.wants, set |-> q.set, admin |-> q.admin, may |-> q.may, step |-> q.step]
    BY DEF TInv, Posed
  <1>2. req'[r] = [q EXCEPT !.may = may]
    BY DEF Save
  <1> HIDE DEF q, may
  <1>3. req'[r] = [who |-> q.who, wants |-> q.wants, set |-> q.set, admin |-> q.admin, may |-> may, step |-> q.step]
    BY <1>1, <1>2
  <1> QED
    BY <1>3 DEF Posed, q

\* The types hold at the beginning.
LEMMA TInit ==
    ASSUME Init PROVE TInv
  <1>1. NoUsage \in [Identities -> Nat] /\ NoUsage \in [Identities -> 0..Limit]
    BY AccessBounds DEF NoUsage
  <1>2. Store(file) \in Stores
    BY <1>1, AccessStore DEF Init, Store, Stores, Records
  <1> QED
    BY <1>1, <1>2, NoChangeTyped DEF Init, TInv, NoReq, Posed

\* A step keeps them.
LEMMA TStep ==
    ASSUME TInv, [Next]_vars PROVE TInv'
  <1> USE NoChangeTyped
  <1>1. ASSUME NEW c \in Changes, NEW p \in Procs, Ask(c, p) PROVE TInv'
    <2>1. PICK asked \in AskedOfKeys(p, View(p)) \cup AskedOfSets(p) :
              ~Refused(asked) /\ change' = [change EXCEPT ![c] = asked] /\ issued' = issued \cup ({asked.new} \ {None})
      BY <1>1 DEF Ask
    <2>2. Typed(asked) /\ asked.new \in Secrets \cup {None}
      <3>1. \A s \in Secrets : View(p).keys[s] # None => View(p).keys[s].set \in Names
        BY ViewTyped DEF Stores, Records
      <3>2. Formed(asked) /\ asked.step = "asked" /\ asked.deltas = NoUsage
        BY <2>1, <3>1, AskedFormed
      <3> QED
        BY <3>2 DEF Typed, Formed, NoUsage
    <2>3. lock # c /\ UNCHANGED <<file, lock, req, bucket, pending>> /\ Reading(p, View(p))
      BY <1>1, AccessStore DEF Ask, TInv
    <2>4. cache' # None => cache'.data \in Stores
      BY <2>3, ViewTyped DEF Reading, TInv
    <2> QED
      BY <2>1, <2>2, <2>3, <2>4 DEF TInv, Store
  <1>2. ASSUME NEW c \in Changes, Flush(c) PROVE TInv'
    <2>1. Typed([NoChange EXCEPT !.kind = "flush", !.proc = "server", !.deltas = pending, !.step = "asked"])
      BY ZenonT(60) DEF Typed, Formed, TInv, NoChange, Steps, Kinds, Procs
    <2>2. NoUsage \in [Identities -> Nat]
      BY DEF NoUsage
    <2> QED
      BY <1>2, <2>1, <2>2 DEF Flush, TInv, Store
  <1>3. ASSUME NEW c \in Changes, NEW d \in {View(change[c].proc), Empty}, Take(c, d) PROVE TInv'
    <2>1. d \in Stores
      BY ViewTyped, EmptyTyped
    <2>2. cache' # None => cache'.data \in Stores
      BY <1>3, <2>1 DEF Take, Reading, TInv
    <2>3. change[c].step = "asked" /\ UNCHANGED <<file, issued, req, bucket, pending>> /\ lock # c
      BY <1>3, AccessStore DEF Take, TInv
    <2>4. CASE Modified(change[c], d) = None
      BY <1>3, <2>2, <2>3, <2>4 DEF Take, TInv, Store
    <2>5. CASE Modified(change[c], d) # None
      <3>1. Modified(change[c], d) \in Stores
        BY <2>1, <2>3, <2>5, ModifiedTyped DEF TInv
      <3>2. change' = [change EXCEPT ![c] = Taken(change[c], Modified(change[c], d))]
            /\ lock' = IF lock = None THEN c ELSE lock
        BY <1>3, <2>5 DEF Take, Taken
      <3>3. Typed(change'[c]) /\ change'[c].step = "taken"
        <4>1. change'[c] = Taken(change[c], Modified(change[c], d)) /\ Typed(change[c])
          BY <3>2 DEF TInv
        <4>2. Formed(change'[c]) /\ change'[c].copy = Modified(change[c], d) /\ change'[c].step = "taken"
          BY <2>3, <4>1, SameOperation DEF Typed
        <4>3. change'[c].deltas = change[c].deltas
          BY <4>1 DEF Typed, Formed, Taken
        <4> QED
          BY <3>1, <4>1, <4>2, <4>3 DEF Typed
      <3> QED
        BY <2>2, <2>3, <3>2, <3>3 DEF TInv, Store
    <2> QED
      BY <2>4, <2>5
  <1>4. ASSUME NEW c \in Changes, Save(c) PROVE TInv'
    <2>1. change[c].copy \in Stores
      BY <1>4 DEF Save, TInv, Typed
    <2>2. Store(file') \in Stores
      BY <1>4, <2>1 DEF Save, Store, Stores
    <2>3. req' = [r \in Requests |-> req'[r]]
          /\ \A r \in Requests : req'[r].step = req[r].step /\ req'[r].who = req[r].who /\ Posed(req'[r])
      <3>1. req' = [r \in Requests |-> [req[r] EXCEPT !.may = @ \cup InForce(Store(file'), req[r].who)]]
        BY <1>4 DEF Save
      <3> QED
        BY <1>4, <3>1, SavedRequests
    <2> QED
      BY <1>4, <2>2, <2>3 DEF Save, Unlock, TInv, Store
  <1>5. ASSUME NEW c \in Changes, SaveFails(c) PROVE TInv'
    <2>1. change[c].copy \in Stores /\ Plus(pending, change[c].deltas) \in [Identities -> Nat]
      BY <1>5 DEF SaveFails, TInv, Typed, Plus
    <2> QED
      BY <1>5, <2>1 DEF SaveFails, Unlock, TInv, Store
  <1>6. ASSUME NEW r \in Requests, Arrive(r) PROVE TInv'
    BY <1>6 DEF Arrive, Posed, TInv, Store, Identities
  <1>7. ASSUME NEW r \in Requests, LookUp(r) PROVE TInv'
    <2>1. cache' # None => cache'.data \in Stores
      BY <1>7, ViewTyped DEF LookUp, Reading, TInv
    <2> QED
      BY <1>7, <2>1 DEF LookUp, End, NoReq, Posed, TInv, Store
  <1>8. ASSUME NEW r \in Requests, Authenticate(r) PROVE TInv'
    <2>1. cache' # None => cache'.data \in Stores
      BY <1>8, ViewTyped DEF Authenticate, Reading, TInv
    <2>2. req[r].who \in Identities /\ UNCHANGED <<file, lock, change, issued>>
      BY <1>8 DEF Authenticate, TInv
    <2>3. bucket' \in [Identities -> 0..Limit] /\ pending' \in [Identities -> Nat]
      BY <1>8, <2>2, AccessBounds DEF Authenticate, Room, TInv
    <2>4. /\ req' = [q \in Requests |-> req'[q]]
          /\ \A q \in Requests : q # r => req'[q] = req[q]
          /\ req'[r].step \in {"known", "ended"} /\ Posed(req'[r])
      BY <1>8 DEF Authenticate, End, NoReq, Posed, TInv
    <2> QED
      BY <2>1, <2>2, <2>3, <2>4 DEF TInv, Store
  <1>9. ASSUME NEW r \in Requests, Serve(r) PROVE TInv'
    <2>1. cache' # None => cache'.data \in Stores
      BY <1>9, ViewTyped DEF Serve, Reading, TInv
    <2> QED
      BY <1>9, <2>1 DEF Serve, End, NoReq, Posed, TInv, Store
  <1>10. ASSUME NEW i \in Identities, WindowMoves(i) PROVE TInv'
    BY <1>10, AccessBounds DEF WindowMoves, TInv, Store
  <1>11. ASSUME NEW p \in Procs, Crash(p) PROVE TInv'
    <2>1. NoUsage \in [Identities -> Nat] /\ NoUsage \in [Identities -> 0..Limit]
      BY AccessBounds DEF NoUsage
    <2>2. /\ change' = [c \in Changes |-> IF change[c].proc = p THEN NoChange ELSE change[c]]
          /\ lock' = IF lock \in {c \in Changes : change[c].proc = p} THEN None ELSE lock
      BY <1>11 DEF Crash
    <2>3. req' = [r \in Requests |-> req'[r]] /\ \A r \in Requests : req'[r] = req[r] \/ (req'[r].step = "ended" /\ Posed(req'[r]))
      BY <1>11 DEF Crash, NoReq, Posed, TInv
    <2>4. UNCHANGED <<file, issued>> /\ (cache' = cache \/ cache' = None)
          /\ bucket' \in [Identities -> 0..Limit] /\ pending' \in [Identities -> Nat]
      BY <1>11, <2>1 DEF Crash, TInv
    <2> QED
      BY <2>2, <2>3, <2>4 DEF TInv, Store
  <1>12. CASE UNCHANGED vars
    BY <1>12 DEF vars, TInv, Store
  <1> QED
    BY <1>1, <1>2, <1>3, <1>4, <1>5, <1>6, <1>7, <1>8, <1>9, <1>10, <1>11, <1>12 DEF Next

\* The invariant is about more than the types.
LEMMA TInvTyped == TInv => TypeOK
  BY DEF TInv, TypeOK, Store, Stores, Records

\* Type correctness, whatever the incidents: no identity has more requests in the rate
\* window than its limit, and the file lock is held by an operation that is about to write.
THEOREM TypeCorrect == Spec => []TypeOK
  BY TInvTyped, TInit, TStep, PTL DEF Spec

-----------------------------------------------------------------------------
(* Requests.                                                               *)

ReqType ==
    [who : Secrets \cup {Master, Local, None}, wants : Wanted \cup {None}, set : Names \cup {None},
     admin : BOOLEAN, may : SUBSET Powers,
     step : {"free", "arrived", "found", "known", "served", "ended"}]

\* Since a request arrived, the file has allowed its key at least what it allows
\* the key now, and at least what is in the set that was read for it.
RequestSound(q) ==
    /\ q.step \in {"arrived", "found", "known", "served"} =>
           q.wants \in Wanted /\ InForce(Store(file), q.who) \subseteq q.may
    /\ q.step \in {"arrived", "found"} => q.who \in Secrets \cup {Master}
    /\ q.step \in {"found", "known"} /\ q.who \in Secrets =>
           q.set \in Names /\ (file.sets[q.set] # None => file.sets[q.set] \subseteq q.may)
    /\ q.step = "known" /\ q.who \in Secrets /\ q.admin => "admin" \in q.may
    /\ q.step = "served" => q.wants \in q.may

RInv ==
    /\ req \in [Requests -> ReqType]
    /\ \A r \in Requests : RequestSound(req[r])

\* What the file allows a key is what is in the key's set.
LEMMA InForceIs ==
    ASSUME NEW f, NEW who,
           f.keys \in [Secrets -> [set : Names, active : BOOLEAN] \cup {None}],
           f.sets \in [Names -> (SUBSET Powers) \cup {None}],
           \A s \in Secrets : f.keys[s] # None => f.sets[f.keys[s].set] # None
    PROVE  /\ InForce(Store(f), who) =
                  IF who \notin Secrets THEN Powers
                  ELSE IF f.keys[who] = None THEN {}
                  ELSE IF ~f.keys[who].active THEN {}
                  ELSE f.sets[f.keys[who].set]
           /\ InForce(Store(f), who) \in SUBSET Powers
  <1>1. Normalize(Store(f)).sets = f.sets
    BY DEF Normalize, Store
  <1>2. ASSUME who \in Secrets, f.keys[who] # None
        PROVE  Normalize(Store(f)).keys[who] = f.keys[who]
    BY <1>2 DEF Normalize, Store
  <1>3. InForce(Store(f), who) =
            IF who \notin Secrets THEN Powers
            ELSE IF f.keys[who] = None THEN {}
            ELSE IF ~f.keys[who].active THEN {}
            ELSE f.sets[f.keys[who].set]
    BY <1>1, <1>2 DEF InForce, Store
  <1> QED
    BY <1>3

\* Steps that change one request, and no file.
LEMMA OneRequest ==
    ASSUME RInv, UNCHANGED file, NEW r \in Requests, NEW q \in ReqType, RequestSound(q),
           req' = [req EXCEPT ![r] = q]
    PROVE  RInv'
  <1>1. \A other \in Requests : req'[other] = IF other = r THEN q ELSE req[other]
    BY DEF RInv
  <1>2. req' \in [Requests -> ReqType]
    BY DEF RInv
  <1>3. \A other \in Requests : RequestSound(req[other])'
    BY <1>1 DEF RInv, RequestSound
  <1> QED
    BY <1>2, <1>3 DEF RInv

\* A request that ends is promised nothing.
LEMMA EndSound ==
    ASSUME RInv, UNCHANGED file, NEW r \in Requests, End(r)
    PROVE  RInv'
  <1> DEFINE q == [NoReq EXCEPT !.step = "ended"]
  <1>1. q \in ReqType /\ RequestSound(q)
    BY DEF NoReq, ReqType, RequestSound
  <1> QED
    BY <1>1, OneRequest DEF End

\* A request that arrives is promised what the file allows its key.
LEMMA ArriveSound ==
    ASSUME IInv, RInv, NEW r \in Requests, Arrive(r)
    PROVE  RInv'
  <1>1. PICK who \in issued \cup {Master, Local}, power \in Wanted :
            req' = [req EXCEPT ![r] =
                [who |-> who, wants |-> power,
                 set |-> IF who = Local THEN Admin ELSE None, admin |-> who = Local,
                 may |-> InForce(Store(file), who),
                 step |-> IF who = Local THEN "known" ELSE "arrived"]]
    BY DEF Arrive
  <1> DEFINE q == [who |-> who, wants |-> power,
                   set |-> IF who = Local THEN Admin ELSE None, admin |-> who = Local,
                   may |-> InForce(Store(file), who),
                   step |-> IF who = Local THEN "known" ELSE "arrived"]
  <1>2. InForce(Store(file), who) \in SUBSET Powers
    BY InForceIs DEF IInv, StoreSound
  <1>3. who \in Secrets \cup {Master, Local}
    BY DEF IInv, NewSecrets
  <1>4. q \in ReqType
    BY <1>2, <1>3, AccessBounds DEF ReqType
  <1>5. RequestSound(q)
    BY <1>3, AccessStore DEF RequestSound
  <1> QED
    BY <1>1, <1>4, <1>5, OneRequest DEF Arrive

\* It looks its key up in the file.
LEMMA LookUpSound ==
    ASSUME IInv, RInv, NEW r \in Requests, LookUp(r)
    PROVE  RInv'
  <1> DEFINE who == req[r].who
             set == IF who = Master THEN Admin ELSE file.keys[who].set
             q == [req[r] EXCEPT !.set = set, !.step = "found"]
  <1>1. View("server") = Store(file) /\ UNCHANGED file /\ req[r].step = "arrived"
    BY ViewIsFile DEF IInv, LookUp
  <1>2. /\ req[r] \in ReqType /\ who \in Secrets \cup {Master}
        /\ req[r].wants \in Wanted /\ InForce(Store(file), who) \subseteq req[r].may
    BY <1>1 DEF RInv, RequestSound
  <1>3. Store(file).keys = file.keys
    BY DEF Store
  <1>4. CASE ~(who = Master \/ (file.keys[who] # None /\ file.keys[who].active))
    BY <1>1, <1>3, <1>4, EndSound DEF LookUp
  <1>5. CASE who = Master \/ (file.keys[who] # None /\ file.keys[who].active)
    <2>1. req' = [req EXCEPT ![r].set = set, ![r].step = "found"]
      BY <1>1, <1>3, <1>5 DEF LookUp
    <2>2. req' = [req EXCEPT ![r] = q]
      BY <2>1
    <2>3. set \in Names
      BY <1>2, <1>5, AccessBounds DEF IInv, StoreSound
    <2>4. who \in Secrets => file.sets[set] \subseteq req[r].may
      BY <1>2, <1>5, AccessStore, InForceIs, SMTT(60) DEF IInv, StoreSound
    <2>5. q \in ReqType
      BY <1>2, <2>3 DEF ReqType
    <2>6. /\ q.step = "found" /\ q.set = set /\ q.who = who
          /\ q.may = req[r].may /\ q.wants = req[r].wants
      BY <1>2 DEF ReqType
    <2>7. RequestSound(q)
      <3> HIDE DEF q, set, who
      <3> QED
        BY <1>2, <2>3, <2>4, <2>6 DEF RequestSound, who
    <2> QED
      BY <1>1, <2>2, <2>5, <2>7, OneRequest
  <1> QED
    BY <1>4, <1>5

\* It is let in with the permission set that the file has.
LEMMA AuthenticateSound ==
    ASSUME IInv, RInv, NEW r \in Requests, Authenticate(r)
    PROVE  RInv'
  <1> DEFINE who == req[r].who
             admin == who = Master \/ "admin" \in file.sets[req[r].set]
             q == [req[r] EXCEPT !.step = "known", !.admin = admin]
  <1>1. View("server") = Store(file) /\ UNCHANGED file /\ req[r].step = "found"
    BY ViewIsFile DEF IInv, Authenticate
  <1>2. /\ req[r] \in ReqType /\ who \in Secrets \cup {Master}
        /\ req[r].wants \in Wanted /\ InForce(Store(file), who) \subseteq req[r].may
        /\ who \in Secrets => req[r].set \in Names /\
               (file.sets[req[r].set] # None => file.sets[req[r].set] \subseteq req[r].may)
    BY <1>1 DEF RInv, RequestSound
  <1>3. Store(file).sets = file.sets
    BY DEF Store
  <1>4. CASE ~((who = Master \/ file.sets[req[r].set] # None) /\ Room(who))
    BY <1>1, <1>3, <1>4, EndSound DEF Authenticate
  <1>5. CASE (who = Master \/ file.sets[req[r].set] # None) /\ Room(who)
    <2>1. req' = [req EXCEPT ![r].step = "known", ![r].admin = admin]
      BY <1>1, <1>3, <1>5 DEF Authenticate
    <2>2. req' = [req EXCEPT ![r] = q]
      BY <2>1
    <2>3. admin \in BOOLEAN /\ (who \in Secrets /\ admin => "admin" \in req[r].may)
      BY <1>2, <1>5, AccessStore
    <2> HIDE DEF admin
    <2>4. q \in ReqType
      BY <1>2, <2>3 DEF ReqType
    <2>5. /\ q.step = "known" /\ q.set = req[r].set /\ q.who = who /\ q.admin = admin
          /\ q.may = req[r].may /\ q.wants = req[r].wants
      BY <1>2 DEF ReqType
    <2>6. RequestSound(q)
      <3> HIDE DEF q
      <3> QED
        BY <1>2, <2>3, <2>5 DEF RequestSound
    <2> QED
      BY <1>1, <2>2, <2>4, <2>6, OneRequest
  <1> QED
    BY <1>4, <1>5

\* It is served no more than it was promised.
LEMMA ServeSound ==
    ASSUME IInv, RInv, NEW r \in Requests, Serve(r)
    PROVE  RInv'
  <1> DEFINE q == [req[r] EXCEPT !.step = "served"]
  <1>1. View("server") = Store(file) /\ UNCHANGED file /\ req[r].step = "known"
    BY ViewIsFile DEF IInv, Serve
  <1>2. req[r] \in ReqType /\ RequestSound(req[r])
    BY DEF RInv
  <1>3. CASE ~May(r, Store(file))
    BY <1>1, <1>3, EndSound DEF Serve
  <1>4. CASE May(r, Store(file))
    <2>1. req' = [req EXCEPT ![r] = q]
      BY <1>1, <1>4 DEF Serve
    <2>2. req[r].wants \in req[r].may
      BY <1>1, <1>2, <1>4, InForceIs, AccessBounds DEF May, RequestSound, Store, IInv, StoreSound
    <2>3. q \in ReqType
      BY <1>2 DEF ReqType
    <2>4. q.step = "served" /\ q.who = req[r].who /\ q.may = req[r].may /\ q.wants = req[r].wants
      BY <1>2 DEF ReqType
    <2>5. RequestSound(q)
      <3> HIDE DEF q
      <3> QED
        BY <1>1, <1>2, <2>2, <2>4 DEF RequestSound
    <2> QED
      BY <1>1, <2>1, <2>3, <2>5, OneRequest
  <1> QED
    BY <1>3, <1>4

\* The powers of a set change by an operation on that set alone, which leaves
\* the keys as they are.
LEMMA SetsChange ==
    ASSUME IInv, NEW c \in Changes, Save(c), NEW n \in Names
    PROVE  \/ file'.sets[n] = file.sets[n]
           \/ file'.sets[n] = None
           \/ change[c].kind \in {"define", "redefine"} /\ change[c].set = n /\ file'.keys = file.keys
  <1> DEFINE o == change[c]
             m == Modified(o, Store(file))
  <1>1. /\ file'.keys = m.keys /\ file'.sets = m.sets /\ m # None
        /\ Formed(o) /\ o.step = "taken"
    BY DEF Save, IInv, ChangesFormed, Exclusive
  <1>2. CASE o.kind \in {"create", "status", "assign", "reset", "delete", "rotate", "flush"}
    <2>1. m.sets = file.sets
      BY <1>1, <1>2 DEF Modified, Add, Update, Delete, RotateStored, MergeUsage, Store
    <2> QED
      BY <1>1, <2>1
  <1>3. CASE o.kind \in {"define", "redefine"}
    <2>1. m = Redefined(o, Store(file))
      BY <1>1, <1>3 DEF Modified
    <2>2. m.keys = file.keys /\ (n # o.set => m.sets[n] = file.sets[n])
      BY <2>1 DEF Redefined, Store, IInv, StoreSound
    <2> QED
      BY <1>1, <1>3, <2>2
  <1>4. CASE o.kind = "drop"
    <2>1. m = [Store(file) EXCEPT !.sets[o.set] = None]
      BY <1>1, <1>4 DEF Modified
    <2>2. m.sets = [file.sets EXCEPT ![o.set] = None]
      BY <2>1 DEF Store
    <2> QED
      BY <1>1, <2>2 DEF IInv, StoreSound
  <1> QED
    BY <1>1, <1>2, <1>3, <1>4 DEF Formed, Kinds

\* A change of the file widens what a request may have been allowed. A set that
\* a request has read gets more only while its key is still in that set.
LEMMA SaveSound ==
    ASSUME IInv, RInv, NEW c \in Changes, Save(c), "moved" \notin Incidents
    PROVE  RInv'
  <1>1. StoreSound'
    BY SaveStep DEF IInv
  <1>2. req' = [r \in Requests |-> [req[r] EXCEPT !.may = @ \cup InForce(Store(file'), req[r].who)]]
    BY DEF Save
  <1>3. ASSUME NEW r \in Requests
        PROVE  req'[r] \in ReqType /\ RequestSound(req[r])'
    <2> DEFINE q == req[r]
               now == InForce(Store(file'), q.who)
    <2>1. q \in ReqType /\ RequestSound(q)
      BY DEF RInv
    <2>2. /\ now = IF q.who \notin Secrets THEN Powers
                   ELSE IF file'.keys[q.who] = None THEN {}
                   ELSE IF ~file'.keys[q.who].active THEN {}
                   ELSE file'.sets[file'.keys[q.who].set]
          /\ now \in SUBSET Powers
      BY <1>1, InForceIs DEF StoreSound
    <2>3. req'[r] = [q EXCEPT !.may = q.may \cup now]
      BY <1>2
    <2> HIDE DEF now
    <2>4. req'[r] \in ReqType
      BY <2>1, <2>2, <2>3, ZenonT(60) DEF ReqType
    <2>5. /\ req'[r].step = q.step /\ req'[r].who = q.who /\ req'[r].wants = q.wants
          /\ req'[r].set = q.set /\ req'[r].admin = q.admin /\ req'[r].may = q.may \cup now
      BY <2>1, <2>3 DEF ReqType
    <2>6. ASSUME q.step \in {"found", "known"}, q.who \in Secrets, file'.sets[q.set] # None
          PROVE  file'.sets[q.set] \subseteq q.may \cup now
      <3>1. q.set \in Names /\ (file.sets[q.set] # None => file.sets[q.set] \subseteq q.may)
        BY <2>1, <2>6 DEF RequestSound
      <3>2. CASE file'.sets[q.set] = file.sets[q.set]
        BY <2>6, <3>1, <3>2
      <3>3. CASE change[c].kind \in {"define", "redefine"} /\ change[c].set = q.set /\ file'.keys = file.keys
        <4>1. file'.keys[q.who] = Record(q.set) /\ file.keys[q.who] # None
          BY <2>6, <3>3 DEF Save, Allowed
        <4> QED
          BY <2>2, <2>6, <3>3, <4>1 DEF Record
      <3> QED
        BY <2>6, <3>1, <3>2, <3>3, SetsChange
    <2>7. now = InForce(Store(file'), req'[r].who)
      BY <2>5 DEF now
    <2> HIDE DEF q
    <2> QED
      BY <2>1, <2>4, <2>5, <2>6, <2>7 DEF RequestSound
  <1> QED
    BY <1>2, <1>3 DEF RInv

\* A crash of the server ends its requests.
LEMMA CrashSound ==
    ASSUME RInv, NEW p \in Procs, Crash(p)
    PROVE  RInv'
  <1> DEFINE ended == [NoReq EXCEPT !.step = "ended"]
  <1>1. ended \in ReqType /\ ended.step = "ended"
    BY DEF NoReq, ReqType
  <1>2. UNCHANGED file /\ \A r \in Requests : req'[r] \in {req[r], ended}
    BY DEF Crash
  <1> HIDE DEF ended
  <1>3. \A r \in Requests : req'[r] \in ReqType /\ RequestSound(req[r])'
    BY <1>1, <1>2 DEF RInv, RequestSound
  <1>4. req' = [r \in Requests |-> req'[r]]
    BY DEF Crash, RInv
  <1> QED
    BY <1>3, <1>4 DEF RInv

\* Every step keeps what the requests are promised.
LEMMA RequestStep ==
    ASSUME IInv, RInv, [Next]_vars, "moved" \notin Incidents
    PROVE  RInv'
  <1>1. CASE UNCHANGED <<file, req>>
    BY <1>1 DEF RInv, RequestSound
  <1>2. ASSUME NEW r \in Requests, Arrive(r) \/ LookUp(r) \/ Authenticate(r) \/ Serve(r)
        PROVE  RInv'
    BY <1>2, ArriveSound, LookUpSound, AuthenticateSound, ServeSound
  <1>3. ASSUME NEW c \in Changes, Save(c) PROVE RInv'
    BY <1>3, SaveSound
  <1>4. ASSUME NEW p \in Procs, Crash(p) PROVE RInv'
    BY <1>4, CrashSound
  <1>5. ASSUME NEW c \in Changes,
               \/ \E p \in Procs : Ask(c, p)
               \/ Flush(c) \/ SaveFails(c)
               \/ \E d \in {View(change[c].proc), Empty} : Take(c, d)
        PROVE  UNCHANGED <<file, req>>
    BY <1>5 DEF Ask, Flush, SaveFails, Take
  <1>6. ASSUME NEW i \in Identities, WindowMoves(i) PROVE UNCHANGED <<file, req>>
    BY <1>6 DEF WindowMoves
  <1> QED
    BY <1>1, <1>2, <1>3, <1>4, <1>5, <1>6 DEF Next, vars

\* Nothing is served that was not allowed to the key at some moment since the
\* request arrived, whatever copy, process or half of a change it met.
THEOREM Served ==
    ASSUME Incidents = {}
    PROVE  Spec => []ServedInForce
  <1>1. Init => RInv
    BY DEF Init, RInv, RequestSound, NoReq, ReqType
  <1>2. IInv /\ RInv /\ [Next]_vars => RInv'
    BY RequestStep
  <1>3. RInv => ServedInForce
    BY DEF RInv, RequestSound, ServedInForce
  <1>4. Spec => []IInv
    BY StoreInvariant
  <1> QED
    BY <1>1, <1>2, <1>3, <1>4, PTL DEF Spec

-----------------------------------------------------------------------------
(* The usage counts.                                                       *)

\* A secret that no file has had yet: nobody generated it, or a change that is to
\* write it did.
Unused(s) == s \notin issued \/ \E c \in Changes : change[c].new = s

\* The counts that flushes have taken and not written.
Flushing(s) == SumFunction([c \in Changes |-> change[c].deltas[s]])

\* Only flushes of the server, on their way, have counts.
DeltasFlushed ==
    \A c \in Changes : change[c].deltas # NoUsage =>
        change[c].kind = "flush" /\ change[c].proc = "server" /\ change[c].step # "free"

\* Nothing was counted for a secret that is not in use, and no request has been let in with it.
UnusedUncounted ==
    \A s \in Secrets : Unused(s) =>
        /\ tracked[s] = 0 /\ file.usage[s] = 0 /\ pending[s] = 0
        /\ \A c \in Changes : change[c].deltas[s] = 0
        /\ \A r \in Requests : req[r].who = s => req[r].step # "found"

UInv == DeltasFlushed /\ UnusedUncounted /\ tracked \in [Identities -> Int] /\ UsageExact

\* What one operation does to the sums.
LEMMA FlushingStep ==
    ASSUME TInv, TInv', NEW c \in Changes, \A e \in Changes : e # c => change'[e].deltas = change[e].deltas,
           NEW s \in Secrets
    PROVE  /\ Flushing(s) \in Nat /\ Flushing(s)' \in Nat
           /\ Flushing(s)' + change[c].deltas[s] = Flushing(s) + change'[c].deltas[s]
           /\ change[c].deltas[s] \in Nat /\ change'[c].deltas[s] \in Nat
  <1> DEFINE f == [e \in Changes |-> change[e].deltas[s]]
             g == [e \in Changes |-> change'[e].deltas[s]]
  <1>1. f \in [Changes -> Nat] /\ g \in [Changes -> Nat]
    BY DEF TInv, Typed, Identities
  <1>2. \A e \in Changes : e # c => g[e] = f[e]
    OBVIOUS
  <1>3. f[c] = change[c].deltas[s] /\ g[c] = change'[c].deltas[s]
    OBVIOUS
  <1>4. f[c] \in Nat /\ g[c] \in Nat
    BY <1>1
  <1>5. Flushing(s) = SumFunction(f) /\ Flushing(s)' = SumFunction(g)
    BY DEF Flushing
  <1>6. IsFiniteSet(Changes)
    BY AccessBounds
  <1> HIDE DEF f, g
  <1>7. SumFunction(f) \in Nat /\ SumFunction(g) \in Nat
    BY <1>1, <1>6, SumType
  <1>8. SumFunction(g) + f[c] = SumFunction(f) + g[c]
    BY <1>1, <1>2, <1>6, SumOfChange
  <1> QED
    BY <1>3, <1>4, <1>5, <1>7, <1>8

\* Without counts on their way there is nothing to add.
LEMMA NoFlushing ==
    ASSUME NEW s, \A c \in Changes : change[c].deltas[s] = 0
    PROVE  Flushing(s) = 0
  <1> DEFINE f == [e \in Changes |-> change[e].deltas[s]]
  <1>1. f \in [Changes -> Nat] /\ \A e \in Changes : f[e] = 0
    OBVIOUS
  <1>2. Flushing(s) = SumFunction(f) /\ IsFiniteSet(Changes)
    BY AccessBounds DEF Flushing
  <1> HIDE DEF f
  <1> QED
    BY <1>1, <1>2, SumType

\* The counts hold at the beginning.
LEMMA UInit ==
    ASSUME Init PROVE UInv
  <1>1. \A c \in Changes : change[c].deltas = NoUsage
    BY DEF Init, NoChange
  <1>2. \A s \in Secrets : NoUsage[s] = 0
    BY DEF NoUsage, Identities
  <1>3. \A s \in Secrets : Flushing(s) = 0
    BY <1>1, <1>2, NoFlushing
  <1>4. UsageExact
    BY <1>2, <1>3 DEF Init, UsageExact, Flushing
  <1>5. UnusedUncounted
    BY <1>1, <1>2 DEF Init, UnusedUncounted, NoReq
  <1>6. tracked \in [Identities -> Int]
    BY DEF Init, NoUsage
  <1> QED
    BY <1>1, <1>4, <1>5, <1>6 DEF UInv, DeltasFlushed

\* A step that leaves keys, counters and counts alone keeps the rest.
LEMMA SameCounts ==
    ASSUME UInv, UNCHANGED <<file, pending, tracked>>,
           \A c \in Changes : change'[c].deltas = change[c].deltas,
           DeltasFlushed',
           \A s \in Secrets : Unused(s)' => Unused(s),
           \A s \in Secrets : Unused(s) => \A r \in Requests : req'[r].who = s => req'[r].step # "found"
    PROVE  UInv'
  <1>1. [c \in Changes |-> change'[c].deltas] = [c \in Changes |-> change[c].deltas]
    OBVIOUS
  <1>2. \A s : Flushing(s)' = Flushing(s)
    <2> TAKE s
    <2>1. [c \in Changes |-> change'[c].deltas[s]] = [c \in Changes |-> change[c].deltas[s]]
      OBVIOUS
    <2> QED
      BY <2>1 DEF Flushing
  <1>3. UsageExact'
    BY <1>2 DEF UInv, UsageExact, Flushing
  <1>4. UnusedUncounted'
    <2>1. \A s \in Secrets : Unused(s) =>
              /\ tracked[s] = 0 /\ file.usage[s] = 0 /\ pending[s] = 0
              /\ \A c \in Changes : change[c].deltas[s] = 0
      BY DEF UInv, UnusedUncounted
    <2> QED
      BY <2>1 DEF UnusedUncounted
  <1> QED
    BY <1>3, <1>4 DEF UInv

\* What an operation makes of the counts that are in the file.
LEMMA ModifiedUsage ==
    ASSUME NEW o, Formed(o), o.step # "free", o.deltas \in [Identities -> Nat],
           o.kind # "flush" => o.deltas = NoUsage,
           NEW d, d \in Stores, NEW m, m = Modified(o, d), m # None,
           o.new # None => d.keys[o.new] = None,
           NEW s \in Secrets
    PROVE  /\ d.keys[s] = None => m.usage[s] \in {0, d.usage[s]} /\ (m.keys[s] # None => s = o.new)
           /\ d.keys[s] # None /\ m.keys[s] # None =>
                 m.usage[s] = (IF o.kind = "reset" /\ o.key = s THEN 0 ELSE d.usage[s]) + o.deltas[s]
           /\ o.kind = "reset" => d.keys[o.key] # None /\ o.key \in Secrets /\ m.keys = d.keys
  <1>0. /\ s \in Identities /\ d.usage \in [Identities -> Nat] /\ d.usage[s] \in Nat /\ d.usage[s] + 0 = d.usage[s]
        /\ o.deltas[s] \in Nat /\ (o.kind # "flush" => o.deltas[s] = 0) /\ o.kind \in Kinds
        /\ d.keys \in [Secrets -> Records \cup {None}] /\ None \notin Records
    BY AccessStore DEF Stores, Records, Identities, NoUsage, Formed
  <1>1. CASE o.kind = "create"
    <2>1. m = Add(o, d) /\ o.new \in Secrets
      BY <1>1 DEF Modified, Formed
    <2>2. m.keys = [d.keys EXCEPT ![o.new] = Record(o.set)] /\ m.usage = [d.usage EXCEPT ![o.new] = 0]
      BY <2>1 DEF Add, Stores
    <2>3. o.new # None
      BY <2>1, AccessStore
    <2> QED
      BY <1>0, <1>1, <2>1, <2>2, <2>3
  <1>2. CASE o.kind = "status"
    <2>1. m = [d EXCEPT !.keys[o.key].active = o.active] /\ o.key \in Secrets /\ d.keys[o.key] # None
      BY <1>2 DEF Modified, Update, Formed
    <2>2. m.usage = d.usage /\ \A k \in Secrets : k # o.key => m.keys[k] = d.keys[k]
      BY <2>1 DEF Stores
    <2> QED
      BY <1>0, <1>2, <2>1, <2>2
  <1>3. CASE o.kind = "assign"
    <2>1. m = [d EXCEPT !.keys[o.key].set = o.set] /\ o.key \in Secrets /\ d.keys[o.key] # None
      BY <1>3 DEF Modified, Update, Formed
    <2>2. m.usage = d.usage /\ \A k \in Secrets : k # o.key => m.keys[k] = d.keys[k]
      BY <2>1 DEF Stores
    <2> QED
      BY <1>0, <1>3, <2>1, <2>2
  <1>4. CASE o.kind = "reset"
    <2>1. m = [d EXCEPT !.usage[o.key] = 0] /\ o.key \in Secrets /\ d.keys[o.key] # None
      BY <1>4 DEF Modified, Update, Formed
    <2>2. m.keys = d.keys /\ m.usage = [d.usage EXCEPT ![o.key] = 0]
      BY <2>1 DEF Stores
    <2> QED
      BY <1>0, <1>4, <2>1, <2>2
  <1>5. CASE o.kind = "delete"
    <2>1. m = Delete(o, d) /\ o.key \in Secrets /\ d.keys[o.key] # None
      BY <1>5 DEF Modified, Formed
    <2>2. m.keys = [d.keys EXCEPT ![o.key] = None] /\ m.usage = [d.usage EXCEPT ![o.key] = 0]
      BY <2>1 DEF Delete, Stores
    <2> QED
      BY <1>0, <1>5, <2>1, <2>2
  <1>6. CASE o.kind = "rotate"
    <2>1. m = RotateStored(o, d) /\ o.key \in Secrets /\ d.keys[o.key] # None /\ o.new \in Secrets
      BY <1>6 DEF Modified, Formed
    <2>2. m.keys = [[d.keys EXCEPT ![o.key] = None] EXCEPT ![o.new] = Record(o.set)]
          /\ m.usage = [d.usage EXCEPT ![o.key] = 0]
      BY <2>1, RotatedIs
    <2>3. o.new # None
      BY <2>1, AccessStore
    <2> QED
      BY <1>0, <1>6, <2>1, <2>2, <2>3
  <1>7. CASE o.kind = "flush"
    <2>1. m = MergeUsage(o, d)
      BY <1>7 DEF Modified
    <2>2. m.keys = d.keys /\ m.usage[s] = IF d.keys[s] # None THEN d.usage[s] + o.deltas[s] ELSE d.usage[s]
      BY <1>0, <2>1 DEF MergeUsage, Stores
    <2> QED
      BY <1>0, <1>7, <2>2
  <1>8. CASE o.kind \in {"define", "redefine"}
    <2>1. m = Redefined(o, d)
      BY <1>8 DEF Modified
    <2>2. m.keys = d.keys /\ m.usage = d.usage
      BY <2>1 DEF Redefined, Stores
    <2> QED
      BY <1>0, <1>8, <2>2
  <1>9. CASE o.kind = "drop"
    <2>1. m = [d EXCEPT !.sets[o.set] = None]
      BY <1>9 DEF Modified
    <2>2. m.keys = d.keys /\ m.usage = d.usage
      BY <2>1 DEF Stores
    <2> QED
      BY <1>0, <1>9, <2>2
  <1> QED
    BY <1>0, <1>1, <1>2, <1>3, <1>4, <1>5, <1>6, <1>7, <1>8, <1>9 DEF Kinds

\* A save: the counts of a flush are in the file, and no others.
LEMMA SaveCounts ==
    ASSUME IInv, TInv, TInv', UInv, NEW c \in Changes, Save(c)
    PROVE  UInv'
  <1> DEFINE o == change[c]
             d == Store(file)
             m == o.copy
  <1>1. /\ o.step = "taken" /\ Formed(o) /\ m # None /\ m = Modified(o, d)
        /\ o.new # None => file.keys[o.new] = None
        /\ \A s \in Secrets : file.keys[s] # None => ~Unused(s)
    BY AccessStore DEF Save, IInv, ChangesFormed, Exclusive, NewSecrets, Unused
  <1>2. /\ file' = [keys |-> m.keys, sets |-> m.sets, usage |-> m.usage, written |-> file.written + 1]
        /\ change' = [change EXCEPT ![c] = NoChange]
        /\ tracked' = [i \in Identities |-> IF o.kind = "reset" /\ o.key = i THEN tracked[i] - file.usage[i] ELSE tracked[i]]
        /\ UNCHANGED <<issued, pending>>
    BY DEF Save, Unlock
  <1>3. \A e \in Changes : change'[e] = IF e = c THEN NoChange ELSE change[e]
    BY <1>2 DEF TInv
  <1>4. /\ o.deltas \in [Identities -> Nat] /\ (o.kind # "flush" => o.deltas = NoUsage)
        /\ d \in Stores /\ d.keys = file.keys /\ d.usage = file.usage
    BY DEF TInv, Typed, UInv, DeltasFlushed, Store
  <1>5. file'.keys = m.keys /\ file'.usage = m.usage
    BY <1>2
  <1>6. ASSUME NEW s \in Secrets
        PROVE  /\ file.keys[s] = None => m.usage[s] \in {0, file.usage[s]} /\ (m.keys[s] # None => s = o.new)
               /\ file.keys[s] # None /\ m.keys[s] # None =>
                     m.usage[s] = (IF o.kind = "reset" /\ o.key = s THEN 0 ELSE file.usage[s]) + o.deltas[s]
               /\ o.kind = "reset" => file.keys[o.key] # None
    <2> HIDE DEF o, d, m
    <2> QED
      BY <1>1, <1>4, ModifiedUsage
  <1>7. \A s \in Secrets : NoChange.deltas[s] = 0
    BY DEF NoChange, NoUsage, Identities
  <1>8. \A s \in Secrets : Flushing(s) \in Nat /\ Flushing(s)' \in Nat /\ Flushing(s)' + o.deltas[s] = Flushing(s)
    <2> TAKE s \in Secrets
    <2>1. \A e \in Changes : e # c => change'[e].deltas = change[e].deltas
      BY <1>3
    <2>2. change'[c].deltas[s] = 0
      BY <1>3, <1>7
    <2> HIDE DEF o
    <2> QED
      BY <2>1, <2>2, FlushingStep DEF o
  <1>9. \A s \in Secrets : Unused(s)' => Unused(s)
    <2>1. NoChange.new = None /\ None \notin Secrets
      BY AccessStore DEF NoChange
    <2> QED
      BY <1>2, <1>3, <2>1 DEF Unused
  <1>10. \A s \in Secrets : Unused(s) =>
              /\ tracked[s] = 0 /\ file.usage[s] = 0 /\ pending[s] = 0
              /\ \A e \in Changes : change[e].deltas[s] = 0
              /\ \A r \in Requests : req[r].who = s => req[r].step # "found"
    BY DEF UInv, UnusedUncounted
  <1>11. DeltasFlushed'
    BY <1>3 DEF UInv, DeltasFlushed, NoChange
  <1>12. tracked' \in [Identities -> Int] /\ pending \in [Identities -> Nat] /\ file.usage \in [Identities -> Nat]
         /\ tracked \in [Identities -> Int]
    BY <1>2, <1>4 DEF UInv, TInv, Stores
  <1>13. \A s \in Secrets : s \in Identities
    BY DEF Identities
  <1>14. UnusedUncounted'
    <2> SUFFICES ASSUME NEW s \in Secrets, Unused(s)'
                 PROVE  /\ tracked'[s] = 0 /\ file'.usage[s] = 0 /\ pending'[s] = 0
                        /\ \A e \in Changes : change'[e].deltas[s] = 0
                        /\ \A r \in Requests : req'[r].who = s => req'[r].step # "found"
      BY DEF UnusedUncounted
    <2>1. Unused(s) /\ file.keys[s] = None
      BY <1>1, <1>9
    <2>2. tracked'[s] = 0
      BY <1>2, <1>6, <1>10, <1>13, <2>1
    <2>3. file'.usage[s] = 0
      BY <1>5, <1>6, <1>10, <2>1
    <2>4. \A r \in Requests : req'[r].who = req[r].who /\ req'[r].step = req[r].step
      BY SavedRequests
    <2> QED
      BY <1>2, <1>3, <1>7, <1>10, <2>1, <2>2, <2>3, <2>4
  <1>15. \A s \in Secrets : file'.keys[s] # None => tracked'[s] = file'.usage[s] + pending'[s] + Flushing(s)'
    <2> TAKE s \in Secrets
    <2> HAVE file'.keys[s] # None
    <2>0. tracked[s] \in Int /\ pending[s] \in Nat /\ file.usage[s] \in Nat /\ o.deltas[s] \in Nat
      BY <1>4, <1>12, <1>13
    <2>1. CASE file.keys[s] # None
      <3>1. tracked[s] = file.usage[s] + pending[s] + Flushing(s)
        BY <2>1 DEF UInv, UsageExact, Flushing
      <3>2. tracked'[s] = IF o.kind = "reset" /\ o.key = s THEN tracked[s] - file.usage[s] ELSE tracked[s]
        BY <1>2, <1>13
      <3>3. file'.usage[s] = (IF o.kind = "reset" /\ o.key = s THEN 0 ELSE file.usage[s]) + o.deltas[s]
        BY <1>5, <1>6, <2>1
      <3>4. Flushing(s) \in Nat /\ Flushing(s)' \in Nat /\ Flushing(s)' + o.deltas[s] = Flushing(s)
        BY <1>8
      <3>5. pending'[s] = pending[s]
        BY <1>2
      <3> HIDE DEF o, d, m
      <3> QED
        BY <2>0, <3>1, <3>2, <3>3, <3>4, <3>5
    <2>2. CASE file.keys[s] = None
      <3>1. s = o.new /\ s # None
        BY <1>5, <1>6, <2>2, AccessStore
      <3>2. Unused(s)
        BY <3>1 DEF Unused
      <3>3. tracked'[s] = 0
        BY <1>2, <1>6, <1>10, <1>13, <2>2, <3>2
      <3>4. file'.usage[s] = 0 /\ pending'[s] = 0
        BY <1>2, <1>5, <1>6, <1>10, <2>2, <3>2
      <3>5. Flushing(s)' = 0
        <4>1. \A e \in Changes : change'[e].deltas[s] = 0
          BY <1>3, <1>7, <1>10, <3>2
        <4>2. [e \in Changes |-> change'[e].deltas[s]] = [e \in Changes |-> 0]
          BY <4>1
        <4>3. Flushing(s) = 0
          BY <1>10, <3>2, NoFlushing
        <4>4. o.deltas[s] = 0
          BY <1>10, <3>2
        <4> HIDE DEF o
        <4> QED
          BY <1>8, <4>3, <4>4
      <3> QED
        BY <3>3, <3>4, <3>5
    <2> QED
      BY <2>1, <2>2
  <1> QED
    BY <1>11, <1>12, <1>14, <1>15 DEF UInv, UsageExact, Flushing

\* An operation that is asked for has taken no counts, and its secret is new.
LEMMA AskCounts ==
    ASSUME IInv, TInv, UInv, NEW c \in Changes, NEW p \in Procs, Ask(c, p)
    PROVE  UInv'
  <1>1. View(p) = Store(file)
    BY ViewIsFile DEF IInv
  <1>2. PICK asked \in AskedOfKeys(p, Store(file)) \cup AskedOfSets(p) :
            ~Refused(asked) /\ change' = [change EXCEPT ![c] = asked] /\ issued' = issued \cup ({asked.new} \ {None})
    BY <1>1 DEF Ask
  <1>3. \A s \in Secrets : Store(file).keys[s] # None => Store(file).keys[s].set \in Names
    BY DEF IInv, StoreSound, Store
  <1>4. asked.deltas = NoUsage /\ (asked.new # None => asked.new \in Secrets \ issued)
    BY <1>2, <1>3, AskedFormed
  <1>5. change[c].step = "free" /\ UNCHANGED <<file, req, pending, tracked>>
    BY DEF Ask
  <1>6. \A e \in Changes : change'[e] = IF e = c THEN asked ELSE change[e]
    BY <1>2 DEF TInv
  <1>7. \A e \in Changes : change'[e].deltas = change[e].deltas
    BY <1>4, <1>5, <1>6 DEF UInv, DeltasFlushed
  <1>8. DeltasFlushed'
    BY <1>4, <1>6 DEF UInv, DeltasFlushed
  <1>9. \A s \in Secrets : Unused(s)' => Unused(s)
    BY <1>2, <1>4, <1>6, AccessStore DEF Unused
  <1>10. \A s \in Secrets : Unused(s) => \A r \in Requests : req'[r].who = s => req'[r].step # "found"
    BY <1>5 DEF UInv, UnusedUncounted
  <1> QED
    BY <1>5, <1>7, <1>8, <1>9, <1>10, SameCounts

\* A flush takes the counts with it.
LEMMA FlushCounts ==
    ASSUME TInv, TInv', UInv, NEW c \in Changes, Flush(c)
    PROVE  UInv'
  <1> DEFINE flush == [NoChange EXCEPT !.kind = "flush", !.proc = "server", !.deltas = pending, !.step = "asked"]
  <1>1. flush.kind = "flush" /\ flush.proc = "server" /\ flush.deltas = pending /\ flush.step = "asked" /\ flush.new = None
    BY DEF NoChange
  <1>2. /\ change[c].step = "free" /\ change' = [change EXCEPT ![c] = flush] /\ pending' = NoUsage
        /\ UNCHANGED <<file, issued, req, tracked>>
    BY DEF Flush
  <1> HIDE DEF flush
  <1>3. \A e \in Changes : change'[e] = IF e = c THEN flush ELSE change[e]
    BY <1>2 DEF TInv
  <1>4. change[c].deltas = NoUsage
    BY <1>2 DEF UInv, DeltasFlushed
  <1>5. \A s \in Secrets : NoUsage[s] = 0
    BY DEF NoUsage, Identities
  <1>6. \A s \in Secrets : Flushing(s) \in Nat /\ Flushing(s)' \in Nat /\ pending[s] \in Nat /\ Flushing(s)' = Flushing(s) + pending[s]
    <2> TAKE s \in Secrets
    <2>1. \A e \in Changes : e # c => change'[e].deltas = change[e].deltas
      BY <1>3
    <2>2. change'[c].deltas[s] = pending[s] /\ change[c].deltas[s] = 0
      BY <1>1, <1>3, <1>4, <1>5
    <2> QED
      BY <2>1, <2>2, FlushingStep
  <1>7. UsageExact'
    <2> SUFFICES ASSUME NEW s \in Secrets, file.keys[s] # None
                 PROVE  tracked[s] = file.usage[s] + pending'[s] + Flushing(s)'
      BY <1>2 DEF UsageExact, Flushing
    <2>1. tracked[s] = file.usage[s] + pending[s] + Flushing(s)
      BY DEF UInv, UsageExact, Flushing
    <2>2. file.usage[s] \in Nat /\ pending'[s] = 0
      BY <1>2, <1>5 DEF TInv, Stores, Store, Identities
    <2> QED
      BY <1>6, <2>1, <2>2
  <1>8. DeltasFlushed'
    BY <1>1, <1>3 DEF UInv, DeltasFlushed
  <1>9. \A s \in Secrets : Unused(s)' => Unused(s)
    BY <1>1, <1>2, <1>3, AccessStore DEF Unused
  <1>10. UnusedUncounted'
    <2>1. \A s \in Secrets : Unused(s) =>
              /\ tracked[s] = 0 /\ file.usage[s] = 0 /\ pending[s] = 0
              /\ \A e \in Changes : change[e].deltas[s] = 0
              /\ \A r \in Requests : req[r].who = s => req[r].step # "found"
      BY DEF UInv, UnusedUncounted
    <2>2. \A s \in Secrets : Unused(s) => \A e \in Changes : change'[e].deltas[s] = 0
      BY <1>1, <1>3, <2>1
    <2> QED
      BY <1>2, <1>5, <1>9, <2>1, <2>2 DEF UnusedUncounted
  <1> QED
    BY <1>2, <1>7, <1>8, <1>10 DEF UInv

\* An operation that gives up has no counts of a key that is in the file.
LEMMA TakeCounts ==
    ASSUME IInv, TInv, TInv', UInv, NEW c \in Changes, NEW d, Take(c, d), Incidents \subseteq {"moved"}
    PROVE  UInv'
  <1> DEFINE o == change[c]
  <1>1. /\ o.step = "asked" /\ d = Store(file) /\ Formed(o) /\ o.kind \in Kinds
        /\ UNCHANGED <<file, issued, req, pending, tracked>>
    BY ViewIsFile DEF Take, Allowed, IInv, ChangesFormed, Formed
  <1>2. CASE Modified(o, d) = None
    <2>1. change' = [change EXCEPT ![c] = NoChange]
      BY <1>2 DEF Take
    <2>2. \A e \in Changes : change'[e] = IF e = c THEN NoChange ELSE change[e]
      BY <2>1 DEF TInv
    <2>3. \A s \in Secrets : NoChange.deltas[s] = 0
      BY DEF NoChange, NoUsage, Identities
    <2>4. \A s \in Secrets : file.keys[s] # None => o.deltas[s] = 0
      <3> TAKE s \in Secrets
      <3> HAVE file.keys[s] # None
      <3>1. CASE o.kind = "flush"
        <4>1. MergeUsage(o, d) \in Stores
          <5>1. d \in Stores /\ Typed(o)
            BY <1>1 DEF TInv
          <5> QED
            BY <5>1 DEF MergeUsage, Stores, Typed, Identities
        <4>2. MergeUsage(o, d) # None
          BY <4>1, AccessNone
        <4>3. \A k \in Secrets : o.deltas[k] > 0 => d.keys[k] = None
          BY <1>2, <3>1, <4>2 DEF Modified
        <4>4. o.deltas[s] \in Nat /\ d.keys[s] # None
          BY <1>1 DEF TInv, Typed, Identities, Store
        <4> QED
          BY <4>3, <4>4
      <3>2. CASE o.kind # "flush"
        BY <3>2 DEF UInv, DeltasFlushed, NoUsage, Identities
      <3> QED
        BY <3>1, <3>2
    <2>5. \A s \in Secrets : Flushing(s) \in Nat /\ Flushing(s)' \in Nat /\ Flushing(s)' + o.deltas[s] = Flushing(s)
      <3> TAKE s \in Secrets
      <3>1. \A e \in Changes : e # c => change'[e].deltas = change[e].deltas
        BY <2>2
      <3>2. change'[c].deltas[s] = 0
        BY <2>2, <2>3
      <3> HIDE DEF o
      <3> QED
        BY <3>1, <3>2, FlushingStep DEF o
    <2>6. UsageExact'
      <3> SUFFICES ASSUME NEW s \in Secrets, file.keys[s] # None
                   PROVE  tracked[s] = file.usage[s] + pending[s] + Flushing(s)'
        BY <1>1 DEF UsageExact, Flushing
      <3>1. tracked[s] = file.usage[s] + pending[s] + Flushing(s) /\ o.deltas[s] = 0
        BY <2>4 DEF UInv, UsageExact, Flushing
      <3>2. Flushing(s)' = Flushing(s)
        BY <2>5, <3>1
      <3> QED
        BY <3>1, <3>2
    <2>7. DeltasFlushed'
      BY <2>2 DEF UInv, DeltasFlushed, NoChange
    <2>8. \A s \in Secrets : Unused(s)' => Unused(s)
      BY <1>1, <2>2, AccessStore DEF Unused, NoChange
    <2>9. UnusedUncounted'
      BY <1>1, <2>2, <2>3, <2>8 DEF UInv, UnusedUncounted
    <2> QED
      BY <1>1, <2>6, <2>7, <2>9 DEF UInv
  <1>3. CASE Modified(o, d) # None
    <2>1. change' = [change EXCEPT ![c] = Taken(o, Modified(o, d))]
      BY <1>3 DEF Take, Taken
    <2>2. \A e \in Changes : change'[e] = IF e = c THEN Taken(o, Modified(o, d)) ELSE change[e]
      BY <2>1 DEF TInv
    <2>3. LET t == Taken(o, Modified(o, d)) IN
              t.kind = o.kind /\ t.proc = o.proc /\ t.new = o.new /\ t.deltas = o.deltas /\ t.step = "taken"
      BY <1>1 DEF Formed, Taken
    <2> HIDE DEF o
    <2>4. \A e \in Changes : change'[e].deltas = change[e].deltas /\ change'[e].new = change[e].new
      BY <2>2, <2>3 DEF o
    <2>5. DeltasFlushed'
      BY <1>1, <2>2, <2>3 DEF UInv, DeltasFlushed, o
    <2>6. \A s \in Secrets : Unused(s)' => Unused(s)
      BY <1>1, <2>4 DEF Unused
    <2>7. \A s \in Secrets : Unused(s) => \A r \in Requests : req'[r].who = s => req'[r].step # "found"
      BY <1>1 DEF UInv, UnusedUncounted
    <2> QED
      BY <1>1, <2>4, <2>5, <2>6, <2>7, SameCounts
  <1> QED
    BY <1>2, <1>3

\* Only the script's writes fail here, and the script has no counts.
LEMMA SaveFailsCounts ==
    ASSUME TInv, UInv, NEW c \in Changes, SaveFails(c), "unsaved" \notin Incidents
    PROVE  UInv'
  <1>1. change[c].deltas = NoUsage
    BY DEF SaveFails, Allowed, UInv, DeltasFlushed
  <1>2. /\ change' = [change EXCEPT ![c] = NoChange] /\ UNCHANGED <<file, issued, req, tracked>>
        /\ pending' = Plus(pending, NoUsage)
    BY <1>1 DEF SaveFails, Unlock
  <1>3. pending' = pending
    <2>1. \A i \in Identities : pending[i] + NoUsage[i] = pending[i]
      BY DEF TInv, NoUsage
    <2>2. [i \in Identities |-> pending[i] + NoUsage[i]] = [i \in Identities |-> pending[i]]
      BY <2>1
    <2>3. [i \in Identities |-> pending[i]] = pending
      BY DEF TInv
    <2> QED
      BY <1>2, <2>2, <2>3 DEF Plus
  <1>4. \A e \in Changes : change'[e] = IF e = c THEN NoChange ELSE change[e]
    BY <1>2 DEF TInv
  <1>5. \A e \in Changes : change'[e].deltas = change[e].deltas
    BY <1>1, <1>4 DEF NoChange
  <1>6. DeltasFlushed'
    BY <1>4 DEF UInv, DeltasFlushed, NoChange
  <1>7. \A s \in Secrets : Unused(s)' => Unused(s)
    BY <1>2, <1>4, AccessStore DEF Unused, NoChange
  <1>8. \A s \in Secrets : Unused(s) => \A r \in Requests : req'[r].who = s => req'[r].step # "found"
    BY <1>2 DEF UInv, UnusedUncounted
  <1> QED
    BY <1>2, <1>3, <1>5, <1>6, <1>7, <1>8, SameCounts

\* A secret that is not in use is not in the file, and no request is let in with it.
LEMMA RequestCounts ==
    ASSUME IInv, TInv, TInv', UInv, NEW r \in Requests, Arrive(r) \/ LookUp(r) \/ Authenticate(r) \/ Serve(r)
    PROVE  UInv'
  <1>1. View("server") = Store(file)
    BY ViewIsFile DEF IInv
  <1>2. UNCHANGED <<file, change, issued>> /\ \A s : Unused(s)' = Unused(s) /\ Flushing(s)' = Flushing(s)
    BY DEF Arrive, LookUp, Authenticate, Serve, Unused, Flushing
  <1>3. DeltasFlushed'
    BY <1>2 DEF UInv, DeltasFlushed
  <1>4. \A s \in Secrets : Unused(s) => file.keys[s] = None
    BY AccessStore DEF IInv, NewSecrets, Unused
  <1>5. \A q \in Requests : q # r => req'[q] = req[q]
    BY DEF Arrive, LookUp, Authenticate, Serve, End, TInv
  <1>6. \A s \in Secrets : s \in Identities
    BY DEF Identities
  <1>7. ASSUME UNCHANGED <<pending, tracked>>, \A s \in Secrets : Unused(s) /\ req'[r].who = s => req'[r].step # "found"
        PROVE  UInv'
    <2>1. \A s \in Secrets : Unused(s) => \A q \in Requests : req'[q].who = s => req'[q].step # "found"
      BY <1>5, <1>7 DEF UInv, UnusedUncounted
    <2> QED
      BY <1>2, <1>3, <1>7, <2>1, SameCounts
  <1>8. CASE Arrive(r)
    <2>1. UNCHANGED <<pending, tracked>> /\ req'[r].step \in {"known", "arrived"}
      BY <1>8 DEF Arrive, TInv
    <2> QED
      BY <1>7, <2>1
  <1>9. CASE LookUp(r)
    <2>1. UNCHANGED <<pending, tracked>> /\ req[r].step = "arrived"
      BY <1>9 DEF LookUp
    <2>2. CASE End(r)
      BY <1>7, <2>1, <2>2 DEF End, NoReq, TInv
    <2>3. CASE ~End(r)
      <3>1. req[r].who = Master \/ file.keys[req[r].who] # None
        BY <1>1, <1>9, <2>3 DEF LookUp, Store
      <3>2. req'[r].who = req[r].who
        <4> DEFINE set == IF req[r].who = Master THEN Admin ELSE View("server").keys[req[r].who].set
        <4>1. req' = [req EXCEPT ![r].set = set, ![r].step = "found"]
          BY <1>9, <2>3 DEF LookUp
        <4> HIDE DEF set
        <4>2. req'[r] = [[req[r] EXCEPT !.set = set] EXCEPT !.step = "found"]
          BY <4>1 DEF TInv
        <4> QED
          BY <4>2 DEF TInv, Posed
      <3>3. \A s \in Secrets : Unused(s) => req'[r].who # s
        BY <1>4, <3>1, <3>2, AccessStore
      <3> QED
        BY <1>7, <2>1, <3>3
    <2> QED
      BY <2>2, <2>3
  <1>10. CASE Serve(r)
    <2>1. UNCHANGED <<pending, tracked>>
      BY <1>10 DEF Serve
    <2>2. req'[r].step # "found"
      BY <1>10 DEF Serve, End, NoReq, Posed, TInv
    <2> QED
      BY <1>7, <2>1, <2>2
  <1>11. CASE Authenticate(r)
    <2>1. req[r].step = "found" /\ req[r].who \in Identities
      BY <1>11 DEF Authenticate, TInv
    <2>2. req'[r].step # "found"
      BY <1>11 DEF Authenticate, End, NoReq, Posed, TInv
    <2>3. CASE UNCHANGED <<pending, tracked>>
      BY <1>7, <2>2, <2>3
    <2>4. CASE ~UNCHANGED <<pending, tracked>>
      <3> DEFINE who == req[r].who
      <3>1. pending' = [pending EXCEPT ![who] = @ + 1] /\ tracked' = [tracked EXCEPT ![who] = @ + 1]
        BY <1>11, <2>4 DEF Authenticate
      <3>2. \A s \in Secrets : Unused(s) => who # s
        BY <2>1 DEF UInv, UnusedUncounted
      <3>3. tracked' \in [Identities -> Int]
        BY <2>1, <3>1 DEF UInv
      <3>4. \A s \in Secrets : /\ pending'[s] = IF s = who THEN pending[s] + 1 ELSE pending[s]
                               /\ tracked'[s] = IF s = who THEN tracked[s] + 1 ELSE tracked[s]
                               /\ pending[s] \in Nat /\ file.usage[s] \in Nat
        BY <1>6, <3>1 DEF UInv, TInv, Store, Stores
      <3>5. \A s \in Secrets : Flushing(s) \in Nat
        <4> TAKE s \in Secrets
        <4> DEFINE f == [e \in Changes |-> change[e].deltas[s]]
        <4>1. f \in [Changes -> Nat]
          BY DEF TInv, Typed, Identities
        <4>2. Flushing(s) = SumFunction(f) /\ IsFiniteSet(Changes)
          BY AccessBounds DEF Flushing
        <4> HIDE DEF f
        <4> QED
          BY <4>1, <4>2, SumType
      <3> HIDE DEF who
      <3>6. UsageExact'
        <4> SUFFICES ASSUME NEW s \in Secrets, file.keys[s] # None
                     PROVE  tracked'[s] = file.usage[s] + pending'[s] + Flushing(s)
          BY <1>2 DEF UsageExact, Flushing
        <4>1. tracked[s] = file.usage[s] + pending[s] + Flushing(s)
          BY DEF UInv, UsageExact, Flushing
        <4> QED
          BY <3>4, <3>5, <4>1
      <3>7. UnusedUncounted'
        <4>1. \A s \in Secrets : Unused(s) => \A q \in Requests : req'[q].who = s => req'[q].step # "found"
          BY <1>5, <2>2 DEF UInv, UnusedUncounted
        <4>2. \A s \in Secrets : Unused(s) =>
                  /\ tracked'[s] = 0 /\ file.usage[s] = 0 /\ pending'[s] = 0
                  /\ \A e \in Changes : change[e].deltas[s] = 0
          BY <3>2, <3>4 DEF UInv, UnusedUncounted
        <4> QED
          BY <1>2, <4>1, <4>2 DEF UnusedUncounted
      <3> QED
        BY <1>3, <3>3, <3>6, <3>7 DEF UInv
    <2> QED
      BY <2>3, <2>4
  <1> QED
    BY <1>8, <1>9, <1>10, <1>11

\* The server loses what it counted and had not written, and its operations; the
\* script has no counts to lose.
LEMMA CrashCounts ==
    ASSUME TInv, UInv, NEW p \in Procs, Crash(p)
    PROVE  UInv'
  <1>1. /\ \A c \in Changes : change'[c] = IF change[c].proc = p THEN NoChange ELSE change[c]
        /\ UNCHANGED <<file, issued>>
    BY DEF Crash
  <1>2. DeltasFlushed'
    BY <1>1 DEF UInv, DeltasFlushed, NoChange
  <1>3. \A s \in Secrets : Unused(s)' => Unused(s)
    BY <1>1, AccessStore DEF Unused, NoChange
  <1>4. \A s \in Secrets : Unused(s) => \A r \in Requests : req'[r].who = s => req'[r].step # "found"
    BY DEF Crash, NoReq, UInv, UnusedUncounted
  <1>5. \A i \in Identities : NoUsage[i] = 0
    BY DEF NoUsage
  <1>6. CASE p = "script"
    <2>1. \A c \in Changes : change'[c].deltas = change[c].deltas
      BY <1>1, <1>6 DEF UInv, DeltasFlushed, NoChange
    <2>2. UNCHANGED <<pending, tracked>>
      BY <1>6 DEF Crash
    <2> QED
      BY <1>1, <1>2, <1>3, <1>4, <2>1, <2>2, SameCounts
  <1>7. CASE p = "server"
    <2>1. \A c \in Changes : change'[c].deltas = NoUsage
      BY <1>1, <1>7 DEF UInv, DeltasFlushed, NoChange
    <2>2. pending' = NoUsage /\ tracked' = file.usage
      BY <1>7 DEF Crash
    <2>3. \A s \in Secrets : s \in Identities /\ file.usage[s] \in Nat
      BY DEF TInv, Store, Stores, Identities
    <2>4. \A s \in Secrets : Flushing(s)' = 0
      <3> TAKE s \in Secrets
      <3> DEFINE f == [e \in Changes |-> change'[e].deltas[s]]
      <3>1. f \in [Changes -> Nat] /\ \A e \in Changes : f[e] = 0
        BY <1>5, <2>1, <2>3
      <3>2. Flushing(s)' = SumFunction(f) /\ IsFiniteSet(Changes)
        BY AccessBounds DEF Flushing
      <3> HIDE DEF f
      <3> QED
        BY <3>1, <3>2, SumType
    <2>5. UsageExact'
      <3> SUFFICES ASSUME NEW s \in Secrets PROVE tracked'[s] = file'.usage[s] + pending'[s] + Flushing(s)'
        BY DEF UsageExact, Flushing
      <3> QED
        BY <1>1, <1>5, <2>2, <2>3, <2>4
    <2>6. UnusedUncounted'
      BY <1>1, <1>3, <1>4, <1>5, <2>1, <2>2, <2>3 DEF UInv, UnusedUncounted
    <2>7. tracked' \in [Identities -> Int]
      BY <2>2 DEF TInv, Store, Stores
    <2> QED
      BY <1>2, <2>5, <2>6, <2>7 DEF UInv
  <1> QED
    BY <1>6, <1>7 DEF Procs

\* Every step keeps the counts.
LEMMA UStep ==
    ASSUME IInv, TInv, TInv', UInv, [Next]_vars, Incidents \subseteq {"moved"}
    PROVE  UInv'
  <1>1. ASSUME NEW c \in Changes, NEW p \in Procs, Ask(c, p) PROVE UInv'
    BY <1>1, AskCounts
  <1>2. ASSUME NEW c \in Changes, Flush(c) PROVE UInv'
    BY <1>2, FlushCounts
  <1>3. ASSUME NEW c \in Changes, NEW d, Take(c, d) PROVE UInv'
    BY <1>3, TakeCounts
  <1>4. ASSUME NEW c \in Changes, Save(c) PROVE UInv'
    BY <1>4, SaveCounts
  <1>5. ASSUME NEW c \in Changes, SaveFails(c) PROVE UInv'
    BY <1>5, SaveFailsCounts
  <1>6. ASSUME NEW r \in Requests, Arrive(r) \/ LookUp(r) \/ Authenticate(r) \/ Serve(r) PROVE UInv'
    BY <1>6, RequestCounts
  <1>7. CASE UNCHANGED vars \/ \E i \in Identities : WindowMoves(i)
    <2>1. UNCHANGED <<file, change, issued, req, pending, tracked>>
      BY <1>7 DEF vars, WindowMoves
    <2> QED
      BY <2>1, SameCounts DEF UInv, DeltasFlushed, UnusedUncounted, Unused
  <1>8. ASSUME NEW p \in Procs, Crash(p) PROVE UInv'
    BY <1>8, CrashCounts
  <1> QED
    BY <1>1, <1>2, <1>3, <1>4, <1>5, <1>6, <1>7, <1>8 DEF Next

\* The state is well-formed and every metered request is counted exactly once: in the counter,
\* in a flush on its way or in the file, through flushes, failed writes of the script,
\* rotations, resets and crashes, when none of the coincidences that break the store happens.
THEOREM CountedOnce ==
    ASSUME Incidents \subseteq {"moved"}
    PROVE  Spec => []AccessSound
  <1>1. IInv /\ TInv /\ UInv /\ [Next]_vars => UInv'
    BY TStep, UStep
  <1>2. TInv /\ [Next]_vars => TInv'
    BY TStep
  <1>3. Init => TInv /\ UInv
    BY TInit, UInit
  <1>4. TInv /\ UInv => AccessSound
    BY TInvTyped DEF UInv, AccessSound
  <1> QED
    BY <1>1, <1>2, <1>3, <1>4, StoreInvariant, PTL DEF Spec

-----------------------------------------------------------------------------
(* What a search adds to the prompt.                                       *)

Sources == Chunks \cup Urls
Shows == [kind : {"local", "web"}, label : Nat, item : Sources, size : Nat]
Shelves == [blocks : Seq(Shows), sources : Seq(Sources), room : Nat, full : BOOLEAN]

Distinct(sources) == \A i, j \in DOMAIN sources : sources[i] = sources[j] => i = j

\* What is built from the first n items: blocks that differ, under labels of the registry,
\* which only grew, in the room that there was.
Built(r, kind, items, n, before, room) ==
    /\ r \in Shelves
    /\ Distinct(r.sources)
    /\ Len(before) <= Len(r.sources) /\ \A i \in DOMAIN before : r.sources[i] = before[i]
    /\ \A i \in DOMAIN r.sources : i \in DOMAIN before \/ \E j \in 1..n : r.sources[i] = items[j]
    /\ \A k \in DOMAIN r.blocks :
           LET b == r.blocks[k] IN
           /\ b.kind = kind /\ b.label \in DOMAIN r.sources /\ r.sources[b.label] = b.item
           /\ \E j \in 1..n : b.item = items[j]
    /\ \A k, l \in DOMAIN r.blocks : r.blocks[k].item = r.blocks[l].item => k = l
    /\ Sizes(r.blocks) \in Nat /\ Sizes(r.blocks) + r.room = room

\* What is appended is the last, and the rest stays.
LEMMA AppendIs ==
    ASSUME NEW T, NEW s \in Seq(T), NEW x \in T
    PROVE  /\ Append(s, x) \in Seq(T) /\ Len(s) \in Nat /\ Len(Append(s, x)) = Len(s) + 1
           /\ DOMAIN s = 1..Len(s) /\ DOMAIN Append(s, x) = 1..Len(s) + 1
           /\ Append(s, x)[Len(s) + 1] = x /\ \A i \in 1..Len(s) : Append(s, x)[i] = s[i]
  OBVIOUS

\* The sum of one more size.
LEMMA SizesMore ==
    ASSUME NEW blocks \in Seq(Shows), NEW b \in Shows
    PROVE  /\ Sizes(blocks) \in Nat
           /\ Sizes(Append(blocks, b)) = Sizes(blocks) + b.size
  <1> DEFINE n == Len(blocks)
             f == [k \in DOMAIN blocks |-> blocks[k].size]
             all == Append(blocks, b)
             e == [k \in DOMAIN all |-> all[k].size]
  <1>1. /\ n \in Nat /\ DOMAIN blocks = 1..n /\ DOMAIN all = 1..n + 1
        /\ all[n + 1] = b /\ (\A i \in 1..n : all[i] = blocks[i]) /\ n + 1 \in 1..n + 1
    BY AppendIs
  <1> HIDE DEF n, all
  <1>2. (\A k \in 1..n : blocks[k].size \in Nat) /\ b.size \in Nat
    <2>1. \A k \in DOMAIN blocks : blocks[k] \in Shows
      OBVIOUS
    <2> QED
      BY <1>1, <2>1 DEF Shows
  <1>3. \A i \in 1..n : i \in 1..n + 1 /\ e[i] = f[i]
    BY <1>1
  <1>4. e[n + 1] = b.size
    BY <1>1
  <1>7. f \in [1..n -> Nat]
    BY <1>1, <1>2
  <1>8. e \in [1..n + 1 -> Nat]
    <2>1. \A k \in 1..n + 1 : k \in 1..n \/ k = n + 1
      BY <1>1
    <2>2. \A k \in 1..n + 1 : all[k].size \in Nat
      BY <1>1, <1>2, <2>1
    <2> QED
      BY <1>1, <2>2
  <1>5. Sizes(blocks) = SumFunction(f) /\ Sizes(all) = SumFunction(e)
    BY DEF Sizes
  <1> HIDE DEF f, e
  <1>6. SumFunction(f) \in Nat /\ SumFunction(e) = SumFunction(f) + e[n + 1]
    BY <1>1, <1>3, <1>7, <1>8, SumOfMore
  <1> QED
    BY <1>4, <1>5, <1>6 DEF all

\* No block takes no room.
LEMMA SizesNone ==
    Sizes(<<>>) = 0
  <1>1. IsFiniteSet({}) /\ [k \in DOMAIN <<>> |-> <<>>[k].size] \in [{} -> Nat]
    BY FS_EmptySet
  <1> QED
    BY <1>1, SumType DEF Sizes

\* A label denotes the item in the registry, or it is the next one and the item is new.
LEMMA LabelIs ==
    ASSUME NEW T, NEW sources \in Seq(T), NEW item
    PROVE  LET n == LabelOf(sources, item) IN
           \/ n \in DOMAIN sources /\ sources[n] = item /\ ~(n > Len(sources)) /\ n \in Nat
           \/ n = Len(sources) + 1 /\ n > Len(sources) /\ n \in Nat
              /\ \A i \in DOMAIN sources : sources[i] # item
  <1>1. CASE \E i \in DOMAIN sources : sources[i] = item
    <2>1. LabelOf(sources, item) \in DOMAIN sources /\ sources[LabelOf(sources, item)] = item
      BY <1>1 DEF LabelOf
    <2> QED
      BY <2>1
  <1>2. CASE ~ \E i \in DOMAIN sources : sources[i] = item
    BY <1>2 DEF LabelOf
  <1> QED
    BY <1>1, <1>2

\* What is taken of a text is no more than the room.
LEMMA FittedIs ==
    ASSUME NEW size \in Nat, NEW room \in Nat
    PROVE  Fitted(size, room) \in Nat /\ Fitted(size, room) <= room
  BY DEF Fitted

\* An item is added as a block, and to the registry unless it is there, or it is not.
Grown(a, r, kind, item) ==
    /\ a \in Shelves
    /\ \/ a.blocks = r.blocks /\ a.sources = r.sources /\ a.room = r.room
       \/ \E b \in Shows :
              /\ a.blocks = Append(r.blocks, b) /\ b.kind = kind /\ b.item = item
              /\ a.room + b.size = r.room
              /\ \/ a.sources = r.sources /\ b.label \in DOMAIN r.sources
                    /\ r.sources[b.label] = item
                 \/ a.sources = Append(r.sources, item) /\ b.label = Len(r.sources) + 1
                    /\ \A i \in DOMAIN r.sources : r.sources[i] # item

\* That is what becomes of an item.
LEMMA AddedIs ==
    ASSUME NEW r \in Shelves, NEW kind \in {"local", "web"}, NEW item \in Sources, NEW size \in Nat
    PROVE  Grown(Added(r, kind, item, size), r, kind, item)
  <1> DEFINE n == LabelOf(r.sources, item)
             s == Fitted(size, r.room)
             a == Added(r, kind, item, size)
  <1>1. s \in Nat /\ s <= r.room
    BY FittedIs DEF Shelves
  <1>2. \/ n \in DOMAIN r.sources /\ r.sources[n] = item /\ ~(n > Len(r.sources)) /\ n \in Nat
        \/ n = Len(r.sources) + 1 /\ n > Len(r.sources) /\ n \in Nat
           /\ \A i \in DOMAIN r.sources : r.sources[i] # item
    <2>1. r.sources \in Seq(Sources)
      BY DEF Shelves
    <2> QED
      BY <2>1, LabelIs
  <1>3. CASE r.full
    BY <1>3 DEF Added, Grown
  <1>4. CASE ~r.full /\ s = 0
    <2>1. a = [r EXCEPT !.full = r.blocks # <<>>]
      BY <1>4 DEF Added
    <2> QED
      BY <2>1 DEF Shelves, Grown
  <1>5. CASE ~r.full /\ s # 0
    <2> DEFINE b == [kind |-> kind, label |-> n, item |-> item, size |-> s]
    <2>1. a = [blocks |-> Append(r.blocks, b),
               sources |-> IF n > Len(r.sources) THEN Append(r.sources, item) ELSE r.sources,
               room |-> r.room - s, full |-> r.room = s]
      BY <1>5 DEF Added
    <2>2. b \in Shows /\ b.kind = kind /\ b.item = item /\ b.label = n /\ b.size = s
      BY <1>1, <1>2 DEF Shows
    <2> HIDE DEF b, n, s
    <2>3. r.room - s \in Nat /\ (r.room - s) + s = r.room
      BY <1>1 DEF Shelves
    <2>4. Append(r.blocks, b) \in Seq(Shows) /\ Append(r.sources, item) \in Seq(Sources)
      BY <2>2 DEF Shelves
    <2>5. a \in Shelves
      BY <2>1, <2>3, <2>4 DEF Shelves
    <2>6. a.blocks = Append(r.blocks, b) /\ a.room + b.size = r.room
      BY <2>1, <2>2, <2>3
    <2>7. a.sources = IF n > Len(r.sources) THEN Append(r.sources, item) ELSE r.sources
      BY <2>1
    <2> HIDE DEF a
    <2>8. \/ a.sources = r.sources /\ b.label \in DOMAIN r.sources /\ r.sources[b.label] = item
          \/ a.sources = Append(r.sources, item) /\ b.label = Len(r.sources) + 1
             /\ \A i \in DOMAIN r.sources : r.sources[i] # item
      BY <1>2, <2>2, <2>7
    <2>9. Grown(a, r, kind, item)
      BY <2>2, <2>5, <2>6, <2>8 DEF Grown
    <2> QED
      BY <2>9 DEF a
  <1> QED
    BY <1>3, <1>4, <1>5

\* One more item, different from the others, keeps what is built.
LEMMA GrownBuilt ==
    ASSUME NEW kind \in {"local", "web"}, NEW items, NEW n \in Nat, NEW before \in Seq(Sources),
           NEW room \in Nat, NEW r, Built(r, kind, items, n, before, room),
           NEW item \in Sources, item = items[n + 1], \A j \in 1..n : items[j] # item,
           NEW a, Grown(a, r, kind, item)
    PROVE  Built(a, kind, items, n + 1, before, room)
  <1>1. r \in Shelves
    BY DEF Built
  <1>2. a \in Shelves
    BY DEF Grown
  <1>3. \A j \in 1..n : j \in 1..n + 1
    OBVIOUS
  <1>4. n + 1 \in 1..n + 1
    OBVIOUS
  <1>5. CASE a.blocks = r.blocks /\ a.sources = r.sources /\ a.room = r.room
    BY <1>2, <1>3, <1>5 DEF Built
  <1>6. ASSUME NEW b \in Shows,
               a.blocks = Append(r.blocks, b), b.kind = kind, b.item = item, a.room + b.size = r.room,
               \/ a.sources = r.sources /\ b.label \in DOMAIN r.sources /\ r.sources[b.label] = item
               \/ a.sources = Append(r.sources, item) /\ b.label = Len(r.sources) + 1
                  /\ \A i \in DOMAIN r.sources : r.sources[i] # item
        PROVE  Built(a, kind, items, n + 1, before, room)
    <2> DEFINE l == Len(r.blocks)
    <2>1. r.sources \in Seq(Sources) /\ r.blocks \in Seq(Shows) /\ r.room \in Nat /\ l \in Nat
      BY <1>1 DEF Shelves
    <2>11. \/ a.sources = r.sources
           \/ /\ Len(a.sources) = Len(r.sources) + 1 /\ DOMAIN a.sources = 1..Len(r.sources) + 1
              /\ a.sources[Len(r.sources) + 1] = item
              /\ \A i \in 1..Len(r.sources) : a.sources[i] = r.sources[i] /\ r.sources[i] # item
      BY <1>1, <1>6, <2>1, AppendIs, SMTT(60)
    <2>12. DOMAIN r.sources = 1..Len(r.sources) /\ Len(r.sources) \in Nat
      BY <2>1
    <2>2. /\ DOMAIN r.sources \subseteq DOMAIN a.sources
          /\ \A i \in DOMAIN r.sources : a.sources[i] = r.sources[i]
          /\ \A i \in DOMAIN a.sources : i \in DOMAIN r.sources \/ a.sources[i] = item
          /\ Len(r.sources) <= Len(a.sources)
      <3>1. CASE a.sources = r.sources
        BY <2>12, <3>1
      <3>2. CASE /\ Len(a.sources) = Len(r.sources) + 1 /\ DOMAIN a.sources = 1..Len(r.sources) + 1
                 /\ a.sources[Len(r.sources) + 1] = item
                 /\ \A i \in 1..Len(r.sources) : a.sources[i] = r.sources[i]
        <4> DEFINE k == Len(r.sources)
        <4>1. k \in Nat /\ \A i \in 1..k + 1 : i \in 1..k \/ i = k + 1
          BY <2>12
        <4>2. 1..k \subseteq 1..k + 1 /\ k <= k + 1
          BY <2>12
        <4> QED
          BY <2>12, <3>2, <4>1, <4>2
      <3> QED
        BY <2>11, <3>1, <3>2
    <2>3. Distinct(a.sources)
      <3>1. Distinct(r.sources)
        BY DEF Built
      <3> QED
        <4>1. CASE a.sources = r.sources
          BY <3>1, <4>1
        <4>2. CASE /\ DOMAIN a.sources = 1..Len(r.sources) + 1
                   /\ a.sources[Len(r.sources) + 1] = item
                   /\ \A i \in 1..Len(r.sources) : a.sources[i] = r.sources[i] /\ r.sources[i] # item
          <5> SUFFICES ASSUME NEW i \in DOMAIN a.sources, NEW j \in DOMAIN a.sources,
                              a.sources[i] = a.sources[j]
                       PROVE  i = j
            BY DEF Distinct
          <5>1. (i \in 1..Len(r.sources) \/ i = Len(r.sources) + 1)
                /\ (j \in 1..Len(r.sources) \/ j = Len(r.sources) + 1)
            BY <2>12, <4>2
          <5>2. i \in 1..Len(r.sources) /\ j \in 1..Len(r.sources) => i = j
            BY <2>12, <3>1, <4>2 DEF Distinct
          <5> QED
            BY <4>2, <5>1, <5>2
        <4> QED
          BY <2>11, <4>1, <4>2
    <2>4. /\ Len(before) <= Len(a.sources)
          /\ \A i \in DOMAIN before : a.sources[i] = before[i]
      <3>1. Len(before) <= Len(r.sources) /\ \A i \in DOMAIN before : i \in DOMAIN r.sources /\ r.sources[i] = before[i]
        BY <2>1 DEF Built
      <3>2. Len(before) \in Nat /\ Len(a.sources) \in Nat
        BY <1>2 DEF Shelves
      <3> QED
        BY <2>1, <2>2, <3>1, <3>2
    <2>5. \A i \in DOMAIN a.sources : i \in DOMAIN before \/ \E j \in 1..n + 1 : a.sources[i] = items[j]
      <3>1. \A i \in DOMAIN r.sources : i \in DOMAIN before \/ \E j \in 1..n : r.sources[i] = items[j]
        BY DEF Built
      <3> QED
        BY <1>3, <1>4, <2>2, <3>1
    <2>6. DOMAIN a.blocks = 1..l + 1 /\ DOMAIN r.blocks = 1..l
          /\ a.blocks[l + 1] = b /\ \A k \in 1..l : a.blocks[k] = r.blocks[k]
      <3> QED
        BY <1>6, <2>1, AppendIs
    <2>7. \A k \in DOMAIN r.blocks :
              LET c == r.blocks[k] IN
              /\ c.kind = kind /\ c.label \in DOMAIN r.sources /\ r.sources[c.label] = c.item
              /\ \E j \in 1..n : c.item = items[j]
      BY DEF Built
    <2>8. ASSUME NEW k \in DOMAIN a.blocks
          PROVE  LET c == a.blocks[k] IN
                 /\ c.kind = kind /\ c.label \in DOMAIN a.sources /\ a.sources[c.label] = c.item
                 /\ \E j \in 1..n + 1 : c.item = items[j]
      <3>1. CASE k \in 1..l
        <4> DEFINE c == r.blocks[k]
        <4>1. a.blocks[k] = c /\ k \in DOMAIN r.blocks
          BY <2>6, <3>1
        <4>2. /\ c.kind = kind /\ c.label \in DOMAIN r.sources /\ r.sources[c.label] = c.item
              /\ \E j \in 1..n : c.item = items[j]
          BY <2>7, <4>1
        <4> HIDE DEF c
        <4>3. c.label \in DOMAIN a.sources /\ a.sources[c.label] = c.item
          BY <2>2, <4>2
        <4>4. \E j \in 1..n + 1 : c.item = items[j]
          BY <1>3, <4>2
        <4> QED
          BY <4>1, <4>2, <4>3, <4>4
      <3>2. CASE k = l + 1
        <4>1. b.label \in DOMAIN a.sources /\ a.sources[b.label] = item
          BY <1>6, <2>1
        <4> QED
          BY <1>4, <1>6, <2>6, <3>2, <4>1
      <3> QED
        BY <2>1, <2>6, <3>1, <3>2
    <2>9. ASSUME NEW k \in DOMAIN a.blocks, NEW h \in DOMAIN a.blocks, a.blocks[k].item = a.blocks[h].item
          PROVE  k = h
      <3>1. \A i \in 1..l : a.blocks[i].item # item
        <4> TAKE i \in 1..l
        <4>1. PICK j \in 1..n : r.blocks[i].item = items[j]
          BY <2>6, <2>7
        <4> QED
          BY <2>6, <4>1
      <3>2. \A i, j \in 1..l : a.blocks[i].item = a.blocks[j].item => i = j
        BY <2>6, ZenonT(60) DEF Built
      <3>3. a.blocks[l + 1].item = item
        BY <1>6, <2>6
      <3> QED
        <4>1. (k \in 1..l \/ k = l + 1) /\ (h \in 1..l \/ h = l + 1)
          BY <2>1, <2>6
        <4> QED
          BY <2>9, <3>1, <3>2, <3>3, <4>1
    <2>10. Sizes(a.blocks) \in Nat /\ Sizes(a.blocks) + a.room = room
      <3>1. Sizes(r.blocks) \in Nat /\ Sizes(r.blocks) + r.room = room
        BY DEF Built
      <3>2. Sizes(a.blocks) = Sizes(r.blocks) + b.size
        BY <1>6, <2>1, SizesMore
      <3>3. a.room \in Nat /\ b.size \in Nat
        BY <1>2 DEF Shelves, Shows
      <3> DEFINE x == Sizes(r.blocks)
                 y == Sizes(a.blocks)
      <3> HIDE DEF x, y
      <3>4. x \in Nat /\ x + r.room = room /\ y = x + b.size
        BY <3>1, <3>2 DEF x, y
      <3>5. y \in Nat /\ y + a.room = room
        BY <1>6, <3>3, <3>4, SMTT(60)
      <3> QED
        BY <3>5 DEF y
    <2> QED
      BY <1>2, <2>3, <2>4, <2>5, <2>8, <2>9, <2>10 DEF Built
  <1> QED
    BY <1>5, <1>6 DEF Grown

\* So a result shows what is built from all of its items.
LEMMA ShownBuilt ==
    ASSUME NEW kind \in {"local", "web"}, NEW items \in Seq(Sources), Distinct(items),
           NEW size, \A j \in 1..Len(items) : size[items[j]] \in Nat,
           cites[kind] \in Seq(Sources), Distinct(cites[kind]), RoomLeft \in Nat
    PROVE  Built(Shown(kind, items, size), kind, items, Len(items), cites[kind], RoomLeft)
  <1> DEFINE N == Len(items)
             start == [blocks |-> <<>>, sources |-> cites[kind], room |-> RoomLeft,
                       full |-> RoomLeft = 0]
             Is(f) == f = [n \in 0..N |-> IF n = 0 THEN start
                                          ELSE Added(f[n - 1], kind, items[n], size[items[n]])]
             shelf == CHOOSE f : Is(f)
             next == [n \in 1..N |-> [r \in Shelves |-> Added(r, kind, items[n], size[items[n]])]]
  <1>1. N \in Nat /\ (\A n \in 1..N : n \in DOMAIN items /\ items[n] \in Sources)
    OBVIOUS
  <1>2. start \in Shelves
    BY DEF Shelves
  <1>3. Shown(kind, items, size) = shelf[N]
    BY DEF Shown
  <1> HIDE DEF N, start
  <1>4. \A n \in 1..N, r \in Shelves : Grown(Added(r, kind, items[n], size[items[n]]), r, kind, items[n])
    <2> TAKE n \in 1..N, r \in Shelves
    <2>1. items[n] \in Sources /\ size[items[n]] \in Nat
      BY <1>1 DEF N
    <2> QED
      BY <2>1, AddedIs
  <1>5. StepsIn(next, N, Shelves)
    BY <1>4 DEF Grown, StepsIn
  <1>6. Is(shelf)
    <2> HIDE DEF next
    <2>0. PICK g : Follows(g, start, next, N, Shelves)
      BY <1>1, <1>2, <1>5, Recursion
    <2>1. g \in [0..N -> Shelves] /\ g[0] = start /\ \A n \in 1..N : g[n] = next[n][g[n - 1]]
      BY <2>0 DEF Follows
    <2>2. \A n \in 1..N : next[n][g[n - 1]] = Added(g[n - 1], kind, items[n], size[items[n]])
      <3> TAKE n \in 1..N
      <3>1. g[n - 1] \in Shelves
        BY <1>1, <2>1
      <3> QED
        BY <3>1 DEF next
    <2>3. Is(g)
      <3>1. \A n \in 0..N : g[n] = IF n = 0 THEN start
                                    ELSE Added(g[n - 1], kind, items[n], size[items[n]])
        <4> TAKE n \in 0..N
        <4>1. n = 0 \/ (n \in 1..N /\ n # 0)
          BY <1>1
        <4> QED
          BY <2>1, <2>2, <4>1
      <3> QED
        BY <2>1, <3>1
    <2> HIDE DEF Is
    <2> QED
      BY <2>3
  <1> HIDE DEF shelf, next
  <1>7. shelf[0] = start /\ \A n \in 1..N : shelf[n] = Added(shelf[n - 1], kind, items[n], size[items[n]])
    BY <1>1, <1>6
  <1> DEFINE good(n) == Built(shelf[n], kind, items, n, cites[kind], RoomLeft)
             bad == {n \in 0..N : ~good(n)}
  <1>8. good(0)
    <2>1. start.blocks = <<>> /\ start.sources = cites[kind] /\ start.room = RoomLeft
      BY DEF start
    <2>2. Sizes(start.blocks) = 0 /\ DOMAIN start.blocks = {}
      BY <2>1, SizesNone
    <2>3. Built(start, kind, items, 0, cites[kind], RoomLeft)
      BY <1>2, <2>1, <2>2 DEF Built
    <2> QED
      BY <1>7, <2>3
  <1>9. ASSUME NEW n \in 1..N, good(n - 1) PROVE good(n)
    <2> DEFINE r == shelf[n - 1]
               a == shelf[n]
               m == n - 1
               item == items[n]
    <2>1. m \in Nat /\ m + 1 = n /\ item \in Sources
      BY <1>1
    <2>2. Built(r, kind, items, m, cites[kind], RoomLeft)
      BY <1>9
    <2>3. Grown(a, r, kind, item)
      <3>1. r \in Shelves
        BY <2>2 DEF Built
      <3> QED
        BY <1>4, <1>7, <3>1
    <2>4. item = items[m + 1] /\ \A j \in 1..m : items[j] # item
      <3>1. item = items[m + 1]
        BY <2>1
      <3>2. \A j \in 1..m : j \in DOMAIN items /\ n \in DOMAIN items /\ j # n
        BY <1>1, <2>1 DEF N
      <3> QED
        BY <3>1, <3>2 DEF Distinct
    <2> HIDE DEF r, a, m, item
    <2>5. Built(a, kind, items, m + 1, cites[kind], RoomLeft)
      BY <2>1, <2>2, <2>3, <2>4, GrownBuilt
    <2> QED
      BY <2>1, <2>5 DEF a
  <1>10. bad = {}
    <2>1. bad \in SUBSET (0..N) /\ 0 \notin bad
      BY <1>8
    <2>2. \A n \in 1..N : n \in bad => n - 1 \in bad
      BY <1>1, <1>9
    <2> HIDE DEF bad
    <2> QED
      BY <1>1, <2>1, <2>2, NoLeast
  <1>11. good(N)
    <2> HIDE DEF good
    <2> QED
      BY <1>1, <1>10
  <1> QED
    BY <1>3, <1>11 DEF N

-----------------------------------------------------------------------------
(* The prompt.                                                             *)

Calls == [name : Tools, id : {"same", Unset}]
Messages ==
    [role : {"assistant"}, calls : Seq(Calls)]
        \cup [role : {"tool"}, name : {"local", "web", "unknown"}, shown : Seq(Shows), of : Nat \X Nat]
        \cup [role : {"user"}]
Registries == [local : Seq(Chunks), web : Seq(Urls)]

UsedOf(ms) == SumFunction([i \in DOMAIN ms |-> IF ms[i].role = "tool" THEN Sizes(ms[i].shown) ELSE 0])

\* Every label of the prompt is the registry's, nothing is shown twice, and it fits.
LabelsOf(ms, cs) ==
    \A i \in DOMAIN ms : ms[i].role = "tool" =>
        \A k \in DOMAIN ms[i].shown :
            LET b == ms[i].shown[k] IN
            b.label \in DOMAIN cs[b.kind] /\ cs[b.kind][b.label] = b.item
OnceIn(ms) ==
    \A i, j \in DOMAIN ms : ms[i].role = "tool" /\ ms[j].role = "tool" =>
        \A k \in DOMAIN ms[i].shown, l \in DOMAIN ms[j].shown :
            LET b == ms[i].shown[k]
                c == ms[j].shown[l]
            IN  b.kind = "local" /\ c.kind = "local" /\ b.item = c.item => i = j /\ k = l
PromptOK(ms, cs) ==
    /\ ms \in Seq(Messages) /\ cs \in Registries
    /\ Distinct(cs.local) /\ Distinct(cs.web)
    /\ LabelsOf(ms, cs) /\ OnceIn(ms)
    /\ UsedOf(ms) <= Budget

\* A sequence's elements say which set it is a sequence over.
LEMMA SeqOver ==
    ASSUME NEW S, NEW T, NEW s \in Seq(S), \A i \in DOMAIN s : s[i] \in T
    PROVE  s \in Seq(T)
  <1>1. Len(s) \in Nat /\ DOMAIN s = 1..Len(s) /\ s \in [1..Len(s) -> S]
    OBVIOUS
  <1>2. s \in [1..Len(s) -> T]
    BY <1>1
  <1> QED
    BY <1>1, <1>2

\* What a message is by its role.
LEMMA MessageIs ==
    ASSUME NEW m \in Messages
    PROVE  /\ m.role \in {"assistant", "tool", "user"}
           /\ m.role = "tool" => m.shown \in Seq(Shows) /\ m.of \in Nat \X Nat
                                 /\ m.name \in {"local", "web", "unknown"}
           /\ m.role = "assistant" => m.calls \in Seq(Calls)
  BY DEF Messages

\* The blocks of a result take a room.
LEMMA SizesNat ==
    ASSUME NEW blocks \in Seq(Shows)
    PROVE  Sizes(blocks) \in Nat
  <1> DEFINE n == Len(blocks)
             f == [k \in DOMAIN blocks |-> blocks[k].size]
  <1>1. n \in Nat /\ DOMAIN blocks = 1..n
    OBVIOUS
  <1>2. \A k \in DOMAIN blocks : blocks[k] \in Shows
    OBVIOUS
  <1>3. \A k \in 1..n : blocks[k].size \in Nat
    BY <1>1, <1>2 DEF Shows
  <1> HIDE DEF n
  <1>4. f \in [1..n -> Nat]
    BY <1>1, <1>3
  <1>6. IsFiniteSet(1..n)
    BY <1>1, FS_Interval
  <1>5. Sizes(blocks) = SumFunction(f)
    BY DEF Sizes
  <1> HIDE DEF f
  <1> QED
    BY <1>4, <1>5, <1>6, SumType

\* What one more message takes.
LEMMA UsedMore ==
    ASSUME NEW ms \in Seq(Messages), NEW m \in Messages
    PROVE  /\ UsedOf(ms) \in Nat
           /\ UsedOf(Append(ms, m)) = UsedOf(ms) + (IF m.role = "tool" THEN Sizes(m.shown) ELSE 0)
  <1> DEFINE of(x) == IF x.role = "tool" THEN Sizes(x.shown) ELSE 0
             n == Len(ms)
             all == Append(ms, m)
             f == [k \in DOMAIN ms |-> of(ms[k])]
             e == [k \in DOMAIN all |-> of(all[k])]
  <1>1. /\ n \in Nat /\ DOMAIN ms = 1..n /\ DOMAIN all = 1..n + 1
        /\ all[n + 1] = m /\ (\A i \in 1..n : all[i] = ms[i]) /\ n + 1 \in 1..n + 1
    BY AppendIs
  <1>2. \A x \in Messages : of(x) \in Nat
    <2> SUFFICES ASSUME NEW x \in Messages, x.role = "tool" PROVE Sizes(x.shown) \in Nat
      OBVIOUS
    <2> QED
      BY MessageIs, SizesNat
  <1> HIDE DEF n, all, of
  <1>3. (\A k \in 1..n : of(ms[k]) \in Nat) /\ of(m) \in Nat
    <2>1. \A k \in DOMAIN ms : ms[k] \in Messages
      OBVIOUS
    <2> QED
      BY <1>1, <1>2, <2>1
  <1>4. f \in [1..n -> Nat]
    BY <1>1, <1>3
  <1>5. e \in [1..n + 1 -> Nat]
    <2>1. \A k \in 1..n + 1 : k \in 1..n \/ k = n + 1
      BY <1>1
    <2>2. \A k \in 1..n + 1 : of(all[k]) \in Nat
      BY <1>1, <1>3, <2>1
    <2> QED
      BY <1>1, <2>2
  <1>6. (\A i \in 1..n : i \in 1..n + 1 /\ e[i] = f[i]) /\ e[n + 1] = of(m)
    BY <1>1
  <1>7. UsedOf(ms) = SumFunction(f) /\ UsedOf(all) = SumFunction(e)
    BY DEF UsedOf, of
  <1> HIDE DEF f, e
  <1>8. SumFunction(f) \in Nat /\ SumFunction(e) = SumFunction(f) + e[n + 1]
    BY <1>1, <1>4, <1>5, <1>6, SumOfMore
  <1>9. UsedOf(ms) \in Nat /\ UsedOf(all) = UsedOf(ms) + of(m)
    BY <1>6, <1>7, <1>8
  <1> QED
    BY <1>9 DEF all, of

\* Nothing is used before there are messages.
LEMMA UsedNone ==
    UsedOf(<<>>) = 0
  <1> DEFINE f == [i \in DOMAIN <<>> |-> IF <<>>[i].role = "tool" THEN Sizes(<<>>[i].shown) ELSE 0]
  <1>1. IsFiniteSet({}) /\ f \in [{} -> Nat] /\ \A x \in {} : f[x] = 0
    BY FS_EmptySet
  <1>2. UsedOf(<<>>) = SumFunction(f)
    BY DEF UsedOf
  <1> HIDE DEF f
  <1> QED
    BY <1>1, <1>2, SumType

\* A message that is no result leaves the prompt as good as it was.
LEMMA PromptOther ==
    ASSUME NEW ms, NEW cs, PromptOK(ms, cs), NEW m \in Messages, m.role # "tool"
    PROVE  PromptOK(Append(ms, m), cs) /\ UsedOf(Append(ms, m)) = UsedOf(ms)
  <1> DEFINE all == Append(ms, m)
             n == Len(ms)
  <1>1. ms \in Seq(Messages)
    BY DEF PromptOK
  <1>2. /\ all \in Seq(Messages) /\ n \in Nat /\ DOMAIN ms = 1..n /\ DOMAIN all = 1..n + 1
        /\ all[n + 1] = m /\ \A i \in 1..n : all[i] = ms[i]
    BY <1>1, AppendIs
  <1>3. UsedOf(all) = UsedOf(ms)
    <2>1. UsedOf(ms) \in Nat /\ UsedOf(all) = UsedOf(ms) + 0
      BY <1>1, UsedMore
    <2> DEFINE u == UsedOf(ms)
    <2> HIDE DEF u, all
    <2> QED
      BY <2>1 DEF u
  <1> HIDE DEF all, n
  <1>4. \A i \in DOMAIN all : all[i].role = "tool" => i \in DOMAIN ms /\ all[i] = ms[i]
    <2>1. \A i \in 1..n + 1 : i \in 1..n \/ i = n + 1
      BY <1>2
    <2> QED
      BY <1>2, <2>1
  <1>5. LabelsOf(all, cs)
    BY <1>4 DEF PromptOK, LabelsOf
  <1>6. OnceIn(all)
    BY <1>4 DEF PromptOK, OnceIn
  <1>7. PromptOK(all, cs)
    BY <1>2, <1>3, <1>5, <1>6 DEF PromptOK
  <1> QED
    BY <1>3, <1>7 DEF all

\* Neither does a result that is built from what is not cited yet.
LEMMA PromptResult ==
    ASSUME NEW ms, NEW cs, PromptOK(ms, cs), NEW kind \in {"local", "web"},
           NEW items, NEW r, NEW room \in Nat, room <= Budget - UsedOf(ms),
           Built(r, kind, items, Len(items), cs[kind], room),
           kind = "local" => \A i \in DOMAIN cs.local, j \in 1..Len(items) : cs.local[i] # items[j],
           NEW m \in Messages, m.role = "tool", m.shown = r.blocks,
           NEW ds \in Registries, ds[kind] = r.sources,
           \A k \in {"local", "web"} : k # kind => ds[k] = cs[k]
    PROVE  PromptOK(Append(ms, m), ds)
  <1> DEFINE all == Append(ms, m)
             n == Len(ms)
  <1>1. ms \in Seq(Messages)
    BY DEF PromptOK
  <1>2. /\ all \in Seq(Messages) /\ n \in Nat /\ DOMAIN ms = 1..n /\ DOMAIN all = 1..n + 1
        /\ all[n + 1] = m /\ \A i \in 1..n : all[i] = ms[i]
    BY <1>1, AppendIs
  <1>3. UsedOf(all) <= Budget
    <2>1. UsedOf(ms) \in Nat /\ UsedOf(all) = UsedOf(ms) + Sizes(r.blocks)
      BY <1>1, UsedMore
    <2>2. Sizes(r.blocks) \in Nat /\ Sizes(r.blocks) + r.room = room /\ r.room \in Nat
      BY DEF Built, Shelves
    <2>3. Budget \in Nat
      BY AnsweringBounds
    <2> DEFINE u == UsedOf(ms)
               v == UsedOf(all)
               s == Sizes(r.blocks)
    <2>4. u \in Nat /\ v = u + s /\ s \in Nat /\ s + r.room = room /\ r.room \in Nat /\ room <= Budget - u
      BY <2>1, <2>2
    <2> HIDE DEF u, v, s, all
    <2>5. v <= Budget
      BY <2>3, <2>4
    <2> QED
      BY <2>5 DEF v
  <1> HIDE DEF all, n
  <1>4. \A i \in DOMAIN all : (i \in DOMAIN ms /\ all[i] = ms[i]) \/ (i = n + 1 /\ all[i] = m)
    <2>1. \A i \in 1..n + 1 : i \in 1..n \/ i = n + 1
      BY <1>2
    <2> QED
      BY <1>2, <2>1
  <1>5. /\ Distinct(r.sources)
        /\ Len(cs[kind]) <= Len(r.sources) /\ \A i \in DOMAIN cs[kind] : r.sources[i] = cs[kind][i]
        /\ \A k \in DOMAIN r.blocks :
               LET b == r.blocks[k] IN
               /\ b.kind = kind /\ b.label \in DOMAIN r.sources /\ r.sources[b.label] = b.item
               /\ \E j \in 1..Len(items) : b.item = items[j]
        /\ \A k, l \in DOMAIN r.blocks : r.blocks[k].item = r.blocks[l].item => k = l
    BY DEF Built
  <1>6. \A k \in {"local", "web"} : \A i \in DOMAIN cs[k] : i \in DOMAIN ds[k] /\ ds[k][i] = cs[k][i]
    <2>1. cs[kind] \in Seq(Sources) /\ ds[kind] \in Seq(Sources)
      <3>1. \A k \in {"local", "web"}, xs \in Registries : xs[k] \in Seq(Chunks) \/ xs[k] \in Seq(Urls)
        BY DEF Registries
      <3>2. \A x : x \in Seq(Chunks) \/ x \in Seq(Urls) => x \in Seq(Sources)
        BY DEF Sources
      <3> QED
        BY <3>1, <3>2 DEF PromptOK
    <2>2. \A i \in DOMAIN cs[kind] : i \in DOMAIN ds[kind]
      BY <1>5, <2>1
    <2> QED
      BY <1>5, <2>2
  <1>7. LabelsOf(all, ds)
    <2> SUFFICES ASSUME NEW i \in DOMAIN all, all[i].role = "tool", NEW k \in DOMAIN all[i].shown
                 PROVE  LET b == all[i].shown[k] IN
                        b.label \in DOMAIN ds[b.kind] /\ ds[b.kind][b.label] = b.item
      BY DEF LabelsOf
    <2>1. CASE i = n + 1 /\ all[i] = m
      BY <1>5, <2>1
    <2>2. CASE i \in DOMAIN ms /\ all[i] = ms[i]
      <3> DEFINE b == ms[i].shown[k]
      <3>1. b.label \in DOMAIN cs[b.kind] /\ cs[b.kind][b.label] = b.item
        BY <2>2 DEF PromptOK, LabelsOf
      <3>2. b.kind \in {"local", "web"}
        <4>1. ms[i] \in Messages
          BY <1>1, <2>2
        <4>2. b \in Shows
          BY <2>2, <4>1, MessageIs
        <4> QED
          BY <4>2 DEF Shows
      <3> QED
        BY <1>6, <2>2, <3>1, <3>2
    <2> QED
      BY <1>4, <2>1, <2>2
  <1>8. OnceIn(all)
    <2> SUFFICES ASSUME NEW i \in DOMAIN all, NEW j \in DOMAIN all,
                        all[i].role = "tool", all[j].role = "tool",
                        NEW k \in DOMAIN all[i].shown, NEW l \in DOMAIN all[j].shown,
                        all[i].shown[k].kind = "local", all[j].shown[l].kind = "local",
                        all[i].shown[k].item = all[j].shown[l].item
                 PROVE  i = j /\ k = l
      BY DEF OnceIn
    <2>1. ASSUME NEW h \in DOMAIN ms, ms[h].role = "tool", NEW o \in DOMAIN ms[h].shown,
                 ms[h].shown[o].kind = "local", NEW p \in DOMAIN m.shown, m.shown[p].kind = "local"
          PROVE  ms[h].shown[o].item # m.shown[p].item
      <3>1. ms[h].shown[o].label \in DOMAIN cs.local
            /\ cs.local[ms[h].shown[o].label] = ms[h].shown[o].item
        BY <2>1 DEF PromptOK, LabelsOf
      <3>2. kind = "local" /\ \E q \in 1..Len(items) : m.shown[p].item = items[q]
        BY <1>5, <2>1
      <3> QED
        BY <3>1, <3>2
    <2>2. CASE i \in DOMAIN ms /\ all[i] = ms[i] /\ j \in DOMAIN ms /\ all[j] = ms[j]
      BY <2>2 DEF PromptOK, OnceIn
    <2>3. CASE i = n + 1 /\ all[i] = m /\ j = n + 1 /\ all[j] = m
      BY <1>5, <2>3
    <2>4. CASE i \in DOMAIN ms /\ all[i] = ms[i] /\ j = n + 1 /\ all[j] = m
      BY <2>1, <2>4
    <2>5. CASE i = n + 1 /\ all[i] = m /\ j \in DOMAIN ms /\ all[j] = ms[j]
      BY <2>1, <2>5
    <2> QED
      BY <1>4, <2>2, <2>3, <2>4, <2>5
  <1>9. Distinct(ds.local) /\ Distinct(ds.web)
    BY <1>5 DEF PromptOK
  <1>10. PromptOK(all, ds)
    BY <1>2, <1>3, <1>7, <1>8, <1>9 DEF PromptOK
  <1> QED
    BY <1>10 DEF all

-----------------------------------------------------------------------------
(* The invariant of a chat.                                                *)

Events == [try : Nat, part : Nat]
Phases == {"idle", "accepted", "planning", "prefetch", "round", "calls", "forced",
           "closing", "answer", "ended"}
Chats == [phase : Phases,
          stocked : BOOLEAN, round : Nat, used : Nat, searched : BOOLEAN, left : Nat,
          hits : SUBSET Chunks, todo : Seq(Tools), carry : Seq(Events)]
Streams == [sources : [local : Nat, web : Nat], answer : Seq(Events),
            end : {Unset, "error", "gone", "done"}]
ModelRequests == [state : {"none", "asking", "recovering", "streaming"},
             tries : Nat, checks : Nat, parts : Nat]
Nets == [up : SUBSET Hosts, env : Hosts \cup {Unset}, active : Hosts \cup {Unset}]

ChatTyped ==
    /\ chat \in Chats /\ sent \in Streams
    /\ llm \in [Clients -> ModelRequests] /\ host \in Nets /\ backend \in {"soclaas", "ollama"}
    /\ queries \in Nat /\ tally \in [faults : Nat, switches : Nat, followups : Nat]

\* What a request is for, and how often it is made.
AskedFor ==
    /\ llm["chat"].state # "none" => chat.phase \in {"planning", "round", "answer"}
    /\ llm["chat"].state = "streaming" => chat.phase = "answer"
    /\ llm["followup"].state # "streaming"
    /\ \A c \in Clients :
           /\ llm[c].state = "recovering" => backend = "ollama"
           /\ llm[c].tries <= IF backend = "ollama" THEN Retries ELSE Attempts

\* What a chat may have used in each of its phases.
Rounds ==
    /\ chat.phase \in {"idle", "accepted", "planning", "prefetch"} =>
           chat.round = 0 /\ chat.used = 0 /\ ~chat.searched /\ msgs = <<>> 
           /\ cites = [local |-> <<>>, web |-> <<>>]
    /\ chat.used <= MaxCalls + 1 /\ (~chat.searched => chat.used <= MaxCalls)
    /\ chat.round <= MaxRounds
    /\ chat.phase \in {"calls", "forced"} => chat.round < MaxRounds
    /\ chat.phase = "round" /\ llm["chat"].state # "none" => chat.round < MaxRounds
    /\ chat.phase = "forced" => ~chat.searched
    /\ chat.phase = "answer" => chat.searched
    /\ chat.searched => \E i \in DOMAIN msgs : msgs[i].role = "tool" /\ msgs[i].name = "local"

\* The queries that are not finished.
Counted ==
    /\ tally.followups <= 1 /\ queries <= 1 + tally.followups
    /\ chat.phase \in {"idle", "accepted"} => queries = 0 /\ tally.followups = 0

\* The browser and the registry agree on how many sources there are.
Informed == sent.sources = [local |-> Len(cites.local), web |-> Len(cites.web)]

\* The first events of one attempt.
OneTry(answer, try) == \A i \in DOMAIN answer : answer[i].part = i /\ answer[i].try = try

Streamed ==
    /\ llm["chat"].state # "streaming" => llm["chat"].parts = 0
    /\ llm["chat"].state = "streaming" =>
           /\ OneTry(sent.answer \o chat.carry, llm["chat"].tries)
           /\ Len(sent.answer \o chat.carry) = llm["chat"].parts
    /\ llm["chat"].state # "streaming" /\ chat.phase # "ended" =>
           sent.answer = <<>> /\ chat.carry = <<>>
    /\ OneTry(sent.answer, sent.answer[1].try)
    /\ sent.answer # <<>> => chat.searched
    /\ sent.end = "done" => chat.phase = "ended" /\ Len(sent.answer) = chat.left

\* The j-th message is the result of the k-th call of the i-th.
Replies(ms, j, i, k) ==
    /\ i \in DOMAIN ms /\ ms[i].role = "assistant" /\ k \in DOMAIN ms[i].calls /\ i + k = j
    /\ ms[j].name = IF ms[i].calls[k].name = "" THEN "unknown" ELSE ms[i].calls[k].name

\* Every result follows the call that it is of at the call's place, and has its name.
CallAnswers(ms) ==
    /\ \A j \in DOMAIN ms : ms[j].role = "tool" => Replies(ms, j, ms[j].of[1], ms[j].of[2])
    /\ \A i \in DOMAIN ms : ms[i].role = "assistant" =>
           \A k \in DOMAIN ms[i].calls :
               i + k <= Len(ms) => ms[i + k].role = "tool" /\ ms[i + k].of = <<i, k>>
Minted(ms) ==
    \A i \in DOMAIN ms : ms[i].role = "assistant" =>
        \A k \in DOMAIN ms[i].calls : ms[i].calls[k].id = Unset
Closed(ms) ==
    \A i \in DOMAIN ms : ms[i].role = "assistant" => i + Len(ms[i].calls) <= Len(ms)
\* The calls of the a-th message are being answered, and these are left.
Open(ms, a, todo) ==
    /\ a \in DOMAIN ms /\ ms[a].role = "assistant"
    /\ \A i \in DOMAIN ms : ms[i].role = "assistant" /\ i # a => i + Len(ms[i].calls) <= Len(ms)
    /\ Len(ms) + Len(todo) = a + Len(ms[a].calls)
    /\ \A k \in DOMAIN todo : ms[a].calls[Len(ms) - a + k].name = todo[k]

Replied ==
    /\ CallAnswers(msgs)
    /\ IF chat.phase = "calls" THEN \E a \in DOMAIN msgs : Open(msgs, a, chat.todo)
       ELSE chat.phase # "ended" => Closed(msgs)
MintedInv == Minted(msgs)
PromptInv == PromptOK(msgs, cites)
UsedIs == Used = UsedOf(msgs)

-----------------------------------------------------------------------------
(* Searches keep the prompt good.                                          *)

\* A ranking is a sequence of what was found, each once.
LEMMA OrderIs ==
    ASSUME NEW S, IsFiniteSet(S), NEW order \in Orders(S)
    PROVE  order \in Seq(S) /\ Distinct(order) /\ \A j \in 1..Len(order) : order[j] \in S
  <1> DEFINE n == Cardinality(S)
  <1>1. n \in Nat
    BY FS_CardinalityType
  <1>2. order \in [1..n -> S] /\ IsInjective(order)
    BY DEF Orders
  <1> HIDE DEF n
  <1>3. order \in Seq(S) /\ Len(order) = n /\ DOMAIN order = 1..n
    BY <1>1, <1>2
  <1> QED
    BY <1>2, <1>3 DEF Distinct, IsInjective

\* The room that is left is what the results leave of the budget.
LEMMA RoomIs ==
    ASSUME PromptOK(msgs, cites)
    PROVE  Used = UsedOf(msgs) /\ RoomLeft \in Nat /\ RoomLeft <= Budget - UsedOf(msgs)
  <1>1. Used = UsedOf(msgs)
    <2>1. \A i \in DOMAIN msgs : i \in Results <=> msgs[i].role = "tool"
      BY DEF Results
    <2>2. [i \in DOMAIN msgs |-> IF i \in Results THEN Sizes(msgs[i].shown) ELSE 0]
          = [i \in DOMAIN msgs |-> IF msgs[i].role = "tool" THEN Sizes(msgs[i].shown) ELSE 0]
      BY <2>1
    <2> QED
      BY <2>2 DEF Used, UsedOf
  <1>2. UsedOf(msgs) \in Nat /\ UsedOf(msgs) <= Budget
    <2>1. msgs \in Seq(Messages)
      BY DEF PromptOK
    <2>2. [role |-> "user"] \in Messages
      BY DEF Messages
    <2> QED
      BY <2>1, <2>2, UsedMore DEF PromptOK
  <1>3. Budget \in Nat
    BY AnsweringBounds
  <1> DEFINE u == UsedOf(msgs)
  <1>4. RoomLeft = IF u < Budget THEN Budget - u ELSE 0
    BY <1>1 DEF RoomLeft
  <1>5. u \in Nat /\ u <= Budget
    BY <1>2
  <1> HIDE DEF u
  <1>6. RoomLeft \in Nat /\ RoomLeft <= Budget - u
    BY <1>3, <1>4, <1>5
  <1> QED
    BY <1>1, <1>6 DEF u

\* What a tool call is, before its result.
LEMMA LocalAsked ==
    Asks(<<LocalCall>>) \in Messages /\ Asks(<<LocalCall>>).role = "assistant"
  BY DEF Asks, LocalCall, Messages, Calls, Tools

SourceKinds == {"local", "web"}
Found(kind) == IF kind = "local" THEN Chunks ELSE Urls

\* A search whose finds are not cited yet adds a good result to a good prompt.
LEMMA ResultOK ==
    ASSUME NEW ms, NEW cs, PromptOK(ms, cs), NEW kind \in SourceKinds, NEW items \in Seq(Found(kind)),
           NEW room \in Nat, room <= Budget - UsedOf(ms),
           NEW r, Built(r, kind, items, Len(items), cs[kind], room),
           kind = "local" => \A i \in DOMAIN cs.local, j \in 1..Len(items) : cs.local[i] # items[j],
           NEW of \in Nat \X Nat
    PROVE  /\ PromptOK(Append(ms, Result(kind, r.blocks, of)), [cs EXCEPT ![kind] = r.sources])
           /\ Result(kind, r.blocks, of) \in Messages
           /\ [cs EXCEPT ![kind] = r.sources] \in Registries
           /\ r.sources \in Seq(Found(kind))
  <1> DEFINE m == Result(kind, r.blocks, of)
             ds == [cs EXCEPT ![kind] = r.sources]
  <1>1. kind \in {"local", "web"}
    BY DEF SourceKinds
  <1>2. cs \in Registries
    BY DEF PromptOK
  <1>3. r.sources \in Seq(Sources) /\ r.blocks \in Seq(Shows)
    BY DEF Built, Shelves
  <1>4. r.sources \in Seq(Found(kind))
    <2>1. cs[kind] \in Seq(Found(kind))
      BY <1>1, <1>2 DEF Registries, Found
    <2>2. \A i \in DOMAIN cs[kind] : cs[kind][i] \in Found(kind)
      BY <2>1
    <2>3. \A j \in 1..Len(items) : items[j] \in Found(kind)
      OBVIOUS
    <2>4. \A i \in DOMAIN r.sources : r.sources[i] \in Found(kind)
      BY <2>2, <2>3 DEF Built
    <2> HIDE DEF Found
    <2> QED
      BY <1>3, <2>4, SeqOver
  <1>5. ds \in Registries
    BY <1>1, <1>2, <1>4 DEF Registries, Found
  <1>6. m \in Messages /\ m.role = "tool" /\ m.shown = r.blocks
    BY <1>1, <1>3 DEF Result, Messages
  <1>7. ds[kind] = r.sources /\ \A k \in {"local", "web"} : k # kind => ds[k] = cs[k]
    BY <1>1, <1>2 DEF Registries
  <1> HIDE DEF m, ds
  <1>8. PromptOK(Append(ms, m), ds)
    BY <1>1, <1>5, <1>6, <1>7, PromptResult, SMTT(60)
  <1> QED
    BY <1>4, <1>5, <1>6, <1>8 DEF m, ds

\* So a search by the chat does.
LEMMA Searches ==
    ASSUME PromptOK(msgs, cites), NEW kind \in SourceKinds, NEW items \in Seq(Found(kind)), Distinct(items),
           NEW size, \A j \in 1..Len(items) : size[items[j]] \in Nat,
           kind = "local" => \A i \in DOMAIN cites.local, j \in 1..Len(items) : cites.local[i] # items[j],
           NEW before, PromptOK(before, cites), UsedOf(before) = UsedOf(msgs),
           NEW of \in Nat \X Nat,
           NEW r, r = Shown(kind, items, size)
    PROVE  /\ PromptOK(Append(before, Result(kind, r.blocks, of)), [cites EXCEPT ![kind] = r.sources])
           /\ Result(kind, r.blocks, of) \in Messages
           /\ [cites EXCEPT ![kind] = r.sources] \in Registries
           /\ r.sources \in Seq(Found(kind))
  <1>1. RoomLeft \in Nat /\ RoomLeft <= Budget - UsedOf(before)
    BY RoomIs
  <1>2. Built(r, kind, items, Len(items), cites[kind], RoomLeft)
    <2>1. items \in Seq(Sources)
      BY DEF Found, Sources
    <2>2. cites \in Registries /\ Distinct(cites.local) /\ Distinct(cites.web)
      BY DEF PromptOK
    <2>3. cites[kind] \in Seq(Sources) /\ Distinct(cites[kind])
      BY <2>2 DEF SourceKinds, Registries, Sources
    <2> QED
      BY <1>1, <2>1, <2>3, ShownBuilt DEF SourceKinds
  <1> QED
    BY <1>1, <1>2, ResultOK

\* A result that shows nothing is as good.
LEMMA PromptNothing ==
    ASSUME NEW ms, NEW cs, PromptOK(ms, cs), NEW name \in Tools, NEW of \in Nat \X Nat
    PROVE  PromptOK(Append(ms, Result(name, <<>>, of)), cs) /\ Result(name, <<>>, of) \in Messages
  <1> DEFINE m == Result(name, <<>>, of)
             r == [blocks |-> <<>>, sources |-> cs.local, room |-> 0, full |-> TRUE]
  <1>1. m \in Messages /\ m.role = "tool" /\ m.shown = r.blocks
    <2> DEFINE called == IF name = "" THEN "unknown" ELSE name
    <2>1. called \in {"local", "web", "unknown"}
      BY DEF Tools
    <2>3. <<>> \in Seq(Shows)
      OBVIOUS
    <2>2. m = [role |-> "tool", name |-> called, shown |-> <<>>, of |-> of]
      BY DEF Result
    <2> HIDE DEF called, m
    <2> QED
      BY <2>1, <2>2, <2>3 DEF Messages
  <1>2. cs \in Registries /\ Distinct(cs.local) /\ UsedOf(ms) <= Budget /\ ms \in Seq(Messages)
    BY DEF PromptOK
  <1>3. Built(r, "local", <<>>, 0, cs.local, 0)
    <2>1. cs.local \in Seq(Sources)
      BY <1>2 DEF Registries, Sources
    <2>2. Sizes(r.blocks) = 0
      BY SizesNone
    <2> QED
      BY <1>2, <2>1, <2>2 DEF Built, Shelves
  <1>4. 0 <= Budget - UsedOf(ms)
    BY <1>1, <1>2, UsedMore, AnsweringBounds, SMTT(60)
  <1> DEFINE items == <<>>
  <1>5. Len(items) = 0 /\ r.sources = cs.local
    OBVIOUS
  <1>7. \A i \in DOMAIN cs.local, j \in 1..Len(items) : cs.local[i] # items[j]
    BY <1>5
  <1>8. Built(r, "local", items, Len(items), cs.local, 0)
    BY <1>3, <1>5
  <1> DEFINE kind == "local"
  <1>9. /\ kind \in {"local", "web"} /\ 0 \in Nat /\ cs[kind] = r.sources
        /\ Built(r, kind, items, Len(items), cs[kind], 0)
        /\ kind = "local" => \A i \in DOMAIN cs.local, j \in 1..Len(items) : cs.local[i] # items[j]
        /\ \A k \in {"local", "web"} : k # kind => cs[k] = cs[k]
    BY <1>5, <1>7, <1>8
  <1> HIDE DEF m, r, items, kind
  <1>6. PromptOK(Append(ms, m), cs)
    BY <1>1, <1>2, <1>4, <1>9, PromptResult
  <1> QED
    BY <1>1, <1>6 DEF m

-----------------------------------------------------------------------------
(* Calls and their results.                                                *)

\* n messages and one more.
More(all, ms, m, n) ==
    /\ n \in Nat /\ Len(ms) = n /\ Len(all) = n + 1 /\ DOMAIN ms = 1..n /\ DOMAIN all = 1..n + 1
    /\ all[n + 1] = m /\ \A i \in DOMAIN ms : i \in DOMAIN all /\ all[i] = ms[i]
    /\ \A i \in DOMAIN all : all[i].role = "assistant" =>
           Len(all[i].calls) \in Nat /\ DOMAIN all[i].calls = 1..Len(all[i].calls)

\* That is what appending does.
LEMMA AppendIsMore ==
    ASSUME NEW ms \in Seq(Messages), NEW m \in Messages
    PROVE  More(Append(ms, m), ms, m, Len(ms))
  <1> DEFINE all == Append(ms, m)
  <1>1. /\ Len(ms) \in Nat /\ Len(all) = Len(ms) + 1 /\ all \in Seq(Messages)
        /\ DOMAIN ms = 1..Len(ms) /\ DOMAIN all = 1..Len(ms) + 1
        /\ all[Len(ms) + 1] = m /\ \A i \in 1..Len(ms) : all[i] = ms[i]
    BY AppendIs
  <1> HIDE DEF all
  <1>2. \A i \in DOMAIN all : all[i] \in Messages
    BY <1>1
  <1>3. ASSUME NEW i \in DOMAIN all, all[i].role = "assistant"
        PROVE  Len(all[i].calls) \in Nat /\ DOMAIN all[i].calls = 1..Len(all[i].calls)
    <2>1. all[i].calls \in Seq(Calls)
      BY <1>2, <1>3, MessageIs
    <2> QED
      BY <2>1
  <1>4. \A i \in DOMAIN ms : i \in DOMAIN all /\ all[i] = ms[i]
    BY <1>1
  <1>5. More(all, ms, m, Len(ms))
    BY <1>1, <1>3, <1>4 DEF More
  <1> QED
    BY <1>5 DEF all

\* What there was of the calls and the results stays.
LEMMA KeepsReplies ==
    ASSUME NEW all, NEW ms, NEW m, NEW n, More(all, ms, m, n), CallAnswers(ms)
    PROVE  /\ \A j \in DOMAIN ms : all[j].role = "tool" => Replies(all, j, all[j].of[1], all[j].of[2])
           /\ \A i \in DOMAIN ms : all[i].role = "assistant" =>
                  \A k \in DOMAIN all[i].calls :
                      i + k <= n => all[i + k].role = "tool" /\ all[i + k].of = <<i, k>>
  <1>1. /\ n \in Nat /\ Len(ms) = n /\ DOMAIN ms = 1..n
        /\ \A i \in DOMAIN ms : i \in DOMAIN all /\ all[i] = ms[i]
    BY DEF More
  <1>2. ASSUME NEW j \in DOMAIN ms, all[j].role = "tool"
        PROVE  Replies(all, j, all[j].of[1], all[j].of[2])
    <2>1. Replies(ms, j, ms[j].of[1], ms[j].of[2])
      BY <1>1, <1>2 DEF CallAnswers
    <2> QED
      BY <1>1, <2>1 DEF Replies
  <1>3. ASSUME NEW i \in DOMAIN ms, all[i].role = "assistant", NEW k \in DOMAIN all[i].calls, i + k <= n
        PROVE  all[i + k].role = "tool" /\ all[i + k].of = <<i, k>>
    <2>1. ms[i + k].role = "tool" /\ ms[i + k].of = <<i, k>>
      BY <1>1, <1>3 DEF CallAnswers
    <2>2. k \in Nat \ {0}
      <3>1. DOMAIN all[i].calls = 1..Len(all[i].calls) /\ Len(all[i].calls) \in Nat
        BY <1>1, <1>3 DEF More
      <3> QED
        BY <3>1
    <2>3. i + k \in DOMAIN ms
      BY <1>1, <1>3, <2>2
    <2> QED
      BY <1>1, <2>1, <2>3
  <1> QED
    BY <1>2, <1>3

\* Calls that are asked for are open, when no others are.
LEMMA AskedOpens ==
    ASSUME NEW all, NEW ms, NEW m, NEW n, More(all, ms, m, n), CallAnswers(ms), Closed(ms),
           m.role = "assistant", NEW todo, Len(todo) = Len(m.calls), DOMAIN todo = DOMAIN m.calls,
           \A k \in DOMAIN todo : m.calls[k].name = todo[k]
    PROVE  CallAnswers(all) /\ Open(all, n + 1, todo)
  <1>1. /\ n \in Nat /\ Len(all) = n + 1 /\ Len(ms) = n /\ DOMAIN ms = 1..n /\ DOMAIN all = 1..n + 1
        /\ all[n + 1] = m
    BY DEF More
  <1>2. \A i \in DOMAIN all : i \in DOMAIN ms \/ i = n + 1
    BY <1>1
  <1>3. \A i \in DOMAIN ms : all[i] = ms[i]
    BY DEF More
  <1>4. \A i \in DOMAIN all : all[i].role = "assistant" =>
            Len(all[i].calls) \in Nat /\ DOMAIN all[i].calls = 1..Len(all[i].calls)
    BY DEF More
  <1>5. \A i \in DOMAIN ms : all[i].role = "assistant" => i + Len(all[i].calls) <= n
    BY <1>1, <1>3 DEF Closed
  <1>6. CallAnswers(all)
    <2>1. ASSUME NEW j \in DOMAIN all, all[j].role = "tool"
          PROVE  Replies(all, j, all[j].of[1], all[j].of[2])
      <3>1. j \in DOMAIN ms
        BY <1>1, <1>2, <2>1
      <3> QED
        BY <2>1, <3>1, KeepsReplies
    <2>2. ASSUME NEW i \in DOMAIN all, all[i].role = "assistant", NEW k \in DOMAIN all[i].calls,
                 i + k <= Len(all)
          PROVE  all[i + k].role = "tool" /\ all[i + k].of = <<i, k>>
      <3> DEFINE l == Len(all[i].calls)
      <3>1. l \in Nat /\ k \in 1..l /\ i \in 1..n + 1
        BY <1>1, <1>4, <2>2
      <3>2. i # n + 1
        BY <1>1, <2>2, <3>1
      <3>3. i \in DOMAIN ms
        BY <1>2, <3>2
      <3>4. i + l <= n
        BY <1>5, <2>2, <3>3
      <3> HIDE DEF l
      <3>5. i + k <= n
        BY <1>1, <3>1, <3>4
      <3> QED
        BY <2>2, <3>3, <3>5, KeepsReplies
    <2> QED
      BY <2>1, <2>2 DEF CallAnswers
  <1>7. Open(all, n + 1, todo)
    <2>1. \A i \in DOMAIN all : all[i].role = "assistant" /\ i # n + 1 => i + Len(all[i].calls) <= n + 1
      <3> SUFFICES ASSUME NEW i \in DOMAIN all, all[i].role = "assistant", i # n + 1
                   PROVE  i + Len(all[i].calls) <= n + 1
        OBVIOUS
      <3> DEFINE l == Len(all[i].calls)
      <3>1. i \in 1..n + 1 /\ l \in Nat /\ i + l <= n
        BY <1>1, <1>2, <1>4, <1>5
      <3> HIDE DEF l
      <3>2. i + l <= n + 1
        BY <1>1, <3>1
      <3> QED
        BY <3>2 DEF l
    <2>2. \A k \in DOMAIN todo : all[n + 1].calls[(n + 1) - (n + 1) + k].name = todo[k]
      <3> TAKE k \in DOMAIN todo
      <3>1. DOMAIN todo = 1..Len(m.calls) /\ Len(m.calls) \in Nat
        BY <1>1, <1>4
      <3>2. (n + 1) - (n + 1) + k = k
        BY <1>1, <3>1
      <3> QED
        BY <1>1, <3>2
    <2>3. n + 1 \in DOMAIN all
      BY <1>1
    <2> QED
      BY <1>1, <2>1, <2>2, <2>3 DEF Open
  <1> QED
    BY <1>6, <1>7

\* What answers the next call of an open message.
Answer(m, a, n, todo) ==
    /\ m.role = "tool" /\ m.of = <<a, n - a + 1>>
    /\ m.name = IF todo[1] = "" THEN "unknown" ELSE todo[1]
\* What is left to answer after it.
Rest(todo, rest) ==
    /\ Len(todo) \in Nat \ {0} /\ DOMAIN todo = 1..Len(todo)
    /\ Len(rest) = Len(todo) - 1 /\ DOMAIN rest = 1..Len(todo) - 1
    /\ \A k \in 1..Len(todo) - 1 : rest[k] = todo[k + 1]

\* The next call that is open gets its result.
LEMMA ReplyCloses ==
    ASSUME NEW all, NEW ms, NEW m, NEW n, More(all, ms, m, n), CallAnswers(ms),
           NEW a, NEW todo, Open(ms, a, todo), Answer(m, a, n, todo), NEW rest, Rest(todo, rest)
    PROVE  CallAnswers(all) /\ Open(all, a, rest)
  <1> DEFINE d == n - a + 1
             l == Len(all[a].calls)
             t == Len(todo)
  <1>1. /\ n \in Nat /\ Len(all) = n + 1 /\ Len(ms) = n /\ DOMAIN ms = 1..n /\ DOMAIN all = 1..n + 1
        /\ all[n + 1] = m
    BY DEF More
  <1>2. \A i \in DOMAIN all : i \in DOMAIN ms \/ i = n + 1
    BY <1>1
  <1>3. \A i \in DOMAIN ms : i \in DOMAIN all /\ all[i] = ms[i]
    BY DEF More
  <1>4. \A i \in DOMAIN all : all[i].role = "assistant" =>
            Len(all[i].calls) \in Nat /\ DOMAIN all[i].calls = 1..Len(all[i].calls)
    BY DEF More
  <1>5. /\ a \in DOMAIN ms /\ all[a].role = "assistant" /\ n + t = a + l
        /\ \A k \in DOMAIN todo : all[a].calls[n - a + k].name = todo[k]
        /\ \A i \in DOMAIN ms : all[i].role = "assistant" /\ i # a => i + Len(all[i].calls) <= n
    BY <1>1, <1>3 DEF Open
  <1>6. t \in Nat \ {0} /\ DOMAIN todo = 1..t
    BY DEF Rest
  <1>7. l \in Nat /\ DOMAIN all[a].calls = 1..l /\ a \in 1..n
    BY <1>1, <1>3, <1>4, <1>5
  <1>8. n + t = a + l
    BY <1>5
  <1>9. m.role = "tool" /\ m.of = <<a, d>> /\ m.name = IF todo[1] = "" THEN "unknown" ELSE todo[1]
    BY DEF Answer
  <1> HIDE DEF l, t
  <1>10. d \in 1..l /\ a + d = n + 1
    BY <1>1, <1>6, <1>7, <1>8
  <1>11. all[a].calls[d].name = todo[1]
    <2>1. 1 \in DOMAIN todo
      BY <1>6
    <2> QED
      BY <1>5, <2>1
  <1> HIDE DEF d
  <1>12. CallAnswers(all)
    <2>1. ASSUME NEW j \in DOMAIN all, all[j].role = "tool"
          PROVE  Replies(all, j, all[j].of[1], all[j].of[2])
      <3>1. CASE j \in DOMAIN ms
        BY <2>1, <3>1, KeepsReplies
      <3>2. CASE j = n + 1
        <4>1. Replies(all, n + 1, a, d)
          BY <1>1, <1>3, <1>5, <1>7, <1>9, <1>10, <1>11 DEF Replies
        <4>2. all[j].of = <<a, d>>
          BY <1>1, <1>9, <3>2
        <4>3. all[j].of[1] = a /\ all[j].of[2] = d
          BY <4>2
        <4> QED
          BY <3>2, <4>1, <4>3
      <3> QED
        BY <1>2, <3>1, <3>2
    <2>2. ASSUME NEW i \in DOMAIN all, all[i].role = "assistant", NEW k \in DOMAIN all[i].calls,
                 i + k <= Len(all)
          PROVE  all[i + k].role = "tool" /\ all[i + k].of = <<i, k>>
      <3> DEFINE li == Len(all[i].calls)
      <3>1. li \in Nat /\ k \in 1..li /\ i \in 1..n + 1
        BY <1>1, <1>4, <2>2
      <3>2. i \in DOMAIN ms
        BY <1>1, <1>2, <1>9, <2>2
      <3>3. CASE i + k <= n
        BY <2>2, <3>2, <3>3, KeepsReplies
      <3>4. CASE i + k = n + 1
        <4>1. i # a => i + li <= n
          BY <1>5, <2>2, <3>2
        <4> HIDE DEF li
        <4>2. i = a
          BY <1>1, <3>1, <3>4, <4>1
        <4>3. k = d
          BY <1>1, <1>7, <1>10, <3>1, <3>4, <4>2
        <4> QED
          BY <1>1, <1>9, <3>4, <4>2, <4>3
      <3> HIDE DEF li
      <3>5. i + k <= n \/ i + k = n + 1
        BY <1>1, <2>2, <3>1
      <3> QED
        BY <3>3, <3>4, <3>5
    <2> QED
      BY <2>1, <2>2 DEF CallAnswers
  <1>13. Open(all, a, rest)
    <2>1. \A i \in DOMAIN all : all[i].role = "assistant" /\ i # a => i + Len(all[i].calls) <= n + 1
      <3> SUFFICES ASSUME NEW i \in DOMAIN all, all[i].role = "assistant", i # a
                   PROVE  i + Len(all[i].calls) <= n + 1
        OBVIOUS
      <3> DEFINE li == Len(all[i].calls)
      <3>1. i \in 1..n + 1 /\ li \in Nat /\ i \in DOMAIN ms
        BY <1>1, <1>2, <1>4, <1>9
      <3>2. i + li <= n
        BY <1>5, <3>1
      <3> HIDE DEF li
      <3>3. i + li <= n + 1
        BY <1>1, <3>1, <3>2
      <3> QED
        BY <3>3 DEF li
    <2>2. (n + 1) + Len(rest) = a + l
      <3>1. Len(rest) = t - 1
        BY DEF Rest, t
      <3>2. (n + 1) + (t - 1) = a + l
        BY <1>1, <1>6, <1>7, <1>8
      <3> QED
        BY <3>1, <3>2
    <2>3. \A k \in DOMAIN rest : all[a].calls[(n + 1) - a + k].name = rest[k]
      <3> TAKE k \in DOMAIN rest
      <3>1. k \in 1..t - 1 /\ rest[k] = todo[k + 1]
        BY DEF Rest, t
      <3>2. (n + 1) - a + k = n - a + (k + 1) /\ k + 1 \in 1..t
        BY <1>1, <1>6, <1>7, <3>1, SMTT(60)
      <3> QED
        BY <1>5, <1>6, <3>1, <3>2
    <2> QED
      BY <1>1, <1>3, <1>5, <2>1, <2>2, <2>3 DEF Open, l
  <1> QED
    BY <1>12, <1>13

\* When no call is left, none is open.
LEMMA NoneOpen ==
    ASSUME NEW ms, Len(ms) \in Nat, NEW a, NEW todo, Len(todo) = 0, Open(ms, a, todo)
    PROVE  Closed(ms)
  <1>1. /\ a \in DOMAIN ms /\ ms[a].role = "assistant" /\ Len(ms) + 0 = a + Len(ms[a].calls)
        /\ \A i \in DOMAIN ms : ms[i].role = "assistant" /\ i # a => i + Len(ms[i].calls) <= Len(ms)
    BY DEF Open
  <1>2. a + Len(ms[a].calls) <= Len(ms)
    BY <1>1
  <1> QED
    BY <1>1, <1>2 DEF Closed

\* A message that is neither a call nor a result opens none.
LEMMA OtherCloses ==
    ASSUME NEW all, NEW ms, NEW m, NEW n, More(all, ms, m, n), CallAnswers(ms), Closed(ms),
           m.role = "user"
    PROVE  CallAnswers(all) /\ Closed(all)
  <1>1. /\ n \in Nat /\ Len(all) = n + 1 /\ Len(ms) = n /\ DOMAIN ms = 1..n /\ DOMAIN all = 1..n + 1
        /\ all[n + 1] = m
    BY DEF More
  <1>2. \A i \in DOMAIN all : i \in DOMAIN ms \/ i = n + 1
    BY <1>1
  <1>3. \A i \in DOMAIN ms : all[i] = ms[i]
    BY DEF More
  <1>4. \A i \in DOMAIN all : all[i].role = "assistant" =>
            /\ Len(all[i].calls) \in Nat /\ DOMAIN all[i].calls = 1..Len(all[i].calls)
            /\ i \in DOMAIN ms /\ i + Len(all[i].calls) <= n
    BY <1>1, <1>2, <1>3 DEF More, Closed
  <1>5. \A i \in DOMAIN all : all[i].role = "assistant" => i + Len(all[i].calls) <= n + 1
    <2> SUFFICES ASSUME NEW i \in DOMAIN all, all[i].role = "assistant"
                 PROVE  i + Len(all[i].calls) <= n + 1
      OBVIOUS
    <2> DEFINE l == Len(all[i].calls)
    <2>1. i \in 1..n + 1 /\ l \in Nat /\ i + l <= n
      BY <1>1, <1>4
    <2> HIDE DEF l
    <2>2. i + l <= n + 1
      BY <1>1, <2>1
    <2> QED
      BY <2>2 DEF l
  <1>6. ASSUME NEW j \in DOMAIN all, all[j].role = "tool"
        PROVE  Replies(all, j, all[j].of[1], all[j].of[2])
    <2>1. j \in DOMAIN ms
      BY <1>1, <1>2, <1>6
    <2> QED
      BY <1>6, <2>1, KeepsReplies
  <1>7. ASSUME NEW i \in DOMAIN all, all[i].role = "assistant", NEW k \in DOMAIN all[i].calls
        PROVE  all[i + k].role = "tool" /\ all[i + k].of = <<i, k>>
    <2> DEFINE l == Len(all[i].calls)
    <2>1. i \in 1..n + 1 /\ l \in Nat /\ i + l <= n /\ k \in 1..l /\ i \in DOMAIN ms
      BY <1>1, <1>4, <1>7
    <2> HIDE DEF l
    <2>2. i + k <= n
      BY <1>1, <2>1
    <2> QED
      BY <1>7, <2>1, <2>2, KeepsReplies
  <1>8. CallAnswers(all)
    BY <1>6, <1>7 DEF CallAnswers
  <1> QED
    BY <1>1, <1>5, <1>8 DEF Closed

\* The next call to answer is the first that is open.
LEMMA CallAtIs ==
    ASSUME msgs \in Seq(Messages), CallAnswers(msgs), NEW a, NEW todo, Open(msgs, a, todo),
           Len(todo) \in Nat
    PROVE  CallAt = <<a, Len(msgs) - a + 1>> /\ CallAt \in Nat \X Nat
  <1> DEFINE n == Len(msgs)
             Last2(i) == msgs[i].role = "assistant" /\ \A j \in i + 1 .. n : msgs[j].role = "tool"
  <1>1. n \in Nat /\ DOMAIN msgs = 1..n
    OBVIOUS
  <1>2. /\ a \in 1..n /\ msgs[a].role = "assistant" /\ n + Len(todo) = a + Len(msgs[a].calls)
    BY <1>1 DEF Open
  <1>3. Len(msgs[a].calls) \in Nat /\ DOMAIN msgs[a].calls = 1..Len(msgs[a].calls)
    <2>1. msgs[a].calls \in Seq(Calls)
      BY <1>1, <1>2, MessageIs
    <2> QED
      BY <2>1
  <1>4. \A j \in a + 1 .. n : msgs[j].role = "tool"
    <2> TAKE j \in a + 1 .. n
    <2> DEFINE l == Len(msgs[a].calls)
               t == Len(todo)
               k == j - a
    <2>1. l \in Nat /\ t \in Nat /\ n + t = a + l /\ a \in Nat /\ j \in Nat /\ j <= n /\ a < j
      BY <1>1, <1>2, <1>3
    <2> HIDE DEF l, t, n
    <2>2. k \in 1..l /\ a + k = j
      BY <1>1, <2>1
    <2>3. k \in DOMAIN msgs[a].calls
      BY <1>3, <2>2 DEF l
    <2>4. a + k <= Len(msgs) /\ a \in DOMAIN msgs
      BY <1>1, <1>2, <2>1, <2>2 DEF n
    <2> HIDE DEF k
    <2>5. msgs[a + k].role = "tool"
      BY <1>2, <2>3, <2>4 DEF CallAnswers
    <2> QED
      BY <2>2, <2>5
  <1>5. \A i \in 1..n : Last2(i) => i = a
    <2> SUFFICES ASSUME NEW i \in 1..n, Last2(i), i # a PROVE FALSE
      OBVIOUS
    <2> HIDE DEF n
    <2>1. CASE i < a
      <3>1. a \in i + 1 .. n
        BY <1>1, <1>2, <2>1
      <3> QED
        BY <1>2, <3>1
    <2>2. CASE a < i
      <3>1. i \in a + 1 .. n
        BY <1>1, <1>2, <2>2
      <3> QED
        BY <1>4, <3>1
    <2>3. i < a \/ a < i
      BY <1>1, <1>2
    <2> QED
      BY <2>1, <2>2, <2>3
  <1>6. Last2(a)
    BY <1>2, <1>4
  <1> DEFINE at == CHOOSE i \in DOMAIN msgs : Last2(i)
  <1>7. CallAt = <<at, n - at + 1>>
    BY DEF CallAt
  <1>8. at = a
    <2> HIDE DEF Last2
    <2> QED
      BY <1>1, <1>2, <1>5, <1>6
  <1> HIDE DEF at, n
  <1>9. CallAt = <<a, n - a + 1>> /\ a \in Nat /\ n - a + 1 \in Nat
    BY <1>1, <1>2, <1>7, <1>8
  <1> QED
    BY <1>9 DEF n

-----------------------------------------------------------------------------
(* Types of the chat and its requests.                                     *)

\* A counter that ticks stays a number, and is no more than one more.
LEMMA TallyIs ==
    ASSUME ChatTyped, NEW counter \in {"faults", "switches", "followups"}, NEW bound, Tally(counter, bound)
    PROVE  /\ tally' \in [faults : Nat, switches : Nat, followups : Nat]
           /\ counter # "followups" => tally'.followups = tally.followups
           /\ counter = "followups" => tally.followups < bound /\ tally'.followups = tally.followups + 1
  BY DEF ChatTyped, Tally

\* A query that is finished is one less, if there is one.
LEMMA ReleasedIs ==
    ASSUME ChatTyped, NEW how
    PROVE  Released(how) \in Nat /\ Released(how) <= queries /\ (queries > 0 => Released(how) = queries - 1)
           /\ (queries = 0 => Released(how) = 0)
  BY DEF ChatTyped, Released

\* What becomes of the chat when a request fails.
Failed ==
    /\ \/ chat' = chat /\ sent' = sent
       \/ chat.phase = "planning" /\ chat' = [chat EXCEPT !.phase = "prefetch", !.left = 1] /\ sent' = sent
       \/ chat' = [chat EXCEPT !.phase = "ended"] /\ sent' = [sent EXCEPT !.end = "error"]
    /\ queries' \in Nat /\ queries' <= queries

\* That is all that a failure does.
LEMMA FailsIs ==
    ASSUME ChatTyped, NEW c \in Clients, Fails(c)
    PROVE  /\ Failed /\ llm' = [llm EXCEPT ![c] = NoRequest]
           /\ c = "followup" => UNCHANGED <<chat, sent>>
           /\ c = "chat" => chat'.phase \in {"prefetch", "ended"}
                            /\ (chat.phase # "planning" => chat'.phase = "ended")
  <1>1. queries \in Nat /\ chat \in Chats
    BY DEF ChatTyped
  <1>2. CASE c = "followup"
    BY <1>1, <1>2, ReleasedIs DEF Fails, Failed
  <1>3. CASE c = "chat" /\ chat.phase = "planning"
    <2>1. chat' = [chat EXCEPT !.phase = "prefetch", !.left = 1] /\ UNCHANGED <<sent, queries>>
          /\ llm' = [llm EXCEPT ![c] = NoRequest]
      BY <1>3 DEF Fails
    <2>2. chat'.phase = "prefetch"
      BY <1>1, <2>1 DEF Chats
    <2> QED
      BY <1>1, <1>3, <2>1, <2>2 DEF Failed
  <1>4. CASE c = "chat" /\ chat.phase # "planning"
    BY <1>1, <1>4, ReleasedIs DEF Fails, Failed, Ends, Chats
  <1> QED
    BY <1>2, <1>3, <1>4 DEF Clients

\* A request changes as a whole.
LEMMA RequestIs ==
    ASSUME ChatTyped, NEW c \in Clients, NEW r \in ModelRequests, llm' = [llm EXCEPT ![c] = r]
    PROVE  llm' \in [Clients -> ModelRequests] /\ llm'[c] = r /\ \A d \in Clients : d # c => llm'[d] = llm[d]
  BY DEF ChatTyped

\* No request is a request, too.
LEMMA NoRequestIs ==
    NoRequest \in ModelRequests
  BY DEF NoRequest, ModelRequests

\* ModelRequests stay requests.
LEMMA LlmTyped ==
    ASSUME ChatTyped, [ChatNext]_chatVars
    PROVE  llm' \in [Clients -> ModelRequests]
  <1> USE DEF Asking, Streaming, At
  <1>1. llm \in [Clients -> ModelRequests] /\ \A c \in Clients : llm[c] \in ModelRequests
    BY DEF ChatTyped
  <1>2. CASE UNCHANGED llm
    BY <1>1, <1>2
  <1>3. ASSUME NEW c \in Clients, NEW r \in ModelRequests, llm' = [llm EXCEPT ![c] = r]
        PROVE  llm' \in [Clients -> ModelRequests]
    BY <1>1, <1>3
  <1>4. ASSUME NEW c \in Clients, Fails(c) PROVE llm' \in [Clients -> ModelRequests]
    BY <1>3, <1>4, FailsIs, NoRequestIs
  <1>5. ASSUME NEW c \in Clients, Lost(c) PROVE llm' \in [Clients -> ModelRequests]
    <2>1. CASE llm' = [llm EXCEPT ![c] = [@ EXCEPT !.state = "recovering", !.checks = 0]]
      BY <1>1, <2>1 DEF ModelRequests
    <2>2. CASE llm' = [llm EXCEPT ![c].tries = @ + 1]
      BY <1>1, <2>2 DEF ModelRequests
    <2> QED
      BY <1>4, <1>5, <2>1, <2>2 DEF Lost
  <1>6. ASSUME NEW c \in Clients, Probe(c) PROVE llm' \in [Clients -> ModelRequests]
    <2> DEFINE n == llm[c].tries + 1
               r == [llm[c] EXCEPT !.state = "asking", !.tries = n]
    <2>1. CASE llm' = [llm EXCEPT ![c] = r]
      <3>1. n \in Nat
        BY <1>1 DEF ModelRequests
      <3> HIDE DEF n
      <3>3. r \in ModelRequests
        BY <1>1, <3>1 DEF ModelRequests
      <3> HIDE DEF r
      <3> QED
        BY <1>3, <2>1, <3>3
    <2>2. CASE llm' = [llm EXCEPT ![c].checks = @ + 1]
      BY <1>1, <2>2 DEF ModelRequests
    <2> QED
      BY <1>2, <1>4, <1>6, <2>1, <2>2 DEF Probe
  <1>7. CASE Drops
    <2>1. CASE llm' = [llm EXCEPT !["chat"] = [@ EXCEPT !.state = "recovering", !.checks = 0, !.parts = 0]]
      BY <1>1, <2>1 DEF ModelRequests
    <2> QED
      BY <1>4, <1>7, <2>1 DEF Drops, Clients
  <1>8. CASE Followup \/ AskModel \/ StreamOpens \/ Part
    <2>1. ASSUME NEW c \in Clients, NEW s \in {"asking", "streaming"}
          PROVE  [llm[c] EXCEPT !.state = s] \in ModelRequests
      BY <1>1 DEF ModelRequests
    <2>2. CASE Followup
      BY <1>3, <2>1, <2>2 DEF Followup, Clients
    <2>3. CASE AskModel \/ StreamOpens
      BY <1>3, <2>1, <2>3 DEF AskModel, StreamOpens, Clients
    <2>4. CASE Part
      <3>1. "chat" \in Clients /\ [llm["chat"] EXCEPT !.parts = @ + 1] \in ModelRequests
        BY <1>1 DEF ModelRequests, Clients
      <3> QED
        BY <1>3, <2>4, <3>1 DEF Part
    <2> QED
      BY <1>8, <2>2, <2>3, <2>4
  <1>9. CASE FollowupAnswered \/ Planned \/ Responds \/ Finishes
    <2>1. \E c \in Clients : llm' = [llm EXCEPT ![c] = NoRequest]
      BY <1>9 DEF FollowupAnswered, Planned, Responds, Finishes, Answered, Clients
    <2> QED
      BY <1>3, <2>1, NoRequestIs
  <1>10. CASE Disconnect
    <2>1. UNCHANGED llm \/ llm' = [llm EXCEPT !["chat"] = NoRequest]
      BY <1>10 DEF Disconnect
    <2> QED
      BY <1>2, <1>3, <2>1, NoRequestIs DEF Clients
  <1>11. ASSUME NEW c \in Clients, HttpError(c) PROVE llm' \in [Clients -> ModelRequests]
    BY <1>4, <1>11 DEF HttpError
  <1>12. CASE Request \/ Start \/ Prefetch \/ Prefetched \/ Skip \/ RunLocal \/ RunWeb \/ RunUnknown
    BY <1>2, <1>12 DEF Request, Start, Prefetch, Prefetched, Skip, RunLocal, RunWeb, RunUnknown
  <1>13. CASE RoundOver \/ OutOfRounds \/ Forced \/ Closes \/ SearchFails \/ \E h \in Hosts : Switch(h)
    BY <1>2, <1>13 DEF RoundOver, OutOfRounds, Forced, Closes, SearchFails, Switch
  <1>14. CASE UNCHANGED chatVars
    BY <1>2, <1>14 DEF chatVars
  <1> QED
    BY <1>5, <1>6, <1>7, <1>8, <1>9, <1>10, <1>11, <1>12, <1>13, <1>14 DEF ChatNext, Generator

\* The chat stays a chat.
LEMMA ChatStaysTyped ==
    ASSUME ChatTyped, [ChatNext]_chatVars
    PROVE  chat' \in Chats
  <1> USE DEF At, Streaming
  <1>1. chat \in Chats
    BY DEF ChatTyped
  <1>2. CASE UNCHANGED chat
    BY <1>1, <1>2
  <1>3. ASSUME NEW p \in Phases, chat' = [chat EXCEPT !.phase = p] PROVE chat' \in Chats
    BY <1>1, <1>3 DEF Chats
  <1>4. CASE Failed
    <2>1. CASE chat' = [chat EXCEPT !.phase = "prefetch", !.left = 1]
      BY <1>1, <2>1 DEF Chats, Phases
    <2> QED
      BY <1>2, <1>3, <1>4, <2>1 DEF Failed, Phases
  <1>5. CASE Request \/ OutOfRounds \/ Closes
    BY <1>3, <1>5 DEF Request, OutOfRounds, Closes, Phases
  <1>6. CASE Start
    <2>1. PICK stocked \in BOOLEAN, planner \in PlannerOn :
              chat' = [chat EXCEPT !.stocked = stocked,
                                   !.phase = IF planner /\ stocked THEN "planning" ELSE "round"]
      BY <1>6 DEF Start
    <2> QED
      BY <1>1, <2>1 DEF Chats, Phases
  <1>7. CASE Planned
    <2>1. PICK n \in 1..MaxQueries : chat' = [chat EXCEPT !.phase = "prefetch", !.left = n]
      BY <1>7 DEF Planned
    <2>2. n \in Nat
      BY AnsweringBounds
    <2> QED
      BY <1>1, <2>1, <2>2 DEF Chats, Phases
  <1>8. CASE Prefetch
    <2>1. PICK found \in Retrieved(chat.hits) :
              chat' = [chat EXCEPT !.left = @ - 1, !.hits = @ \cup found]
      BY <1>8 DEF Prefetch
    <2> DEFINE left == chat.left - 1
               hits == chat.hits \cup found
    <2>2. left \in Nat /\ hits \in SUBSET Chunks
      <3>1. chat.left \in Nat /\ chat.left > 0 /\ chat.hits \in SUBSET Chunks
        BY <1>1, <1>8 DEF Chats, Prefetch
      <3>2. found \in SUBSET Chunks
        BY DEF Retrieved, InIndex
      <3> QED
        BY <3>1, <3>2
    <2>3. chat' = [chat EXCEPT !.left = left, !.hits = hits]
      BY <2>1
    <2> HIDE DEF left, hits
    <2> QED
      BY <1>1, <2>2, <2>3 DEF Chats
  <1>9. CASE Prefetched
    <2>1. chat' = [chat EXCEPT !.phase = "round", !.used = 1, !.searched = TRUE, !.hits = {}]
      BY <1>9 DEF Prefetched
    <2> QED
      BY <1>1, <2>1 DEF Chats, Phases
  <1>10. CASE Responds
    <2>1. PICK n \in 0..MaxAtOnce, same \in BOOLEAN : \E names \in [1..n -> Tools] :
              chat' = [chat EXCEPT !.todo = names,
                           !.phase = IF n > 0 THEN "calls"
                                     ELSE IF chat.searched THEN "closing" ELSE "forced"]
      BY <1>10 DEF Responds
    <2>2. PICK names \in [1..n -> Tools] :
              chat' = [chat EXCEPT !.todo = names,
                           !.phase = IF n > 0 THEN "calls"
                                     ELSE IF chat.searched THEN "closing" ELSE "forced"]
      BY <2>1
    <2>3. names \in Seq(Tools)
      BY AnsweringBounds
    <2> QED
      BY <1>1, <2>2, <2>3 DEF Chats, Phases
  <1>11. CASE Skip
    <2>1. chat' = [chat EXCEPT !.todo = Tail(@)] /\ chat.todo # <<>>
      BY <1>11 DEF Skip
    <2>2. Tail(chat.todo) \in Seq(Tools)
      BY <1>1, <2>1 DEF Chats
    <2> QED
      BY <1>1, <2>1, <2>2 DEF Chats
  <1>12. ASSUME NEW name, Runs(name) PROVE chat' \in Chats
    <2> DEFINE used == chat.used + 1
               searched == chat.searched \/ name = "local"
    <2>1. chat' = [chat EXCEPT !.todo = Tail(chat.todo), !.used = used, !.searched = searched]
          /\ chat.todo # <<>>
      BY <1>12 DEF Runs
    <2>2. Tail(chat.todo) \in Seq(Tools) /\ used \in Nat /\ searched \in BOOLEAN
      BY <1>1, <2>1 DEF Chats
    <2> HIDE DEF used, searched
    <2> QED
      BY <1>1, <2>1, <2>2 DEF Chats
  <1>13. CASE RoundOver
    <2> DEFINE n == chat.round + 1
    <2>1. CASE chat' = [chat EXCEPT !.phase = "round", !.round = n]
      <3>1. n \in Nat
        BY <1>1 DEF Chats
      <3> HIDE DEF n
      <3> QED
        BY <1>1, <2>1, <3>1 DEF Chats, Phases
    <2> QED
      BY <1>3, <1>13, <2>1 DEF RoundOver, Phases
  <1>14. CASE Forced
    <2> DEFINE used == IF chat.phase = "forced" THEN chat.used + 1 ELSE chat.used
               round == IF chat.phase = "forced" THEN chat.round + 1 ELSE chat.round
               phase == IF chat.phase = "forced" /\ Last(msgs').shown # <<>> THEN "round" ELSE "closing"
    <2>1. chat' = [chat EXCEPT !.searched = TRUE, !.used = used, !.round = round, !.phase = phase]
      BY <1>14 DEF Forced
    <2>2. used \in Nat /\ round \in Nat /\ phase \in Phases
      BY <1>1 DEF Chats, Phases
    <2> HIDE DEF used, round, phase
    <2> QED
      BY <1>1, <2>1, <2>2 DEF Chats
  <1>15. CASE Part
    <2>1. PICK held \in BOOLEAN :
              chat' = [chat EXCEPT !.carry = IF held THEN <<[try |-> llm["chat"].tries,
                                                            part |-> llm["chat"].parts + 1]>> ELSE <<>>]
      BY <1>15 DEF Part
    <2>2. [try |-> llm["chat"].tries, part |-> llm["chat"].parts + 1] \in Events
      BY DEF ChatTyped, ModelRequests, Clients, Events
    <2> DEFINE carry == IF held THEN <<[try |-> llm["chat"].tries, part |-> llm["chat"].parts + 1]>> ELSE <<>>
    <2>3. carry \in Seq(Events)
      BY <2>2
    <2> HIDE DEF carry
    <2>4. chat' = [chat EXCEPT !.carry = carry]
      BY <2>1 DEF carry
    <2> QED
      BY <1>1, <2>3, <2>4 DEF Chats
  <1>16. CASE Finishes
    <2>1. chat' = [chat EXCEPT !.phase = "ended", !.carry = <<>>, !.left = llm["chat"].parts]
      BY <1>16 DEF Finishes
    <2>2. llm["chat"].parts \in Nat /\ <<>> \in Seq(Events)
      BY DEF ChatTyped, ModelRequests, Clients
    <2> QED
      BY <1>1, <2>1, <2>2 DEF Chats, Phases
  <1>17. CASE SearchFails \/ Disconnect
    BY <1>3, <1>17 DEF SearchFails, Disconnect, Ends, Phases
  <1>18. CASE Drops \/ \E c \in Clients : Lost(c) \/ HttpError(c) \/ Probe(c)
    <2>1. UNCHANGED chat \/ \E c \in Clients : Fails(c)
      BY <1>18 DEF Drops, Lost, HttpError, Probe, Clients
    <2> QED
      BY <1>2, <1>4, <2>1, FailsIs
  <1>19. CASE AskModel \/ StreamOpens \/ Followup \/ FollowupAnswered \/ \E h \in Hosts : Switch(h)
    BY <1>2, <1>19 DEF AskModel, StreamOpens, Followup, FollowupAnswered, Switch
  <1>20. CASE UNCHANGED chatVars
    BY <1>2, <1>20 DEF chatVars
  <1> QED
    BY <1>5, <1>6, <1>7, <1>8, <1>9, <1>10, <1>11, <1>12, <1>13, <1>14, <1>15, <1>16, <1>17,
       <1>18, <1>19, <1>20 DEF ChatNext, Generator, RunLocal, RunWeb, RunUnknown

-----------------------------------------------------------------------------
(* What each step makes of the conversation.                               *)

\* To append one is to append it.
LEMMA JoinOne ==
    ASSUME NEW T, NEW s \in Seq(T), NEW x \in T
    PROVE  s \o <<x>> = Append(s, x)
  OBVIOUS

\* The browser is told how many sources there are.
Tells == sent' = [sent EXCEPT !.sources = [local |-> Len(cites'.local), web |-> Len(cites'.web)]]

\* A search of the index for what is not cited yet adds a good result to the prompt.
LEMMA AppendsLocal ==
    ASSUME PromptInv, NEW before, PromptOK(before, cites), UsedOf(before) = UsedOf(msgs),
           NEW of \in Nat \X Nat, NEW found \in SUBSET (Chunks \ Excluded),
           AppendLocal(before, of, found)
    PROVE  PromptOK(msgs', cites') /\ Tells
           /\ \E blocks : /\ Result("local", blocks, of) \in Messages
                          /\ msgs' = Append(before, Result("local", blocks, of))
  <1> DEFINE size == [c \in Chunks |-> Size(c)]
  <1>1. PICK order \in Orders(found) :
            LET r == Shown("local", order, size) IN
            /\ cites' = [cites EXCEPT !.local = r.sources]
            /\ msgs' = before \o <<Result("local", r.blocks, of)>>
            /\ sent' = [sent EXCEPT !.sources = [local |-> Len(r.sources), web |-> Len(cites.web)]]
    BY DEF AppendLocal
  <1> DEFINE r == Shown("local", order, size)
  <1>2. /\ cites' = [cites EXCEPT !.local = r.sources]
        /\ msgs' = before \o <<Result("local", r.blocks, of)>>
        /\ sent' = [sent EXCEPT !.sources = [local |-> Len(r.sources), web |-> Len(cites.web)]]
    BY <1>1
  <1>3. PromptOK(msgs, cites) /\ cites \in Registries /\ before \in Seq(Messages)
    BY DEF PromptInv, PromptOK
  <1>4. IsFiniteSet(found) /\ found \in SUBSET Chunks /\ \A i \in DOMAIN cites.local : cites.local[i] \notin found
    <2>1. IsFiniteSet(Chunks)
      BY AnsweringBounds
    <2>2. Excluded = {cites.local[i] : i \in DOMAIN cites.local}
      BY DEF Excluded, ToSet
    <2>3. found \subseteq Chunks
      OBVIOUS
    <2>4. IsFiniteSet(found)
      BY <2>1, <2>3, FS_Subset
    <2> QED
      BY <2>2, <2>3, <2>4
  <1>5. order \in Seq(found) /\ Distinct(order) /\ \A j \in 1..Len(order) : order[j] \in found
    BY <1>4, OrderIs
  <1>6. \A j \in 1..Len(order) : size[order[j]] \in Nat
    <2>1. \A c \in Chunks : size[c] \in Nat
      BY AnsweringBounds
    <2> QED
      BY <1>4, <1>5, <2>1
  <1>7. order \in Seq(Found("local"))
    BY <1>4, <1>5 DEF Found
  <1> DEFINE kind == "local"
  <1>8. /\ kind \in SourceKinds /\ order \in Seq(Found(kind)) /\ r = Shown(kind, order, size)
        /\ kind = "local" => \A i \in DOMAIN cites.local, j \in 1..Len(order) : cites.local[i] # order[j]
    BY <1>4, <1>5, <1>7 DEF SourceKinds
  <1> HIDE DEF kind, r, size
  <1>9. /\ PromptOK(Append(before, Result(kind, r.blocks, of)), [cites EXCEPT ![kind] = r.sources])
        /\ Result(kind, r.blocks, of) \in Messages
        /\ [cites EXCEPT ![kind] = r.sources] \in Registries
    BY <1>3, <1>5, <1>6, <1>8, Searches
  <1>10. msgs' = Append(before, Result("local", r.blocks, of))
    BY <1>2, <1>3, <1>9, JoinOne DEF kind
  <1>11. PromptOK(msgs', cites')
    BY <1>2, <1>9, <1>10 DEF kind
  <1>12. Tells
    BY <1>2, <1>3 DEF Tells, Registries
  <1> QED
    BY <1>9, <1>10, <1>11, <1>12 DEF kind

\* So does a search of the web.
LEMMA AppendsWeb ==
    ASSUME PromptInv, RunWeb, CallAt \in Nat \X Nat
    PROVE  PromptOK(msgs', cites') /\ Tells
           /\ \E blocks : /\ Result("web", blocks, CallAt) \in Messages
                          /\ msgs' = Append(msgs, Result("web", blocks, CallAt))
  <1> DEFINE size == [u \in Urls |-> 1]
  <1>1. PICK pages \in Pages :
            LET r == Shown("web", pages, size) IN
            /\ cites' = [cites EXCEPT !.web = r.sources]
            /\ msgs' = Append(msgs, Result("web", r.blocks, CallAt))
            /\ sent' = [sent EXCEPT !.sources = [local |-> Len(cites.local), web |-> Len(r.sources)]]
    BY DEF RunWeb
  <1> DEFINE r == Shown("web", pages, size)
  <1>2. /\ cites' = [cites EXCEPT !.web = r.sources]
        /\ msgs' = Append(msgs, Result("web", r.blocks, CallAt))
        /\ sent' = [sent EXCEPT !.sources = [local |-> Len(cites.local), web |-> Len(r.sources)]]
    BY <1>1
  <1>3. PromptOK(msgs, cites) /\ cites \in Registries
    BY DEF PromptInv, PromptOK
  <1>4. PICK found \in SUBSET Urls : pages \in Orders(found)
    BY DEF Pages
  <1>5. IsFiniteSet(found)
    BY FS_Subset, AnsweringBounds
  <1>6. pages \in Seq(found) /\ Distinct(pages) /\ \A j \in 1..Len(pages) : pages[j] \in found
    BY <1>4, <1>5, OrderIs
  <1>7. \A j \in 1..Len(pages) : size[pages[j]] \in Nat
    BY <1>6
  <1> DEFINE kind == "web"
  <1>8. /\ kind \in SourceKinds /\ pages \in Seq(Found(kind)) /\ r = Shown(kind, pages, size)
        /\ kind = "local" => \A i \in DOMAIN cites.local, j \in 1..Len(pages) : cites.local[i] # pages[j]
    BY <1>6 DEF SourceKinds, Found
  <1> HIDE DEF kind, r, size
  <1>9. /\ PromptOK(Append(msgs, Result(kind, r.blocks, CallAt)), [cites EXCEPT ![kind] = r.sources])
        /\ Result(kind, r.blocks, CallAt) \in Messages
    BY <1>3, <1>6, <1>7, <1>8, Searches
  <1>10. PromptOK(msgs', cites')
    BY <1>2, <1>9 DEF kind
  <1>11. Tells
    BY <1>2, <1>3 DEF Tells, Registries
  <1> QED
    BY <1>2, <1>9, <1>10, <1>11 DEF kind

\* The other steps leave the prompt as it is.
PromptStays == UNCHANGED prompt /\ sent'.sources = sent.sources

\* All steps do but those that append to it.
LEMMA QuietSteps ==
    ASSUME ChatTyped, [ChatNext]_chatVars
    PROVE  PromptStays \/ Prefetched \/ Responds \/ Skip \/ RunLocal \/ RunWeb \/ RunUnknown \/ Forced \/ Closes
  <1>1. sent \in Streams
    BY DEF ChatTyped
  <1>2. ASSUME UNCHANGED prompt, UNCHANGED sent PROVE PromptStays
    BY <1>2 DEF PromptStays
  <1>3. ASSUME UNCHANGED prompt, NEW how, sent' = [sent EXCEPT !.end = how] PROVE PromptStays
    BY <1>1, <1>3 DEF PromptStays, Streams
  <1>4. ASSUME UNCHANGED prompt, Failed PROVE PromptStays
    BY <1>2, <1>3, <1>4 DEF Failed
  <1>5. CASE Request \/ Start \/ AskModel \/ Planned \/ Prefetch \/ RoundOver \/ OutOfRounds \/ StreamOpens
    BY <1>2, <1>5 DEF Request, Start, AskModel, Planned, Prefetch, RoundOver, OutOfRounds, StreamOpens
  <1>6. CASE Followup \/ FollowupAnswered \/ (\E h \in Hosts : Switch(h)) \/ UNCHANGED chatVars
    BY <1>2, <1>6 DEF Followup, FollowupAnswered, Switch, chatVars
  <1>7. CASE SearchFails \/ Disconnect
    BY <1>3, <1>7 DEF SearchFails, Disconnect, Ends
  <1>8. CASE Drops \/ \E c \in Clients : Lost(c) \/ HttpError(c) \/ Probe(c)
    <2>1. UNCHANGED prompt /\ (UNCHANGED sent \/ \E c \in Clients : Fails(c))
      BY <1>8 DEF Drops, Lost, HttpError, Probe, Clients
    <2> QED
      BY <1>2, <1>4, <2>1, FailsIs
  <1>9. CASE Part
    <2>1. \E answer : sent' = [sent EXCEPT !.answer = answer]
      BY <1>9 DEF Part
    <2>2. UNCHANGED prompt
      BY <1>9 DEF Part
    <2> QED
      BY <1>1, <2>1, <2>2 DEF PromptStays, Streams
  <1>10. CASE Finishes
    <2>1. \E answer, end : sent' = [sent EXCEPT !.answer = answer, !.end = end]
      BY <1>10 DEF Finishes
    <2>2. UNCHANGED prompt
      BY <1>10 DEF Finishes
    <2> QED
      BY <1>1, <2>1, <2>2 DEF PromptStays, Streams
  <1> QED
    BY <1>5, <1>6, <1>7, <1>8, <1>9, <1>10 DEF ChatNext, Generator

\* The messages that there were stay.
Grows(ms, all) == \A i \in DOMAIN ms : i \in DOMAIN all /\ all[i] = ms[i]
\* A local search has been answered.
Searched(ms) == \E i \in DOMAIN ms : ms[i].role = "tool" /\ ms[i].name = "local"

\* What is appended to the messages beside the others.
LEMMA Appended ==
    ASSUME NEW ms \in Seq(Messages), NEW m \in Messages, NEW all, all = Append(ms, m)
    PROVE  /\ Grows(ms, all) /\ all \in Seq(Messages)
           /\ Searched(ms) => Searched(all)
           /\ m.role = "tool" /\ m.name = "local" => Searched(all)
           /\ Minted(ms) /\ (m.role = "assistant" => \A k \in DOMAIN m.calls : m.calls[k].id = Unset) => Minted(all)
  <1>1. /\ Len(ms) \in Nat /\ all \in Seq(Messages) /\ DOMAIN ms = 1..Len(ms) /\ DOMAIN all = 1..Len(ms) + 1
        /\ all[Len(ms) + 1] = m /\ \A i \in 1..Len(ms) : all[i] = ms[i]
    BY AppendIs
  <1>2. Grows(ms, all)
    BY <1>1 DEF Grows
  <1>3. \A i \in DOMAIN all : i \in DOMAIN ms \/ (i = Len(ms) + 1 /\ all[i] = m)
    BY <1>1
  <1>4. Len(ms) + 1 \in DOMAIN all
    BY <1>1
  <1>5. Searched(ms) => Searched(all)
    BY <1>2 DEF Searched, Grows
  <1>6. m.role = "tool" /\ m.name = "local" => Searched(all)
    BY <1>1, <1>4 DEF Searched
  <1>7. Minted(ms) /\ (m.role = "assistant" => \A k \in DOMAIN m.calls : m.calls[k].id = Unset) => Minted(all)
    BY <1>2, <1>3 DEF Minted, Grows
  <1> QED
    BY <1>1, <1>2, <1>5, <1>6, <1>7

\* A search that the chat forces is a call and its result at once.
LEMMA ForcesCall ==
    ASSUME PromptInv, CallAnswers(msgs), Closed(msgs), NEW found \in SUBSET (Chunks \ Excluded),
           AppendLocal(Append(msgs, Asks(<<LocalCall>>)), <<Len(msgs) + 1, 1>>, found)
    PROVE  /\ PromptOK(msgs', cites') /\ Tells /\ CallAnswers(msgs') /\ Closed(msgs') /\ Searched(msgs')
           /\ Minted(msgs) => Minted(msgs')
  <1> DEFINE call == Asks(<<LocalCall>>)
             before == Append(msgs, call)
             n == Len(msgs)
             of == <<n + 1, 1>>
  <1>1. msgs \in Seq(Messages) /\ n \in Nat /\ PromptOK(msgs, cites)
    BY DEF PromptInv, PromptOK
  <1>2. call \in Messages /\ call.role = "assistant"
    BY LocalAsked
  <1>3. PromptOK(before, cites) /\ UsedOf(before) = UsedOf(msgs)
    BY <1>1, <1>2, PromptOther
  <1>4. of \in Nat \X Nat
    BY <1>1
  <1>5. AppendLocal(before, of, found)
    OBVIOUS
  <1>6. call.calls = <<LocalCall>> /\ Len(call.calls) = 1 /\ DOMAIN call.calls = {1} /\ call.calls[1] = LocalCall
    BY DEF Asks
  <1>7. More(before, msgs, call, n) /\ before \in Seq(Messages) /\ Len(before) = n + 1
    BY <1>1, <1>2, AppendIsMore, AppendIs
  <1> HIDE DEF before, call, of, n
  <1>8. PICK blocks : /\ PromptOK(msgs', cites') /\ Tells /\ Result("local", blocks, of) \in Messages
                      /\ msgs' = Append(before, Result("local", blocks, of))
    BY <1>3, <1>4, <1>5, AppendsLocal
  <1> DEFINE m == Result("local", blocks, of)
             todo == <<"local">>
             rest == <<>>
  <1>9. m.role = "tool" /\ m.of = of /\ m.name = "local"
    BY DEF Result
  <1>10. Len(todo) = 1 /\ DOMAIN todo = {1} /\ todo[1] = "local" /\ Len(rest) = 0 /\ DOMAIN rest = {}
    OBVIOUS
  <1> HIDE DEF m, todo, rest
  <1>11. CallAnswers(before) /\ Open(before, n + 1, todo)
    <2>1. \A k \in DOMAIN todo : call.calls[k].name = todo[k]
      BY <1>6, <1>10 DEF LocalCall
    <2> QED
      BY <1>2, <1>6, <1>7, <1>10, <2>1, AskedOpens
  <1>12. More(msgs', before, m, n + 1)
    BY <1>7, <1>8, AppendIsMore DEF m
  <1>13. Answer(m, n + 1, n + 1, todo)
    <2>1. (n + 1) - (n + 1) + 1 = 1
      BY <1>1
    <2> QED
      BY <1>9, <1>10, <2>1 DEF Answer, of
  <1>14. Rest(todo, rest)
    BY <1>10 DEF Rest
  <1>15. CallAnswers(msgs') /\ Open(msgs', n + 1, rest)
    BY <1>11, <1>12, <1>13, <1>14, ReplyCloses
  <1>16. Len(msgs') \in Nat
    BY <1>8 DEF PromptOK
  <1>17. Closed(msgs')
    BY <1>10, <1>15, <1>16, NoneOpen
  <1>18. Searched(msgs')
    BY <1>7, <1>8, <1>9, Appended DEF m
  <1>19. Minted(msgs) => Minted(msgs')
    <2>3. \A k \in DOMAIN call.calls : call.calls[k].id = Unset
      BY <1>6 DEF LocalCall
    <2>1. Minted(msgs) => Minted(before)
      BY <1>1, <1>2, <2>3, Appended DEF before
    <2>2. Minted(before) => Minted(msgs')
      BY <1>7, <1>8, <1>9, Appended DEF m
    <2> QED
      BY <2>1, <2>2
  <1> QED
    BY <1>8, <1>15, <1>17, <1>18, <1>19

\* The message that the calls of are being answered.
LEMMA NextAnswer ==
    ASSUME ChatTyped, PromptInv, Replied, chat.phase = "calls", chat.todo # <<>>
    PROVE  /\ CallAt \in Nat \X Nat
           /\ \E a : /\ Open(msgs, a, chat.todo) /\ CallAt = <<a, Len(msgs) - a + 1>>
                     /\ Rest(chat.todo, Tail(chat.todo)) /\ Head(chat.todo) = chat.todo[1]
                     /\ Head(chat.todo) \in Tools
  <1>1. PICK a \in DOMAIN msgs : Open(msgs, a, chat.todo)
    BY DEF Replied
  <1>2. CallAnswers(msgs)
    BY DEF Replied
  <1>3. msgs \in Seq(Messages)
    BY DEF PromptInv, PromptOK
  <1>4. chat.todo \in Seq(Tools)
    BY DEF ChatTyped, Chats
  <1> DEFINE todo == chat.todo
             rest == Tail(todo)
  <1>5. /\ Len(todo) \in Nat \ {0} /\ DOMAIN todo = 1..Len(todo) /\ Head(todo) = todo[1]
        /\ Head(todo) \in Tools
        /\ Len(rest) = Len(todo) - 1 /\ DOMAIN rest = 1..Len(todo) - 1
        /\ \A k \in 1..Len(todo) - 1 : rest[k] = todo[k + 1]
    BY <1>4
  <1> HIDE DEF rest, todo
  <1>6. Rest(todo, rest)
    BY <1>5 DEF Rest
  <1>7. CallAt = <<a, Len(msgs) - a + 1>> /\ CallAt \in Nat \X Nat
    BY <1>1, <1>2, <1>3, <1>5, CallAtIs DEF todo
  <1> QED
    BY <1>1, <1>5, <1>6, <1>7 DEF todo, rest

\* A result at the next call's place answers it.
LEMMA AnswersCall ==
    ASSUME ChatTyped, PromptInv, Replied, chat.phase = "calls", chat.todo # <<>>,
           NEW name, name = Head(chat.todo), NEW blocks, NEW m, m = Result(name, blocks, CallAt),
           m \in Messages, msgs' = Append(msgs, m)
    PROVE  /\ CallAnswers(msgs') /\ \E a \in DOMAIN msgs' : Open(msgs', a, Tail(chat.todo))
           /\ Minted(msgs) => Minted(msgs')
           /\ Searched(msgs) \/ name = "local" => Searched(msgs')
  <1>1. PICK a : /\ Open(msgs, a, chat.todo) /\ CallAt = <<a, Len(msgs) - a + 1>>
                 /\ Rest(chat.todo, Tail(chat.todo)) /\ Head(chat.todo) = chat.todo[1]
    BY NextAnswer
  <1>2. msgs \in Seq(Messages) /\ CallAnswers(msgs)
    BY DEF PromptInv, PromptOK, Replied
  <1>3. m.role = "tool" /\ m.of = CallAt /\ m.name = (IF name = "" THEN "unknown" ELSE name)
    BY DEF Result
  <1>4. Answer(m, a, Len(msgs), chat.todo)
    BY <1>1, <1>3 DEF Answer
  <1>5. More(msgs', msgs, m, Len(msgs))
    BY <1>2, AppendIsMore
  <1>6. CallAnswers(msgs') /\ Open(msgs', a, Tail(chat.todo))
    BY <1>1, <1>2, <1>4, <1>5, ReplyCloses
  <1>7. a \in DOMAIN msgs'
    BY <1>6 DEF Open
  <1> QED
    BY <1>2, <1>3, <1>6, <1>7, Appended

\* What a step that leaves the prompt does to the calls to answer.
QuietChat ==
    \/ chat'.phase = "ended"
    \/ chat'.phase = chat.phase /\ chat'.todo = chat.todo
    \/ chat.phase \notin {"calls", "ended"} /\ chat'.phase # "calls"
    \/ chat.phase = "calls" /\ chat.todo = <<>> /\ chat'.phase # "calls"

\* All steps but those that append to the prompt.
LEMMA QuietChats ==
    ASSUME ChatTyped, [ChatNext]_chatVars
    PROVE  QuietChat \/ Prefetched \/ Responds \/ Skip \/ RunLocal \/ RunWeb \/ RunUnknown \/ Forced \/ Closes
  <1> USE DEF At, Streaming
  <1>1. chat \in Chats
    BY DEF ChatTyped
  <1>2. CASE UNCHANGED chat
    BY <1>2 DEF QuietChat
  <1>3. CASE Failed
    BY <1>1, <1>3 DEF Failed, QuietChat, Chats
  <1>4. CASE Request \/ OutOfRounds \/ RoundOver
    BY <1>1, <1>4 DEF Request, OutOfRounds, RoundOver, QuietChat, Chats
  <1>5. CASE Start
    BY <1>1, <1>5 DEF Start, QuietChat, Chats
  <1>6. CASE Planned
    BY <1>1, <1>6 DEF Planned, Answered, QuietChat, Chats
  <1>7. CASE Prefetch
    BY <1>1, <1>7 DEF Prefetch, QuietChat, Chats
  <1>8. CASE SearchFails \/ Disconnect
    BY <1>1, <1>8 DEF SearchFails, Disconnect, Ends, QuietChat, Chats
  <1>9. CASE Part
    BY <1>1, <1>9 DEF Part, QuietChat, Chats
  <1>10. CASE Finishes
    BY <1>1, <1>10 DEF Finishes, QuietChat, Chats
  <1>11. CASE Drops \/ \E c \in Clients : Lost(c) \/ HttpError(c) \/ Probe(c)
    <2>1. UNCHANGED chat \/ \E c \in Clients : Fails(c)
      BY <1>11 DEF Drops, Lost, HttpError, Probe, Clients
    <2> QED
      BY <1>2, <1>3, <2>1, FailsIs
  <1>12. CASE AskModel \/ StreamOpens \/ Followup \/ FollowupAnswered \/ (\E h \in Hosts : Switch(h))
    BY <1>2, <1>12 DEF AskModel, StreamOpens, Followup, FollowupAnswered, Switch
  <1>13. CASE UNCHANGED chatVars
    BY <1>2, <1>13 DEF chatVars
  <1> QED
    BY <1>4, <1>5, <1>6, <1>7, <1>8, <1>9, <1>10, <1>11, <1>12, <1>13 DEF ChatNext, Generator

\* What a step makes of the conversation.
Converses ==
    /\ PromptOK(msgs', cites')
    /\ sent'.sources = [local |-> Len(cites'.local), web |-> Len(cites'.web)]
    /\ CallAnswers(msgs')
    /\ IF chat'.phase = "calls" THEN \E a \in DOMAIN msgs' : Open(msgs', a, chat'.todo)
       ELSE chat'.phase # "ended" => Closed(msgs')
    /\ Searched(msgs) => Searched(msgs')
    /\ Coincidences = {} /\ Minted(msgs) => Minted(msgs')

\* What is found is not cited yet.
LEMMA RetrievedIs ==
    \A exclude : \A found \in Retrieved(exclude) : found \in SUBSET (Chunks \ exclude)
  BY DEF Retrieved, InIndex

\* The result of the planned queries is a call with its result.
LEMMA ConversesPrefetched ==
    ASSUME ChatTyped, Rounds, PromptInv, Replied, Prefetched
    PROVE  Converses /\ Searched(msgs')
  <1>1. chat.phase = "prefetch" /\ chat.hits \in SUBSET Chunks /\ cites = [local |-> <<>>, web |-> <<>>]
    BY DEF ChatTyped, Chats, Prefetched, Rounds, At
  <1>2. Excluded = {}
    BY <1>1 DEF Excluded, ToSet
  <1>3. CallAnswers(msgs) /\ Closed(msgs)
    BY <1>1 DEF Replied
  <1>4. AppendLocal(Append(msgs, Asks(<<LocalCall>>)), <<Len(msgs) + 1, 1>>, chat.hits)
    BY DEF Prefetched
  <1>5. chat.hits \in SUBSET (Chunks \ Excluded)
    BY <1>1, <1>2
  <1>6. /\ PromptOK(msgs', cites') /\ Tells /\ CallAnswers(msgs') /\ Closed(msgs') /\ Searched(msgs')
        /\ Minted(msgs) => Minted(msgs')
    BY <1>3, <1>4, <1>5, ForcesCall
  <1>7. chat'.phase = "round"
    BY DEF ChatTyped, Chats, Prefetched
  <1>8. sent'.sources = [local |-> Len(cites'.local), web |-> Len(cites'.web)]
    BY <1>6 DEF Tells, ChatTyped, Streams
  <1> QED
    BY <1>6, <1>7, <1>8 DEF Converses

\* So is that of a forced search.
LEMMA ConversesForced ==
    ASSUME ChatTyped, Rounds, PromptInv, Replied, Forced
    PROVE  Converses /\ Searched(msgs')
  <1>1. chat.phase \in {"forced", "closing"}
    BY DEF Forced, At
  <1>2. CallAnswers(msgs) /\ Closed(msgs)
    BY <1>1 DEF Replied
  <1>3. PICK found \in Retrieved(Excluded) :
            AppendLocal(Append(msgs, Asks(<<LocalCall>>)), <<Len(msgs) + 1, 1>>, found)
    BY DEF Forced
  <1>4. found \in SUBSET (Chunks \ Excluded)
    BY RetrievedIs
  <1>5. /\ PromptOK(msgs', cites') /\ Tells /\ CallAnswers(msgs') /\ Closed(msgs') /\ Searched(msgs')
        /\ Minted(msgs) => Minted(msgs')
    BY <1>2, <1>3, <1>4, ForcesCall
  <1>6. chat'.phase \in {"round", "closing"}
    BY DEF ChatTyped, Chats, Forced
  <1>7. sent'.sources = [local |-> Len(cites'.local), web |-> Len(cites'.web)]
    BY <1>5 DEF Tells, ChatTyped, Streams
  <1> QED
    BY <1>5, <1>6, <1>7 DEF Converses

\* A response opens its calls, if it has any.
LEMMA ConversesResponds ==
    ASSUME ChatTyped, Rounds, PromptInv, Replied, Informed, Responds
    PROVE  Converses
  <1>1. PICK n \in 0..MaxAtOnce, same \in BOOLEAN : \E names \in [1..n -> Tools] :
            LET calls == [i \in 1..n |-> [name |-> names[i], id |-> IF same THEN "same" ELSE Unset]] IN
            /\ same => n > 1 /\ "sameid" \in Coincidences
            /\ chat' = [chat EXCEPT !.todo = names,
                            !.phase = IF n > 0 THEN "calls"
                                      ELSE IF chat.searched THEN "closing" ELSE "forced"]
            /\ msgs' = IF n > 0 THEN Append(msgs, Asks(calls)) ELSE msgs
    BY DEF Responds
  <1>2. PICK names \in [1..n -> Tools] :
            LET calls == [i \in 1..n |-> [name |-> names[i], id |-> IF same THEN "same" ELSE Unset]] IN
            /\ same => n > 1 /\ "sameid" \in Coincidences
            /\ chat' = [chat EXCEPT !.todo = names,
                            !.phase = IF n > 0 THEN "calls"
                                      ELSE IF chat.searched THEN "closing" ELSE "forced"]
            /\ msgs' = IF n > 0 THEN Append(msgs, Asks(calls)) ELSE msgs
    BY <1>1
  <1> DEFINE calls == [i \in 1..n |-> [name |-> names[i], id |-> IF same THEN "same" ELSE Unset]]
             m == Asks(calls)
  <1>3. msgs' = (IF n > 0 THEN Append(msgs, m) ELSE msgs) /\ (same => "sameid" \in Coincidences)
    BY <1>2
  <1>4. chat'.todo = names /\ chat'.phase = IF n > 0 THEN "calls"
                                           ELSE IF chat.searched THEN "closing" ELSE "forced"
    BY <1>2 DEF ChatTyped, Chats
  <1>5. UNCHANGED <<cites, sent>>
    BY DEF Responds
  <1>6. chat.phase = "round" /\ CallAnswers(msgs) /\ Closed(msgs) /\ msgs \in Seq(Messages) /\ PromptOK(msgs, cites)
    BY DEF Responds, Answered, Replied, PromptInv, PromptOK
  <1>7. n \in Nat
    BY AnsweringBounds
  <1>8. sent'.sources = [local |-> Len(cites'.local), web |-> Len(cites'.web)]
    BY <1>5 DEF Informed
  <1>9. CASE n = 0
    BY <1>3, <1>4, <1>5, <1>6, <1>8, <1>9 DEF Converses
  <1>10. CASE n > 0
    <2>1. calls \in Seq(Calls) /\ Len(calls) = n /\ DOMAIN calls = 1..n
      <3>1. \A i \in 1..n : calls[i] \in Calls
        BY DEF Calls
      <3>2. calls \in [1..n -> Calls]
        BY <3>1
      <3> QED
        BY <1>7, <3>2
    <2>2. \A i \in 1..n : calls[i].name = names[i] /\ (~same => calls[i].id = Unset)
      OBVIOUS
    <2> HIDE DEF calls
    <2>3. m \in Messages /\ m.role = "assistant" /\ m.calls = calls
      BY <2>1 DEF Asks, Messages
    <2>4. msgs' = Append(msgs, m)
      BY <1>3, <1>10
    <2> HIDE DEF m
    <2>5. PromptOK(msgs', cites')
      BY <1>5, <1>6, <2>3, <2>4, PromptOther
    <2>6. Len(names) = n /\ DOMAIN names = 1..n
      BY <1>7
    <2>7. More(msgs', msgs, m, Len(msgs))
      BY <1>6, <2>3, <2>4, AppendIsMore
    <2>8. CallAnswers(msgs') /\ Open(msgs', Len(msgs) + 1, names)
      BY <1>6, <2>1, <2>2, <2>3, <2>6, <2>7, AskedOpens
    <2>9. Len(msgs) + 1 \in DOMAIN msgs'
      BY <2>8 DEF Open
    <2>10. /\ Searched(msgs) => Searched(msgs')
           /\ Minted(msgs) /\ (m.role = "assistant" => \A k \in DOMAIN m.calls : m.calls[k].id = Unset) => Minted(msgs')
      BY <1>6, <2>3, <2>4, Appended
    <2>11. Coincidences = {} /\ Minted(msgs) => Minted(msgs')
      BY <1>3, <2>1, <2>2, <2>3, <2>10
    <2>12. chat'.phase = "calls"
      BY <1>4, <1>10
    <2> QED
      BY <1>4, <1>8, <2>5, <2>8, <2>9, <2>10, <2>11, <2>12 DEF Converses
  <1> QED
    BY <1>7, <1>9, <1>10

\* A call that is run or skipped gets its result.
LEMMA ConversesCalls ==
    ASSUME ChatTyped, Rounds, PromptInv, Replied, Informed, Skip \/ RunLocal \/ RunWeb \/ RunUnknown
    PROVE  Converses /\ (RunLocal => Searched(msgs'))
  <1>1. chat.phase = "calls" /\ chat.todo # <<>>
    BY DEF Skip, RunLocal, RunWeb, RunUnknown, Runs, At
  <1>2. CallAt \in Nat \X Nat /\ Head(chat.todo) \in Tools
    BY <1>1, NextAnswer
  <1>3. chat'.phase = "calls" /\ chat'.todo = Tail(chat.todo)
    BY <1>1 DEF Skip, RunLocal, RunWeb, RunUnknown, Runs, ChatTyped, Chats
  <1>4. PromptOK(msgs, cites) /\ sent \in Streams
    BY DEF PromptInv, ChatTyped
  <1> DEFINE name == Head(chat.todo)
  <1>5. ASSUME NEW blocks, Result(name, blocks, CallAt) \in Messages,
               msgs' = Append(msgs, Result(name, blocks, CallAt)),
               PromptOK(msgs', cites'), Tells \/ UNCHANGED <<cites, sent>>
        PROVE  Converses /\ (name = "local" => Searched(msgs'))
    <2>1. /\ CallAnswers(msgs') /\ \E a \in DOMAIN msgs' : Open(msgs', a, Tail(chat.todo))
          /\ Minted(msgs) => Minted(msgs')
          /\ Searched(msgs) \/ name = "local" => Searched(msgs')
      BY <1>1, <1>5, AnswersCall
    <2>2. sent'.sources = [local |-> Len(cites'.local), web |-> Len(cites'.web)]
      BY <1>4, <1>5 DEF Tells, Streams, Informed
    <2> QED
      BY <1>3, <1>5, <2>1, <2>2 DEF Converses
  <1>6. CASE Skip
    <2>1. msgs' = Append(msgs, Result(name, <<>>, CallAt)) /\ UNCHANGED <<cites, sent>>
      BY <1>6 DEF Skip, Skipped
    <2>2. Result(name, <<>>, CallAt) \in Messages /\ PromptOK(msgs', cites')
      BY <1>2, <1>4, <2>1, PromptNothing
    <2>3. ~RunLocal
      <3>1. chat.used \in Nat /\ MaxCalls \in Nat /\ chat.used >= MaxCalls
        BY <1>6, AnsweringBounds DEF Skip, ChatTyped, Chats
      <3> QED
        BY <3>1 DEF RunLocal, Runs
    <2> HIDE DEF name
    <2> QED
      BY <1>5, <2>1, <2>2, <2>3
  <1>7. CASE RunLocal
    <2>1. name = "local"
      BY <1>7 DEF RunLocal, Runs
    <2>2. PICK found \in Retrieved(Excluded) : AppendLocal(msgs, CallAt, found)
      BY <1>7 DEF RunLocal
    <2>3. found \in SUBSET (Chunks \ Excluded)
      BY RetrievedIs
    <2>4. PICK blocks : /\ PromptOK(msgs', cites') /\ Tells /\ Result("local", blocks, CallAt) \in Messages
                        /\ msgs' = Append(msgs, Result("local", blocks, CallAt))
      BY <1>2, <1>4, <2>2, <2>3, AppendsLocal
    <2> HIDE DEF name
    <2> QED
      BY <1>5, <2>1, <2>4
  <1>8. CASE RunWeb
    <2>1. name = "web" /\ name # "local"
      BY <1>8 DEF RunWeb, Runs
    <2>2. PICK blocks : /\ PromptOK(msgs', cites') /\ Tells /\ Result("web", blocks, CallAt) \in Messages
                        /\ msgs' = Append(msgs, Result("web", blocks, CallAt))
      BY <1>2, <1>8, AppendsWeb
    <2>3. ~RunLocal
      BY <2>1 DEF RunLocal, Runs
    <2> HIDE DEF name
    <2> QED
      BY <1>5, <2>1, <2>2, <2>3
  <1>9. CASE RunUnknown
    <2>1. name = "" /\ UNCHANGED cites
      BY <1>9 DEF RunUnknown, Runs
    <2>2. msgs' = Append(msgs, Result(name, <<>>, CallAt)) /\ Tells
      BY <1>9, <2>1 DEF RunUnknown, Tells
    <2>3. Result(name, <<>>, CallAt) \in Messages /\ PromptOK(msgs', cites')
      BY <1>2, <1>4, <2>1, <2>2, PromptNothing
    <2>4. ~RunLocal
      BY <2>1 DEF RunLocal, Runs
    <2> HIDE DEF name
    <2> QED
      BY <1>5, <2>2, <2>3, <2>4
  <1> QED
    BY <1>6, <1>7, <1>8, <1>9

\* The final instruction opens no call.
LEMMA ConversesCloses ==
    ASSUME ChatTyped, Rounds, PromptInv, Replied, Informed, Closes
    PROVE  Converses
  <1> DEFINE m == [role |-> "user"]
  <1>1. msgs' = Append(msgs, m) /\ UNCHANGED <<cites, sent>> /\ chat'.phase = "answer" /\ chat.phase = "closing"
    BY DEF Closes, At, ChatTyped, Chats
  <1>2. msgs \in Seq(Messages) /\ CallAnswers(msgs) /\ Closed(msgs) /\ PromptOK(msgs, cites)
    BY <1>1 DEF PromptInv, PromptOK, Replied
  <1>3. m \in Messages /\ m.role = "user"
    BY DEF Messages
  <1> HIDE DEF m
  <1>4. PromptOK(msgs', cites')
    BY <1>1, <1>2, <1>3, PromptOther
  <1>5. More(msgs', msgs, m, Len(msgs))
    BY <1>1, <1>2, <1>3, AppendIsMore
  <1>6. CallAnswers(msgs') /\ Closed(msgs')
    BY <1>2, <1>3, <1>5, OtherCloses
  <1>7. (Searched(msgs) => Searched(msgs')) /\ (Minted(msgs) => Minted(msgs'))
    BY <1>1, <1>2, <1>3, Appended
  <1> QED
    BY <1>1, <1>4, <1>6, <1>7 DEF Converses, Informed

\* So every step makes a good conversation of a good one.
LEMMA ConversationSteps ==
    ASSUME ChatTyped, Rounds, PromptInv, Replied, Informed, [ChatNext]_chatVars
    PROVE  Converses
  <1>1. CASE PromptStays /\ QuietChat
    <2>1. PromptOK(msgs', cites') /\ UNCHANGED <<msgs, cites>>
      BY <1>1 DEF PromptStays, prompt, PromptInv
    <2>2. sent'.sources = [local |-> Len(cites'.local), web |-> Len(cites'.web)]
      BY <1>1, <2>1 DEF PromptStays, Informed
    <2>3. CallAnswers(msgs')
      BY <2>1 DEF Replied
    <2>4. CASE chat.phase = "calls" /\ chat.todo = <<>> /\ chat'.phase # "calls"
      <3>1. PICK a \in DOMAIN msgs : Open(msgs, a, chat.todo)
        BY <2>4 DEF Replied
      <3>2. Len(msgs) \in Nat /\ Len(chat.todo) = 0
        BY <2>4 DEF PromptInv, PromptOK
      <3>3. Closed(msgs')
        BY <2>1, <3>1, <3>2, NoneOpen
      <3> QED
        BY <2>1, <2>2, <2>3, <2>4, <3>3 DEF Converses
    <2>5. CASE chat'.phase = "ended"
      BY <2>1, <2>2, <2>3, <2>5 DEF Converses
    <2>6. CASE chat'.phase = chat.phase /\ chat'.todo = chat.todo
      BY <2>1, <2>2, <2>3, <2>6 DEF Converses, Replied
    <2>7. CASE chat.phase \notin {"calls", "ended"} /\ chat'.phase # "calls"
      BY <2>1, <2>2, <2>3, <2>7 DEF Converses, Replied
    <2> QED
      BY <1>1, <2>4, <2>5, <2>6, <2>7 DEF QuietChat
  <1> QED
    BY <1>1, QuietSteps, QuietChats, ConversesPrefetched, ConversesForced, ConversesResponds,
       ConversesCalls, ConversesCloses

-----------------------------------------------------------------------------
(* What each step makes of requests, hosts, rounds and queries.            *)

\* What a step does to a request to the language model.
Turns(c) ==
    \/ llm'[c] = llm[c] /\ (llm["chat"].state # "none" => chat'.phase = chat.phase /\ chat'.round = chat.round)
    \/ llm'[c] = llm[c] /\ c = "followup"
    \/ llm'[c] = NoRequest
    \/ /\ chat'.phase = chat.phase /\ chat'.round = chat.round
       /\ \/ /\ llm[c].state = "none" /\ llm'[c].state = "asking"
             /\ llm'[c].tries = llm[c].tries /\ llm'[c].parts = llm[c].parts
             /\ c = "chat" => /\ chat.phase \in {"planning", "round", "answer"}
                              /\ chat.phase = "round" => chat.round < MaxRounds
          \/ /\ c = "chat" /\ chat.phase = "answer"
             /\ llm[c].state = "asking" /\ llm'[c].state = "streaming"
             /\ llm'[c].tries = llm[c].tries /\ llm'[c].parts = llm[c].parts
          \/ /\ c = "chat" /\ llm[c].state = "streaming" /\ llm'[c].state = "streaming"
             /\ llm'[c].tries = llm[c].tries
          \/ /\ llm[c].state \in {"asking", "streaming"} /\ llm'[c].state = "recovering"
             /\ backend = "ollama" /\ llm'[c].tries = llm[c].tries
             /\ llm'[c].parts = IF llm[c].state = "streaming" THEN 0 ELSE llm[c].parts
          \/ /\ llm[c].state = "asking" /\ llm'[c].state = "asking" /\ backend # "ollama"
             /\ llm[c].tries + 1 < Attempts /\ llm'[c].tries = llm[c].tries + 1
             /\ llm'[c].parts = llm[c].parts
          \/ /\ llm[c].state = "recovering" /\ llm'[c].state = "recovering"
             /\ llm'[c].tries = llm[c].tries /\ llm'[c].parts = llm[c].parts
          \/ /\ llm[c].state = "recovering" /\ llm'[c].state = "asking"
             /\ llm[c].tries < Retries /\ llm'[c].tries = llm[c].tries + 1
             /\ llm'[c].parts = llm[c].parts

\* Only one request changes at a time.
LEMMA OneTurns ==
    ASSUME ChatTyped, NEW c \in Clients, NEW r, llm' = [llm EXCEPT ![c] = r],
           UNCHANGED chat \/ c = "chat", NEW d \in Clients, llm'[c] = r => Turns(c)
    PROVE  Turns(d)
  <1>1. llm'[c] = r /\ (d # c => llm'[d] = llm[d])
    BY DEF ChatTyped
  <1>2. CASE d = c
    BY <1>1, <1>2
  <1>3. CASE d # c
    BY <1>1, <1>3 DEF Turns, Clients
  <1> QED
    BY <1>2, <1>3

\* Every step does one of these to each request.
LEMMA AllTurn ==
    ASSUME ChatTyped, [ChatNext]_chatVars, NEW d \in Clients
    PROVE  Turns(d)
  <1> USE DEF At, Streaming
  <1>1. /\ llm \in [Clients -> ModelRequests] /\ llm[d] \in ModelRequests /\ chat \in Chats
        /\ "chat" \in Clients /\ "followup" \in Clients
    BY DEF ChatTyped, Clients
  <1>2. CASE UNCHANGED <<llm, chat>>
    BY <1>2 DEF Turns
  <1>3. CASE UNCHANGED llm /\ llm["chat"].state = "none"
    BY <1>3 DEF Turns
  <1>4. ASSUME NEW c \in Clients, llm' = [llm EXCEPT ![c] = NoRequest], UNCHANGED chat \/ c = "chat"
        PROVE  Turns(d)
    <2>1. llm'[c] = NoRequest => Turns(c)
      BY DEF Turns
    <2> QED
      BY <1>4, <2>1, OneTurns
  <1>5. ASSUME NEW c \in Clients, Fails(c) PROVE Turns(d)
    <2>1. llm' = [llm EXCEPT ![c] = NoRequest] /\ (UNCHANGED chat \/ c = "chat")
      BY <1>5, FailsIs DEF Clients
    <2> QED
      BY <1>4, <2>1
  <1>6. ASSUME NEW c \in Clients, Lost(c) PROVE Turns(d)
    <2>0. llm[c] \in ModelRequests /\ llm[c].state = "asking"
      BY <1>1, <1>6 DEF Lost, Asking
    <2>1. CASE /\ backend = "ollama" /\ UNCHANGED chat
               /\ llm' = [llm EXCEPT ![c] = [@ EXCEPT !.state = "recovering", !.checks = 0]]
      <3> DEFINE r == [llm[c] EXCEPT !.state = "recovering", !.checks = 0]
      <3>1. r.state = "recovering" /\ r.tries = llm[c].tries /\ r.parts = llm[c].parts
        BY <2>0 DEF ModelRequests
      <3>2. llm' = [llm EXCEPT ![c] = r]
        BY <2>1
      <3> HIDE DEF r
      <3>3. llm'[c] = r => Turns(c)
        BY <2>0, <2>1, <3>1 DEF Turns
      <3> QED
        BY <2>1, <3>2, <3>3, OneTurns
    <2>2. CASE /\ backend # "ollama" /\ llm[c].tries + 1 < Attempts /\ UNCHANGED chat
               /\ llm' = [llm EXCEPT ![c].tries = @ + 1]
      <3> DEFINE n == llm[c].tries + 1
                 r == [llm[c] EXCEPT !.tries = n]
      <3>1. r.state = "asking" /\ r.tries = n /\ r.parts = llm[c].parts
        BY <2>0 DEF ModelRequests
      <3>2. llm' = [llm EXCEPT ![c] = r]
        BY <2>2
      <3> HIDE DEF r
      <3>3. llm'[c] = r => Turns(c)
        BY <2>0, <2>2, <3>1 DEF Turns
      <3> QED
        BY <2>2, <3>2, <3>3, OneTurns
    <2>3. CASE Fails(c)
      BY <1>5, <2>3
    <2> QED
      BY <1>6, <2>1, <2>2, <2>3 DEF Lost
  <1>7. ASSUME NEW c \in Clients, Probe(c) PROVE Turns(d)
    <2>0. llm[c] \in ModelRequests /\ llm[c].state = "recovering"
      BY <1>1, <1>7 DEF Probe
    <2> DEFINE n == llm[c].tries + 1
               r == [llm[c] EXCEPT !.state = "asking", !.tries = n]
               e == [llm[c] EXCEPT !.checks = @ + 1]
    <2>1. CASE llm[c].tries < Retries /\ UNCHANGED chat /\ llm' = [llm EXCEPT ![c] = r]
      <3>1. r.state = "asking" /\ r.tries = n /\ r.parts = llm[c].parts
        BY <2>0 DEF ModelRequests
      <3> HIDE DEF r
      <3>3. llm'[c] = r => Turns(c)
        BY <2>0, <2>1, <3>1 DEF Turns
      <3> QED
        BY <2>1, <3>3, OneTurns
    <2>2. CASE UNCHANGED chat /\ llm' = [llm EXCEPT ![c] = e]
      <3>1. e.state = "recovering" /\ e.tries = llm[c].tries /\ e.parts = llm[c].parts
        BY <2>0 DEF ModelRequests
      <3> HIDE DEF e
      <3>3. llm'[c] = e => Turns(c)
        BY <2>0, <2>2, <3>1 DEF Turns
      <3> QED
        BY <2>2, <3>3, OneTurns
    <2>3. CASE Fails(c)
      BY <1>5, <2>3
    <2>4. CASE UNCHANGED <<llm, chat>>
      BY <1>2, <2>4
    <2> QED
      BY <1>7, <2>1, <2>2, <2>3, <2>4 DEF Probe
  <1>8. CASE Drops
    <2> DEFINE r == [llm["chat"] EXCEPT !.state = "recovering", !.checks = 0, !.parts = 0]
    <2>1. CASE backend = "ollama" /\ UNCHANGED chat /\ llm' = [llm EXCEPT !["chat"] = r]
      <3>0. llm["chat"] \in ModelRequests /\ llm["chat"].state = "streaming"
        BY <1>1, <1>8 DEF Drops
      <3>1. r.state = "recovering" /\ r.tries = llm["chat"].tries /\ r.parts = 0
        BY <3>0 DEF ModelRequests
      <3> HIDE DEF r
      <3>3. llm'["chat"] = r => Turns("chat")
        BY <2>1, <3>0, <3>1 DEF Turns
      <3> QED
        BY <1>1, <2>1, <3>3, OneTurns
    <2>2. CASE Fails("chat")
      BY <1>1, <1>5, <2>2
    <2> QED
      BY <1>8, <2>1, <2>2 DEF Drops, Resumable
  <1>9. CASE AskModel
    <2> DEFINE r == [llm["chat"] EXCEPT !.state = "asking"]
    <2>0. llm["chat"] \in ModelRequests
      BY <1>1
    <2>1. r.state = "asking" /\ r.tries = llm["chat"].tries /\ r.parts = llm["chat"].parts
      BY <2>0 DEF ModelRequests
    <2>2. llm' = [llm EXCEPT !["chat"] = r] /\ UNCHANGED chat
      BY <1>9 DEF AskModel
    <2>3. llm["chat"].state = "none" /\ chat.phase \in {"planning", "round", "answer"}
          /\ (chat.phase = "round" => chat.round < MaxRounds)
      BY <1>9 DEF AskModel
    <2> HIDE DEF r
    <2>4. llm'["chat"] = r => Turns("chat")
      BY <2>1, <2>2, <2>3 DEF Turns
    <2> QED
      BY <1>1, <2>2, <2>4, OneTurns
  <1>10. CASE StreamOpens
    <2> DEFINE r == [llm["chat"] EXCEPT !.state = "streaming"]
    <2>0. llm["chat"] \in ModelRequests
      BY <1>1
    <2>1. r.state = "streaming" /\ r.tries = llm["chat"].tries /\ r.parts = llm["chat"].parts
      BY <2>0 DEF ModelRequests
    <2>2. llm' = [llm EXCEPT !["chat"] = r] /\ UNCHANGED chat
      BY <1>10 DEF StreamOpens
    <2>3. llm["chat"].state = "asking" /\ chat.phase = "answer"
      BY <1>10 DEF StreamOpens, Asking
    <2> HIDE DEF r
    <2>4. llm'["chat"] = r => Turns("chat")
      BY <2>1, <2>2, <2>3 DEF Turns
    <2> QED
      BY <1>1, <2>2, <2>4, OneTurns
  <1>11. CASE Part
    <2> DEFINE r == [llm["chat"] EXCEPT !.parts = @ + 1]
    <2>0. llm["chat"] \in ModelRequests /\ llm["chat"].state = "streaming"
      BY <1>1, <1>11 DEF Part
    <2>1. r.state = "streaming" /\ r.tries = llm["chat"].tries
      BY <2>0 DEF ModelRequests
    <2>2. llm' = [llm EXCEPT !["chat"] = r]
      BY <1>11 DEF Part
    <2>3. chat'.phase = chat.phase /\ chat'.round = chat.round
      BY <1>1, <1>11 DEF Part, Chats
    <2> HIDE DEF r
    <2>4. llm'["chat"] = r => Turns("chat")
      BY <2>0, <2>1, <2>3 DEF Turns
    <2> QED
      BY <1>1, <2>2, <2>4, OneTurns
  <1>12. CASE Followup
    <2> DEFINE r == [llm["followup"] EXCEPT !.state = "asking"]
    <2>0. llm["followup"] \in ModelRequests /\ llm["followup"].state = "none"
      BY <1>1, <1>12 DEF Followup
    <2>1. r.state = "asking" /\ r.tries = llm["followup"].tries /\ r.parts = llm["followup"].parts
      BY <2>0 DEF ModelRequests
    <2>2. llm' = [llm EXCEPT !["followup"] = r] /\ UNCHANGED chat
      BY <1>12 DEF Followup
    <2> HIDE DEF r
    <2>4. llm'["followup"] = r => Turns("followup")
      BY <2>0, <2>1, <2>2 DEF Turns
    <2> QED
      BY <1>1, <2>2, <2>4, OneTurns
  <1>13. CASE FollowupAnswered \/ Planned \/ Responds \/ Finishes
    <2>1. \E c \in Clients : llm' = [llm EXCEPT ![c] = NoRequest] /\ (UNCHANGED chat \/ c = "chat")
      BY <1>1, <1>13 DEF FollowupAnswered, Planned, Responds, Finishes, Answered
    <2> QED
      BY <1>4, <2>1
  <1>14. CASE Disconnect
    <2>1. (UNCHANGED llm /\ llm["chat"].state = "none") \/ llm' = [llm EXCEPT !["chat"] = NoRequest]
      BY <1>14 DEF Disconnect
    <2> QED
      BY <1>1, <1>3, <1>4, <2>1
  <1>15. ASSUME NEW c \in Clients, HttpError(c) PROVE Turns(d)
    BY <1>5, <1>15 DEF HttpError
  <1>16. CASE Request \/ Start \/ Prefetch \/ Prefetched \/ Skip \/ RunLocal \/ RunWeb \/ RunUnknown
    BY <1>3, <1>16 DEF Request, Start, Prefetch, Prefetched, Skip, RunLocal, RunWeb, RunUnknown, Runs
  <1>17. CASE RoundOver \/ OutOfRounds \/ Forced \/ Closes \/ SearchFails
    BY <1>3, <1>17 DEF RoundOver, OutOfRounds, Forced, Closes, SearchFails
  <1>18. CASE (\E h \in Hosts : Switch(h)) \/ UNCHANGED chatVars
    BY <1>2, <1>18 DEF Switch, chatVars
  <1> QED
    BY <1>6, <1>7, <1>8, <1>9, <1>10, <1>11, <1>12, <1>13, <1>14, <1>15, <1>16, <1>17, <1>18
    DEF ChatNext, Generator

\* The backend stays the one that was chosen.
LEMMA BackendStays ==
    ASSUME [ChatNext]_chatVars
    PROVE  backend' = backend
  <1>1. CASE Request \/ SearchFails \/ Part \/ Drops \/ Disconnect \/ Followup \/ FollowupAnswered
    BY <1>1 DEF net, Request, SearchFails, Part, Drops, Disconnect, Followup, FollowupAnswered
  <1>2. CASE \E c \in Clients : Lost(c) \/ HttpError(c) \/ Probe(c)
    BY <1>2 DEF net, Lost, HttpError, Probe
  <1>3. CASE \E h \in Hosts : Switch(h)
    BY <1>3 DEF Switch
  <1>4. CASE Start \/ AskModel \/ Planned \/ Prefetch \/ Prefetched \/ Responds \/ StreamOpens \/ Finishes
    BY <1>4 DEF net, Start, AskModel, Planned, Prefetch, Prefetched, Responds, StreamOpens, Finishes
  <1>5. CASE Skip \/ RunLocal \/ RunWeb \/ RunUnknown \/ RoundOver \/ OutOfRounds \/ Forced \/ Closes
    BY <1>5 DEF net, Skip, RunLocal, RunWeb, RunUnknown, RoundOver, OutOfRounds, Forced, Closes
  <1>6. CASE UNCHANGED chatVars
    BY <1>6 DEF chatVars, net
  <1> QED
    BY <1>1, <1>2, <1>3, <1>4, <1>5, <1>6 DEF ChatNext, Generator

\* The hosts stay hosts, whichever is taken.
LEMMA HostStaysTyped ==
    ASSUME ChatTyped, [ChatNext]_chatVars
    PROVE  host' \in Nets
  <1>1. host \in Nets
    BY DEF ChatTyped
  <1>2. CASE UNCHANGED host
    BY <1>1, <1>2
  <1>3. ASSUME NEW h \in Hosts, Switch(h) PROVE host' \in Nets
    <2>1. host' = [host EXCEPT !.up = SymDiff(@, {h})]
      BY <1>3 DEF Switch
    <2>2. SymDiff(host.up, {h}) \in SUBSET Hosts
      BY <1>1 DEF SymDiff, Nets
    <2> QED
      BY <1>1, <2>1, <2>2 DEF Nets
  <1>4. ASSUME NEW c \in Clients, Probe(c) PROVE host' \in Nets
    <2>1. CASE UNCHANGED host
      BY <1>2, <2>1
    <2>2. ASSUME NEW h \in host.up,
                 host' = [host EXCEPT !.active = h, !.env = IF @ # Unset THEN h ELSE Unset]
          PROVE  host' \in Nets
      BY <1>1, <2>2 DEF Nets
    <2> QED
      BY <1>4, <2>1, <2>2 DEF Probe
  <1>5. CASE Request \/ SearchFails \/ Part \/ Drops \/ Disconnect \/ Followup \/ FollowupAnswered
    BY <1>2, <1>5 DEF net, Request, SearchFails, Part, Drops, Disconnect, Followup, FollowupAnswered
  <1>6. CASE \E c \in Clients : Lost(c) \/ HttpError(c)
    BY <1>2, <1>6 DEF net, Lost, HttpError
  <1>7. CASE Start \/ AskModel \/ Planned \/ Prefetch \/ Prefetched \/ Responds \/ StreamOpens \/ Finishes
    BY <1>2, <1>7 DEF net, Start, AskModel, Planned, Prefetch, Prefetched, Responds, StreamOpens, Finishes
  <1>8. CASE Skip \/ RunLocal \/ RunWeb \/ RunUnknown \/ RoundOver \/ OutOfRounds \/ Forced \/ Closes
    BY <1>2, <1>8 DEF net, Skip, RunLocal, RunWeb, RunUnknown, RoundOver, OutOfRounds, Forced, Closes
  <1>9. CASE UNCHANGED chatVars
    BY <1>2, <1>9 DEF chatVars, net
  <1> QED
    BY <1>3, <1>4, <1>5, <1>6, <1>7, <1>8, <1>9 DEF ChatNext, Generator

\* What becomes of a request is as it should be.
LEMMA AskedForSteps ==
    ASSUME ChatTyped, AskedFor, [ChatNext]_chatVars
    PROVE  /\ AskedFor'
           /\ chat'.phase = "round" /\ llm'["chat"].state # "none" =>
                  chat'.round = chat.round /\ chat.phase = "round"
                  /\ (llm["chat"].state # "none" \/ chat.round < MaxRounds)
  <1>1. Turns("chat") /\ Turns("followup") /\ backend' = backend
    BY AllTurn, BackendStays DEF Clients
  <1>2. "chat" # "followup" /\ NoRequest.state = "none" /\ NoRequest.tries = 0
    BY DEF NoRequest
  <1>3. Retries \in Nat /\ Attempts \in Nat /\ \A c \in Clients : llm[c].tries \in Nat
    BY AnsweringBounds DEF ChatTyped, ModelRequests
  <1>4. /\ llm'["chat"].state # "none" => chat'.phase \in {"planning", "round", "answer"}
        /\ llm'["chat"].state = "streaming" => chat'.phase = "answer"
    BY <1>1, <1>2 DEF Turns, AskedFor
  <1>5. llm'["followup"].state # "streaming"
    BY <1>1, <1>2 DEF Turns, AskedFor
  <1>6. ASSUME NEW c \in Clients
        PROVE  /\ llm'[c].state = "recovering" => backend' = "ollama"
               /\ llm'[c].tries <= IF backend' = "ollama" THEN Retries ELSE Attempts
    <2>1. Turns(c) /\ backend' = backend /\ llm[c].tries \in Nat
      BY <1>1, <1>3 DEF Clients
    <2>2. /\ llm[c].state = "recovering" => backend = "ollama"
          /\ llm[c].tries <= IF backend = "ollama" THEN Retries ELSE Attempts
      BY DEF AskedFor
    <2> DEFINE most == IF backend = "ollama" THEN Retries ELSE Attempts
    <2>3. most \in Nat /\ llm[c].tries <= most
      BY <1>3, <2>2
    <2>4. \/ llm'[c].tries = llm[c].tries
          \/ llm'[c].tries = 0
          \/ llm'[c].tries = llm[c].tries + 1 /\ llm[c].tries + 1 <= most
      <3>1. CASE llm'[c].tries = llm[c].tries + 1 /\ backend = "ollama" /\ llm[c].tries < Retries
        BY <1>3, <2>1, <3>1
      <3>2. CASE llm'[c].tries = llm[c].tries + 1 /\ backend # "ollama" /\ llm[c].tries + 1 < Attempts
        BY <1>3, <2>1, <3>2
      <3> HIDE DEF most
      <3> QED
        BY <1>2, <2>1, <2>2, <3>1, <3>2 DEF Turns
    <2>5. llm'[c].tries <= most
      <3> HIDE DEF most
      <3> QED
        BY <2>1, <2>3, <2>4
    <2>6. llm'[c].state = "recovering" => backend = "ollama"
      BY <1>2, <2>1, <2>2 DEF Turns
    <2> QED
      BY <2>1, <2>5, <2>6
  <1>7. chat'.phase = "round" /\ llm'["chat"].state # "none" =>
            chat'.round = chat.round /\ chat.phase = "round"
            /\ (llm["chat"].state # "none" \/ chat.round < MaxRounds)
    BY <1>1, <1>2 DEF Turns, AskedFor
  <1> QED
    BY <1>4, <1>5, <1>6, <1>7 DEF AskedFor

Early == {"idle", "accepted", "planning", "prefetch"}

\* What a step does to the phase of the chat and to what is used of its bounds.
Kept == chat'.round = chat.round /\ chat'.used = chat.used /\ chat'.searched = chat.searched
Goes ==
    \/ Kept /\ chat'.phase = chat.phase /\ UNCHANGED prompt
    \/ Kept /\ chat'.phase = "ended"
    \/ Kept /\ chat.phase \in Early /\ chat'.phase \in Early \cup {"round"} /\ UNCHANGED prompt
    \/ /\ chat.phase = "prefetch" /\ chat'.phase = "round" /\ chat'.round = chat.round
       /\ chat'.used = 1 /\ Prefetched
    \/ Kept /\ chat.phase = "round" /\ llm["chat"].state # "none"
       /\ (chat'.phase = "calls" \/ chat'.phase = "closing" \/ (chat'.phase = "forced" /\ ~chat.searched))
    \/ Kept /\ chat.phase = "calls" /\ chat'.phase = "calls"
    \/ /\ chat.phase = "calls" /\ chat'.phase = "calls" /\ chat'.round = chat.round
       /\ chat.used < MaxCalls /\ chat'.used = chat.used + 1
       /\ (chat'.searched = chat.searched \/ RunLocal)
    \/ Kept /\ chat.phase \in {"calls", "round"} /\ chat'.phase = "closing"
    \/ /\ chat.phase = "calls" /\ chat'.phase = "round" /\ chat'.round = chat.round + 1
       /\ chat'.used = chat.used /\ chat'.searched = chat.searched
    \/ /\ chat.phase = "forced" /\ ~chat.searched /\ chat'.phase \in {"round", "closing"}
       /\ chat'.round = chat.round + 1 /\ chat'.used = chat.used + 1 /\ Forced /\ chat'.searched
    \/ /\ chat.phase = "closing" /\ chat'.phase = "closing"
       /\ chat'.round = chat.round /\ chat'.used = chat.used /\ Forced /\ chat'.searched
    \/ Kept /\ chat.phase = "closing" /\ chat.searched /\ chat'.phase = "answer"

\* Every step is one of these, and only a search makes a chat one that has searched.
LEMMA ChatGoes ==
    ASSUME ChatTyped, [ChatNext]_chatVars
    PROVE  Goes /\ (chat'.searched => chat.searched \/ Prefetched \/ RunLocal \/ Forced)
  <1> USE DEF At, Streaming, Kept, Early
  <1>1. chat \in Chats
    BY DEF ChatTyped
  <1>2. CASE UNCHANGED chat /\ UNCHANGED prompt
    BY <1>2 DEF Goes
  <1>3. CASE Failed /\ UNCHANGED prompt
    BY <1>1, <1>3 DEF Failed, Goes, Chats
  <1>4. CASE Request
    BY <1>1, <1>4 DEF Request, Goes, Chats
  <1>5. CASE Start
    <2>1. chat.phase = "accepted" /\ UNCHANGED prompt
      BY <1>5 DEF Start
    <2>2. Kept /\ chat'.phase \in {"planning", "round"}
      BY <1>1, <1>5 DEF Start, Chats
    <2> QED
      BY <2>1, <2>2 DEF Goes
  <1>6. CASE Planned
    <2>1. Kept /\ chat.phase = "planning" /\ chat'.phase = "prefetch" /\ UNCHANGED prompt
      BY <1>1, <1>6 DEF Planned, Answered, Chats
    <2> QED
      BY <2>1 DEF Goes
  <1>7. CASE Prefetch
    <2>1. Kept /\ chat'.phase = chat.phase /\ UNCHANGED prompt
      BY <1>1, <1>7 DEF Prefetch, Chats
    <2> QED
      BY <2>1 DEF Goes
  <1>8. CASE Prefetched
    BY <1>1, <1>8 DEF Prefetched, Goes, Chats
  <1>9. CASE Responds
    <2>1. Kept /\ chat.phase = "round" /\ llm["chat"].state # "none"
      BY <1>1, <1>9 DEF Responds, Answered, Asking, Chats
    <2>2. chat'.phase = "calls" \/ chat'.phase = "closing" \/ (chat'.phase = "forced" /\ ~chat.searched)
      BY <1>1, <1>9 DEF Responds, Chats
    <2> QED
      BY <2>1, <2>2 DEF Goes
  <1>10. CASE Skip
    <2>1. Kept /\ chat.phase = "calls" /\ chat'.phase = "calls"
      BY <1>1, <1>10 DEF Skip, Chats
    <2> QED
      BY <2>1 DEF Goes
  <1>11. CASE RunLocal \/ RunWeb \/ RunUnknown
    <2>1. PICK name : Runs(name) /\ (name = "local" => RunLocal)
      <3>1. CASE RunLocal
        BY <3>1 DEF RunLocal
      <3>2. CASE RunWeb
        <4>1. Runs("web") /\ "web" # "local"
          BY <3>2 DEF RunWeb
        <4> QED
          BY <4>1
      <3>3. CASE RunUnknown
        <4>1. Runs("") /\ "" # "local"
          BY <3>3 DEF RunUnknown
        <4> QED
          BY <4>1
      <3> QED
        BY <1>11, <3>1, <3>2, <3>3
    <2>2. /\ chat.phase = "calls" /\ chat'.phase = "calls" /\ chat'.round = chat.round
          /\ chat.used < MaxCalls /\ chat'.used = chat.used + 1
          /\ chat'.searched = (chat.searched \/ name = "local")
      BY <1>1, <2>1 DEF Runs, Chats
    <2>3. chat.searched \in BOOLEAN
      BY <1>1 DEF Chats
    <2>4. chat'.searched = chat.searched \/ RunLocal
      BY <2>1, <2>2, <2>3
    <2> QED
      BY <2>2, <2>4 DEF Goes
  <1>12. CASE RoundOver
    <2>1. /\ chat.phase = "calls" /\ chat'.used = chat.used /\ chat'.searched = chat.searched
          /\ \/ chat'.phase = "closing" /\ chat'.round = chat.round
             \/ chat'.phase = "round" /\ chat'.round = chat.round + 1
      BY <1>1, <1>12 DEF RoundOver, Chats
    <2> QED
      BY <2>1 DEF Goes
  <1>13. CASE OutOfRounds
    BY <1>1, <1>13 DEF OutOfRounds, Goes, Chats
  <1>14. CASE Forced
    <2>1. /\ ~chat.searched /\ chat'.searched = TRUE
          /\ \/ chat.phase = "forced" /\ chat'.phase \in {"round", "closing"}
                /\ chat'.round = chat.round + 1 /\ chat'.used = chat.used + 1
             \/ chat.phase = "closing" /\ chat'.phase = "closing"
                /\ chat'.round = chat.round /\ chat'.used = chat.used
      BY <1>1, <1>14 DEF Forced, Chats
    <2> QED
      BY <1>14, <2>1 DEF Goes
  <1>15. CASE Closes
    BY <1>1, <1>15 DEF Closes, Goes, Chats
  <1>16. CASE SearchFails \/ Disconnect
    <2>1. chat' = [chat EXCEPT !.phase = "ended"]
      BY <1>16 DEF SearchFails, Disconnect, Ends
    <2> QED
      BY <1>1, <2>1 DEF Goes, Chats
  <1>17. CASE Part
    <2>1. Kept /\ chat'.phase = chat.phase /\ UNCHANGED prompt
      BY <1>1, <1>17 DEF Part, Chats
    <2> QED
      BY <2>1 DEF Goes
  <1>18. CASE Finishes
    <2>1. Kept /\ chat'.phase = "ended"
      BY <1>1, <1>18 DEF Finishes, Chats
    <2> QED
      BY <2>1 DEF Goes
  <1>19. CASE Drops \/ \E c \in Clients : Lost(c) \/ HttpError(c) \/ Probe(c)
    <2>1. UNCHANGED prompt /\ (UNCHANGED chat \/ \E c \in Clients : Fails(c))
      BY <1>19 DEF Drops, Lost, HttpError, Probe, Clients
    <2> QED
      BY <1>2, <1>3, <2>1, FailsIs
  <1>20. CASE AskModel \/ StreamOpens \/ Followup \/ FollowupAnswered \/ (\E h \in Hosts : Switch(h))
    BY <1>2, <1>20 DEF AskModel, StreamOpens, Followup, FollowupAnswered, Switch
  <1>21. CASE UNCHANGED chatVars
    BY <1>2, <1>21 DEF chatVars
  <1> QED
    BY <1>4, <1>5, <1>6, <1>7, <1>8, <1>9, <1>10, <1>11, <1>12, <1>13, <1>14, <1>15, <1>16, <1>17,
       <1>18, <1>19, <1>20, <1>21 DEF ChatNext, Generator

\* No phase goes beyond its bounds.
LEMMA RoundsSteps ==
    ASSUME ChatTyped, AskedFor, Rounds, PromptInv, Replied, Informed, [ChatNext]_chatVars
    PROVE  Rounds'
  <1>1. Goes /\ (chat'.searched => chat.searched \/ Prefetched \/ RunLocal \/ Forced)
    BY ChatGoes
  <1>2. /\ chat.round \in Nat /\ chat.used \in Nat /\ chat.searched \in BOOLEAN /\ chat'.searched \in BOOLEAN
        /\ MaxRounds \in Nat \ {0} /\ MaxCalls \in Nat \ {0} 
    BY ChatStaysTyped, AnsweringBounds DEF ChatTyped, Chats
  <1>3. chat'.searched => Searched(msgs')
    <2>1. chat.searched => Searched(msgs')
      BY ConversationSteps DEF Converses, Rounds, Searched
    <2> QED
      BY <1>1, <2>1, ConversesPrefetched, ConversesForced, ConversesCalls
  <1>4. chat'.phase \in Early =>
            chat'.round = 0 /\ chat'.used = 0 /\ ~chat'.searched /\ msgs' = <<>>
            /\ cites' = [local |-> <<>>, web |-> <<>>]
    <2>1. chat'.phase \in Early => Kept /\ UNCHANGED prompt /\ chat.phase \in Early
      BY <1>1 DEF Goes, Early
    <2> QED
      BY <2>1 DEF Rounds, Early, Kept, prompt
  <1>5. chat'.used <= MaxCalls + 1 /\ (~chat'.searched => chat'.used <= MaxCalls)
    <2>1. chat.used <= MaxCalls + 1 /\ (~chat.searched => chat.used <= MaxCalls)
      BY DEF Rounds
    <2>2. CASE chat'.used = chat.used /\ (chat'.searched = chat.searched \/ chat'.searched)
      BY <1>2, <2>1, <2>2
    <2>3. CASE chat.used < MaxCalls /\ chat'.used = chat.used + 1
      BY <1>2, <2>3
    <2>4. CASE ~chat.searched /\ chat'.used = chat.used + 1 /\ chat'.searched
      BY <1>2, <2>1, <2>4
    <2>5. CASE chat'.used = 1
      BY <1>2, <2>5
    <2> QED
      BY <1>1, <2>2, <2>3, <2>4, <2>5 DEF Goes, Kept
  <1>6. /\ chat.round <= MaxRounds /\ (chat.phase \in {"calls", "forced"} => chat.round < MaxRounds)
        /\ (chat.phase = "round" /\ llm["chat"].state # "none" => chat.round < MaxRounds)
    BY DEF Rounds
  <1>7. chat'.round <= MaxRounds
    <2>1. CASE chat'.round = chat.round
      BY <1>6, <2>1
    <2>2. CASE chat'.round = chat.round + 1 /\ chat.phase \in {"calls", "forced"}
      BY <1>2, <1>6, <2>2
    <2> QED
      BY <1>1, <2>1, <2>2 DEF Goes, Kept
  <1>8. chat'.phase \in {"calls", "forced"} => chat'.round < MaxRounds
    BY <1>1, <1>6 DEF Goes, Kept, Early
  <1>9. chat'.phase = "round" /\ llm'["chat"].state # "none" => chat'.round < MaxRounds
    BY <1>6, AskedForSteps
  <1>10. chat'.phase = "forced" => ~chat'.searched
    BY <1>1 DEF Goes, Kept, Early, Rounds
  <1>11. chat'.phase = "answer" => chat'.searched
    BY <1>1 DEF Goes, Kept, Early, Rounds
  <1> QED
    BY <1>3, <1>4, <1>5, <1>7, <1>8, <1>9, <1>10, <1>11 DEF Rounds, Early, Searched

\* What a step does to the queries that are not finished.
Counters == [faults : Nat, switches : Nat, followups : Nat]
Counts ==
    /\ queries' \in Nat /\ tally' \in Counters
    /\ \/ queries' <= queries /\ tally'.followups = tally.followups
          /\ (chat'.phase \in {"idle", "accepted"} => chat.phase \in {"idle", "accepted"})
       \/ queries' = queries + 1 /\ tally'.followups = tally.followups
          /\ chat.phase = "accepted" /\ chat'.phase \notin {"idle", "accepted"}
       \/ queries' = queries + 1 /\ tally.followups < 1 /\ tally'.followups = tally.followups + 1
          /\ llm["chat"].state # "none" /\ UNCHANGED chat

\* Every step counts so.
LEMMA AllCount ==
    ASSUME ChatTyped, [ChatNext]_chatVars
    PROVE  Counts
  <1> USE DEF At, Streaming
  <1>1. chat \in Chats /\ queries \in Nat /\ tally \in Counters
    BY DEF ChatTyped, Counters
  <1>2. ASSUME queries' = queries \/ (queries' \in Nat /\ queries' <= queries),
               tally' = tally \/ (tally' \in Counters /\ tally'.followups = tally.followups),
               chat'.phase \in {"idle", "accepted"} => chat.phase \in {"idle", "accepted"}
        PROVE  Counts
    BY <1>1, <1>2 DEF Counts
  <1>3. ASSUME NEW how, queries' = Released(how) PROVE queries' \in Nat /\ queries' <= queries
    BY <1>3, ReleasedIs
  <1>4. ASSUME NEW bound, Tally("faults", bound) \/ Tally("switches", bound)
        PROVE  tally' \in Counters /\ tally'.followups = tally.followups
    BY <1>4, TallyIs DEF Counters
  <1>5. CASE Request
    BY <1>1, <1>2, <1>5 DEF Request, Chats
  <1>6. CASE Start
    <2>1. queries' = queries + 1 /\ UNCHANGED tally /\ chat.phase = "accepted"
      BY <1>6 DEF Start
    <2>2. chat'.phase \in {"planning", "round"}
      BY <1>1, <1>6 DEF Start, Chats
    <2> QED
      BY <1>1, <2>1, <2>2 DEF Counts
  <1>7. CASE Planned \/ Prefetch \/ Prefetched \/ RoundOver \/ OutOfRounds
    <2>1. chat'.phase \notin {"idle", "accepted"}
      BY <1>1, <1>7 DEF Planned, Prefetch, Prefetched, RoundOver, OutOfRounds, Chats
    <2>2. UNCHANGED <<queries, tally>>
      BY <1>7 DEF Planned, Prefetch, Prefetched, RoundOver, OutOfRounds
    <2> QED
      BY <1>2, <2>1, <2>2
  <1>8. CASE Responds \/ Forced \/ Closes
    <2>1. chat'.phase \notin {"idle", "accepted"}
      BY <1>1, <1>8, ZenonT(60) DEF Responds, Forced, Closes, Chats
    <2>2. UNCHANGED <<queries, tally>>
      BY <1>8 DEF Responds, Forced, Closes
    <2> QED
      BY <1>2, <2>1, <2>2
  <1>9. CASE Skip \/ RunLocal \/ RunWeb \/ RunUnknown
    <2>1. chat'.phase = chat.phase
      BY <1>1, <1>9 DEF Skip, RunLocal, RunWeb, RunUnknown, Runs, Chats
    <2>2. UNCHANGED <<queries, tally>>
      BY <1>9 DEF Skip, RunLocal, RunWeb, RunUnknown
    <2> QED
      BY <1>2, <2>1, <2>2
  <1>10. CASE AskModel \/ StreamOpens
    BY <1>2, <1>10 DEF AskModel, StreamOpens
  <1>11. CASE Finishes
    <2>1. chat'.phase = "ended" /\ UNCHANGED tally
      BY <1>1, <1>11 DEF Finishes, Chats
    <2>2. queries' \in Nat /\ queries' <= queries
      BY <1>3, <1>11 DEF Finishes
    <2> QED
      BY <1>2, <2>1, <2>2
  <1>12. CASE SearchFails
    <2>1. chat'.phase = "ended"
      BY <1>1, <1>12 DEF SearchFails, Ends, Chats
    <2>2. queries' \in Nat /\ queries' <= queries
      BY <1>3, <1>12 DEF SearchFails, Ends
    <2>3. tally' \in Counters /\ tally'.followups = tally.followups
      BY <1>4, <1>12 DEF SearchFails
    <2> QED
      BY <1>2, <2>1, <2>2, <2>3
  <1>13. CASE Part
    BY <1>1, <1>2, <1>13 DEF Part, Chats
  <1>14. CASE Disconnect
    <2>1. chat'.phase = "ended" /\ UNCHANGED tally
      BY <1>1, <1>14 DEF Disconnect, Ends, Chats
    <2>2. queries' = queries \/ (queries' \in Nat /\ queries' <= queries)
      BY <1>3, <1>14 DEF Disconnect, Ends
    <2> QED
      BY <1>2, <2>1, <2>2
  <1>15. CASE Drops \/ \E c \in Clients : Lost(c) \/ HttpError(c) \/ Probe(c)
    <2>1. UNCHANGED <<chat, queries>> \/ \E c \in Clients : Fails(c)
      BY <1>15 DEF Drops, Lost, HttpError, Probe, Clients
    <2>2. tally' = tally \/ (tally' \in Counters /\ tally'.followups = tally.followups)
      BY <1>4, <1>15 DEF Drops, Lost, HttpError, Probe
    <2>3. CASE \E c \in Clients : Fails(c)
      <3>1. Failed
        BY <2>3, FailsIs
      <3>2. queries' \in Nat /\ queries' <= queries
        BY <3>1 DEF Failed
      <3>3. chat'.phase \in {"idle", "accepted"} => chat.phase \in {"idle", "accepted"}
        BY <1>1, <3>1 DEF Failed, Chats
      <3> QED
        BY <1>2, <2>2, <3>2, <3>3
    <2> QED
      BY <1>2, <2>1, <2>2, <2>3
  <1>16. CASE Followup
    <2>1. tally' \in Counters /\ tally.followups < 1 /\ tally'.followups = tally.followups + 1
      BY <1>16, TallyIs DEF Followup, Counters
    <2> QED
      BY <1>1, <1>16, <2>1 DEF Followup, Counts
  <1>17. CASE FollowupAnswered
    <2>1. queries' \in Nat /\ queries' <= queries
      BY <1>3, <1>17 DEF FollowupAnswered
    <2> QED
      BY <1>2, <1>17, <2>1 DEF FollowupAnswered
  <1>18. ASSUME NEW h \in Hosts, Switch(h) PROVE Counts
    <2>1. tally' \in Counters /\ tally'.followups = tally.followups
      BY <1>4, <1>18 DEF Switch
    <2> QED
      BY <1>2, <1>18, <2>1 DEF Switch
  <1>19. CASE UNCHANGED chatVars
    BY <1>2, <1>19 DEF chatVars
  <1> QED
    BY <1>5, <1>6, <1>7, <1>8, <1>9, <1>10, <1>11, <1>12, <1>13, <1>14, <1>15, <1>16, <1>17, <1>18, <1>19
    DEF ChatNext, Generator

\* No query is counted but the chat's and a follow-up's.
LEMMA CountedSteps ==
    ASSUME ChatTyped, AskedFor, Counted, [ChatNext]_chatVars
    PROVE  Counted'
  <1>1. Counts
    BY AllCount
  <1>2. queries \in Nat /\ tally.followups \in Nat /\ queries' \in Nat
    BY <1>1 DEF ChatTyped, Counts
  <1>3. llm["chat"].state # "none" => chat.phase \notin {"idle", "accepted"}
    BY DEF AskedFor
  <1> DEFINE q == queries
             p == queries'
             f == tally.followups
             g == tally'.followups
             first == chat.phase \in {"idle", "accepted"}
             firsts == chat'.phase \in {"idle", "accepted"}
  <1>4. \/ p <= q /\ g = f /\ (firsts => first)
        \/ p = q + 1 /\ g = f /\ first /\ ~firsts
        \/ p = q + 1 /\ f < 1 /\ g = f + 1 /\ ~first /\ ~firsts
    BY <1>1, <1>3 DEF Counts
  <1>5. q \in Nat /\ f \in Nat /\ p \in Nat /\ f <= 1 /\ q <= 1 + f /\ (first => q = 0 /\ f = 0)
    BY <1>2 DEF Counted
  <1> HIDE DEF p, q, f, g, first, firsts
  <1>6. g <= 1 /\ p <= 1 + g /\ (firsts => p = 0 /\ g = 0)
    BY <1>4, <1>5
  <1> QED
    BY <1>6 DEF Counted, p, g, firsts

-----------------------------------------------------------------------------
(* What each step makes of the stream.                                     *)

\* What of a joined sequence is the first's.
LEMMA JoinIs ==
    ASSUME NEW T, NEW s \in Seq(T), NEW t \in Seq(T)
    PROVE  /\ s \o t \in Seq(T) /\ Len(s \o t) = Len(s) + Len(t)
           /\ \A i \in DOMAIN s : i \in DOMAIN (s \o t) /\ (s \o t)[i] = s[i]
           /\ s \o <<>> = s
  OBVIOUS

\* The beginning of what begins an attempt begins it, too.
LEMMA BeginsFirst ==
    ASSUME NEW s \in Seq(Events), NEW t \in Seq(Events), NEW try, OneTry(s \o t, try)
    PROVE  OneTry(s, try)
  BY JoinIs DEF OneTry

\* The next event of an attempt follows the others.
LEMMA BeginsMore ==
    ASSUME NEW s \in Seq(Events), NEW try \in Nat, OneTry(s, try), NEW n \in Nat, Len(s) = n,
           NEW part, part = <<[try |-> try, part |-> n + 1]>>
    PROVE  OneTry(s \o part, try) /\ Len(s \o part) = n + 1 /\ part \in Seq(Events)
  <1> DEFINE e == [try |-> try, part |-> n + 1]
             all == Append(s, e)
  <1>1. e \in Events /\ e.try = try /\ e.part = n + 1
    BY DEF Events
  <1>2. s \o part = all /\ part \in Seq(Events)
    <2> HIDE DEF e
    <2>1. part = <<e>>
      BY DEF e
    <2> QED
      BY <1>1, <2>1, JoinOne
  <1> HIDE DEF e
  <1>3. /\ Len(all) = n + 1 /\ DOMAIN s = 1..n /\ DOMAIN all = 1..n + 1
        /\ all[n + 1] = e /\ \A i \in 1..n : all[i] = s[i]
    BY <1>1, AppendIs
  <1> HIDE DEF all
  <1>4. \A i \in 1..n + 1 : i \in 1..n \/ i = n + 1
    OBVIOUS
  <1>5. OneTry(all, try)
    BY <1>1, <1>3, <1>4 DEF OneTry
  <1> QED
    BY <1>2, <1>3, <1>5

\* What begins some attempt begins the one that its first event is of.
LEMMA BeginsOwn ==
    ASSUME NEW s \in Seq(Events), NEW try, OneTry(s, try)
    PROVE  OneTry(s, s[1].try)
  <1>1. CASE DOMAIN s = {}
    BY <1>1 DEF OneTry
  <1>2. CASE DOMAIN s # {}
    <2>1. 1 \in DOMAIN s
      BY <1>2
    <2>2. s[1].try = try
      BY <2>1 DEF OneTry
    <2> QED
      BY <2>2
  <1> QED
    BY <1>1, <1>2

\* A step that has nothing to do with the stream.
Still ==
    /\ sent'.answer = sent.answer /\ chat'.carry = chat.carry
    /\ sent'.end = sent.end \/ sent'.end \in {"error", "gone"}
    /\ chat.phase = "ended" => chat'.left = chat.left
    /\ llm["chat"].state = "streaming" => llm'["chat"] = llm["chat"]
    /\ llm["chat"].state # "streaming" => llm'["chat"].state # "streaming"

\* What ends a stream before its last event.
Broken ==
    /\ llm["chat"].state = "streaming" /\ llm'["chat"].state = "none"
    /\ sent'.answer = sent.answer /\ sent'.end \in {"error", "gone"} /\ chat'.phase = "ended"

\* Every other step is one of the stream.
LEMMA AllStill ==
    ASSUME ChatTyped, AskedFor, [ChatNext]_chatVars
    PROVE  \/ Still \/ Part \/ StreamOpens \/ Finishes
           \/ Broken
           \/ /\ llm["chat"].state = "streaming" /\ llm["chat"].parts = 0
              /\ llm'["chat"].state = "recovering" /\ UNCHANGED <<chat, sent>>
  <1> USE DEF At, Streaming
  <1>1. /\ chat \in Chats /\ sent \in Streams /\ llm \in [Clients -> ModelRequests]
        /\ "chat" \in Clients /\ "followup" \in Clients
    BY DEF ChatTyped, Clients
  <1>2. ASSUME UNCHANGED llm, UNCHANGED sent, chat'.carry = chat.carry,
               chat.phase = "ended" => chat'.left = chat.left
        PROVE  Still
    BY <1>2 DEF Still
  <1>3. ASSUME NEW c \in Clients, Fails(c), c = "chat" => llm["chat"].state \in {"asking", "recovering"}
        PROVE  Still
    <2>1. Failed /\ llm' = [llm EXCEPT ![c] = NoRequest]
      BY <1>3, FailsIs
    <2>2. sent'.answer = sent.answer /\ chat'.carry = chat.carry
          /\ (sent'.end = sent.end \/ sent'.end \in {"error", "gone"})
      BY <1>1, <2>1 DEF Failed, Chats, Streams
    <2>3. chat.phase = "ended" => chat'.left = chat.left
      BY <1>1, <2>1 DEF Failed, Chats
    <2>4. llm'["chat"] = llm["chat"] \/ (c = "chat" /\ llm'["chat"].state = "none")
      BY <1>1, <2>1 DEF NoRequest
    <2> QED
      BY <1>3, <2>2, <2>3, <2>4 DEF Still
  <1>4. ASSUME NEW c \in Clients, NEW r, llm' = [llm EXCEPT ![c] = r], r.state # "streaming",
               c = "chat" => llm["chat"].state # "streaming", UNCHANGED <<chat, sent>>
        PROVE  Still
    <2>1. llm'[c] = r /\ (c # "chat" => llm'["chat"] = llm["chat"])
      BY <1>1, <1>4
    <2> QED
      BY <1>4, <2>1 DEF Still
  <1>5. ASSUME NEW c \in Clients, Lost(c) PROVE Still
    <2>0. llm[c] \in ModelRequests /\ llm[c].state = "asking"
      BY <1>1, <1>5 DEF Lost, Asking
    <2> DEFINE r == [llm[c] EXCEPT !.state = "recovering", !.checks = 0]
               e == [llm[c] EXCEPT !.tries = @ + 1]
    <2>1. r.state # "streaming" /\ e.state # "streaming"
      BY <2>0 DEF ModelRequests
    <2>2. \/ llm' = [llm EXCEPT ![c] = r] /\ UNCHANGED <<chat, sent>>
          \/ llm' = [llm EXCEPT ![c] = e] /\ UNCHANGED <<chat, sent>>
          \/ Fails(c)
      BY <1>5 DEF Lost
    <2> HIDE DEF r, e
    <2> QED
      BY <1>3, <1>4, <2>0, <2>1, <2>2
  <1>6. ASSUME NEW c \in Clients, Probe(c) PROVE Still
    <2>0. llm[c] \in ModelRequests /\ llm[c].state = "recovering"
      BY <1>1, <1>6 DEF Probe
    <2> DEFINE n == llm[c].tries + 1
               r == [llm[c] EXCEPT !.state = "asking", !.tries = n]
               e == [llm[c] EXCEPT !.checks = @ + 1]
    <2>1. r.state # "streaming" /\ e.state # "streaming"
      BY <2>0 DEF ModelRequests
    <2>2. \/ llm' = [llm EXCEPT ![c] = r] /\ UNCHANGED <<chat, sent>>
          \/ llm' = [llm EXCEPT ![c] = e] /\ UNCHANGED <<chat, sent>>
          \/ Fails(c)
          \/ UNCHANGED <<llm, chat, sent>>
      BY <1>6 DEF Probe
    <2> HIDE DEF r, e
    <2> QED
      BY <1>2, <1>3, <1>4, <2>0, <2>1, <2>2
  <1>7. ASSUME NEW c \in Clients, HttpError(c) PROVE Still
    BY <1>3, <1>7 DEF HttpError, Asking
  <1>8. CASE Drops
    <2>1. llm["chat"] \in ModelRequests /\ llm["chat"].state = "streaming"
      BY <1>1, <1>8 DEF Drops
    <2>2. CASE Resumable
      <3> DEFINE r == [llm["chat"] EXCEPT !.state = "recovering", !.checks = 0, !.parts = 0]
      <3>1. llm' = [llm EXCEPT !["chat"] = r] /\ UNCHANGED <<chat, sent>>
        BY <1>8, <2>2 DEF Drops
      <3>2. r.state = "recovering"
        BY <2>1 DEF ModelRequests
      <3> HIDE DEF r
      <3>3. llm'["chat"].state = "recovering"
        BY <1>1, <3>1, <3>2
      <3> QED
        BY <2>1, <2>2, <3>1, <3>3 DEF Resumable
    <2>3. CASE ~Resumable
      <3>1. Fails("chat") /\ chat.phase # "planning"
        BY <1>8, <2>1, <2>3 DEF Drops, AskedFor
      <3>2. llm'["chat"] = NoRequest /\ Ends("error")
        BY <1>1, <3>1 DEF Fails
      <3> QED
        BY <1>1, <2>1, <3>2 DEF Ends, Broken, NoRequest, Chats, Streams
    <2> QED
      BY <2>2, <2>3
  <1>9. CASE Disconnect
    <2>1. CASE chat.phase = "accepted" /\ llm["chat"].state = "none"
      <3>1. chat' = [chat EXCEPT !.phase = "ended"] /\ sent' = [sent EXCEPT !.end = "gone"] /\ UNCHANGED llm
        BY <1>9, <2>1 DEF Disconnect
      <3> QED
        BY <1>1, <3>1 DEF Still, Chats, Streams
    <2>2. CASE ~(chat.phase = "accepted" /\ llm["chat"].state = "none")
      <3>1. /\ chat' = [chat EXCEPT !.phase = "ended"] /\ sent' = [sent EXCEPT !.end = "gone"]
            /\ llm' = [llm EXCEPT !["chat"] = NoRequest]
        BY <1>9, <2>2 DEF Disconnect, Ends
      <3>2. llm'["chat"].state = "none"
        BY <1>1, <3>1 DEF NoRequest
      <3>3. chat'.phase = "ended" /\ chat'.carry = chat.carry /\ chat'.left = chat.left
            /\ sent'.answer = sent.answer /\ sent'.end = "gone"
        BY <1>1, <3>1 DEF Chats, Streams
      <3> QED
        BY <3>2, <3>3 DEF Still, Broken
    <2> QED
      BY <2>1, <2>2
  <1>10. CASE SearchFails
    <2>1. chat' = [chat EXCEPT !.phase = "ended"] /\ sent' = [sent EXCEPT !.end = "error"] /\ UNCHANGED llm
      BY <1>10 DEF SearchFails, Ends
    <2> QED
      BY <1>1, <2>1 DEF Still, Chats, Streams
  <1>11. CASE AskModel
    <2> DEFINE r == [llm["chat"] EXCEPT !.state = "asking"]
    <2>1. llm["chat"] \in ModelRequests /\ llm["chat"].state = "none"
      BY <1>1, <1>11 DEF AskModel
    <2>2. r.state # "streaming"
      BY <2>1 DEF ModelRequests
    <2>3. llm' = [llm EXCEPT !["chat"] = r] /\ UNCHANGED <<chat, sent>>
      BY <1>11 DEF AskModel
    <2> HIDE DEF r
    <2> QED
      BY <1>1, <1>4, <2>1, <2>2, <2>3
  <1>12. CASE Followup \/ FollowupAnswered
    <2>1. UNCHANGED <<chat, sent>> /\ \E r : llm' = [llm EXCEPT !["followup"] = r]
      BY <1>12 DEF Followup, FollowupAnswered
    <2>2. llm'["chat"] = llm["chat"]
      BY <1>1, <2>1
    <2> QED
      BY <2>1, <2>2 DEF Still
  <1>13. CASE Planned
    <2>1. llm["chat"].state = "asking" /\ UNCHANGED sent /\ llm'["chat"].state = "none"
      BY <1>1, <1>13 DEF Planned, Answered, Asking, NoRequest
    <2>2. chat.phase = "planning" /\ chat'.carry = chat.carry
      BY <1>1, <1>13 DEF Planned, Answered, Chats
    <2> QED
      BY <2>1, <2>2 DEF Still
  <1>14. CASE Responds
    <2>1. llm["chat"].state = "asking" /\ UNCHANGED sent /\ llm'["chat"].state = "none"
      BY <1>1, <1>14 DEF Responds, Answered, Asking, NoRequest
    <2>2. chat.phase = "round" /\ chat'.carry = chat.carry
      BY <1>1, <1>14 DEF Responds, Answered, Chats
    <2> QED
      BY <2>1, <2>2 DEF Still
  <1>15. CASE Request \/ Start \/ Prefetch \/ RoundOver \/ OutOfRounds \/ Closes
    <2>1. UNCHANGED <<llm, sent>> /\ chat.phase # "ended"
      BY <1>15 DEF Request, Start, Prefetch, RoundOver, OutOfRounds, Closes
    <2>2. chat'.carry = chat.carry
      BY <1>1, <1>15 DEF Request, Start, Prefetch, RoundOver, OutOfRounds, Closes, Chats
    <2> QED
      BY <1>2, <2>1, <2>2
  <1>16. ASSUME Prefetched \/ Forced \/ Skip \/ RunLocal \/ RunWeb \/ RunUnknown,
                sent'.answer = sent.answer, sent'.end = sent.end
         PROVE  Still
    <2>1. UNCHANGED llm /\ chat.phase # "ended"
      BY <1>16 DEF Prefetched, Forced, Skip, RunLocal, RunWeb, RunUnknown, Runs
    <2>2. chat'.carry = chat.carry
      BY <1>1, <1>16 DEF Prefetched, Forced, Skip, RunLocal, RunWeb, RunUnknown, Runs, Chats
    <2> QED
      BY <1>16, <2>1, <2>2 DEF Still
  <1>17. ASSUME NEW before, NEW of, NEW found, AppendLocal(before, of, found)
         PROVE  sent'.answer = sent.answer /\ sent'.end = sent.end
    <2>1. \E s : sent' = [sent EXCEPT !.sources = s]
      BY <1>17 DEF AppendLocal
    <2> QED
      BY <1>1, <2>1 DEF Streams
  <1>18. CASE Prefetched \/ Forced \/ RunLocal
    <2>1. \E before, of, found : AppendLocal(before, of, found)
      BY <1>18 DEF Prefetched, Forced, RunLocal
    <2> QED
      BY <1>16, <1>17, <1>18, <2>1
  <1>19. CASE Skip \/ RunWeb \/ RunUnknown
    <2>1. UNCHANGED sent \/ \E s : sent' = [sent EXCEPT !.sources = s]
      BY <1>19 DEF Skip, RunWeb, RunUnknown
    <2>2. sent'.answer = sent.answer /\ sent'.end = sent.end
      BY <1>1, <2>1 DEF Streams
    <2> QED
      BY <1>16, <1>19, <2>2
  <1>20. CASE \E h \in Hosts : Switch(h)
    BY <1>2, <1>20 DEF Switch
  <1>21. CASE UNCHANGED chatVars
    BY <1>2, <1>21 DEF chatVars
  <1> QED
    BY <1>5, <1>6, <1>7, <1>8, <1>9, <1>10, <1>11, <1>12, <1>13, <1>14, <1>15, <1>18, <1>19, <1>20, <1>21
    DEF ChatNext, Generator

\* What was searched stays searched, and what ended stays ended.
LEMMA Stays ==
    ASSUME ChatTyped, [ChatNext]_chatVars
    PROVE  /\ chat.searched => chat'.searched
           /\ chat.phase = "ended" => chat'.phase = "ended"
  <1>1. chat \in Chats /\ Goes
    BY ChatGoes DEF ChatTyped
  <1>2. CASE chat.phase = "prefetch" /\ Prefetched
    BY <1>1, <1>2 DEF Prefetched, Chats
  <1>3. CASE chat.phase = "calls" /\ RunLocal
    <2>1. chat' = [chat EXCEPT !.todo = Tail(@), !.used = @ + 1, !.searched = @ \/ "local" = "local"]
      BY <1>3 DEF RunLocal, Runs
    <2>2. chat'.searched
      BY <1>1, <2>1 DEF Chats
    <2> QED
      BY <1>3, <2>2
  <1> QED
    BY <1>1, <1>2, <1>3 DEF Goes, Kept, Early

\* What the browser has is of its kind.
LEMMA SentStaysTyped ==
    ASSUME ChatTyped, AskedFor, PromptInv, Converses, [ChatNext]_chatVars
    PROVE  sent' \in Streams
  <1>1. sent \in Streams /\ chat \in Chats /\ llm \in [Clients -> ModelRequests]
    BY DEF ChatTyped
  <1>2. ASSUME NEW how \in {"error", "gone", "done"}, sent' = [sent EXCEPT !.end = how]
        PROVE  sent' \in Streams
    BY <1>1, <1>2 DEF Streams
  <1>3. ASSUME \E s : sent' = [sent EXCEPT !.sources = s]
        PROVE  sent' \in Streams
    <2>1. PICK s : sent' = [sent EXCEPT !.sources = s]
      BY <1>3
    <2>2. s = [local |-> Len(cites'.local), web |-> Len(cites'.web)]
      <3>1. sent'.sources = s
        BY <1>1, <2>1 DEF Streams
      <3> QED
        BY <3>1 DEF Converses
    <2>3. Len(cites'.local) \in Nat /\ Len(cites'.web) \in Nat
      <3>1. cites' \in Registries
        BY DEF Converses, PromptOK
      <3> QED
        BY <3>1 DEF Registries
    <2>4. s \in [local : Nat, web : Nat]
      BY <2>2, <2>3
    <2> QED
      BY <1>1, <2>1, <2>4 DEF Streams
  <1>4. ASSUME NEW more \in Seq(Events), NEW how \in {Unset, "error", "gone", "done"},
               sent' = [sent EXCEPT !.answer = sent.answer \o more, !.end = how]
        PROVE  sent' \in Streams
    <2>1. sent.answer \o more \in Seq(Events)
      BY <1>1, <1>4, JoinIs DEF Streams
    <2> QED
      BY <1>1, <1>4, <2>1 DEF Streams
  <1>5. CASE Part
    <2> DEFINE part == <<[try |-> llm["chat"].tries, part |-> llm["chat"].parts + 1]>>
    <2>1. PICK held \in BOOLEAN :
              sent' = [sent EXCEPT !.answer = @ \o chat.carry \o (IF held THEN <<>> ELSE part)]
      BY <1>5 DEF Part
    <2>2. part \in Seq(Events) /\ <<>> \in Seq(Events)
      <3> DEFINE e == [try |-> llm["chat"].tries, part |-> llm["chat"].parts + 1]
      <3>1. e \in Events
        BY <1>1 DEF ModelRequests, Clients, Events
      <3> HIDE DEF e
      <3>2. <<e>> \in Seq(Events) /\ <<>> \in Seq(Events)
        BY <3>1
      <3> QED
        BY <3>2 DEF e
    <2> DEFINE last == IF held THEN <<>> ELSE part
               joined == sent.answer \o chat.carry \o last
    <2>3. last \in Seq(Events)
      BY <2>2
    <2>4. sent' = [sent EXCEPT !.answer = joined]
      BY <2>1
    <2> HIDE DEF part, last
    <2>5. sent.answer \in Seq(Events) /\ chat.carry \in Seq(Events)
      BY <1>1 DEF Streams, Chats
    <2>6. sent.answer \o chat.carry \in Seq(Events)
      BY <2>5, JoinIs
    <2>7. joined \in Seq(Events)
      BY <2>3, <2>6, JoinIs
    <2> HIDE DEF joined
    <2> QED
      BY <1>1, <2>4, <2>7 DEF Streams
  <1>6. CASE Finishes
    <2> DEFINE how == IF llm["chat"].parts = 0 THEN "error" ELSE "done"
    <2>1. how \in {Unset, "error", "gone", "done"} /\ chat.carry \in Seq(Events)
      BY <1>1 DEF Chats
    <2>2. sent' = [sent EXCEPT !.answer = @ \o chat.carry, !.end = how]
      BY <1>6 DEF Finishes
    <2> HIDE DEF how
    <2>3. sent' = [sent EXCEPT !.answer = sent.answer \o chat.carry, !.end = how]
      BY <2>2
    <2> QED
      BY <1>4, <2>1, <2>3
  <1>7. ASSUME NEW c \in Clients, Fails(c) PROVE sent' \in Streams
    <2>1. Failed
      BY <1>7, FailsIs
    <2> QED
      BY <1>1, <1>2, <2>1 DEF Failed
  <1>8. ASSUME NEW c \in Clients, Lost(c) \/ HttpError(c) \/ Probe(c) PROVE sent' \in Streams
    <2>1. UNCHANGED sent \/ Fails(c)
      BY <1>8 DEF Lost, HttpError, Probe
    <2> QED
      BY <1>1, <1>7, <2>1
  <1>9. CASE Drops
    <2>1. UNCHANGED sent \/ Fails("chat")
      BY <1>9 DEF Drops
    <2> QED
      BY <1>1, <1>7, <2>1 DEF Clients
  <1>10. CASE Disconnect \/ SearchFails
    BY <1>2, <1>10 DEF Disconnect, SearchFails, Ends
  <1>11. CASE Prefetched \/ Forced \/ RunLocal
    <2>1. \E before, of, found : AppendLocal(before, of, found)
      BY <1>11 DEF Prefetched, Forced, RunLocal
    <2> QED
      BY <1>3, <2>1 DEF AppendLocal
  <1>12. CASE RunWeb \/ RunUnknown
    BY <1>3, <1>12 DEF RunWeb, RunUnknown
  <1>13. CASE Request \/ Start \/ AskModel \/ Planned \/ Prefetch \/ Responds \/ Skip
    BY <1>1, <1>13 DEF Request, Start, AskModel, Planned, Prefetch, Responds, Skip
  <1>14. CASE RoundOver \/ OutOfRounds \/ Closes \/ StreamOpens \/ Followup \/ FollowupAnswered
    BY <1>1, <1>14 DEF RoundOver, OutOfRounds, Closes, StreamOpens, Followup, FollowupAnswered
  <1>15. CASE (\E h \in Hosts : Switch(h)) \/ UNCHANGED chatVars
    BY <1>1, <1>15 DEF Switch, chatVars
  <1> QED
    BY <1>5, <1>6, <1>8, <1>9, <1>10, <1>11, <1>12, <1>13, <1>14, <1>15 DEF ChatNext, Generator

\* A step keeps everything of its kind.
LEMMA ChatTypedSteps ==
    ASSUME ChatTyped, AskedFor, PromptInv, Converses, [ChatNext]_chatVars
    PROVE  ChatTyped'
  <1>1. chat' \in Chats /\ sent' \in Streams
    BY ChatStaysTyped, SentStaysTyped
  <1>2. llm' \in [Clients -> ModelRequests] /\ host' \in Nets
    BY LlmTyped, HostStaysTyped
  <1>3. backend' = backend /\ queries' \in Nat /\ tally' \in [faults : Nat, switches : Nat, followups : Nat]
    BY BackendStays, AllCount DEF Counts, Counters
  <1> QED
    BY <1>1, <1>2, <1>3 DEF ChatTyped

\* A request that streams no more has no events.
LEMMA PartsSteps ==
    ASSUME ChatTyped, Streamed, [ChatNext]_chatVars
    PROVE  llm'["chat"].state # "streaming" => llm'["chat"].parts = 0
  <1>1. Turns("chat")
    BY AllTurn DEF Clients
  <1> QED
    BY <1>1 DEF Turns, Streamed, NoRequest

\* The chat that streams has not ended.
LEMMA StreamingIs ==
    ASSUME AskedFor, llm["chat"].state = "streaming"
    PROVE  chat.phase = "answer"
  BY DEF AskedFor

\* An event of the stream is the next of its attempt.
LEMMA PartSteps ==
    ASSUME ChatTyped, AskedFor, Rounds, Streamed, Part
    PROVE  /\ OneTry(sent'.answer \o chat'.carry, llm'["chat"].tries)
           /\ Len(sent'.answer \o chat'.carry) = llm'["chat"].parts
           /\ OneTry(sent'.answer, llm'["chat"].tries)
           /\ llm'["chat"].state = "streaming" /\ sent'.end = sent.end /\ chat'.phase = "answer"
           /\ chat'.searched
  <1> DEFINE try == llm["chat"].tries
             n == llm["chat"].parts
             part == <<[try |-> try, part |-> n + 1]>>
             all == sent.answer \o chat.carry
  <1>1. /\ chat \in Chats /\ sent \in Streams /\ llm["chat"] \in ModelRequests
        /\ llm \in [Clients -> ModelRequests] /\ "chat" \in Clients
    BY DEF ChatTyped, Clients
  <1>2. sent.answer \in Seq(Events) /\ chat.carry \in Seq(Events) /\ try \in Nat /\ n \in Nat
    BY <1>1 DEF Streams, Chats, ModelRequests
  <1>3. llm["chat"].state = "streaming"
    BY DEF Part, Streaming
  <1>4. OneTry(all, try) /\ Len(all) = n /\ chat.phase = "answer" /\ chat.searched
    BY <1>3, StreamingIs DEF Streamed, Rounds
  <1>5. PICK held \in BOOLEAN :
            /\ chat' = [chat EXCEPT !.carry = IF held THEN part ELSE <<>>]
            /\ sent' = [sent EXCEPT !.answer = @ \o chat.carry \o (IF held THEN <<>> ELSE part)]
    BY DEF Part
  <1>6. llm'["chat"].tries = try /\ llm'["chat"].parts = n + 1 /\ llm'["chat"].state = "streaming"
    <2>1. llm' = [llm EXCEPT !["chat"].parts = @ + 1]
      BY DEF Part
    <2> QED
      BY <1>1, <1>3, <2>1 DEF ModelRequests
  <1> HIDE DEF try, n
  <1>7. all \in Seq(Events)
    BY <1>2, JoinIs
  <1> HIDE DEF all
  <1>8. OneTry(all \o part, try) /\ Len(all \o part) = n + 1 /\ part \in Seq(Events)
    BY <1>2, <1>4, <1>7, BeginsMore
  <1> HIDE DEF part
  <1>9. sent'.end = sent.end /\ chat'.phase = "answer" /\ chat'.searched
    BY <1>1, <1>4, <1>5 DEF Streams, Chats
  <1>10. CASE held
    <2>1. chat'.carry = part
      BY <1>1, <1>5, <1>10 DEF Chats
    <2>2. sent'.answer = all \o <<>>
      BY <1>1, <1>5, <1>10 DEF Streams, all
    <2>3. sent'.answer = all
      BY <1>7, <2>2, JoinIs
    <2> QED
      BY <1>4, <1>6, <1>8, <1>9, <2>1, <2>3
  <1>11. CASE ~held
    <2>1. chat'.carry = <<>>
      BY <1>1, <1>5, <1>11 DEF Chats
    <2>2. sent'.answer = all \o part
      BY <1>1, <1>5, <1>11 DEF Streams, all
    <2>3. sent'.answer \o <<>> = all \o part
      BY <1>7, <1>8, <2>2, JoinIs
    <2> QED
      BY <1>6, <1>8, <1>9, <2>1, <2>2, <2>3
  <1> QED
    BY <1>10, <1>11

\* The last event sends what was held back.
LEMMA FinishSteps ==
    ASSUME ChatTyped, AskedFor, Rounds, Streamed, Finishes
    PROVE  /\ OneTry(sent'.answer, llm["chat"].tries) /\ Len(sent'.answer) = chat'.left
           /\ llm'["chat"].state = "none" /\ chat'.phase = "ended" /\ chat'.searched
  <1>1. /\ chat \in Chats /\ sent \in Streams /\ llm \in [Clients -> ModelRequests] /\ "chat" \in Clients
    BY DEF ChatTyped, Clients
  <1>2. llm["chat"].state = "streaming"
    BY DEF Finishes, Streaming
  <1>3. /\ OneTry(sent.answer \o chat.carry, llm["chat"].tries)
        /\ Len(sent.answer \o chat.carry) = llm["chat"].parts /\ chat.searched
    BY <1>2, StreamingIs DEF Streamed, Rounds
  <1>4. llm'["chat"].state = "none"
    BY <1>1 DEF Finishes, NoRequest
  <1>5. chat'.phase = "ended" /\ chat'.searched = chat.searched /\ chat'.left = llm["chat"].parts
    BY <1>1 DEF Finishes, Chats
  <1>6. sent'.answer = sent.answer \o chat.carry
    BY <1>1 DEF Finishes, Streams
  <1> QED
    BY <1>3, <1>4, <1>5, <1>6

\* Nothing begins every attempt.
LEMMA NothingBegins ==
    \A try : OneTry(<<>>, try) /\ OneTry(<<>> \o <<>>, try) /\ Len(<<>> \o <<>>) = 0
  <1>1. <<>> \o <<>> = <<>> /\ Len(<<>>) = 0 /\ DOMAIN <<>> = {}
    OBVIOUS
  <1> QED
    BY <1>1 DEF OneTry

\* What is joined to nothing is nothing.
LEMMA JoinNone ==
    ASSUME NEW T, NEW s \in Seq(T), NEW t \in Seq(T), Len(s \o t) = 0
    PROVE  s = <<>> /\ t = <<>>
  <1>1. Len(s) \in Nat /\ Len(t) \in Nat /\ Len(s) + Len(t) = 0
    BY JoinIs
  <1>2. Len(s) = 0 /\ Len(t) = 0
    BY <1>1
  <1> QED
    BY <1>2

\* A step leaves what the browser has of the answer as it should be.
LEMMA StreamedSteps ==
    ASSUME ChatTyped, AskedFor, Rounds, Streamed, [ChatNext]_chatVars
    PROVE  Streamed'
  <1>1. /\ chat \in Chats /\ sent \in Streams /\ llm \in [Clients -> ModelRequests] /\ "chat" \in Clients
    BY DEF ChatTyped, Clients
  <1>2. llm'["chat"].state # "streaming" => llm'["chat"].parts = 0
    BY PartsSteps
  <1>3. /\ chat.searched => chat'.searched
        /\ chat.phase = "ended" => chat'.phase = "ended"
    BY Stays
  <1>4. CASE Still
    <2>1. /\ llm'["chat"].state = "streaming" =>
                 /\ OneTry(sent'.answer \o chat'.carry, llm'["chat"].tries)
                 /\ Len(sent'.answer \o chat'.carry) = llm'["chat"].parts
      BY <1>4 DEF Still, Streamed
    <2>2. llm'["chat"].state # "streaming" /\ chat'.phase # "ended" => sent'.answer = <<>> /\ chat'.carry = <<>>
      BY <1>3, <1>4 DEF Still, Streamed
    <2>3. OneTry(sent'.answer, sent'.answer[1].try) /\ (sent'.answer # <<>> => chat'.searched)
      BY <1>3, <1>4 DEF Still, Streamed
    <2>4. sent'.end = "done" => chat'.phase = "ended" /\ Len(sent'.answer) = chat'.left
      BY <1>3, <1>4 DEF Still, Streamed
    <2> QED
      BY <1>2, <2>1, <2>2, <2>3, <2>4 DEF Streamed
  <1>5. CASE Part
    <2>1. /\ OneTry(sent'.answer \o chat'.carry, llm'["chat"].tries)
          /\ Len(sent'.answer \o chat'.carry) = llm'["chat"].parts
          /\ OneTry(sent'.answer, llm'["chat"].tries)
          /\ llm'["chat"].state = "streaming" /\ sent'.end = sent.end /\ chat'.phase = "answer"
          /\ chat'.searched
      BY <1>5, PartSteps
    <2>2. sent'.answer \in Seq(Events)
      <3>1. PICK held \in BOOLEAN, part \in {[try |-> llm["chat"].tries, part |-> llm["chat"].parts + 1]} :
                sent' = [sent EXCEPT !.answer = @ \o chat.carry \o (IF held THEN <<>> ELSE <<part>>)]
        BY <1>5 DEF Part
      <3>2. part \in Events
        BY <1>1, <3>1 DEF ModelRequests, Events
      <3>3. sent.answer \o chat.carry \in Seq(Events)
        BY <1>1, JoinIs DEF Streams, Chats
      <3>4. (IF held THEN <<>> ELSE <<part>>) \in Seq(Events)
        BY <3>2
      <3>5. sent'.answer = sent.answer \o chat.carry \o (IF held THEN <<>> ELSE <<part>>)
        BY <1>1, <3>1 DEF Streams
      <3> QED
        BY <3>3, <3>4, <3>5, JoinIs
    <2>3. OneTry(sent'.answer, sent'.answer[1].try)
      BY <2>1, <2>2, BeginsOwn
    <2>4. sent'.end # "done"
      <3>1. llm["chat"].state = "streaming"
        BY <1>5 DEF Part, Streaming
      <3> QED
        BY <2>1, <3>1, StreamingIs DEF Streamed
    <2> QED
      BY <1>2, <2>1, <2>3, <2>4 DEF Streamed
  <1>6. CASE StreamOpens
    <2>1. UNCHANGED <<chat, sent>> /\ chat.phase = "answer" /\ llm["chat"].state = "asking"
      BY <1>6 DEF StreamOpens, Asking
    <2>2. llm'["chat"].state = "streaming" /\ llm'["chat"].parts = llm["chat"].parts
      <3>1. llm' = [llm EXCEPT !["chat"].state = "streaming"]
        BY <1>6 DEF StreamOpens
      <3> QED
        BY <1>1, <3>1 DEF ModelRequests
    <2>3. sent.answer = <<>> /\ chat.carry = <<>> /\ llm["chat"].parts = 0 /\ sent.end # "done"
      BY <2>1 DEF Streamed
    <2>4. /\ OneTry(sent'.answer \o chat'.carry, llm'["chat"].tries)
          /\ Len(sent'.answer \o chat'.carry) = llm'["chat"].parts
          /\ OneTry(sent'.answer, sent'.answer[1].try)
      BY <2>1, <2>2, <2>3, NothingBegins
    <2> QED
      BY <1>2, <2>1, <2>2, <2>3, <2>4 DEF Streamed
  <1>7. CASE Finishes
    <2>1. /\ OneTry(sent'.answer, llm["chat"].tries) /\ Len(sent'.answer) = chat'.left
          /\ llm'["chat"].state = "none" /\ chat'.phase = "ended" /\ chat'.searched
      BY <1>7, FinishSteps
    <2>2. sent'.answer \in Seq(Events)
      <3>1. sent'.answer = sent.answer \o chat.carry
        BY <1>1, <1>7 DEF Finishes, Streams
      <3> QED
        BY <1>1, <3>1, JoinIs DEF Streams, Chats
    <2>3. OneTry(sent'.answer, sent'.answer[1].try)
      BY <2>1, <2>2, BeginsOwn
    <2> QED
      BY <1>2, <2>1, <2>3 DEF Streamed
  <1>8. CASE Broken
    <2>1. chat.searched
      BY <1>8, StreamingIs DEF Broken, Rounds
    <2>2. OneTry(sent'.answer, sent'.answer[1].try)
      BY <1>8 DEF Broken, Streamed
    <2> QED
      BY <1>2, <1>3, <1>8, <2>1, <2>2 DEF Broken, Streamed
  <1>9. CASE /\ llm["chat"].state = "streaming" /\ llm["chat"].parts = 0
             /\ llm'["chat"].state = "recovering" /\ UNCHANGED <<chat, sent>>
    <2>1. /\ Len(sent.answer \o chat.carry) = 0
          /\ sent.answer \in Seq(Events) /\ chat.carry \in Seq(Events)
      BY <1>1, <1>9 DEF Streamed, Streams, Chats
    <2>3. sent.answer = <<>> /\ chat.carry = <<>>
      BY <2>1, JoinNone
    <2>4. sent.end # "done"
      BY <1>9, StreamingIs DEF Streamed
    <2>5. sent'.answer = <<>> /\ chat'.carry = <<>> /\ sent'.end # "done"
      BY <1>9, <2>3, <2>4
    <2>6. OneTry(sent'.answer, sent'.answer[1].try)
      BY <2>5, NothingBegins
    <2> QED
      BY <1>2, <1>9, <2>5, <2>6 DEF Streamed
  <1> QED
    BY <1>4, <1>5, <1>6, <1>7, <1>8, <1>9, AllStill

-----------------------------------------------------------------------------
(* The theorems about a chat.                                              *)

\* What holds of a chat in every state, and each step needs.
ChatInv ==
    /\ ChatTyped /\ AskedFor /\ Rounds /\ Counted /\ Informed
    /\ Streamed /\ Replied /\ PromptInv

\* An empty prompt is a good one.
LEMMA PromptBegins ==
    PromptOK(<<>>, [local |-> <<>>, web |-> <<>>])
  <1>1. UsedOf(<<>>) <= Budget
    BY UsedNone, AnsweringBounds
  <1>2. <<>> \in Seq(Messages) /\ <<>> \in Seq(Chunks) /\ <<>> \in Seq(Urls) /\ DOMAIN <<>> = {}
    OBVIOUS
  <1>3. [local |-> <<>>, web |-> <<>>] \in Registries
    BY <1>2 DEF Registries
  <1> QED
    BY <1>1, <1>2, <1>3 DEF PromptOK, LabelsOf, OnceIn, Distinct

\* It holds before the request.
LEMMA ChatBegins ==
    ASSUME ChatInit
    PROVE  ChatInv
  <1>1. /\ chat = [phase |-> "idle", stocked |-> FALSE, round |-> 0, used |-> 0, searched |-> FALSE,
                   left |-> 0, hits |-> {}, todo |-> <<>>, carry |-> <<>>]
        /\ msgs = <<>> /\ cites = [local |-> <<>>, web |-> <<>>]
        /\ sent = [sources |-> [local |-> 0, web |-> 0], answer |-> <<>>, end |-> Unset]
        /\ llm = [c \in Clients |-> NoRequest]
        /\ queries = 0 /\ tally = [faults |-> 0, switches |-> 0, followups |-> 0]
        /\ \E env \in HostEnv : host = [up |-> Hosts, env |-> env, active |-> Unset]
        /\ backend \in Backends
    BY DEF ChatInit
  <1>2. chat.phase = "idle" /\ chat.round = 0 /\ chat.used = 0 /\ chat.searched = FALSE /\ chat.carry = <<>>
    BY <1>1
  <1>3. \A c \in Clients : llm[c] = NoRequest
    BY <1>1
  <1>4. "chat" \in Clients /\ "followup" \in Clients
    BY DEF Clients
  <1>5. ChatTyped
    <2>1. <<>> \in Seq(Tools) /\ <<>> \in Seq(Events)
      OBVIOUS
    <2>2. chat \in Chats
      BY <1>1, <2>1 DEF Chats, Phases
    <2>3. sent \in Streams
      BY <1>1, <2>1 DEF Streams
    <2>4. llm \in [Clients -> ModelRequests]
      BY <1>1, NoRequestIs
    <2>5. host \in Nets /\ backend \in {"soclaas", "ollama"}
      BY <1>1, AnsweringHosts DEF Nets
    <2>6. queries \in Nat /\ tally \in [faults : Nat, switches : Nat, followups : Nat]
      BY <1>1
    <2> QED
      BY <2>2, <2>3, <2>4, <2>5, <2>6 DEF ChatTyped
  <1>6. AskedFor
    BY <1>3, <1>4, AnsweringBounds DEF AskedFor, NoRequest
  <1>7. Rounds
    BY <1>1, <1>2, AnsweringBounds DEF Rounds
  <1>8. Counted
    BY <1>1, <1>2 DEF Counted
  <1>9. Informed
    BY <1>1 DEF Informed
  <1>10. Streamed
    <2>1. sent.answer = <<>> /\ sent.end = Unset
      BY <1>1
    <2>2. OneTry(sent.answer, sent.answer[1].try)
      BY <2>1, NothingBegins
    <2>3. sent.end # "done"
      BY <2>1, AnsweringUnset
    <2> QED
      BY <1>2, <1>3, <1>4, <2>1, <2>2, <2>3 DEF Streamed, NoRequest
  <1>11. Replied
    BY <1>1, <1>2 DEF Replied, CallAnswers, Closed
  <1>12. PromptInv
    BY <1>1, PromptBegins DEF PromptInv
  <1> QED
    BY <1>5, <1>6, <1>7, <1>8, <1>9, <1>10, <1>11, <1>12 DEF ChatInv

\* A step keeps it, and no id is given by a model that gives none.
LEMMA ChatSteps ==
    ASSUME ChatInv, [ChatNext]_chatVars
    PROVE  ChatInv' /\ Converses
  <1>1. Converses
    BY ConversationSteps DEF ChatInv
  <1>2. ChatTyped' /\ AskedFor' /\ Rounds' /\ Counted' /\ Streamed'
    BY <1>1, ChatTypedSteps, AskedForSteps, RoundsSteps, CountedSteps, StreamedSteps DEF ChatInv
  <1>3. Informed' /\ Replied' /\ PromptInv'
    BY <1>1 DEF Converses, Informed, Replied, PromptInv
  <1> QED
    BY <1>1, <1>2, <1>3 DEF ChatInv

\* So it holds in every state of the chat.
THEOREM ChatInvariant == ChatSpec => []ChatInv
  <1>1. ChatInit => ChatInv
    BY ChatBegins
  <1>2. ChatInv /\ [ChatNext]_chatVars => ChatInv'
    BY ChatSteps
  <1> QED
    BY <1>1, <1>2, PTL DEF ChatSpec

\* A place of the prompt is a block of a result.
LEMMA PlaceIs ==
    ASSUME PromptInv, NEW p \in Places
    PROVE  /\ p = <<p[1], p[2]>>
           /\ p[1] \in DOMAIN msgs /\ msgs[p[1]].role = "tool"
           /\ p[2] \in DOMAIN msgs[p[1]].shown /\ Block(p) \in Shows
  <1>1. PICK i \in Results : p \in {<<i, k>> : k \in DOMAIN msgs[i].shown}
    BY DEF Places
  <1>2. PICK k \in DOMAIN msgs[i].shown : p = <<i, k>>
    BY <1>1
  <1>3. p[1] = i /\ p[2] = k /\ i \in DOMAIN msgs /\ msgs[i].role = "tool"
    BY <1>2 DEF Results
  <1>4. msgs[i].shown \in Seq(Shows)
    <2>1. msgs[i] \in Messages
      BY <1>3 DEF PromptInv, PromptOK
    <2> QED
      BY <1>3, <2>1, MessageIs
  <1>5. msgs[i].shown[k] \in Shows
    BY <1>4
  <1> QED
    BY <1>2, <1>3, <1>5 DEF Block

\* The context of a chat is sound: labels agree, no chunk is shown twice, and it fits
\* the budget.
THEOREM SoundContext == ChatSpec => []ContextSound
  <1>1. ASSUME ChatInv PROVE ContextSound
    <2>1. /\ chat \in Chats /\ host \in Nets /\ queries \in Nat /\ llm \in [Clients -> ModelRequests]
          /\ tally \in [faults : Nat, switches : Nat, followups : Nat]
      BY <1>1 DEF ChatInv, ChatTyped
    <2>2. PromptOK(msgs, cites) /\ PromptInv
      BY <1>1 DEF ChatInv, PromptInv
    <2>3. cites.local \in Seq(Chunks) /\ cites.web \in Seq(Urls) /\ Distinct(cites.local) /\ Distinct(cites.web)
      BY <2>2 DEF PromptOK, Registries
    <2>4. ChatTypeOK
      <3>1. /\ chat.used \in Nat /\ chat.round \in Nat /\ host.up \subseteq Hosts
            /\ tally.followups \in Nat
        BY <2>1 DEF Chats, Nets
      <3>2. /\ chat.used <= MaxCalls + 1 /\ chat.round <= MaxRounds /\ MaxCalls \in Nat /\ MaxRounds \in Nat
        BY <1>1, AnsweringBounds DEF ChatInv, Rounds
      <3>3. queries <= 2
        BY <1>1, <2>1, <3>1 DEF ChatInv, Counted
      <3>4. \A c \in Clients : llm[c].tries <= IF backend = "ollama" THEN Retries ELSE Attempts
        BY <1>1 DEF ChatInv, AskedFor
      <3> QED
        BY <2>1, <2>3, <3>1, <3>2, <3>3, <3>4 DEF ChatTypeOK
    <2>5. LabelsAgree
      <3>1. ASSUME NEW p \in Places
            PROVE  LET b == Block(p) IN
                   /\ b.label \in DOMAIN cites[b.kind] /\ cites[b.kind][b.label] = b.item
                   /\ b.label <= sent.sources[b.kind]
        <4> DEFINE b == Block(p)
        <4>1. b \in Shows /\ b = msgs[p[1]].shown[p[2]]
          BY <2>2, PlaceIs DEF Block
        <4>2. b.label \in DOMAIN cites[b.kind] /\ cites[b.kind][b.label] = b.item
          BY <2>2, PlaceIs, <4>1 DEF PromptOK, LabelsOf
        <4>3. b.kind \in {"local", "web"} /\ b.label \in Nat
          BY <4>1 DEF Shows
        <4>4. sent.sources = [local |-> Len(cites.local), web |-> Len(cites.web)]
          BY <1>1 DEF ChatInv, Informed
        <4>5. b.label <= Len(cites[b.kind])
          BY <2>3, <4>2, <4>3
        <4>6. sent.sources[b.kind] = Len(cites[b.kind])
          BY <4>3, <4>4
        <4> QED
          BY <4>2, <4>5, <4>6
      <3> QED
        BY <2>3, <3>1 DEF LabelsAgree, Distinct
    <2>6. ShownOnce
      <3>1. ASSUME NEW p \in Places, NEW q \in Places, Block(p).kind = "local", Block(q).kind = "local",
                   Block(p).item = Block(q).item
            PROVE  p = q
        <4>1. p[1] = q[1] /\ p[2] = q[2]
          BY <2>2, <3>1, PlaceIs DEF Block, PromptOK, OnceIn
        <4> QED
          BY <2>2, <4>1, PlaceIs
      <3> QED
        BY <3>1 DEF ShownOnce
    <2>7. WithinBudget
      BY <2>2, RoomIs DEF WithinBudget, PromptOK
    <2> QED
      BY <2>4, <2>5, <2>6, <2>7 DEF ContextSound
  <1> QED
    BY <1>1, ChatInvariant, PTL

\* The browser reads one attempt of the answer from its beginning, and nothing of it
\* before a local search.
THEOREM WholeAnswer == ChatSpec => []AnswerWhole
  <1>1. ASSUME ChatInv PROVE AnswerWhole
    <2>1. OneTry(sent.answer, sent.answer[1].try)
      BY <1>1 DEF ChatInv, Streamed
    <2>2. sent.end = "done" => Len(sent.answer) = chat.left
      BY <1>1 DEF ChatInv, Streamed
    <2>3. sent.answer # <<>> => \E i \in Results : msgs[i].name = "local"
      BY <1>1 DEF ChatInv, Streamed, Rounds, Results
    <2> QED
      BY <2>1, <2>2, <2>3 DEF AnswerWhole, OneTry
  <1> QED
    BY <1>1, ChatInvariant, PTL

\* A request that is recovering changes only when its hosts are probed.
LEMMA OnlyProbes ==
    ASSUME ChatTyped, [ChatNext]_chatVars, NEW c \in Clients, llm[c].state = "recovering"
    PROVE  llm'[c] = llm[c] \/ Probe(c)
  <1> USE DEF At, Asking, Streaming
  <1>1. llm \in [Clients -> ModelRequests] /\ "chat" \in Clients /\ "followup" \in Clients
    BY DEF ChatTyped, Clients
  <1>2. ASSUME NEW d \in Clients, d # c, \E r : llm' = [llm EXCEPT ![d] = r]
        PROVE  llm'[c] = llm[c]
    BY <1>1, <1>2
  <1>3. ASSUME NEW d \in Clients, Lost(d) \/ HttpError(d) PROVE llm'[c] = llm[c]
    <2>1. d # c
      BY <1>3 DEF Lost, HttpError
    <2>2. \E r : llm' = [llm EXCEPT ![d] = r]
      BY <1>3 DEF Lost, HttpError, Fails
    <2> QED
      BY <1>2, <2>1, <2>2
  <1>4. ASSUME NEW d \in Clients, Probe(d), d # c PROVE llm'[c] = llm[c]
    <2>1. UNCHANGED llm \/ \E r : llm' = [llm EXCEPT ![d] = r]
      BY <1>4 DEF Probe, Fails
    <2> QED
      BY <1>2, <1>4, <2>1
  <1>5. CASE Planned \/ Responds \/ StreamOpens \/ Part \/ Drops \/ Finishes
    <2>1. llm["chat"].state \in {"asking", "streaming"}
      BY <1>5 DEF Planned, Responds, StreamOpens, Part, Drops, Finishes, Answered
    <2>2. \E r : llm' = [llm EXCEPT !["chat"] = r]
      BY <1>5 DEF Planned, Responds, StreamOpens, Part, Drops, Finishes, Answered, Fails
    <2> QED
      BY <1>1, <1>2, <2>1, <2>2
  <1>6. CASE FollowupAnswered \/ Followup
    <2>1. llm["followup"].state # "recovering"
      BY <1>6 DEF FollowupAnswered, Followup
    <2>2. \E r : llm' = [llm EXCEPT !["followup"] = r]
      BY <1>6 DEF FollowupAnswered, Followup
    <2> QED
      BY <1>1, <1>2, <2>1, <2>2
  <1>7. CASE AskModel
    <2>1. llm["chat"].state = "none" /\ \E r : llm' = [llm EXCEPT !["chat"] = r]
      BY <1>7 DEF AskModel
    <2> QED
      BY <1>1, <1>2, <2>1
  <1>8. CASE Disconnect
    <2>1. UNCHANGED llm \/ (llm["chat"].state \in {"none", "streaming"} /\ \E r : llm' = [llm EXCEPT !["chat"] = r])
      BY <1>8 DEF Disconnect
    <2> QED
      BY <1>1, <1>2, <2>1
  <1>9. CASE Request \/ Start \/ Prefetch \/ Prefetched \/ Skip \/ RunLocal \/ RunWeb \/ RunUnknown
    BY <1>9 DEF Request, Start, Prefetch, Prefetched, Skip, RunLocal, RunWeb, RunUnknown, Runs
  <1>10. CASE RoundOver \/ OutOfRounds \/ Forced \/ Closes \/ SearchFails
    BY <1>10 DEF RoundOver, OutOfRounds, Forced, Closes, SearchFails
  <1>11. CASE (\E h \in Hosts : Switch(h)) \/ UNCHANGED chatVars
    BY <1>11 DEF Switch, chatVars
  <1> QED
    BY <1>3, <1>4, <1>5, <1>6, <1>7, <1>8, <1>9, <1>10, <1>11 DEF ChatNext, Generator

\* Every host of the configuration is a candidate.
LEMMA ConfiguredIs ==
    Configured \subseteq ToSet(Candidates)
  <1> DEFINE first == IF host.env # Unset THEN host.env ELSE Primary
  <1> SUFFICES ASSUME NEW h \in Configured PROVE \E i \in DOMAIN Candidates : Candidates[i] = h
    BY DEF ToSet
  <1>1. Len(Listed) \in Nat /\ DOMAIN Listed = 1..Len(Listed)
    BY AnsweringHosts
  <1>2. /\ DOMAIN Candidates = 1..Len(Listed) + 1 /\ Candidates[1] = first
        /\ \A i \in DOMAIN Listed : Candidates[i + 1] = Listed[i]
    <2> HIDE DEF first
    <2>1. Len(<<first>>) = 1 /\ DOMAIN <<first>> = 1..1 /\ <<first>>[1] = first
      OBVIOUS
    <2>2. Candidates = <<first>> \o Listed
      BY DEF Candidates, first
    <2>3. Listed \in Seq(Hosts \cup {first}) /\ <<first>> \in Seq(Hosts \cup {first})
      BY AnsweringHosts, <2>1
    <2> QED
      BY <2>1, <2>2, <2>3, <1>1
  <1>3. CASE h \in ToSet(Listed)
    <2>1. PICK i \in DOMAIN Listed : Listed[i] = h
      BY <1>3 DEF ToSet
    <2> QED
      BY <1>1, <1>2, <2>1
  <1>4. CASE h \notin ToSet(Listed)
    <2>1. host.env = Unset /\ h = Primary
      BY <1>4 DEF Configured
    <2> QED
      BY <1>1, <1>2, <2>1
  <1> QED
    BY <1>3, <1>4

\* While a request is recovering its search goes by every host of the configuration, and
\* no host that was asked in vain in this round has been up since the round began.
AsSearch(s) == s = [list |-> s.list, asked |-> s.asked, steady |-> s.steady]
InOrder(c) ==
    /\ Configured \subseteq ToSet(search[c].list)
    /\ search[c].steady \subseteq host.up
    /\ search[c].asked \cap search[c].steady = {}
SearchInv ==
    /\ search = [c \in Clients |-> search[c]]
    /\ \A c \in Clients : AsSearch(search[c])
    /\ \A c \in Clients : llm[c].state = "recovering" => InOrder(c)

\* A search that begins is in order.
LEMMA SearchStarts ==
    ASSUME SearchInv, NEW c \in Clients, SearchBegins(c), UNCHANGED host
    PROVE  /\ search' = [d \in Clients |-> search'[d]] /\ \A d \in Clients : AsSearch(search'[d])
           /\ \A d \in Clients : d # c => search'[d] = search[d]
           /\ InOrder(c)'
  <1> DEFINE fresh == Round(Candidates)
  <1>1. fresh.list = Candidates /\ fresh.asked = {} /\ fresh.steady = host.up /\ AsSearch(fresh)
    BY DEF AsSearch, Round
  <1>2. search' = [search EXCEPT ![c] = fresh]
    BY DEF SearchBegins
  <1>3. Configured' = Configured
    BY DEF Configured
  <1> HIDE DEF fresh
  <1>4. search'[c] = fresh /\ (\A d \in Clients : d # c => search'[d] = search[d])
        /\ search' = [d \in Clients |-> search'[d]]
    BY <1>2 DEF SearchInv
  <1> QED
    BY <1>1, <1>3, <1>4, ConfiguredIs DEF SearchInv, InOrder

\* No step but the loss of a connection begins a search or ends one.
LEMMA SearchesRest ==
    ASSUME ChatTyped, [ChatNext]_chatVars
    PROVE  \/ UNCHANGED net /\ \A c \in Clients : llm'[c].state = "recovering" => llm[c].state = "recovering"
           \/ Drops \/ \E c \in Clients : Lost(c) \/ Probe(c)
           \/ \E h \in Hosts : Switch(h)
  <1> DEFINE Quietly == UNCHANGED net /\ \A c \in Clients :
                         llm'[c].state = "recovering" => llm[c].state = "recovering"
  <1>1. llm \in [Clients -> ModelRequests] /\ "chat" \in Clients /\ "followup" \in Clients
    BY DEF ChatTyped, Clients
  <1>2. ASSUME NEW d \in Clients, NEW r, llm' = [llm EXCEPT ![d] = r], r.state # "recovering", UNCHANGED net
        PROVE  Quietly
    BY <1>1, <1>2
  <1>3. CASE UNCHANGED llm /\ UNCHANGED net
    BY <1>3
  <1>4. ASSUME NEW c \in Clients, HttpError(c) PROVE Quietly
    <2>1. llm' = [llm EXCEPT ![c] = NoRequest] /\ UNCHANGED net
      BY <1>4 DEF HttpError, Fails
    <2> QED
      BY <1>2, <2>1 DEF NoRequest
  <1>5. CASE Planned \/ Responds \/ Finishes \/ FollowupAnswered
    <2>1. \E c \in Clients : llm' = [llm EXCEPT ![c] = NoRequest] /\ UNCHANGED net
      BY <1>1, <1>5 DEF Planned, Responds, Finishes, FollowupAnswered, Answered
    <2> QED
      BY <1>2, <2>1 DEF NoRequest
  <1>6. CASE Disconnect
    <2>1. UNCHANGED net /\ (UNCHANGED llm \/ llm' = [llm EXCEPT !["chat"] = NoRequest])
      BY <1>6 DEF Disconnect
    <2> QED
      BY <1>1, <1>2, <1>3, <2>1 DEF NoRequest
  <1>7. CASE AskModel \/ StreamOpens \/ Followup \/ Part
    <2> DEFINE With(c, s) == [llm[c] EXCEPT !.state = s]
               more == [llm["chat"] EXCEPT !.parts = @ + 1]
    <2>1. \A c \in Clients, s \in {"asking", "streaming"} : With(c, s).state # "recovering"
      BY <1>1 DEF ModelRequests
    <2>2. Part => more.state # "recovering"
      BY <1>1 DEF ModelRequests, Part, Streaming
    <2>3. /\ UNCHANGED net
          /\ \/ \E c \in Clients, s \in {"asking", "streaming"} : llm' = [llm EXCEPT ![c] = With(c, s)]
             \/ Part /\ llm' = [llm EXCEPT !["chat"] = more]
      BY <1>1, <1>7 DEF AskModel, StreamOpens, Followup, Part
    <2> HIDE DEF With, more
    <2> QED
      BY <1>1, <1>2, <2>1, <2>2, <2>3
  <1>8. CASE Request \/ Start \/ Prefetch \/ Prefetched \/ Skip \/ RunLocal \/ RunWeb \/ RunUnknown
    BY <1>3, <1>8 DEF Request, Start, Prefetch, Prefetched, Skip, RunLocal, RunWeb, RunUnknown
  <1>9. CASE RoundOver \/ OutOfRounds \/ Forced \/ Closes \/ SearchFails
    BY <1>3, <1>9 DEF RoundOver, OutOfRounds, Forced, Closes, SearchFails
  <1>10. CASE UNCHANGED chatVars
    BY <1>3, <1>10 DEF chatVars
  <1> QED
    BY <1>4, <1>5, <1>6, <1>7, <1>8, <1>9, <1>10 DEF ChatNext, Generator

\* A probe keeps the other searches, and its own while it goes on.
LEMMA ProbeSearches ==
    ASSUME ChatTyped, SearchInv, NEW c \in Clients, Probe(c)
    PROVE  SearchInv'
  <1> DEFINE h == NextHost(search[c])
             asked == search[c].asked \cup {h}
             next == [search[c] EXCEPT !.asked = asked]
             again == Round(search[c].list)
  <1>1. /\ llm \in [Clients -> ModelRequests] /\ host \in Nets /\ llm[c].state = "recovering"
        /\ search = [d \in Clients |-> search[d]] /\ \A d \in Clients : AsSearch(search[d])
        /\ \A d \in Clients : llm[d].state = "recovering" => InOrder(d)
    BY DEF ChatTyped, SearchInv, Probe
  <1>2. ASSUME NEW r, search' = [search EXCEPT ![c] = r], AsSearch(r),
               UNCHANGED llm \/ \E q : llm' = [llm EXCEPT ![c] = q],
               host'.up = host.up, Configured' \subseteq Configured,
               search'[c] = r /\ llm'[c].state = "recovering" => InOrder(c)'
        PROVE  SearchInv'
    <2>1. /\ search'[c] = r /\ \A d \in Clients : d # c => search'[d] = search[d] /\ llm'[d] = llm[d]
          /\ search' = [d \in Clients |-> search'[d]]
      BY <1>1, <1>2
    <2>2. ASSUME NEW d \in Clients, llm'[d].state = "recovering" PROVE InOrder(d)'
      <3>1. CASE d = c
        BY <1>2, <2>1, <2>2, <3>1
      <3>2. CASE d # c
        BY <1>1, <1>2, <2>1, <2>2, <3>2 DEF InOrder
      <3> QED
        BY <3>1, <3>2
    <2>3. \A d \in Clients : AsSearch(search'[d])
      BY <1>1, <1>2, <2>1
    <2> QED
      BY <2>1, <2>2, <2>3 DEF SearchInv
  <1>3. next.list = search[c].list /\ next.asked = asked /\ next.steady = search[c].steady /\ AsSearch(next)
    <2> HIDE DEF asked
    <2> QED
      BY <1>1 DEF AsSearch
  <1>4. again.list = search[c].list /\ again.asked = {} /\ again.steady = host.up /\ AsSearch(again)
    BY DEF AsSearch, Round
  <1>5. AsSearch(NoSearch)
    BY DEF AsSearch, NoSearch
  <1>6. ASSUME UNCHANGED host PROVE host'.up = host.up /\ Configured' \subseteq Configured
    BY <1>6 DEF Configured
  <1>7. ASSUME Fails(c) PROVE llm' = [llm EXCEPT ![c] = NoRequest] /\ llm'[c].state # "recovering"
    BY <1>1, <1>7 DEF Fails, NoRequest
  <1> HIDE DEF next, again
  <1>8. CASE h \in host.up /\ host' = [host EXCEPT !.active = h, !.env = IF @ # Unset THEN h ELSE Unset]
             /\ search' = [search EXCEPT ![c] = NoSearch]
    <2> DEFINE n == llm[c].tries + 1
               q == [llm[c] EXCEPT !.state = "asking", !.tries = n]
    <2>1. Fails(c) \/ llm' = [llm EXCEPT ![c] = q]
      BY <1>8 DEF Probe
    <2>2. q.state # "recovering"
      BY <1>1 DEF ModelRequests
    <2> HIDE DEF q
    <2>3. llm'[c].state # "recovering" /\ \E x : llm' = [llm EXCEPT ![c] = x]
      BY <1>1, <1>7, <2>1, <2>2
    <2>4. h \in Hosts
      BY <1>1, <1>8 DEF Nets
    <2> HIDE DEF h
    <2>5. host'.up = host.up /\ (host'.env = Unset <=> host.env = Unset)
      BY <1>1, <1>8, <2>4, AnsweringUnset DEF Nets
    <2>6. Configured' \subseteq Configured
      BY <2>5 DEF Configured
    <2> QED
      BY <1>2, <1>5, <1>8, <2>3, <2>5, <2>6
  <1>9. CASE h \notin host.up /\ search' = [search EXCEPT ![c] = next] /\ UNCHANGED <<host, llm>>
    <2>1. ASSUME search'[c] = next PROVE InOrder(c)'
      BY <1>1, <1>3, <1>6, <1>9, <2>1 DEF InOrder
    <2> QED
      BY <1>2, <1>3, <1>6, <1>9, <2>1
  <1>10. CASE search' = [search EXCEPT ![c] = again] /\ UNCHANGED host /\ \E x : llm' = [llm EXCEPT ![c] = x]
    <2>1. ASSUME search'[c] = again PROVE InOrder(c)'
      BY <1>1, <1>4, <1>6, <1>10, <2>1 DEF InOrder
    <2> QED
      BY <1>2, <1>4, <1>6, <1>10, <2>1
  <1>11. CASE search' = [search EXCEPT ![c] = NoSearch] /\ UNCHANGED host /\ Fails(c)
    BY <1>2, <1>5, <1>6, <1>7, <1>11
  <1> QED
    BY <1>8, <1>9, <1>10, <1>11 DEF Probe, next, again

\* A host that comes or goes keeps them.
LEMMA SwitchSearches ==
    ASSUME ChatTyped, SearchInv, NEW x \in Hosts, Switch(x)
    PROVE  SearchInv'
  <1> DEFINE steady(c) == IF llm[c].state = "recovering" /\ search[c].asked = {}
                          THEN host'.up ELSE search[c].steady \cap host'.up
             then(c) == [search[c] EXCEPT !.steady = steady(c)]
  <1>1. /\ host \in Nets /\ search = [d \in Clients |-> search[d]]
        /\ \A d \in Clients : AsSearch(search[d])
        /\ \A d \in Clients : llm[d].state = "recovering" => InOrder(d)
    BY DEF ChatTyped, SearchInv
  <1>2. search' = [c \in Clients |-> then(c)] /\ UNCHANGED llm
        /\ host' = [host EXCEPT !.up = SymDiff(@, {x})]
    BY DEF Switch
  <1>3. Configured' = Configured
    BY <1>1, <1>2 DEF Configured, Nets
  <1>4. ASSUME NEW c \in Clients
        PROVE  /\ search'[c] = then(c) /\ AsSearch(search'[c])
               /\ search'[c].list = search[c].list /\ search'[c].asked = search[c].asked
               /\ search'[c].steady = steady(c)
    <2>1. search'[c] = then(c)
      BY <1>2
    <2> HIDE DEF steady
    <2> QED
      BY <1>1, <2>1 DEF AsSearch
  <1>5. search' = [c \in Clients |-> search'[c]]
    BY <1>2
  <1>6. ASSUME NEW c \in Clients, llm'[c].state = "recovering" PROVE InOrder(c)'
    <2>1. InOrder(c)
      BY <1>1, <1>2, <1>6
    <2>2. search'[c].steady \subseteq host'.up
      BY <1>4
    <2>3. search'[c].asked \cap search'[c].steady = {}
      BY <1>4, <2>1 DEF InOrder
    <2> QED
      BY <1>3, <1>4, <2>1, <2>2, <2>3 DEF InOrder
  <1> QED
    BY <1>4, <1>5, <1>6 DEF SearchInv

\* Every step keeps them.
LEMMA SearchSteps ==
    ASSUME ChatTyped, SearchInv, [ChatNext]_chatVars
    PROVE  SearchInv'
  <1>1. ASSUME UNCHANGED net, \A c \in Clients : llm'[c].state = "recovering" => llm[c].state = "recovering"
        PROVE  SearchInv'
    BY <1>1 DEF net, SearchInv, InOrder, Configured
  <1>2. ASSUME NEW c \in Clients, SearchBegins(c), UNCHANGED host, \E r : llm' = [llm EXCEPT ![c] = r]
        PROVE  SearchInv'
    <2>1. \A d \in Clients : d # c => llm'[d] = llm[d]
      BY <1>2 DEF ChatTyped
    <2>2. /\ search' = [d \in Clients |-> search'[d]] /\ \A d \in Clients : AsSearch(search'[d])
          /\ \A d \in Clients : d # c => search'[d] = search[d]
          /\ InOrder(c)'
      BY <1>2, SearchStarts
    <2>3. ASSUME NEW d \in Clients, d # c, llm'[d].state = "recovering" PROVE InOrder(d)'
      BY <1>2, <2>1, <2>2, <2>3 DEF SearchInv, InOrder, Configured
    <2> QED
      BY <2>2, <2>3 DEF SearchInv
  <1>3. ASSUME NEW c \in Clients, \E r : llm' = [llm EXCEPT ![c] = r], llm'[c].state # "recovering", UNCHANGED <<host, backend, search>>
        PROVE  SearchInv'
    <2>1. \A d \in Clients : llm'[d].state = "recovering" => llm[d].state = "recovering"
      BY <1>3 DEF ChatTyped
    <2> QED
      BY <1>1, <1>3, <2>1 DEF net
  <1>4. ASSUME NEW c \in Clients, Lost(c) PROVE SearchInv'
    <2> DEFINE e == [llm[c] EXCEPT !.tries = @ + 1]
    <2>1. CASE SearchBegins(c) /\ UNCHANGED host /\ \E r : llm' = [llm EXCEPT ![c] = r]
      BY <1>2, <2>1
    <2>2. CASE UNCHANGED <<host, backend, search>> /\ llm' = [llm EXCEPT ![c] = e]
      <3>1. llm[c] \in ModelRequests /\ llm[c].state = "asking"
        BY <1>4 DEF Lost, Asking, ChatTyped
      <3>2. e.state # "recovering"
        BY <3>1 DEF ModelRequests
      <3> HIDE DEF e
      <3>3. llm'[c].state # "recovering"
        BY <2>2, <3>2 DEF ChatTyped
      <3> QED
        BY <1>3, <2>2, <3>3
    <2>3. CASE UNCHANGED <<host, backend, search>> /\ Fails(c)
      <3>1. llm' = [llm EXCEPT ![c] = NoRequest]
        BY <2>3 DEF Fails
      <3>2. llm'[c].state # "recovering"
        BY <3>1 DEF ChatTyped, NoRequest
      <3> QED
        BY <1>3, <2>3, <3>1, <3>2
    <2> QED
      BY <1>4, <2>1, <2>2, <2>3 DEF Lost
  <1>5. CASE Drops
    <2>0. "chat" \in Clients
      BY DEF Clients
    <2>1. CASE SearchBegins("chat") /\ UNCHANGED host /\ \E r : llm' = [llm EXCEPT !["chat"] = r]
      BY <1>2, <2>0, <2>1
    <2>2. CASE UNCHANGED <<host, backend, search>> /\ Fails("chat")
      <3>1. llm' = [llm EXCEPT !["chat"] = NoRequest]
        BY <2>2 DEF Fails
      <3>2. llm'["chat"].state # "recovering"
        BY <2>0, <3>1 DEF ChatTyped, NoRequest
      <3> QED
        BY <1>3, <2>0, <2>2, <3>1, <3>2
    <2> QED
      BY <1>5, <2>1, <2>2 DEF Drops
  <1> QED
    BY <1>1, <1>4, <1>5, ProbeSearches, SwitchSearches, SearchesRest

\* A request is given up as lost only when no host of the configuration has been up
\* throughout the last round of probes, whoever else failed over in the meantime and
\* however the hosts came and went between two of its probes.
THEOREM GivenUpOnlyDown == ChatSpec => GivenUpDown
  <1> DEFINE Given(c) == llm[c].state = "recovering" /\ llm'[c].state = "none" /\ llm[c].tries < Retries =>
                             search[c].steady \cap Configured = {}
  <1>1. ASSUME ChatInv, SearchInv, [ChatNext]_chatVars, NEW c \in Clients,
               llm[c].state = "recovering", llm'[c].state = "none", llm[c].tries < Retries
        PROVE  search[c].steady \cap Configured = {}
    <2> DEFINE h == NextHost(search[c])
               n == llm[c].tries + 1
               r == [llm[c] EXCEPT !.state = "asking", !.tries = n]
               e == [llm[c] EXCEPT !.checks = @ + 1]
    <2>1. ChatTyped /\ llm[c] \in ModelRequests /\ llm \in [Clients -> ModelRequests]
      BY <1>1 DEF ChatInv, ChatTyped
    <2>2. Probe(c)
      BY <1>1, <2>1, OnlyProbes
    <2>3. /\ llm' # [llm EXCEPT ![c] = r] /\ llm' # [llm EXCEPT ![c] = e] /\ llm' # llm
      <3>1. r.state = "asking" /\ e.state = "recovering"
        BY <1>1, <2>1 DEF ModelRequests
      <3> HIDE DEF r, e
      <3> QED
        BY <1>1, <2>1, <3>1
    <2>4. h \notin host.up /\ search[c].asked \cup {h} = ToSet(search[c].list)
      <3> HIDE DEF h
      <3> QED
        BY <1>1, <2>2, <2>3 DEF Probe, h
    <2>5. InOrder(c)
      BY <1>1 DEF SearchInv
    <2> HIDE DEF h
    <2> QED
      BY <2>4, <2>5 DEF InOrder
  <1>2. ChatInv /\ SearchInv /\ [ChatNext]_chatVars => [\A c \in Clients : Given(c)]_chatVars
    BY <1>1
  <1>3. ChatInit => SearchInv
    BY DEF ChatInit, SearchInv, AsSearch, NoSearch, NoRequest
  <1>4. ChatInv /\ SearchInv /\ [ChatNext]_chatVars => SearchInv'
    BY SearchSteps DEF ChatInv
  <1> QED
    BY <1>2, <1>3, <1>4, ChatInvariant, PTL DEF ChatSpec, GivenUpDown

-----------------------------------------------------------------------------
(* The results of a conversation, as a backend is told them.               *)

\* The calls that are asked for, by their places; those that still wait for a result after
\* the first n messages, and the results that are among these, with their calls.
Asked ==
    UNION {{<<i, k>> : k \in DOMAIN msgs[i].calls} :
               i \in {i \in DOMAIN msgs : msgs[i].role = "assistant"}}
Waiting(n) == {p \in Asked : p[1] <= n /\ n < p[1] + p[2]}
Matched(n) == {<<j, msgs[j].of>> : j \in {j \in Results : j <= n}}
After(n) == [pending |-> Waiting(n), pairs |-> Matched(n)]

\* A call by its place.
IsCall(i, k) ==
    /\ i \in 1..Len(msgs) /\ msgs[i].role = "assistant" /\ k \in DOMAIN msgs[i].calls
    /\ Len(msgs[i].calls) \in Nat /\ DOMAIN msgs[i].calls = 1..Len(msgs[i].calls)
    /\ msgs[i].calls[k].name \in Tools

\* A call that is asked for has its place, and each place of a call is one.
LEMMA AskedIs ==
    ASSUME PromptInv
    PROVE  /\ \A p \in Asked : p = <<p[1], p[2]>> /\ IsCall(p[1], p[2])
           /\ \A i \in DOMAIN msgs : msgs[i].role = "assistant" =>
                  \A k \in DOMAIN msgs[i].calls : <<i, k>> \in Asked /\ IsCall(i, k)
           /\ Len(msgs) \in Nat /\ DOMAIN msgs = 1..Len(msgs)
  <1>1. msgs \in Seq(Messages)
    BY DEF PromptInv, PromptOK
  <1>2. Len(msgs) \in Nat /\ DOMAIN msgs = 1..Len(msgs) /\ \A i \in DOMAIN msgs : msgs[i] \in Messages
    BY <1>1
  <1>3. ASSUME NEW i \in DOMAIN msgs, msgs[i].role = "assistant", NEW k \in DOMAIN msgs[i].calls
        PROVE  <<i, k>> \in Asked /\ IsCall(i, k)
    <2>1. msgs[i].calls \in Seq(Calls)
      BY <1>2, <1>3, MessageIs
    <2>2. /\ Len(msgs[i].calls) \in Nat /\ DOMAIN msgs[i].calls = 1..Len(msgs[i].calls)
          /\ msgs[i].calls[k] \in Calls
      BY <1>3, <2>1
    <2> QED
      BY <1>2, <1>3, <2>2 DEF Asked, IsCall, Calls
  <1>4. ASSUME NEW p \in Asked PROVE p = <<p[1], p[2]>> /\ IsCall(p[1], p[2])
    <2>1. PICK i \in DOMAIN msgs : msgs[i].role = "assistant" /\ p \in {<<i, k>> : k \in DOMAIN msgs[i].calls}
      BY <1>4 DEF Asked
    <2>2. PICK k \in DOMAIN msgs[i].calls : p = <<i, k>>
      BY <2>1
    <2>3. p[1] = i /\ p[2] = k
      BY <2>2
    <2> QED
      BY <1>3, <2>1, <2>2, <2>3
  <1> QED
    BY <1>2, <1>3, <1>4

\* A call that gets its result in time has it at its place.
LEMMA AnsweredAt ==
    ASSUME CallAnswers(msgs), NEW i, NEW k, IsCall(i, k), i + k <= Len(msgs),
           DOMAIN msgs = 1..Len(msgs)
    PROVE  msgs[i + k].role = "tool" /\ msgs[i + k].of = <<i, k>>
  BY DEF CallAnswers, IsCall

\* What comes before all others is the earliest.
LEMMA EarliestIs ==
    ASSUME NEW calls, NEW p \in calls, \A q \in calls : p = q \/ Before(p, q),
           \A q \in calls : q[1] \in Nat /\ q[2] \in Nat
    PROVE  Earliest(calls) = p
  <1> DEFINE first(c) == \A q \in calls : c = q \/ Before(c, q)
  <1>1. ASSUME NEW c \in calls, first(c) PROVE c = p
    <2>1. c = p \/ (Before(c, p) /\ Before(p, c))
      BY <1>1
    <2>2. ~(Before(c, p) /\ Before(p, c))
      BY <1>1 DEF Before
    <2> QED
      BY <2>1, <2>2
  <1>2. first(p)
    OBVIOUS
  <1>3. Earliest(calls) = CHOOSE c \in calls : first(c)
    BY DEF Earliest
  <1> HIDE DEF first
  <1> QED
    BY <1>1, <1>2, <1>3

\* No call that waits when a result comes is before the call that it is of.
LEMMA WaitingInOrder ==
    ASSUME PromptInv, CallAnswers(msgs), NEW n \in 1..Len(msgs),
           NEW a, NEW k, IsCall(a, k), a + k = n, NEW q \in Waiting(n - 1)
    PROVE  <<a, k>> = q \/ Before(<<a, k>>, q)
  <1>1. /\ q = <<q[1], q[2]>> /\ IsCall(q[1], q[2]) /\ Len(msgs) \in Nat /\ DOMAIN msgs = 1..Len(msgs)
        /\ q[1] <= n - 1 /\ n - 1 < q[1] + q[2]
    BY AskedIs DEF Waiting
  <1> DEFINE b == q[1]
             l == q[2]
  <1>2. q = <<b, l>> /\ IsCall(b, l) /\ b <= n - 1 /\ n - 1 < b + l
    BY <1>1
  <1> HIDE DEF b, l
  <1>3. a \in Nat /\ k \in Nat \ {0} /\ b \in Nat /\ l \in Nat \ {0}
    BY <1>1, <1>2, SMTT(60) DEF IsCall
  <1>4. a <= b
    <2> SUFFICES ASSUME b < a PROVE FALSE
      BY <1>3
    <2> DEFINE j == a - b
    <2>1. j \in 1..l /\ b + j = a /\ a <= Len(msgs)
      BY <1>1, <1>2, <1>3
    <2> HIDE DEF j
    <2>2. IsCall(b, j)
      <3>1. j \in DOMAIN msgs[b].calls
        <4>1. /\ Len(msgs[b].calls) \in Nat /\ DOMAIN msgs[b].calls = 1..Len(msgs[b].calls)
              /\ l \in DOMAIN msgs[b].calls
          BY <1>2 DEF IsCall
        <4> QED
          BY <1>3, <2>1, <4>1
      <3>2. msgs[b] \in Messages /\ msgs[b].role = "assistant"
        BY <1>1, <1>2 DEF IsCall, PromptInv, PromptOK
      <3> QED
        BY <1>1, <1>2, <3>1, AskedIs DEF IsCall
    <2>3. msgs[a].role = "tool"
      BY <1>1, <2>1, <2>2, AnsweredAt
    <2> QED
      BY <2>3 DEF IsCall
  <1>5. a = b => k <= l
    BY <1>2, <1>3
  <1>6. <<a, k>>[1] = a /\ <<a, k>>[2] = k /\ q[1] = b /\ q[2] = l
    BY DEF b, l
  <1> QED
    BY <1>2, <1>3, <1>4, <1>5, <1>6 DEF Before

\* What waits after one more message.
LEMMA WaitingNext ==
    ASSUME PromptInv, CallAnswers(msgs), NEW n \in 1..Len(msgs)
    PROVE  /\ msgs[n].role = "assistant" =>
                  Waiting(n) = Waiting(n - 1) \cup {<<n, k>> : k \in DOMAIN msgs[n].calls}
           /\ msgs[n].role = "tool" => Waiting(n) = Waiting(n - 1) \ {msgs[n].of}
           /\ msgs[n].role \notin {"assistant", "tool"} => Waiting(n) = Waiting(n - 1)
  <1>1. Len(msgs) \in Nat /\ DOMAIN msgs = 1..Len(msgs)
    BY AskedIs
  <1>2. ASSUME NEW p \in Asked
        PROVE  /\ p = <<p[1], p[2]>> /\ IsCall(p[1], p[2]) /\ p[1] \in Nat /\ p[2] \in Nat \ {0}
               /\ p[1] + p[2] = n => msgs[n].role = "tool" /\ msgs[n].of = p
               /\ p[1] = n => msgs[n].role = "assistant"
    <2>1. p = <<p[1], p[2]>> /\ IsCall(p[1], p[2])
      BY <1>2, AskedIs
    <2>2. p[1] \in Nat /\ p[2] \in Nat \ {0}
      BY <1>1, <2>1 DEF IsCall
    <2>3. p[1] + p[2] = n => msgs[n].role = "tool" /\ msgs[n].of = p
      BY <1>1, <2>1, <2>2, AnsweredAt
    <2> QED
      BY <2>1, <2>2, <2>3 DEF IsCall
  <1>3. ASSUME NEW p \in Asked
        PROVE  p \in Waiting(n) <=> (p[1] = n \/ (p \in Waiting(n - 1) /\ p[1] + p[2] # n))
    <2>1. p[1] \in Nat /\ p[2] \in Nat \ {0}
      BY <1>2
    <2>2. p \in Waiting(n) <=> (p[1] <= n /\ n < p[1] + p[2])
      BY DEF Waiting
    <2>3. p \in Waiting(n - 1) <=> (p[1] <= n - 1 /\ n - 1 < p[1] + p[2])
      BY DEF Waiting
    <2> QED
      BY <1>1, <2>1, <2>2, <2>3
  <1>4. \A m : Waiting(m) \subseteq Asked
    BY DEF Waiting
  <1>5. ASSUME msgs[n].role = "assistant"
        PROVE  Waiting(n) = Waiting(n - 1) \cup {<<n, k>> : k \in DOMAIN msgs[n].calls}
    <2>1. \A k \in DOMAIN msgs[n].calls : <<n, k>> \in Asked /\ <<n, k>>[1] = n
      BY <1>1, <1>5, AskedIs
    <2>2. ASSUME NEW p \in Asked, p[1] = n PROVE p \in {<<n, k>> : k \in DOMAIN msgs[n].calls}
      BY <1>2, <2>2 DEF IsCall
    <2> QED
      BY <1>2, <1>3, <1>4, <1>5, <2>1, <2>2
  <1>6. ASSUME msgs[n].role = "tool" PROVE Waiting(n) = Waiting(n - 1) \ {msgs[n].of}
    <2>1. msgs[n].of[1] + msgs[n].of[2] = n
      BY <1>1, <1>6 DEF CallAnswers, Replies
    <2>2. ASSUME NEW p \in Asked, p = msgs[n].of PROVE p[1] + p[2] = n
      BY <2>1, <2>2
    <2> QED
      BY <1>2, <1>3, <1>4, <1>6, <2>2
  <1>7. ASSUME msgs[n].role \notin {"assistant", "tool"} PROVE Waiting(n) = Waiting(n - 1)
    <2>1. ASSUME NEW p \in Asked PROVE p \in Waiting(n) <=> p \in Waiting(n - 1)
      <3>1. p[1] # n /\ p[1] + p[2] # n
        BY <1>2, <1>7
      <3> QED
        BY <1>3, <3>1
    <2>2. Waiting(n) \subseteq Waiting(n - 1)
      BY <1>4, <2>1
    <2>3. Waiting(n - 1) \subseteq Waiting(n)
      BY <1>4, <2>1
    <2> QED
      BY <2>2, <2>3
  <1> QED
    BY <1>5, <1>6, <1>7

\* The results that are taken after one more message.
LEMMA TakenNext ==
    ASSUME PromptInv, NEW n \in 1..Len(msgs)
    PROVE  Matched(n) = Matched(n - 1) \cup (IF msgs[n].role = "tool" THEN {<<n, msgs[n].of>>} ELSE {})
  <1>1. Len(msgs) \in Nat /\ DOMAIN msgs = 1..Len(msgs)
    BY AskedIs
  <1>2. \A j \in Results : j <= n <=> (j <= n - 1 \/ j = n)
    BY <1>1 DEF Results
  <1>3. n \in Results <=> msgs[n].role = "tool"
    BY <1>1 DEF Results
  <1>4. n <= n
    BY <1>1
  <1> QED
    BY <1>2, <1>3, <1>4 DEF Matched

\* One message more is taken as it should be, when the ids are minted.
LEMMA PairedIs ==
    ASSUME PromptInv, CallAnswers(msgs), Minted(msgs), NEW n \in 1..Len(msgs)
    PROVE  Paired(After(n - 1), n) = After(n)
  <1> DEFINE m == msgs[n]
             state == After(n - 1)
  <1>1. Len(msgs) \in Nat /\ DOMAIN msgs = 1..Len(msgs) /\ m \in Messages
    BY AskedIs DEF PromptInv, PromptOK
  <1>2. state.pending = Waiting(n - 1) /\ state.pairs = Matched(n - 1) /\ state = [pending |-> Waiting(n - 1), pairs |-> Matched(n - 1)]
    BY DEF After
  <1>3. CASE m.role = "assistant"
    <2>1. Paired(state, n) = [state EXCEPT !.pending = @ \cup {<<n, k>> : k \in DOMAIN m.calls}]
      BY <1>3 DEF Paired
    <2>2. Paired(state, n)
              = [pending |-> Waiting(n - 1) \cup {<<n, k>> : k \in DOMAIN m.calls}, pairs |-> Matched(n - 1)]
      BY <1>2, <2>1
    <2>3. Waiting(n) = Waiting(n - 1) \cup {<<n, k>> : k \in DOMAIN m.calls}
      BY <1>3, WaitingNext
    <2>4. Matched(n) = Matched(n - 1)
      BY <1>3, TakenNext
    <2> QED
      BY <2>2, <2>3, <2>4 DEF After
  <1>4. CASE m.role = "user"
    <2>1. Paired(state, n) = state
      BY <1>4 DEF Paired
    <2>2. Waiting(n) = Waiting(n - 1) /\ Matched(n) = Matched(n - 1)
      BY <1>4, WaitingNext, TakenNext
    <2> QED
      BY <1>2, <2>1, <2>2 DEF After
  <1>5. CASE m.role = "tool"
    <2> DEFINE named == {p \in Waiting(n - 1) : msgs[p[1]].calls[p[2]].name = m.name}
               calls == IF named # {} THEN named ELSE Waiting(n - 1)
               call == Earliest(calls)
    <2>1. PICK a, k : m.of = <<a, k>> /\ Replies(msgs, n, a, k)
      <3>1. m.of \in Nat \X Nat
        BY <1>1, <1>5, MessageIs
      <3>2. PICK a \in Nat, k \in Nat : m.of = <<a, k>>
        BY <3>1
      <3>3. m.of[1] = a /\ m.of[2] = k
        BY <3>2
      <3> QED
        BY <1>1, <1>5, <3>2, <3>3 DEF CallAnswers
    <2>2. IsCall(a, k) /\ a + k = n /\ <<a, k>> \in Asked
      BY <1>1, <2>1, AskedIs DEF Replies
    <2>3. <<a, k>> \in Waiting(n - 1) /\ <<a, k>>[1] = a /\ <<a, k>>[2] = k
      <3>1. a \in Nat /\ k \in Nat \ {0}
        BY <1>1, <2>2 DEF IsCall
      <3>2. a <= n - 1 /\ n - 1 < a + k
        BY <2>2, <3>1
      <3> QED
        BY <2>2, <3>2 DEF Waiting
    <2>4. <<a, k>> \in calls
      <3>1. CASE msgs[a].calls[k].name = ""
        <4>1. m.name = "unknown"
          BY <2>1, <3>1 DEF Replies
        <4>2. \A p \in Waiting(n - 1) : msgs[p[1]].calls[p[2]].name \in Tools
          BY AskedIs DEF Waiting, IsCall
        <4>3. named = {}
          BY <4>1, <4>2 DEF Tools
        <4> QED
          BY <2>3, <4>3
      <3>2. CASE msgs[a].calls[k].name # ""
        <4>1. m.name = msgs[a].calls[k].name
          BY <2>1, <3>2 DEF Replies
        <4>2. <<a, k>> \in named
          BY <2>3, <4>1
        <4> QED
          BY <4>2
      <3> QED
        BY <3>1, <3>2
    <2>5. calls \subseteq Waiting(n - 1)
      OBVIOUS
    <2> HIDE DEF named
    <2>6. Paired(state, n) = [pending |-> {p \in Waiting(n - 1) : IdOf(p) # IdOf(call)},
                              pairs |-> Matched(n - 1) \cup {<<n, call>>}]
      BY <1>2, <1>5, <2>3 DEF Paired, named
    <2> HIDE DEF calls, state
    <2>7. call = <<a, k>>
      <3>1. \A q \in calls : <<a, k>> = q \/ Before(<<a, k>>, q)
        BY <2>2, <2>5, WaitingInOrder
      <3>2. \A q \in calls : q[1] \in Nat /\ q[2] \in Nat
        BY <1>1, <2>5, AskedIs DEF Waiting, IsCall
      <3> QED
        BY <2>4, <3>1, <3>2, EarliestIs
    <2> HIDE DEF call
    <2>8. \A p \in Waiting(n - 1) : IdOf(p) = p
      <3>1. \A p \in Waiting(n - 1) : IsCall(p[1], p[2])
        BY AskedIs DEF Waiting
      <3> QED
        BY <1>1, <3>1 DEF IdOf, IsCall, Minted
    <2>9. Paired(state, n) = [pending |-> Waiting(n - 1) \ {m.of}, pairs |-> Matched(n - 1) \cup {<<n, m.of>>}]
      <3>1. {p \in Waiting(n - 1) : IdOf(p) # IdOf(call)} = Waiting(n - 1) \ {m.of}
        BY <2>1, <2>3, <2>7, <2>8
      <3> QED
        BY <2>1, <2>6, <2>7, <3>1
    <2>10. Waiting(n) = Waiting(n - 1) \ {m.of}
      BY <1>5, WaitingNext
    <2>11. Matched(n) = Matched(n - 1) \cup {<<n, m.of>>}
      BY <1>5, TakenNext
    <2> QED
      BY <2>9, <2>10, <2>11 DEF After, state
  <1> QED
    BY <1>1, <1>3, <1>4, <1>5, MessageIs

\* So the whole conversation pairs every result with the call that it is of.
LEMMA NormalizedIs ==
    ASSUME PromptInv, CallAnswers(msgs), Minted(msgs)
    PROVE  Normalized = After(Len(msgs))
  <1> DEFINE N == Len(msgs)
             start == [pending |-> {}, pairs |-> {}]
             Is(f) == f = [n \in 0..N |-> IF n = 0 THEN start ELSE Paired(f[n - 1], n)]
             state == CHOOSE f : Is(f)
             g == [n \in 0..N |-> After(n)]
  <1>1. N \in Nat
    BY AskedIs
  <1>2. Normalized = state[N]
    BY DEF Normalized
  <1>3. After(0) = start
    <2>1. Waiting(0) = {}
      <3>1. \A p \in Asked : ~(p[1] <= 0)
        BY AskedIs DEF IsCall
      <3> QED
        BY <3>1 DEF Waiting
    <2>2. Matched(0) = {}
      <3>1. \A j \in Results : ~(j <= 0)
        BY AskedIs DEF Results
      <3> QED
        BY <3>1 DEF Matched
    <2> QED
      BY <2>1, <2>2 DEF After
  <1>4. \A n \in 1..N : Paired(After(n - 1), n) = After(n)
    BY PairedIs
  <1> HIDE DEF N, start
  <1>5. Is(g)
    <2>1. ASSUME NEW n \in 0..N
          PROVE  g[n] = IF n = 0 THEN start ELSE Paired(g[n - 1], n)
      <3>1. CASE n = 0
        BY <1>3, <3>1
      <3>2. CASE n # 0
        <4>1. n \in 1..N /\ n - 1 \in 0..N
          BY <1>1, <3>2
        <4>2. g[n] = After(n) /\ g[n - 1] = After(n - 1)
          BY <4>1
        <4> QED
          BY <1>4, <3>2, <4>1, <4>2
      <3> QED
        BY <3>1, <3>2
    <2>2. g = [n \in 0..N |-> g[n]]
      OBVIOUS
    <2> HIDE DEF g
    <2> QED
      BY <2>1, <2>2
  <1>6. Is(state)
    <2> HIDE DEF g, Is
    <2> QED
      BY <1>5
  <1> HIDE DEF state
  <1>7. state[0] = start /\ \A n \in 1..N : state[n] = Paired(state[n - 1], n)
    BY <1>1, <1>6
  <1> DEFINE bad == {n \in 0..N : state[n] # After(n)}
  <1>8. 0 \notin bad
    BY <1>3, <1>7
  <1>9. \A n \in 1..N : n \in bad => n - 1 \in bad
    <2> SUFFICES ASSUME NEW n \in 1..N, n \in bad, n - 1 \notin bad PROVE FALSE
      OBVIOUS
    <2>1. n - 1 \in 0..N
      BY <1>1
    <2>2. state[n - 1] = After(n - 1)
      BY <2>1
    <2>3. state[n] = After(n)
      BY <1>4, <1>7, <2>2
    <2> QED
      BY <2>3
  <1>10. bad \in SUBSET (0..N)
    OBVIOUS
  <1>11. bad = {}
    <2> HIDE DEF bad
    <2> QED
      BY <1>1, <1>8, <1>9, <1>10, NoLeast
  <1>12. state[N] = After(N)
    BY <1>1, <1>11
  <1> QED
    BY <1>2, <1>12 DEF N

\* Every earlier call has one result whenever the model is asked, and a backend is told it
\* of that call, unless a response gives two of its calls the same id.
THEOREM CallsGetTheirResults ==
    ASSUME Coincidences = {}
    PROVE  ChatSpec => []CallsAnswered
  <1>1. ChatInit => ChatInv /\ Minted(msgs)
    BY ChatBegins DEF ChatInit, Minted
  <1>2. ChatInv /\ Minted(msgs) /\ [ChatNext]_chatVars => (ChatInv /\ Minted(msgs))'
    BY ChatSteps DEF Converses
  <1>3. ASSUME ChatInv, Minted(msgs) PROVE CallsAnswered
    <2> SUFFICES ASSUME chat.phase \in {"round", "answer"}
                 PROVE  /\ Normalized.pending = {}
                        /\ Normalized.pairs = {<<i, msgs[i].of>> : i \in Results}
                        /\ \A i, j \in Results : msgs[i].of = msgs[j].of => i = j
      BY DEF CallsAnswered
    <2>1. PromptInv /\ CallAnswers(msgs) /\ Closed(msgs)
      BY <1>3 DEF ChatInv, Replied
    <2>2. Normalized = After(Len(msgs))
      BY <1>3, <2>1, NormalizedIs
    <2>3. Len(msgs) \in Nat /\ DOMAIN msgs = 1..Len(msgs)
      BY <2>1, AskedIs
    <2>4. Waiting(Len(msgs)) = {}
      <3>1. ASSUME NEW p \in Asked PROVE ~(Len(msgs) < p[1] + p[2])
        <4> DEFINE i == p[1]
                   k == p[2]
        <4>1. IsCall(i, k)
          BY <2>1, <3>1, AskedIs
        <4> HIDE DEF i, k
        <4>2. i \in Nat /\ k \in Nat /\ Len(msgs[i].calls) \in Nat /\ k <= Len(msgs[i].calls)
          BY <2>3, <4>1 DEF IsCall
        <4>3. i + Len(msgs[i].calls) <= Len(msgs)
          BY <2>1, <2>3, <4>1 DEF IsCall, Closed
        <4>4. ~(Len(msgs) < i + k)
          BY <2>3, <4>2, <4>3
        <4> QED
          BY <4>4 DEF i, k
      <3> QED
        BY <3>1 DEF Waiting
    <2>5. Matched(Len(msgs)) = {<<i, msgs[i].of>> : i \in Results}
      <3>1. {j \in Results : j <= Len(msgs)} = Results
        BY <2>3 DEF Results
      <3> QED
        BY <3>1 DEF Matched
    <2>6. \A i, j \in Results : msgs[i].of = msgs[j].of => i = j
      <3>1. \A j \in Results : msgs[j].of[1] + msgs[j].of[2] = j
        BY <2>1 DEF CallAnswers, Replies, Results
      <3> QED
        BY <3>1
    <2> QED
      BY <2>2, <2>4, <2>5, <2>6 DEF After
  <1> QED
    BY <1>1, <1>2, <1>3, PTL DEF ChatSpec
=============================================================================
