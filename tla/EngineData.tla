----------------------------- MODULE EngineData -----------------------------
(***************************************************************************)
(* Proofs about the data of a run of module Engine: the substitution, the  *)
(* trail, renaming apart, the answers and the audited database.            *)
(*                                                                         *)
(* All of it rests on one fact: the substitution has no cycle.  Then the   *)
(* recursive function of Walk is defined, a walk ends at a term that is    *)
(* not bound, and a unification binds a variable that was free.            *)
(***************************************************************************)
EXTENDS EngineProofs, Induction

-----------------------------------------------------------------------------
(* Walking a substitution without cycles. *)

\* One step of a walk that goes on with g, and the function that walks to the end.
Toward(m, g, v) == IF v \notin DOMAIN m THEN v ELSE IF m[v] \in Vars THEN g[m[v]] ELSE m[v]

Walks(m, g) == g = [v \in Vars |-> Toward(m, g, v)]

OnVars(g) == g = [v \in Vars |-> g[v]]

\* r numbers the variables so that a bound one is above the one it is bound to.
Ranks(m, R, r) == /\ r \in [Vars -> 0 .. R]
                  /\ \A v \in DOMAIN m : m[v] \in Vars => r[m[v]] < r[v]

Acyclic(m) == DOMAIN m \subseteq Vars /\ \E R \in Nat : \E r : Ranks(m, R, r)

LEMMA WalksValues ==
    ASSUME NEW m, NEW g
    PROVE  Walks(m, g) <=> OnVars(g) /\ \A v \in Vars : g[v] = Toward(m, g, v)
  <1> DEFINE val(v) == Toward(m, g, v)
  <1>1. Walks(m, g) <=> g = [v \in Vars |-> val(v)]
    BY DEF Walks
  <1> HIDE DEF val
  <1>2. CASE g = [v \in Vars |-> val(v)]
    <2>1. \A v \in Vars : g[v] = val(v)
      BY <1>2, Zenon
    <2>2. [v \in Vars |-> val(v)] = [v \in Vars |-> g[v]]
      BY <2>1, Zenon
    <2> QED
      BY <1>1, <1>2, <2>1, <2>2, Zenon DEF OnVars, val
  <1>3. CASE OnVars(g) /\ \A v \in Vars : g[v] = val(v)
    <2>1. [v \in Vars |-> val(v)] = [v \in Vars |-> g[v]]
      BY <1>3, Zenon
    <2> QED
      BY <1>1, <1>3, <2>1, Zenon DEF OnVars, val
  <1> QED
    BY <1>1, <1>2, <1>3, Zenon DEF val

\* Walk is that function, wherever there is one.
LEMMA WalkIs ==
    ASSUME NEW st, \E g : Walks(st.m, g)
    PROVE  \E g : /\ Walks(st.m, g)
                  /\ \A t : Walk(t, st) = IF t \in Vars /\ g[t] \in Terms THEN g[t] ELSE t
  <1> DEFINE w == CHOOSE g : Walks(st.m, g)
  <1>1. Walks(st.m, w)
    BY Zenon
  <1>2. \A t : Walk(t, st) = IF t \in Vars /\ w[t] \in Terms THEN w[t] ELSE t
    BY Zenon DEF Walk, Walks, Toward
  <1> HIDE DEF w
  <1> QED
    BY <1>1, <1>2

\* A substitution without cycles has it: by induction on the ranks.
LEMMA AcyclicWalks ==
    ASSUME NEW m, Acyclic(m)
    PROVE  \E g : Walks(m, g)
  <1>0. PICK R \in Nat : \E r : Ranks(m, R, r)
    BY DEF Acyclic
  <1>1. PICK r : R \in Nat /\ Ranks(m, R, r)
    BY <1>0
  <1>2. /\ \A v \in Vars : r[v] \in Nat /\ r[v] < R + 1
        /\ \A v \in DOMAIN m : v \in Vars /\ (m[v] \in Vars => r[m[v]] < r[v])
    BY <1>1 DEF Ranks, Acyclic
  <1> DEFINE S == {k \in Nat : \E g : OnVars(g) /\ \A v \in Vars : r[v] < k => g[v] = Toward(m, g, v)}
  <1>3. 0 \in S
    <2> DEFINE g == [v \in Vars |-> v]
    <2>1. OnVars(g)
      BY DEF OnVars
    <2>2. \A v \in Vars : ~(r[v] < 0)
      BY <1>2
    <2> HIDE DEF g
    <2> QED
      BY <2>1, <2>2
  <1>4. ASSUME NEW k \in S
        PROVE  k + 1 \in S
    <2>1. PICK g : OnVars(g) /\ \A v \in Vars : r[v] < k => g[v] = Toward(m, g, v)
      BY <1>4
    <2>2. k \in Nat
      OBVIOUS
    <2> HIDE DEF S
    <2> DEFINE h == [v \in Vars |-> IF r[v] < k THEN g[v] ELSE Toward(m, g, v)]
    <2>3. OnVars(h)
      BY DEF OnVars
    <2>4. \A v \in Vars : /\ r[v] < k => h[v] = g[v]
                          /\ h[v] = Toward(m, g, v)
      BY <2>1
    <2> HIDE DEF h
    <2>5. ASSUME NEW v \in Vars, r[v] < k + 1
          PROVE  h[v] = Toward(m, h, v)
      <3>1. CASE v \in DOMAIN m /\ m[v] \in Vars
        <4>1. r[m[v]] < k
          BY <1>2, <2>2, <2>5, <3>1
        <4>2. h[m[v]] = g[m[v]]
          BY <2>4, <3>1, <4>1
        <4> QED
          BY <2>4, <3>1, <4>2 DEF Toward
      <3>2. CASE ~(v \in DOMAIN m /\ m[v] \in Vars)
        BY <2>4, <3>2 DEF Toward
      <3> QED
        BY <3>1, <3>2
    <2> QED
      BY <2>2, <2>3, <2>5 DEF S
  <1>5. R + 1 \in S
    <2>1. S \in SUBSET Nat
      OBVIOUS
    <2> HIDE DEF S
    <2> QED
      BY <1>3, <1>4, <2>1, SetInduction
  <1>6. PICK g : OnVars(g) /\ \A v \in Vars : r[v] < R + 1 => g[v] = Toward(m, g, v)
    BY <1>5
  <1> QED
    BY <1>2, <1>6, WalksValues

\* A walk ends at a term that is not bound, and inside every set of terms that
\* holds its start and, with a variable, what it is bound to.
LEMMA WalksEnd ==
    ASSUME NEW m, Acyclic(m), NEW g, Walks(m, g), NEW K, \A v \in DOMAIN m : v \in K => m[v] \in K
    PROVE  \A v \in Vars : v \in K => g[v] \in K /\ g[v] \notin DOMAIN m
  <1>0. PICK R \in Nat : \E r : Ranks(m, R, r)
    BY DEF Acyclic
  <1>1. PICK r : R \in Nat /\ Ranks(m, R, r)
    BY <1>0
  <1>2. /\ \A v \in Vars : r[v] \in Nat /\ r[v] < R + 1
        /\ \A v \in DOMAIN m : v \in Vars /\ (m[v] \in Vars => r[m[v]] < r[v])
    BY <1>1 DEF Ranks, Acyclic
  <1>3. \A v \in Vars : g[v] = Toward(m, g, v)
    BY WalksValues
  <1> DEFINE S == {k \in Nat : \A v \in Vars : v \in K /\ r[v] < k => g[v] \in K /\ g[v] \notin DOMAIN m}
  <1>4. 0 \in S
    BY <1>2
  <1>5. ASSUME NEW k \in S
        PROVE  k + 1 \in S
    <2>1. k \in Nat /\ \A v \in Vars : v \in K /\ r[v] < k => g[v] \in K /\ g[v] \notin DOMAIN m
      BY <1>5
    <2> SUFFICES ASSUME NEW v \in Vars, v \in K, r[v] < k + 1
                 PROVE  g[v] \in K /\ g[v] \notin DOMAIN m
      BY <2>1
    <2> HIDE DEF S
    <2>2. CASE v \in DOMAIN m /\ m[v] \in Vars
      <3>1. r[m[v]] < k /\ g[v] = g[m[v]] /\ m[v] \in K
        BY <1>2, <1>3, <2>1, <2>2 DEF Toward
      <3> QED
        BY <2>1, <2>2, <3>1
    <2>3. CASE v \in DOMAIN m /\ m[v] \notin Vars
      <3>1. g[v] = m[v] /\ m[v] \notin DOMAIN m
        BY <1>2, <1>3, <2>3 DEF Toward
      <3> QED
        BY <2>3, <3>1
    <2>4. CASE v \notin DOMAIN m
      BY <1>3, <2>4 DEF Toward
    <2> QED
      BY <2>2, <2>3, <2>4
  <1>6. R + 1 \in S
    <2>1. S \in SUBSET Nat
      OBVIOUS
    <2> HIDE DEF S
    <2> QED
      BY <1>4, <1>5, <2>1, SetInduction
  <1> QED
    BY <1>2, <1>6

-----------------------------------------------------------------------------
(* The store: what it binds, and what its trail records. *)

\* A store of terms over the backing array of its trail.
StoreOK(st) ==
    /\ Acyclic(st.m)
    /\ \A v \in DOMAIN st.m : st.m[v] \in Terms
    /\ st.mem \in Seq(Vars)
    /\ st.len \in Nat
    /\ st.len <= Len(st.mem)

\* The trail lists the bound variables, each once.
TrailFits(st) ==
    /\ DOMAIN st.m = {st.mem[i] : i \in 1 .. st.len}
    /\ \A i, j \in 1 .. st.len : i # j => st.mem[i] # st.mem[j]

\* What a term stands for is no bound variable; it is in every set of terms
\* that holds the term and, with a variable, what the store binds it to.
LEMMA WalkFacts ==
    ASSUME NEW st, StoreOK(st), NEW K \in SUBSET Terms, \A v \in DOMAIN st.m : v \in K => st.m[v] \in K,
           NEW t \in K
    PROVE  Walk(t, st) \in K /\ Walk(t, st) \notin DOMAIN st.m
  <1>1. Acyclic(st.m) /\ DOMAIN st.m \subseteq Vars
    BY DEF StoreOK, Acyclic
  <1>2. \E g : Walks(st.m, g)
    BY <1>1, AcyclicWalks
  <1>3. PICK g : /\ Walks(st.m, g)
                 /\ \A u : Walk(u, st) = IF u \in Vars /\ g[u] \in Terms THEN g[u] ELSE u
    BY <1>2, WalkIs
  <1>4. \A v \in Vars : v \in K => g[v] \in K /\ g[v] \notin DOMAIN st.m
    BY <1>1, <1>3, WalksEnd
  <1>5. CASE t \in Vars
    <2>1. g[t] \in K /\ g[t] \notin DOMAIN st.m /\ g[t] \in Terms
      BY <1>4, <1>5
    <2> QED
      BY <1>3, <1>5, <2>1
  <1>6. CASE t \notin Vars
    <2>1. Walk(t, st) = t
      BY <1>3, <1>6
    <2> QED
      BY <1>1, <1>6, <2>1
  <1> QED
    BY <1>5, <1>6

\* A free variable stands for itself.
LEMMA WalkFree ==
    ASSUME NEW st, StoreOK(st), NEW v \in Vars, v \notin DOMAIN st.m
    PROVE  Walk(v, st) = v
  <1>1. Acyclic(st.m) /\ v \in Terms
    BY DEF StoreOK, Terms
  <1>2. \E g : Walks(st.m, g)
    BY <1>1, AcyclicWalks
  <1>3. PICK g : /\ Walks(st.m, g)
                 /\ \A u : Walk(u, st) = IF u \in Vars /\ g[u] \in Terms THEN g[u] ELSE u
    BY <1>2, WalkIs
  <1>4. g[v] = v
    BY <1>3, WalksValues DEF Toward
  <1> QED
    BY <1>1, <1>3, <1>4

\* Binding a free variable to another free term makes no cycle: everything that
\* walks to the variable is numbered above everything else.
LEMMA BindAcyclic ==
    ASSUME NEW m, Acyclic(m), NEW x \in Vars, x \notin DOMAIN m, NEW y, y \notin DOMAIN m, x # y
    PROVE  Acyclic([u \in DOMAIN m \cup {x} |-> IF u = x THEN y ELSE m[u]])
  <1> DEFINE n == [u \in DOMAIN m \cup {x} |-> IF u = x THEN y ELSE m[u]]
  <1>0. PICK R \in Nat : \E r : Ranks(m, R, r)
    BY DEF Acyclic
  <1>1. PICK r : R \in Nat /\ Ranks(m, R, r)
    BY <1>0
  <1>2. /\ \A v \in Vars : r[v] \in 0 .. R
        /\ \A v \in DOMAIN m : v \in Vars /\ (m[v] \in Vars => r[m[v]] < r[v])
    BY <1>1 DEF Ranks, Acyclic
  <1>3. PICK g : Walks(m, g)
    BY AcyclicWalks
  <1>4. \A v \in Vars : g[v] = Toward(m, g, v)
    BY <1>3, WalksValues
  <1> DEFINE Q == R + R + 1
             s == [v \in Vars |-> IF g[v] = x THEN r[v] + R + 1 ELSE r[v]]
  <1>5. DOMAIN n = DOMAIN m \cup {x} /\ n[x] = y /\ \A v \in DOMAIN m : n[v] = m[v]
    OBVIOUS
  <1>6. \A v \in Vars : /\ g[v] = x => s[v] = r[v] + R + 1
                        /\ g[v] # x => s[v] = r[v]
                        /\ s[v] \in 0 .. Q
    BY <1>2
  <1>7. s \in [Vars -> 0 .. Q] /\ Q \in Nat
    BY <1>6
  <1> HIDE DEF n, s, Q
  <1>8. ASSUME NEW v \in DOMAIN n, n[v] \in Vars
        PROVE  s[n[v]] < s[v]
    <2>1. CASE v = x
      <3>1. g[x] = x
        BY <1>4 DEF Toward
      <3>2. n[v] = y /\ g[y] = y
        BY <1>4, <1>5, <1>8, <2>1 DEF Toward
      <3>3. s[x] = r[x] + R + 1 /\ s[y] = r[y] /\ r[x] \in 0 .. R /\ r[y] \in 0 .. R
        BY <1>2, <1>6, <1>8, <3>1, <3>2
      <3> QED
        BY <2>1, <3>2, <3>3
    <2>2. CASE v # x
      <3>1. v \in DOMAIN m /\ n[v] = m[v] /\ v \in Vars /\ m[v] \in Vars
        BY <1>2, <1>5, <1>8, <2>2
      <3>2. g[v] = g[m[v]] /\ r[m[v]] < r[v] /\ r[v] \in 0 .. R /\ r[m[v]] \in 0 .. R
        BY <1>2, <1>4, <3>1 DEF Toward
      <3>3. CASE g[v] = x
        BY <1>6, <3>1, <3>2, <3>3
      <3>4. CASE g[v] # x
        BY <1>6, <3>1, <3>2, <3>4
      <3> QED
        BY <3>3, <3>4
    <2> QED
      BY <2>1, <2>2
  <1>9. Ranks(n, Q, s)
    BY <1>7, <1>8 DEF Ranks
  <1>10. DOMAIN n \subseteq Vars
    BY <1>2, <1>5
  <1>11. Acyclic(n)
    BY <1>7, <1>9, <1>10 DEF Acyclic
  <1> QED
    BY <1>11 DEF n

\* Recording a variable on the trail.
Recorded(mem, n, v) == SubSeq(mem, 1, n) \o <<v>> \o SubSeq(mem, n + 2, Len(mem))

LEMMA BindTrail ==
    ASSUME NEW mem \in Seq(Vars), NEW n \in Nat, n <= Len(mem), NEW v \in Vars
    PROVE  /\ Recorded(mem, n, v) \in Seq(Vars)
           /\ n + 1 <= Len(Recorded(mem, n, v)) /\ Len(mem) <= Len(Recorded(mem, n, v))
           /\ \A i \in 1 .. n : Recorded(mem, n, v)[i] = mem[i]
           /\ Recorded(mem, n, v)[n + 1] = v
  <1> DEFINE L == Len(mem)
             p == SubSeq(mem, 1, n)
             q == SubSeq(mem, n + 2, L)
             c == p \o <<v>>
  <1>1. L \in Nat /\ \A i \in 1 .. L : mem[i] \in Vars
    BY LenProperties, ElementOfSeq
  <1>2. p \in Seq(Vars) /\ Len(p) = n /\ \A i \in 1 .. n : p[i] = mem[i]
    <2>1. \A i \in 1 .. n : mem[i] \in Vars
      BY <1>1
    <2>2. /\ p \in Seq(Vars) /\ Len(p) = (IF 1 <= n THEN n - 1 + 1 ELSE 0)
          /\ \A i \in 1 .. n - 1 + 1 : p[i] = mem[1 + i - 1]
      BY <2>1, SubSeqProperties
    <2> HIDE DEF p
    <2> QED
      BY <2>2
  <1>3. q \in Seq(Vars) /\ Len(q) = (IF n + 2 <= L THEN L - (n + 1) ELSE 0) /\ Len(q) \in Nat
    <2>1. \A i \in n + 2 .. L : mem[i] \in Vars
      BY <1>1
    <2>2. /\ q \in Seq(Vars) /\ Len(q) = (IF n + 2 <= L THEN L - (n + 2) + 1 ELSE 0)
      BY <1>1, <2>1, SubSeqProperties
    <2> HIDE DEF q
    <2> QED
      BY <1>1, <2>2, LenProperties
  <1> HIDE DEF L, p, q
  <1>4. /\ c \in Seq(Vars) /\ Len(c) = n + 1 /\ c[n + 1] = v
        /\ \A i \in 1 .. n : c[i] = mem[i]
    <2>1. <<v>> \in Seq(Vars) /\ Len(<<v>>) = 1 /\ <<v>>[1] = v
      OBVIOUS
    <2> DEFINE w == <<v>>
    <2> HIDE DEF w
    <2>2. /\ p \o w \in Seq(Vars) /\ Len(p \o w) = Len(p) + Len(w)
          /\ \A i \in 1 .. Len(p) + Len(w) : (p \o w)[i] = IF i <= Len(p) THEN p[i] ELSE w[i - Len(p)]
      BY <1>2, <2>1, ConcatProperties DEF w
    <2>3. Len(w) = 1 /\ w[1] = v
      BY <2>1 DEF w
    <2>4. /\ p \o w \in Seq(Vars) /\ Len(p \o w) = n + 1
          /\ (p \o w)[n + 1] = v
          /\ \A i \in 1 .. n : (p \o w)[i] = mem[i]
      <3>1. n + 1 \in 1 .. n + 1 /\ ~(n + 1 <= n) /\ n + 1 - n = 1
        OBVIOUS
      <3>2. \A i \in 1 .. n : i \in 1 .. n + 1 /\ i <= n
        OBVIOUS
      <3> QED
        BY <1>2, <2>2, <2>3, <3>1, <3>2
    <2> QED
      BY <2>4 DEF w
  <1> HIDE DEF c
  <1>5. /\ c \o q \in Seq(Vars) /\ Len(c \o q) = Len(c) + Len(q)
        /\ \A i \in 1 .. Len(c) + Len(q) : (c \o q)[i] = IF i <= Len(c) THEN c[i] ELSE q[i - Len(c)]
    BY <1>3, <1>4, ConcatProperties
  <1>6. n + 1 <= Len(c \o q) /\ L <= Len(c \o q)
    <2>1. Len(c \o q) = n + 1 + Len(q)
      BY <1>4, <1>5
    <2>2. L <= n + 1 + Len(q) /\ n + 1 <= n + 1 + Len(q)
      BY <1>1, <1>3
    <2> QED
      BY <2>1, <2>2
  <1>7. \A i \in 1 .. n + 1 : (c \o q)[i] = c[i]
    BY <1>3, <1>4, <1>5
  <1>8. (c \o q)[n + 1] = v /\ \A i \in 1 .. n : (c \o q)[i] = mem[i]
    BY <1>4, <1>7
  <1> QED
    BY <1>5, <1>6, <1>8 DEF c, L, p, q, Recorded

\* A new binding, of a free variable to another free term.
LEMMA BindFacts ==
    ASSUME NEW st, StoreOK(st), NEW x \in Vars, x \notin DOMAIN st.m,
           NEW y \in Terms, y \notin DOMAIN st.m, x # y
    PROVE  /\ StoreOK(Bind(st, x, y))
           /\ Bind(st, x, y).len = st.len + 1
           /\ Len(st.mem) <= Len(Bind(st, x, y).mem)
           /\ DOMAIN Bind(st, x, y).m = DOMAIN st.m \cup {x}
           /\ Bind(st, x, y).m[x] = y
           /\ \A v \in DOMAIN st.m : Bind(st, x, y).m[v] = st.m[v]
           /\ TrailFits(st) => TrailFits(Bind(st, x, y))
  <1> DEFINE m   == [u \in DOMAIN st.m \cup {x} |-> IF u = x THEN y ELSE st.m[u]]
             mem == Recorded(st.mem, st.len, x)
             b   == Bind(st, x, y)
  <1>1. b.m = m /\ b.mem = mem /\ b.len = st.len + 1
    BY DEF Bind, Recorded
  <1>2. /\ Acyclic(st.m) /\ st.mem \in Seq(Vars) /\ st.len \in Nat /\ st.len <= Len(st.mem)
        /\ \A v \in DOMAIN st.m : st.m[v] \in Terms
    BY DEF StoreOK
  <1>3. Acyclic(m)
    BY <1>2, BindAcyclic
  <1>4. /\ mem \in Seq(Vars) /\ st.len + 1 <= Len(mem) /\ Len(st.mem) <= Len(mem)
        /\ \A i \in 1 .. st.len : mem[i] = st.mem[i]
        /\ mem[st.len + 1] = x
    <2> DEFINE k == st.len
               l == st.mem
    <2>1. l \in Seq(Vars) /\ k \in Nat /\ k <= Len(l)
      BY <1>2
    <2> HIDE DEF k, l, m
    <2>2. /\ Recorded(l, k, x) \in Seq(Vars)
          /\ k + 1 <= Len(Recorded(l, k, x)) /\ Len(l) <= Len(Recorded(l, k, x))
          /\ \A i \in 1 .. k : Recorded(l, k, x)[i] = l[i]
          /\ Recorded(l, k, x)[k + 1] = x
      BY <2>1, BindTrail
    <2> QED
      BY <2>2 DEF k, l
  <1>5. DOMAIN m = DOMAIN st.m \cup {x} /\ m[x] = y /\ \A v \in DOMAIN st.m : m[v] = st.m[v]
    OBVIOUS
  <1> HIDE DEF m, mem, b
  <1>6. StoreOK(b)
    BY <1>1, <1>2, <1>3, <1>4, <1>5 DEF StoreOK
  <1>7. ASSUME TrailFits(st)
        PROVE  TrailFits(b)
    <2>1. \A i \in 1 .. st.len + 1 : i = st.len + 1 \/ i \in 1 .. st.len
      BY <1>2
    <2>2. \A i \in 1 .. st.len : i \in 1 .. st.len + 1 /\ st.len + 1 \in 1 .. st.len + 1
      BY <1>2
    <2>3. st.len + 1 \in 1 .. st.len + 1
      BY <1>2
    <2>4. DOMAIN b.m = {b.mem[i] : i \in 1 .. b.len}
      <3>1. \A v \in DOMAIN b.m : \E i \in 1 .. b.len : v = b.mem[i]
        BY <1>1, <1>4, <1>5, <1>7, <2>2, <2>3 DEF TrailFits
      <3>2. \A i \in 1 .. b.len : b.mem[i] \in DOMAIN b.m
        BY <1>1, <1>4, <1>5, <1>7, <2>1 DEF TrailFits
      <3> QED
        BY <3>1, <3>2
    <2>5. ASSUME NEW i \in 1 .. b.len, NEW j \in 1 .. b.len, i # j
          PROVE  b.mem[i] # b.mem[j]
      <3>1. \A k \in 1 .. st.len : st.mem[k] # x
        BY <1>7 DEF TrailFits
      <3>2. \/ i \in 1 .. st.len /\ j \in 1 .. st.len
            \/ i = st.len + 1 /\ j \in 1 .. st.len
            \/ i \in 1 .. st.len /\ j = st.len + 1
        BY <1>1, <2>1, <2>5
      <3> QED
        BY <1>1, <1>4, <1>7, <2>5, <3>1, <3>2 DEF TrailFits
    <2> QED
      BY <2>4, <2>5 DEF TrailFits
  <1> QED
    BY <1>1, <1>4, <1>5, <1>6, <1>7 DEF b

\* Undoing to a mark inside the backing array.
LEMMA UndoFacts ==
    ASSUME NEW st, StoreOK(st), NEW mark \in Nat, mark <= Len(st.mem)
    PROVE  /\ StoreOK(UndoTo(st, mark))
           /\ UndoTo(st, mark).len = mark /\ UndoTo(st, mark).mem = st.mem
           /\ DOMAIN UndoTo(st, mark).m \subseteq DOMAIN st.m
           /\ \A v \in DOMAIN UndoTo(st, mark).m : UndoTo(st, mark).m[v] = st.m[v]
           /\ TrailFits(st) /\ mark <= st.len => TrailFits(UndoTo(st, mark))
  <1> DEFINE dropped == {st.mem[i] : i \in (mark + 1) .. st.len}
             m == [v \in DOMAIN st.m \ dropped |-> st.m[v]]
             b == UndoTo(st, mark)
  <1>1. b.m = m /\ b.mem = st.mem /\ b.len = mark
    BY DEF UndoTo
  <1>2. /\ DOMAIN m = DOMAIN st.m \ dropped /\ \A v \in DOMAIN m : m[v] = st.m[v]
    OBVIOUS
  <1> HIDE DEF m, b
  <1>3. Acyclic(m)
    <2>0. PICK R \in Nat : \E r : Ranks(st.m, R, r)
      BY DEF StoreOK, Acyclic
    <2>1. PICK r : R \in Nat /\ Ranks(st.m, R, r)
      BY <2>0
    <2>2. Ranks(m, R, r)
      BY <1>2, <2>1 DEF Ranks
    <2> QED
      BY <1>2, <2>2 DEF Acyclic, StoreOK
  <1>4. StoreOK(b)
    BY <1>1, <1>2, <1>3 DEF StoreOK
  <1>5. ASSUME TrailFits(st), mark <= st.len
        PROVE  TrailFits(b)
    <2>0. st.len \in Nat
      BY DEF StoreOK
    <2>1. \A i \in 1 .. st.len : i \in 1 .. mark \/ i \in mark + 1 .. st.len
      BY <2>0
    <2>2. \A i \in 1 .. mark : i \in 1 .. st.len /\ i \notin mark + 1 .. st.len
      BY <1>5, <2>0
    <2>3. \A i \in mark + 1 .. st.len : i \in 1 .. st.len
      BY <2>0
    <2>4. \A i \in 1 .. mark : st.mem[i] \notin dropped
      <3> SUFFICES ASSUME NEW i \in 1 .. mark, NEW j \in mark + 1 .. st.len
                   PROVE  st.mem[i] # st.mem[j]
        OBVIOUS
      <3> QED
        BY <1>5, <2>2, <2>3 DEF TrailFits
    <2>5. DOMAIN b.m = {b.mem[i] : i \in 1 .. b.len}
      <3>1. \A v \in DOMAIN b.m : \E i \in 1 .. b.len : v = b.mem[i]
        BY <1>1, <1>2, <1>5, <2>1 DEF TrailFits
      <3>2. \A i \in 1 .. b.len : b.mem[i] \in DOMAIN b.m
        BY <1>1, <1>2, <1>5, <2>2, <2>4 DEF TrailFits
      <3> QED
        BY <3>1, <3>2
    <2>6. \A i, j \in 1 .. b.len : i # j => b.mem[i] # b.mem[j]
      BY <1>1, <1>5, <2>2 DEF TrailFits
    <2> QED
      BY <2>5, <2>6 DEF TrailFits
  <1> QED
    BY <1>1, <1>2, <1>4, <1>5 DEF b

\* Unification binds at most one variable, which was free, to a term that is no
\* bound variable either.
LEMMA UnifyFacts ==
    ASSUME NEW st, StoreOK(st), NEW s \in Terms, NEW t \in Terms,
           NEW K \in SUBSET Terms, s \in K, t \in K, \A v \in DOMAIN st.m : v \in K /\ st.m[v] \in K
    PROVE  LET u == Unify(s, t, st).st
           IN  /\ StoreOK(u)
               /\ Len(st.mem) <= Len(u.mem)
               /\ \A v \in DOMAIN u.m : v \in K /\ u.m[v] \in K
               /\ TrailFits(st) => TrailFits(u)
  <1> DEFINE x == Walk(s, st)
             y == Walk(t, st)
             u == Unify(s, t, st)
  <1>1. x \in K /\ x \notin DOMAIN st.m /\ y \in K /\ y \notin DOMAIN st.m
    BY WalkFacts
  <1>2. \/ u.st = st
        \/ x # y /\ x \in Vars /\ u.st = Bind(st, x, y)
        \/ x # y /\ y \in Vars /\ u.st = Bind(st, y, x)
    BY DEF Unify
  <1>3. Len(st.mem) \in Nat
    BY LenProperties DEF StoreOK
  <1> HIDE DEF x, y, u
  <1>4. CASE u.st = st
    BY <1>3, <1>4 DEF u
  <1>5. ASSUME NEW v \in Vars, NEW w \in Terms, v \in K, w \in K, v \notin DOMAIN st.m,
               w \notin DOMAIN st.m, v # w, u.st = Bind(st, v, w)
        PROVE  /\ StoreOK(u.st) /\ Len(st.mem) <= Len(u.st.mem)
               /\ \A z \in DOMAIN u.st.m : z \in K /\ u.st.m[z] \in K
               /\ TrailFits(st) => TrailFits(u.st)
    <2> DEFINE b == Bind(st, v, w)
    <2>1. /\ StoreOK(b) /\ Len(st.mem) <= Len(b.mem) /\ DOMAIN b.m = DOMAIN st.m \cup {v}
          /\ b.m[v] = w /\ \A z \in DOMAIN st.m : b.m[z] = st.m[z]
          /\ TrailFits(st) => TrailFits(b)
      BY <1>5, BindFacts
    <2> HIDE DEF b
    <2>2. u.st = b
      BY <1>5 DEF b
    <2>3. \A z \in DOMAIN b.m : z \in K /\ b.m[z] \in K
      BY <1>5, <2>1
    <2> QED
      BY <2>1, <2>2, <2>3
  <1>6. x \in Terms /\ y \in Terms
    BY <1>1
  <1>7. CASE x # y /\ x \in Vars /\ u.st = Bind(st, x, y)
    BY <1>1, <1>5, <1>6, <1>7 DEF u
  <1>8. CASE x # y /\ y \in Vars /\ u.st = Bind(st, y, x)
    BY <1>1, <1>5, <1>6, <1>8 DEF u
  <1> QED
    BY <1>2, <1>4, <1>7, <1>8

-----------------------------------------------------------------------------
(* The invariant: every term, goal, frame and result mentions activations up   *)
(* to n, and every handle is within a trail array of length L.                 *)

KnownTo(n)   == {t \in Terms : t \in Vars => t.act <= n}
InstTo(n)    == {gi \in Instances : gi.act <= n}
ResultsTo(n) == {r \in Results : Catchable(r.err) => Ball(r.err) \in KnownTo(n)}
CallsTo(n, L) == {c \in Calls : c.goals \in Seq(InstTo(n)) /\ c.mark <= L}

FramesTo(n, L) ==
    {f \in Frames : /\ f.goal \in InstTo(n) /\ f.rest \in Seq(InstTo(n))
                    /\ f.mark <= L /\ f.base <= L /\ f.found \in Seq(0 .. L)
                    /\ f.items \in Seq(KnownTo(n)) /\ f.cont \in Seq(ResultsTo(n))}

StoreTo(st, n) ==
    StoreOK(st) /\ \A v \in DOMAIN st.m : v \in KnownTo(n) /\ st.m[v] \in KnownTo(n)

\* The control state, with its counters as parameters.
ControlTo(p, c, r, st, n, L) ==
    /\ st \in Seq(FramesTo(n, L))
    /\ (p = "call" /\ c \in CallsTo(n, L)) \/ (p # "call" /\ c = NoCall)
    /\ r \in ResultsTo(n)

DataInv == StoreTo(store, fresh) /\ ControlTo(pc, call, ret, stack, fresh, Len(store.mem))

\* The handles that an undo may use are not beyond the trail.
MarksShort == /\ pc = "call" => call.mark <= store.len
              /\ stack # <<>> => Top.mark <= store.len /\ Top.base <= store.len

TrailKept == TrailFits(store) /\ MarksShort => TrailFits(store')

LEMMA EmptyIsSeq ==
    ASSUME NEW S
    PROVE  <<>> \in Seq(S)
  OBVIOUS

LEMMA SeqGrows ==
    ASSUME NEW A, NEW B, A \subseteq B, NEW s \in Seq(A)
    PROVE  s \in Seq(B)
  <1>1. Len(s) \in Nat /\ s \in [1 .. Len(s) -> A]
    BY LenProperties
  <1>2. s \in [1 .. Len(s) -> B]
    BY <1>1
  <1> QED
    BY <1>1, <1>2, SeqDef

LEMMA SeqOf ==
    ASSUME NEW A, NEW B, NEW s \in Seq(A), \A k \in 1 .. Len(s) : s[k] \in B
    PROVE  s \in Seq(B)
  <1>1. Len(s) \in Nat /\ s \in [1 .. Len(s) -> A]
    BY LenProperties
  <1>2. s \in [1 .. Len(s) -> B]
    BY <1>1
  <1> QED
    BY <1>1, <1>2, SeqDef

\* What holds with small counters holds with larger ones.
LEMMA KnownGrows ==
    ASSUME NEW n \in Nat, NEW k \in Nat, n <= k
    PROVE  /\ KnownTo(n) \subseteq KnownTo(k)
           /\ InstTo(n) \subseteq InstTo(k)
           /\ ResultsTo(n) \subseteq ResultsTo(k)
  <1>1. KnownTo(n) \subseteq KnownTo(k)
    BY DEF KnownTo, Vars
  <1>2. InstTo(n) \subseteq InstTo(k)
    BY DEF InstTo, Instances
  <1>3. ResultsTo(n) \subseteq ResultsTo(k)
    BY <1>1 DEF ResultsTo
  <1> QED
    BY <1>1, <1>2, <1>3

LEMMA FramesGrowTo ==
    ASSUME NEW n \in Nat, NEW k \in Nat, n <= k, NEW L \in Nat, NEW M \in Nat, L <= M
    PROVE  FramesTo(n, L) \subseteq FramesTo(k, M)
  <1> SUFFICES ASSUME NEW f \in FramesTo(n, L)
               PROVE  f \in FramesTo(k, M)
    OBVIOUS
  <1>1. KnownTo(n) \subseteq KnownTo(k) /\ InstTo(n) \subseteq InstTo(k)
        /\ ResultsTo(n) \subseteq ResultsTo(k) /\ 0 .. L \subseteq 0 .. M
    BY KnownGrows
  <1>2. /\ f \in Frames /\ f.goal \in InstTo(n) /\ f.rest \in Seq(InstTo(n))
        /\ f.mark <= L /\ f.base <= L /\ f.found \in Seq(0 .. L)
        /\ f.items \in Seq(KnownTo(n)) /\ f.cont \in Seq(ResultsTo(n))
    BY DEF FramesTo
  <1>3. f.mark \in Nat /\ f.base \in Nat
    BY <1>2, FrameFields
  <1>4. /\ f.rest \in Seq(InstTo(k)) /\ f.found \in Seq(0 .. M) /\ f.items \in Seq(KnownTo(k))
        /\ f.cont \in Seq(ResultsTo(k))
    BY <1>1, <1>2, SeqGrows
  <1>5. f.mark <= M /\ f.base <= M /\ f.goal \in InstTo(k)
    BY <1>1, <1>2, <1>3
  <1> QED
    BY <1>2, <1>4, <1>5 DEF FramesTo

LEMMA CallsGrowTo ==
    ASSUME NEW n \in Nat, NEW k \in Nat, n <= k, NEW L \in Nat, NEW M \in Nat, L <= M
    PROVE  CallsTo(n, L) \subseteq CallsTo(k, M)
  <1> SUFFICES ASSUME NEW c \in CallsTo(n, L)
               PROVE  c \in CallsTo(k, M)
    OBVIOUS
  <1>1. c \in Calls /\ c.goals \in Seq(InstTo(n)) /\ c.mark <= L
    BY DEF CallsTo
  <1>2. c.mark \in Nat
    BY <1>1 DEF Calls
  <1>3. c.goals \in Seq(InstTo(k))
    BY <1>1, KnownGrows, SeqGrows
  <1> QED
    BY <1>1, <1>2, <1>3 DEF CallsTo

LEMMA ControlGrows ==
    ASSUME NEW p, NEW c, NEW r, NEW st, NEW n \in Nat, NEW k \in Nat, n <= k,
           NEW L \in Nat, NEW M \in Nat, L <= M, ControlTo(p, c, r, st, n, L)
    PROVE  ControlTo(p, c, r, st, k, M)
  <1>1. FramesTo(n, L) \subseteq FramesTo(k, M) /\ CallsTo(n, L) \subseteq CallsTo(k, M)
        /\ ResultsTo(n) \subseteq ResultsTo(k)
    BY FramesGrowTo, CallsGrowTo, KnownGrows
  <1>2. st \in Seq(FramesTo(k, M))
    BY <1>1, SeqGrows DEF ControlTo
  <1> QED
    BY <1>1, <1>2 DEF ControlTo

LEMMA StoreGrows ==
    ASSUME NEW st, NEW n \in Nat, NEW k \in Nat, n <= k, StoreTo(st, n)
    PROVE  StoreTo(st, k)
  BY KnownGrows DEF StoreTo

\* Undoing, and unifying, known terms.
LEMMA UndoKnown ==
    ASSUME NEW st, NEW n \in Nat, StoreTo(st, n), NEW mark \in Nat, mark <= Len(st.mem)
    PROVE  LET u == UndoTo(st, mark)
           IN  /\ StoreTo(u, n) /\ u.len = mark /\ Len(u.mem) = Len(st.mem)
               /\ TrailFits(st) /\ mark <= st.len => TrailFits(u)
  <1>1. StoreOK(st)
    BY DEF StoreTo
  <1> DEFINE u == UndoTo(st, mark)
  <1>2. /\ StoreOK(u) /\ u.len = mark /\ u.mem = st.mem
        /\ DOMAIN u.m \subseteq DOMAIN st.m /\ \A v \in DOMAIN u.m : u.m[v] = st.m[v]
        /\ TrailFits(st) /\ mark <= st.len => TrailFits(u)
    BY <1>1, UndoFacts
  <1> HIDE DEF u
  <1>3. StoreTo(u, n)
    BY <1>2 DEF StoreTo
  <1> QED
    BY <1>2, <1>3 DEF u

LEMMA UnifyKnown ==
    ASSUME NEW st, NEW n \in Nat, StoreTo(st, n), NEW s \in KnownTo(n), NEW t \in KnownTo(n)
    PROVE  LET u == Unify(s, t, st).st
           IN  /\ StoreTo(u, n) /\ Len(st.mem) <= Len(u.mem) /\ u.len \in Nat /\ u.len <= Len(u.mem)
               /\ Len(u.mem) \in Nat
               /\ TrailFits(st) => TrailFits(u)
  <1>1. /\ StoreOK(st) /\ KnownTo(n) \in SUBSET Terms /\ s \in Terms /\ t \in Terms
        /\ \A v \in DOMAIN st.m : v \in KnownTo(n) /\ st.m[v] \in KnownTo(n)
    BY DEF StoreTo, KnownTo
  <1> DEFINE u == Unify(s, t, st).st
  <1>2. /\ StoreOK(u) /\ Len(st.mem) <= Len(u.mem)
        /\ \A v \in DOMAIN u.m : v \in KnownTo(n) /\ u.m[v] \in KnownTo(n)
        /\ TrailFits(st) => TrailFits(u)
    BY <1>1, UnifyFacts
  <1> HIDE DEF u
  <1>3. u.len \in Nat /\ u.len <= Len(u.mem) /\ Len(u.mem) \in Nat
    BY <1>2, LenProperties DEF StoreOK
  <1> QED
    BY <1>2, <1>3 DEF u, StoreTo

\* Source terms of a known activation, and copies.
LEMMA InstKnown ==
    ASSUME NEW t \in Templates, NEW a \in Nat, NEW n \in Nat, a <= n
    PROVE  Inst(t, a) \in KnownTo(n)
  <1>1. CASE t \in Names
    <2>1. Inst(t, a) = [var |-> t, act |-> a] /\ Inst(t, a) \in Vars
      BY <1>1 DEF Inst, Var, Vars
    <2> QED
      BY <2>1 DEF KnownTo, Terms
  <1>2. CASE t \in Consts /\ t \notin Names
    BY <1>2, ConstsAssumption DEF Inst, KnownTo, Terms
  <1>3. CASE t \in Lists /\ t \notin Names
    <2>1. t \notin Vars
      BY <1>3 DEF Lists, Vars
    <2> QED
      BY <1>3, <2>1 DEF Inst, KnownTo, Terms
  <1> QED
    BY <1>1, <1>2, <1>3 DEF Templates

LEMMA CopyKnown ==
    ASSUME NEW t \in Terms, NEW st, NEW n \in Nat
    PROVE  CopyOut(t, st, n) \in KnownTo(n)
  <1>1. Walk(t, st) \in Terms
    BY WalkType
  <1>2. CASE Walk(t, st) \in Vars
    <2>1. CopyOut(t, st, n) = [var |-> Walk(t, st).var, act |-> n]
      BY <1>2 DEF CopyOut, Var
    <2>2. CopyOut(t, st, n) \in Vars
      BY <1>2, <2>1 DEF Vars
    <2> QED
      BY <2>1, <2>2 DEF KnownTo, Terms
  <1>3. CASE Walk(t, st) \notin Vars
    BY <1>1, <1>3 DEF CopyOut, KnownTo
  <1> QED
    BY <1>2, <1>3

-----------------------------------------------------------------------------
(* What the steps start from. *)

\* The two counters of the invariant.
LEMMA SizesAreNat ==
    ASSUME ControlOK, DataInv
    PROVE  /\ fresh \in Nat /\ store.len \in Nat /\ store.len <= Len(store.mem)
           /\ Len(store.mem) \in Nat /\ StoreTo(store, fresh)
           /\ stack \in Seq(FramesTo(fresh, Len(store.mem))) /\ ret \in ResultsTo(fresh)
  <1>1. StoreTo(store, fresh) /\ fresh \in Nat /\ store.mem \in Seq(Vars)
        /\ store.len \in Nat /\ store.len <= Len(store.mem)
    BY DEF DataInv, StoreTo, StoreOK, ControlOK
  <1> QED
    BY <1>1, LenProperties DEF DataInv, ControlTo

\* The activation about to run.
LEMMA CallKnown ==
    ASSUME ControlOK, DataInv, pc = "call"
    PROVE  /\ call.goals \in Seq(InstTo(fresh))
           /\ call.mark \in Nat /\ call.mark <= Len(store.mem)
           /\ call.depth \in Nat /\ call.emit \in Nat
           /\ call.goals # <<>> => Current \in InstTo(fresh) /\ Rest \in Seq(InstTo(fresh))
  <1>1. /\ call.goals \in Seq(InstTo(fresh)) /\ call.mark <= Len(store.mem) /\ call \in Calls
    BY DEF DataInv, ControlTo, CallsTo
  <1>2. call.goals # <<>> => Current \in InstTo(fresh) /\ Rest \in Seq(InstTo(fresh))
    BY <1>1, NonEmptyFacts DEF Current, Rest
  <1> QED
    BY <1>1, <1>2 DEF Calls

\* The innermost frame, and those below it.
LEMMA TopKnown ==
    ASSUME ControlOK, DataInv, stack # <<>>
    PROVE  /\ Top \in FramesTo(fresh, Len(store.mem))
           /\ Popped \in Seq(FramesTo(fresh, Len(store.mem)))
  <1> DEFINE F == FramesTo(fresh, Len(store.mem))
  <1>1. stack \in Seq(F)
    BY SizesAreNat
  <1> HIDE DEF F
  <1>2. stack[Len(stack)] \in F /\ SubSeq(stack, 1, Len(stack) - 1) \in Seq(F)
    BY <1>1, NonEmptyFacts, PopFacts
  <1> QED
    BY <1>2 DEF F, Top, Popped

\* The parts of a frame.
LEMMA FrameKnown ==
    ASSUME NEW n \in Nat, NEW L \in Nat, NEW f \in FramesTo(n, L)
    PROVE  /\ f \in Frames /\ f.goal \in InstTo(n) /\ f.rest \in Seq(InstTo(n))
           /\ f.mark \in Nat /\ f.mark <= L /\ f.base \in Nat /\ f.base <= L
           /\ f.depth \in Nat /\ f.emit \in Nat
           /\ f.found \in Seq(0 .. L) /\ f.items \in Seq(KnownTo(n)) /\ f.cont \in Seq(ResultsTo(n))
  <1>1. /\ f \in Frames /\ f.goal \in InstTo(n) /\ f.rest \in Seq(InstTo(n))
        /\ f.mark <= L /\ f.base <= L
        /\ f.found \in Seq(0 .. L) /\ f.items \in Seq(KnownTo(n)) /\ f.cont \in Seq(ResultsTo(n))
    BY DEF FramesTo
  <1> QED
    BY <1>1, FrameFields

\* The argument of a goal, and its subgoals.
LEMMA GoalKnown ==
    ASSUME NEW n \in Nat, NEW gi \in InstTo(n)
    PROVE  /\ gi \in Instances /\ gi.act \in Nat /\ gi.act <= n
           /\ gi.g.op \in {"eq", "neq", "throw", "catch", "findall", "call", "asserta", "assertz",
                           "retract"} => Arg(gi) \in KnownTo(n)
           /\ gi.g.op \in {"eq", "neq"} => Inst(gi.g.arg2, gi.act) \in KnownTo(n)
           /\ gi.g.op = "findall" => Inst(gi.g.tmpl, gi.act) \in KnownTo(n)
           /\ \A g \in Goals : Branch(gi, g) \in InstTo(n) /\ Opaque(gi, g) \in InstTo(n)
  <1>1. gi \in Instances /\ gi.act \in Nat /\ gi.act <= n
    BY DEF InstTo, Instances
  <1>2. \A t \in Templates : Inst(t, gi.act) \in KnownTo(n)
    BY <1>1, InstKnown
  <1>3. ASSUME NEW g \in Goals
        PROVE  Branch(gi, g) \in InstTo(n) /\ Opaque(gi, g) \in InstTo(n)
    <2>1. Branch(gi, g) \in Instances /\ Opaque(gi, g) \in Instances
      BY <1>1, BranchTypes
    <2>2. Branch(gi, g).act = gi.act /\ Opaque(gi, g).act = gi.act
      BY DEF Branch, Opaque, Goal
    <2> QED
      BY <1>1, <2>1, <2>2 DEF InstTo
  <1>4. /\ gi.g.op \in {"eq", "neq", "throw", "catch", "findall", "call", "asserta", "assertz",
                           "retract"} => Arg(gi) \in KnownTo(n)
        /\ gi.g.op \in {"eq", "neq"} => Inst(gi.g.arg2, gi.act) \in KnownTo(n)
        /\ gi.g.op = "findall" => Inst(gi.g.tmpl, gi.act) \in KnownTo(n)
    BY <1>1, <1>2, SubgoalTypes DEF Arg
  <1> QED
    BY <1>1, <1>3, <1>4

\* The list of what findall collected.
LEMMA ListKnown ==
    ASSUME NEW s \in Seq(Consts \cup Vars), NEW n \in Nat
    PROVE  [list |-> s] \in KnownTo(n)
  <1>1. [list |-> s] \in Lists
    BY DEF Lists
  <1>2. [list |-> s] \notin Vars
    BY DEF Vars
  <1> QED
    BY <1>1, <1>2 DEF KnownTo, Terms

\* The ball of an error.
LEMMA BallKnown ==
    ASSUME NEW n \in Nat, NEW r \in ResultsTo(n), Catchable(r.err)
    PROVE  Ball(r.err) \in KnownTo(n)
  BY DEF ResultsTo

-----------------------------------------------------------------------------
(* The store. *)

\* What a step leaves in the store.
StoreKept == /\ fresh' \in Nat /\ fresh <= fresh'
             /\ Len(store'.mem) \in Nat /\ Len(store.mem) <= Len(store'.mem)
             /\ StoreTo(store', fresh')
             /\ TrailKept

LEMMA StoreStays ==
    ASSUME ControlOK, DataInv, store' = store, fresh' \in {fresh, fresh + 1}
    PROVE  StoreKept
  <1>1. /\ fresh \in Nat /\ Len(store.mem) \in Nat /\ StoreTo(store, fresh)
    BY SizesAreNat
  <1>2. fresh' \in Nat /\ fresh <= fresh'
    BY <1>1
  <1>3. StoreTo(store, fresh')
    BY <1>1, <1>2, StoreGrows
  <1> QED
    BY <1>1, <1>2, <1>3 DEF StoreKept, TrailKept

\* An undo to a handle inside the array.
LEMMA StoreUndone ==
    ASSUME ControlOK, DataInv, NEW m \in Nat, m <= Len(store.mem), MarksShort => m <= store.len,
           store' = UndoTo(store, m), fresh' = fresh
    PROVE  StoreKept
  <1> DEFINE u == UndoTo(store, m)
  <1>1. /\ fresh \in Nat /\ Len(store.mem) \in Nat /\ StoreTo(store, fresh)
    BY SizesAreNat
  <1>2. /\ StoreTo(u, fresh) /\ Len(u.mem) = Len(store.mem)
        /\ TrailFits(store) /\ m <= store.len => TrailFits(u)
    BY <1>1, UndoKnown
  <1> HIDE DEF u
  <1>3. store' = u
    BY DEF u
  <1> QED
    BY <1>1, <1>2, <1>3 DEF StoreKept, TrailKept

\* A unification, after an undo or without one, of terms known by then.
LEMMA StoreUnified ==
    ASSUME ControlOK, DataInv, NEW n \in Nat, fresh <= n, NEW b,
           \/ b = store
           \/ \E m \in Nat : b = UndoTo(store, m) /\ m <= Len(store.mem) /\ (MarksShort => m <= store.len),
           NEW s \in KnownTo(n), NEW t \in KnownTo(n)
    PROVE  /\ StoreTo(b, n) /\ Len(b.mem) = Len(store.mem)
           /\ b.len \in Nat /\ b.len <= Len(b.mem)
           /\ TrailFits(store) /\ MarksShort => TrailFits(b)
           /\ store' = Unify(s, t, b).st /\ fresh' = n => StoreKept
           /\ store' = b /\ fresh' = n => StoreKept
  <1>1. /\ fresh \in Nat /\ Len(store.mem) \in Nat /\ StoreTo(store, fresh)
        /\ store.len \in Nat /\ store.len <= Len(store.mem)
    BY SizesAreNat
  <1>2. /\ StoreTo(b, fresh) /\ Len(b.mem) = Len(store.mem)
        /\ b.len \in Nat /\ b.len <= Len(b.mem)
        /\ TrailFits(store) /\ MarksShort => TrailFits(b)
    <2>1. CASE b = store
      BY <1>1, <2>1
    <2>2. CASE b # store
      <3>1. PICK m \in Nat : b = UndoTo(store, m) /\ m <= Len(store.mem) /\ (MarksShort => m <= store.len)
        BY <2>2
      <3> DEFINE u == UndoTo(store, m)
      <3>2. /\ StoreTo(u, fresh) /\ Len(u.mem) = Len(store.mem) /\ u.len = m
            /\ TrailFits(store) /\ m <= store.len => TrailFits(u)
        BY <1>1, <3>1, UndoKnown
      <3> HIDE DEF u
      <3>3. b = u
        BY <3>1 DEF u
      <3> QED
        BY <3>1, <3>2, <3>3
    <2> QED
      BY <2>1, <2>2
  <1>3. StoreTo(b, n)
    BY <1>1, <1>2, StoreGrows
  <1> DEFINE w == Unify(s, t, b).st
  <1>4. /\ StoreTo(w, n) /\ Len(b.mem) <= Len(w.mem) /\ Len(w.mem) \in Nat
        /\ TrailFits(b) => TrailFits(w)
    BY <1>3, UnifyKnown
  <1> HIDE DEF w
  <1>5. store' = w /\ fresh' = n => StoreKept
    BY <1>1, <1>2, <1>4 DEF StoreKept, TrailKept
  <1>6. store' = b /\ fresh' = n => StoreKept
    BY <1>1, <1>2, <1>3 DEF StoreKept, TrailKept
  <1> QED
    BY <1>2, <1>3, <1>5, <1>6 DEF w

LEMMA StoreExecute ==
    ASSUME ControlOK, DataInv, Execute
    PROVE  StoreKept
  <1>1. CASE \/ SolveTrue \/ SolveFail \/ SolveCut \/ SolveAnd \/ SolveOr \/ SolveIte \/ SolveInner
             \/ SolveThrow \/ SolveCall \/ SolveAssert
    <2>1. store' = store /\ fresh' \in {fresh, fresh + 1}
      BY <1>1 DEF SolveTrue, SolveFail, SolveCut, SolveAnd, SolveOr, SolveIte, SolveInner, SolveThrow,
         SolveCall, SolveAssert
    <2> QED
      BY <2>1, StoreStays
  <1>2. CASE SolveEq \/ SolveNeq
    <2> DEFINE s == Arg(Current)
               t == Inst(Current.g.arg2, Current.act)
    <2>1. /\ fresh \in Nat /\ pc = "call" /\ call.goals # <<>> /\ Current.g.op \in {"eq", "neq"}
      BY <1>2, SizesAreNat DEF SolveEq, SolveNeq, Running
    <2>2. Current \in InstTo(fresh)
      BY <2>1, CallKnown
    <2>3. s \in KnownTo(fresh) /\ t \in KnownTo(fresh)
      BY <2>1, <2>2, GoalKnown
    <2>4. store' = Unify(s, t, store).st /\ fresh' = fresh
      BY <1>2 DEF SolveEq, SolveNeq
    <2> HIDE DEF s, t
    <2> QED
      BY <2>1, <2>3, <2>4, StoreUnified
  <1>3. CASE SolveRetract
    <2> DEFINE g    == Current.g
               base == IF db = <<>> THEN store ELSE UndoTo(store, call.mark)
               try  == [i \in 1 .. Len(db) |-> Unify(Arg(Current), Inst(db[i].arg, fresh + i), base)]
               hits == {i \in 1 .. Len(db) : db[i].pred = g.pred /\ db[i].body = <<>> /\ try[i].ok}
    <2>1. /\ fresh \in Nat /\ pc = "call" /\ call.goals # <<>> /\ g.op = "retract"
          /\ db \in Seq(Clauses) /\ Len(db) \in Nat
      BY <1>3, SizesAreNat, LenProperties DEF SolveRetract, Running, ControlOK
    <2>2. Current \in InstTo(fresh) /\ call.mark \in Nat /\ call.mark <= Len(store.mem)
      BY <2>1, CallKnown
    <2>3. Arg(Current) \in KnownTo(fresh)
      BY <2>1, <2>2, GoalKnown
    <2>4. MarksShort => call.mark <= store.len
      BY <2>1 DEF MarksShort
    <2>5. \/ base = store
          \/ \E m \in Nat : base = UndoTo(store, m) /\ m <= Len(store.mem) /\ (MarksShort => m <= store.len)
      BY <2>2, <2>4
    <2>6. ASSUME NEW i \in 0 .. Len(db)
          PROVE  /\ fresh + i \in Nat /\ fresh <= fresh + i /\ Arg(Current) \in KnownTo(fresh + i)
                 /\ i > 0 => Inst(db[i].arg, fresh + i) \in KnownTo(fresh + i)
      <3>1. fresh + i \in Nat /\ fresh <= fresh + i
        BY <2>1
      <3>2. i > 0 => db[i].arg \in Templates
        <4>1. i > 0 => db[i] \in Clauses
          BY <2>1, ElementOfSeq
        <4> QED
          BY <4>1 DEF Clauses
      <3> QED
        BY <2>1, <2>3, <3>1, <3>2, InstKnown, KnownGrows
    <2>7. CASE g.pred \notin Dynamic
      <3>1. store' = store /\ fresh' = fresh
        BY <1>3, <2>7 DEF SolveRetract
      <3> QED
        BY <3>1, StoreStays
    <2>8. CASE g.pred \in Dynamic /\ hits = {}
      <3>1. store' = base /\ fresh' = fresh + Len(db)
        BY <1>3, <2>8 DEF SolveRetract
      <3>2. Len(db) \in 0 .. Len(db)
        BY <2>1
      <3>3. fresh + Len(db) \in Nat /\ fresh <= fresh + Len(db) /\ Arg(Current) \in KnownTo(fresh + Len(db))
        BY <2>6, <3>2
      <3> HIDE DEF base
      <3> QED
        BY <2>5, <3>1, <3>3, StoreUnified
    <2>9. CASE g.pred \in Dynamic /\ hits # {}
      <3>1. PICK i \in hits : store' = try[i].st /\ fresh' = fresh + i
        BY <1>3, <2>9 DEF SolveRetract
      <3>2. i \in 1 .. Len(db)
        OBVIOUS
      <3>3. i \in 0 .. Len(db) /\ i > 0
        BY <3>2
      <3>4. store' = Unify(Arg(Current), Inst(db[i].arg, fresh + i), base).st
        BY <3>1, <3>2
      <3>5. /\ fresh + i \in Nat /\ fresh <= fresh + i /\ Arg(Current) \in KnownTo(fresh + i)
            /\ Inst(db[i].arg, fresh + i) \in KnownTo(fresh + i)
        BY <2>6, <3>3
      <3> HIDE DEF base
      <3> QED
        BY <2>5, <3>1, <3>4, <3>5, StoreUnified
    <2> QED
      BY <2>7, <2>8, <2>9
  <1> QED
    BY <1>1, <1>2, <1>3 DEF Execute

LEMMA StoreTry ==
    ASSUME ControlOK, DataInv, TryClause
    PROVE  StoreKept
  <1> DEFINE c    == Head(Top.clauses)
             base == UndoTo(store, Top.mark)
             s    == Arg(Top.goal)
             t    == Inst(c.arg, fresh')
  <1>1. /\ fresh \in Nat /\ Len(store.mem) \in Nat /\ stack # <<>> /\ Top \in Frames
        /\ Top.kind = "loop" /\ Top.clauses # <<>> /\ fresh' = fresh + 1
    BY SizesAreNat, TopTypes DEF TryClause, Trying, ControlOK
  <1>2. /\ Top.goal \in InstTo(fresh) /\ Top.mark \in Nat /\ Top.mark <= Len(store.mem)
        /\ Top.goal.g.op = "call"
    BY <1>1, TopKnown, FrameKnown, FrameFields DEF FitsGoal
  <1>3. c.arg \in Templates
    <2>1. c \in Clauses
      BY <1>1, FrameFields, NonEmptyFacts
    <2> QED
      BY <2>1 DEF Clauses
  <1>4. fresh' \in Nat /\ fresh <= fresh' /\ s \in KnownTo(fresh')
    BY <1>1, <1>2, GoalKnown, KnownGrows
  <1>5. t \in KnownTo(fresh')
    BY <1>3, <1>4, InstKnown
  <1>6. MarksShort => Top.mark <= store.len
    BY <1>1 DEF MarksShort
  <1>7. \E m \in Nat : base = UndoTo(store, m) /\ m <= Len(store.mem) /\ (MarksShort => m <= store.len)
    BY <1>2, <1>6
  <1>8. store' = Unify(s, t, base).st \/ store' = base
    BY DEF TryClause
  <1> DEFINE n == fresh'
  <1>9. n \in Nat /\ fresh <= n /\ s \in KnownTo(n) /\ t \in KnownTo(n) /\ fresh' = n
    BY <1>4, <1>5
  <1> HIDE DEF base, s, t, n
  <1> QED
    BY <1>7, <1>8, <1>9, StoreUnified

LEMMA StoreUnwind ==
    ASSUME ControlOK, DataInv, Unwind, ~Finish
    PROVE  StoreKept
  <1>1. CASE LoopReturn \/ CutReturn \/ CondReturn \/ OnceReturn \/ ContReturn
    <2>1. store' = store /\ fresh' = fresh
      BY <1>1 DEF LoopReturn, CutReturn, CondReturn, OnceReturn, ContReturn
    <2> QED
      BY <2>1, StoreStays
  <1>2. CASE TryClause
    BY <1>2, StoreTry
  <1>3. CASE LoopExhausted \/ OrReturn \/ NotReturn \/ FindallReturn \/ CatchReturn
    <2>1. stack # <<>> /\ fresh' = fresh /\ fresh \in Nat /\ Len(store.mem) \in Nat
      BY <1>3, SizesAreNat
         DEF LoopExhausted, OrReturn, NotReturn, FindallReturn, CatchReturn, Returned, ControlOK
    <2>2. /\ Top \in FramesTo(fresh, Len(store.mem)) /\ Top \in Frames
          /\ Top.goal \in InstTo(fresh)
          /\ Top.mark \in Nat /\ Top.mark <= Len(store.mem)
          /\ Top.base \in Nat /\ Top.base <= Len(store.mem)
      BY <2>1, TopKnown, FrameKnown
    <2>3. MarksShort => Top.mark <= store.len /\ Top.base <= store.len
      BY <2>1 DEF MarksShort
    <2>4. CASE \/ store' = store
               \/ store' = UndoTo(store, Top.mark)
               \/ store' = UndoTo(store, Top.base)
      BY <2>1, <2>2, <2>3, <2>4, StoreStays, StoreUndone
    <2>5. CASE FindallReturn
      <3> DEFINE base == UndoTo(store, Top.base)
                 s    == Arg(Top.goal)
                 t    == [list |-> Top.items]
      <3>1. Top.kind = "findall" /\ Top.goal.g.op = "findall" /\ Top.items \in Seq(Consts \cup Vars)
        BY <2>2, <2>5, FrameFields DEF FindallReturn, Returned, FitsGoal
      <3>2. s \in KnownTo(fresh) /\ t \in KnownTo(fresh)
        BY <2>1, <2>2, <3>1, GoalKnown, ListKnown
      <3>3. \E m \in Nat : base = UndoTo(store, m) /\ m <= Len(store.mem) /\ (MarksShort => m <= store.len)
        BY <2>2, <2>3
      <3>4. store' = base \/ store' = Unify(s, t, base).st
        BY <2>5 DEF FindallReturn
      <3> HIDE DEF base, s, t
      <3>5. fresh <= fresh
        BY <2>1
      <3>6. /\ store' = Unify(s, t, base).st /\ fresh' = fresh => StoreKept
            /\ store' = base /\ fresh' = fresh => StoreKept
        BY <2>1, <3>2, <3>3, <3>5, StoreUnified
      <3> QED
        BY <2>1, <3>4, <3>6
    <2>6. CASE CatchReturn /\ store' # store
      <3> DEFINE base == UndoTo(store, Top.mark)
                 s    == Arg(Top.goal)
                 t    == Ball(ret.err)
      <3>1. Top.kind = "catch" /\ Top.goal.g.op = "catch" /\ Catchable(ret.err)
        BY <2>2, <2>6, FrameFields DEF CatchReturn, Returned, FitsGoal
      <3>2. s \in KnownTo(fresh) /\ t \in KnownTo(fresh)
        BY <2>1, <2>2, <3>1, GoalKnown, BallKnown, SizesAreNat
      <3>3. \E m \in Nat : base = UndoTo(store, m) /\ m <= Len(store.mem) /\ (MarksShort => m <= store.len)
        BY <2>2, <2>3
      <3>4. store' = Unify(s, t, base).st
        BY <2>6 DEF CatchReturn
      <3> HIDE DEF base, s, t
      <3>5. fresh <= fresh
        BY <2>1
      <3>6. store' = Unify(s, t, base).st /\ fresh' = fresh => StoreKept
        BY <2>1, <3>2, <3>3, <3>5, StoreUnified
      <3> QED
        BY <2>1, <3>4, <3>6
    <2> QED
      BY <1>3, <2>4, <2>5, <2>6 DEF LoopExhausted, OrReturn, NotReturn
  <1> QED
    BY <1>1, <1>2, <1>3 DEF Unwind

\* Every step but the last keeps the store well-formed, only ever takes new
\* numbers, and keeps the trail exact if the handles were short.
LEMMA StoreStep ==
    ASSUME ControlOK, DataInv, Step, ~Finish
    PROVE  StoreKept
  <1>1. CASE Enter
    <2>1. store' = store /\ fresh' \in {fresh, fresh + 1}
      BY <1>1 DEF Enter, Interrupted, EmitAnswer, EmitFirst, EmitCollected, EmitContinuation, DepthExceeded
    <2> QED
      BY <2>1, StoreStays
  <1> QED
    BY <1>1, StoreExecute, StoreUnwind DEF Step

-----------------------------------------------------------------------------
(* The goals, the results and the frames of the next state. *)

\* What a step hands to solve, or returns.
NextTo(n, L) == /\ \/ pc' = "call" /\ call' \in CallsTo(n, L)
                   \/ pc' # "call" /\ call' = NoCall
                /\ ret' \in ResultsTo(n)

LEMMA ResultsKnown ==
    ASSUME NEW n \in Nat
    PROVE  /\ Fail \in ResultsTo(n) /\ Stop \in ResultsTo(n)
           /\ Error(Depth) \in ResultsTo(n) /\ Error(Interrupt) \in ResultsTo(n)
           /\ \A b \in Nat : Commit(b) \in ResultsTo(n)
           /\ \A s \in BOOLEAN : Result(s, 0, NoErr) \in ResultsTo(n)
           /\ \A t \in KnownTo(n) : Error(Throw(t)) \in ResultsTo(n)
           /\ \A r \in ResultsTo(n) : Error(r.err) \in ResultsTo(n)
  <1>1. ~Catchable(NoErr) /\ ~Catchable(Depth) /\ ~Catchable(Interrupt)
    BY DEF Catchable, NoErr, Depth, Interrupt
  <1>2. /\ Fail.err = NoErr /\ Stop.err = NoErr /\ \A b : Commit(b).err = NoErr
        /\ \A s : Result(s, 0, NoErr).err = NoErr
        /\ \A e : Error(e).err = e
    BY DEF Fail, Stop, Commit, Error, Result
  <1>3. \A t \in KnownTo(n) : Throw(t) \in Errors /\ Ball(Throw(t)) = t
    BY ResultTypes DEF KnownTo, Throw, Ball
  <1>4. /\ \A t \in KnownTo(n) : Error(Throw(t)) \in ResultsTo(n)
    BY <1>2, <1>3, ResultTypes DEF ResultsTo
  <1>5. \A r \in ResultsTo(n) : Error(r.err) \in ResultsTo(n)
    BY <1>2, ResultFields DEF ResultsTo
  <1> QED
    BY <1>1, <1>2, <1>4, <1>5, ResultTypes DEF ResultsTo

LEMMA ResumeKnown ==
    ASSUME NEW n \in Nat, NEW L \in Nat, NEW gs \in Seq(InstTo(n)), NEW m \in Nat, m <= L,
           NEW d \in Nat, NEW e \in Nat, Resume(gs, m, d, e)
    PROVE  NextTo(n, L)
  <1>1. InstTo(n) \subseteq Instances
    BY DEF InstTo
  <1>2. gs \in Seq(Instances)
    BY <1>1, SeqGrows
  <1>3. pc' = "call" /\ call' \in Calls /\ call'.goals = gs /\ call'.mark = m /\ ret' = Fail
    BY <1>2 DEF Resume, Calls
  <1> QED
    BY <1>3, ResultsKnown DEF NextTo, CallsTo

LEMMA ReturnKnown ==
    ASSUME NEW n \in Nat, NEW L, NEW r \in ResultsTo(n), Return(r)
    PROVE  NextTo(n, L)
  BY DEF Return, NextTo

LEMMA ContinueKnown ==
    ASSUME ControlOK, DataInv, pc = "call", call.goals # <<>>,
           NEW n \in Nat, NEW L \in Nat, fresh <= n, NEW m \in Nat, m <= L, Continue(m)
    PROVE  NextTo(n, L)
  <1>1. Rest \in Seq(InstTo(fresh)) /\ call.depth + 1 \in Nat /\ call.emit \in Nat /\ fresh \in Nat
    BY CallKnown, SizesAreNat
  <1>2. Rest \in Seq(InstTo(n))
    BY <1>1, KnownGrows, SeqGrows
  <1> QED
    BY <1>1, <1>2, ResumeKnown DEF Continue

LEMMA ContinueFrameKnown ==
    ASSUME NEW n \in Nat, NEW L \in Nat, NEW f \in FramesTo(n, L), NEW gs \in Seq(InstTo(n)),
           NEW m \in Nat, m <= L, ContinueFrame(f, gs, m)
    PROVE  NextTo(n, L)
  <1>1. f.rest \in Seq(InstTo(n)) /\ f.depth + 1 \in Nat /\ f.emit \in Nat
    BY FrameKnown
  <1>2. gs \o f.rest \in Seq(InstTo(n))
    BY <1>1, ConcatFacts
  <1> QED
    BY <1>1, <1>2, ResumeKnown DEF ContinueFrame

\* The goals of a clause body.
LEMMA BodyKnown ==
    ASSUME NEW c \in Clauses, NEW n \in Nat, NEW b \in Nat
    PROVE  Body(c, n, b) \in Seq(InstTo(n))
  <1>1. Body(c, n, b) \in Seq(Instances)
    BY BodyType
  <1>2. \A k \in 1 .. Len(Body(c, n, b)) : Body(c, n, b)[k] \in Instances
    BY <1>1, ElementOfSeq
  <1>3. DOMAIN Body(c, n, b) = 1 .. Len(Body(c, n, b))
    BY <1>1, LenProperties
  <1>4. \A k \in DOMAIN Body(c, n, b) : Body(c, n, b)[k].act = n
    BY DEF Body, Goal
  <1>5. \A k \in 1 .. Len(Body(c, n, b)) : Body(c, n, b)[k] \in InstTo(n)
    BY <1>2, <1>3, <1>4 DEF InstTo
  <1> QED
    BY <1>1, <1>5, SeqOf

\* The invariant from its parts: the stack is made of known frames, and so is
\* what the step hands on.
LEMMA DataNext ==
    ASSUME StoreKept, stack' \in Seq(FramesTo(fresh', Len(store'.mem))), NextTo(fresh', Len(store'.mem))
    PROVE  DataInv'
  BY DEF StoreKept, NextTo, DataInv, ControlTo

\* The frames of this state are frames of the next.
LEMMA StackKnown ==
    ASSUME ControlOK, DataInv, StoreKept
    PROVE  /\ FramesTo(fresh, Len(store.mem)) \subseteq FramesTo(fresh', Len(store'.mem))
           /\ stack \in Seq(FramesTo(fresh', Len(store'.mem)))
           /\ stack # <<>> => /\ Top \in FramesTo(fresh', Len(store'.mem))
                              /\ Popped \in Seq(FramesTo(fresh', Len(store'.mem)))
           /\ ResultsTo(fresh) \subseteq ResultsTo(fresh')
           /\ InstTo(fresh) \subseteq InstTo(fresh')
           /\ fresh' \in Nat /\ Len(store'.mem) \in Nat
           /\ store'.len \in Nat /\ store'.len <= Len(store'.mem)
  <1>1. /\ fresh \in Nat /\ Len(store.mem) \in Nat /\ stack \in Seq(FramesTo(fresh, Len(store.mem)))
        /\ fresh' \in Nat /\ fresh <= fresh'
        /\ Len(store'.mem) \in Nat /\ Len(store.mem) <= Len(store'.mem)
        /\ store'.len \in Nat /\ store'.len <= Len(store'.mem)
    BY SizesAreNat DEF StoreKept, StoreTo, StoreOK
  <1>2. FramesTo(fresh, Len(store.mem)) \subseteq FramesTo(fresh', Len(store'.mem))
    BY <1>1, FramesGrowTo
  <1>3. /\ stack \in Seq(FramesTo(fresh', Len(store'.mem)))
        /\ stack # <<>> => /\ Top \in FramesTo(fresh', Len(store'.mem))
                           /\ Popped \in Seq(FramesTo(fresh', Len(store'.mem)))
    BY <1>1, <1>2, SeqGrows, TopKnown
  <1> QED
    BY <1>1, <1>2, <1>3, KnownGrows

LEMMA DataEnter ==
    ASSUME ControlOK, EmitOK, DataInv, StoreKept, Enter
    PROVE  DataInv'
  <1> DEFINE n == fresh'
             L == Len(store'.mem)
             f == stack[call.emit]
             F == FramesTo(n, L)
  <1>1. /\ store' = store /\ fresh \in Nat /\ fresh' \in {fresh, fresh + 1} /\ L \in Nat /\ n \in Nat
        /\ fresh <= n /\ stack \in Seq(F) /\ pc = "call" /\ cancelled' = cancelled
    BY SizesAreNat, StackKnown DEF Enter, Interrupted, EmitAnswer, EmitFirst, EmitCollected,
       EmitContinuation, DepthExceeded, Emitting, StoreKept
  <1>2. call.mark \in Nat /\ call.mark <= L
    BY <1>1, CallKnown
  <1>3. ASSUME Emitting, call.emit > 0
        PROVE  call.emit \in 1 .. Len(stack) /\ f \in F /\ f \in Frames
    <2>1. call.emit \in 1 .. Len(stack) /\ f \in Frames
      BY <1>3, EmitFrame DEF Levels
    <2> HIDE DEF F
    <2> QED
      BY <1>1, <2>1, ElementOfSeq
  <1>4. CASE Interrupted \/ EmitAnswer \/ DepthExceeded
    <2>1. stack' = stack /\ \E r \in ResultsTo(n) : Return(r)
      BY <1>1, <1>4, ResultsKnown DEF Interrupted, EmitAnswer, DepthExceeded
    <2>2. NextTo(n, L)
      BY <1>1, <2>1, ReturnKnown
    <2> QED
      BY <1>1, <2>1, <2>2, DataNext
  <1>5. CASE EmitFirst
    <2> DEFINE g == [f EXCEPT !.found = <<call.mark>>]
    <2>1. call.emit \in 1 .. Len(stack) /\ f \in F /\ f \in Frames
      BY <1>3, <1>5 DEF EmitFirst
    <2>2. call.mark \in 0 .. L /\ <<call.mark>> \in Seq(0 .. L) /\ <<call.mark>> \in Seq(Nat)
      BY <1>1, <1>2
    <2>3. g \in Frames
      BY <2>1, <2>2 DEF Frames, Records, FitsGoal
    <2>4. /\ g.found = <<call.mark>> /\ g.goal = f.goal /\ g.rest = f.rest /\ g.mark = f.mark
          /\ g.base = f.base /\ g.items = f.items /\ g.cont = f.cont
      BY <2>1 DEF Frames, Records
    <2> HIDE DEF g
    <2>5. g \in F
      BY <2>1, <2>2, <2>3, <2>4 DEF FramesTo
    <2>6. stack' = [stack EXCEPT ![call.emit] = g] /\ Return(Stop)
      BY <1>5 DEF EmitFirst, g
    <2> HIDE DEF F
    <2>7. stack' \in Seq(F)
      BY <1>1, <2>1, <2>5, <2>6, ExceptSeq
    <2>8. NextTo(n, L)
      BY <1>1, <2>6, ReturnKnown, ResultsKnown
    <2> QED
      BY <2>7, <2>8, DataNext DEF F
  <1>6. CASE EmitCollected
    <2> DEFINE t == CopyOut(Inst(f.goal.g.tmpl, f.goal.act), store, fresh + 1)
               g == [f EXCEPT !.items = Append(f.items, t)]
    <2>1. call.emit \in 1 .. Len(stack) /\ f \in F /\ f \in Frames /\ f.kind = "findall"
      BY <1>3, <1>6 DEF EmitCollected
    <2>2. t \in Consts \cup Vars /\ t \in KnownTo(n)
      <3>1. f.goal \in InstTo(n) /\ f.goal.g.op = "findall" /\ n = fresh + 1
        BY <1>1, <1>6, <2>1, FrameKnown, FrameFields DEF EmitCollected, FitsGoal
      <3>2. Inst(f.goal.g.tmpl, f.goal.act) \in Terms
        BY <1>1, <3>1, GoalKnown DEF KnownTo
      <3>3. t \in KnownTo(n)
        BY <1>1, <3>1, <3>2, CopyKnown
      <3> QED
        BY <1>6, <3>3 DEF EmitCollected
    <2> HIDE DEF t
    <2>3. Append(f.items, t) \in Seq(Consts \cup Vars) /\ Append(f.items, t) \in Seq(KnownTo(n))
      <3>1. f.items \in Seq(Consts \cup Vars) /\ f.items \in Seq(KnownTo(n))
        BY <1>1, <2>1, FrameKnown, FrameFields
      <3> QED
        BY <2>2, <3>1, PushFacts
    <2>4. g \in Frames
      BY <2>1, <2>3 DEF Frames, Records, FitsGoal
    <2>5. /\ g.found = f.found /\ g.goal = f.goal /\ g.rest = f.rest /\ g.mark = f.mark
          /\ g.base = f.base /\ g.items = Append(f.items, t) /\ g.cont = f.cont
      BY <2>1 DEF Frames, Records
    <2> HIDE DEF g
    <2>6. g \in F
      BY <2>1, <2>3, <2>4, <2>5 DEF FramesTo
    <2>7. stack' = [stack EXCEPT ![call.emit] = g] /\ Return(Fail)
      BY <1>6 DEF EmitCollected, g, t
    <2> HIDE DEF F
    <2>8. stack' \in Seq(F)
      BY <1>1, <2>1, <2>6, <2>7, ExceptSeq
    <2>9. NextTo(n, L)
      BY <1>1, <2>7, ReturnKnown, ResultsKnown
    <2> QED
      BY <2>8, <2>9, DataNext DEF F
  <1>7. CASE EmitContinuation
    <2> DEFINE g == [f EXCEPT !.kind = "cont", !.owner = call.emit, !.mark = call.mark, !.base = store.len]
    <2>1. /\ call.emit \in 1 .. Len(stack) /\ f \in F /\ f \in Frames /\ f.kind = "catch"
          /\ call.emit \in Nat /\ store.len \in Nat /\ store.len <= L
      BY <1>1, <1>3, <1>7, SizesAreNat, CallKnown DEF EmitContinuation
    <2>2. g \in Frames
      <3>1. f.goal.g.op = "catch"
        BY <2>1, FrameFields DEF FitsGoal
      <3> QED
        BY <1>2, <2>1, <3>1 DEF Frames, Records, FitsGoal, Kinds
    <2>3. /\ g.found = f.found /\ g.goal = f.goal /\ g.rest = f.rest /\ g.mark = call.mark
          /\ g.base = store.len /\ g.items = f.items /\ g.cont = f.cont
      BY <2>1 DEF Frames, Records
    <2> HIDE DEF g
    <2>4. g \in F
      BY <1>2, <2>1, <2>2, <2>3 DEF FramesTo
    <2>5. stack' = Append(stack, g) /\ Resume(f.rest, call.mark, f.depth + 1, f.emit)
      BY <1>7 DEF EmitContinuation, Push, g
    <2>6. f.rest \in Seq(InstTo(n)) /\ f.depth + 1 \in Nat /\ f.emit \in Nat
      <3> HIDE DEF n, L, f
      <3> QED
        BY <1>1, <2>1, FrameKnown
    <2>7. NextTo(n, L)
      BY <1>1, <1>2, <2>5, <2>6, ResumeKnown
    <2> HIDE DEF F
    <2>8. stack' \in Seq(F)
      BY <1>1, <2>4, <2>5, PushFacts
    <2> QED
      BY <2>7, <2>8, DataNext DEF F
  <1> QED
    BY <1>4, <1>5, <1>6, <1>7 DEF Enter

\* The frame of a construct.
LEMMA NewFrameKnown ==
    ASSUME ControlOK, DataInv, pc = "call", call.goals # <<>>, NEW k, NEW f \in Frames,
           \/ f = Frame(k)
           \/ \E b : f = [Frame(k) EXCEPT !.bar = b]
           \/ \E cs, b : f = [Frame(k) EXCEPT !.clauses = cs, !.bar = b]
    PROVE  f \in FramesTo(fresh, Len(store.mem))
  <1>1. /\ f.goal = Current /\ f.rest = Rest /\ f.mark = call.mark /\ f.base = store.len
        /\ f.found = <<>> /\ f.items = <<>> /\ f.cont = <<>>
    <2>1. CASE f = Frame(k)
      BY <2>1 DEF Frame
    <2>2. CASE \E b : f = [Frame(k) EXCEPT !.bar = b]
      BY <2>2 DEF Frame
    <2>3. CASE \E cs, b : f = [Frame(k) EXCEPT !.clauses = cs, !.bar = b]
      BY <2>3 DEF Frame
    <2> QED
      BY <2>1, <2>2, <2>3
  <1>2. /\ Current \in InstTo(fresh) /\ Rest \in Seq(InstTo(fresh)) /\ call.mark <= Len(store.mem)
        /\ store.len <= Len(store.mem)
    BY CallKnown, SizesAreNat
  <1>3. /\ <<>> \in Seq(0 .. Len(store.mem)) /\ <<>> \in Seq(KnownTo(fresh))
        /\ <<>> \in Seq(ResultsTo(fresh))
    BY EmptyIsSeq
  <1> QED
    BY <1>1, <1>2, <1>3 DEF FramesTo

LEMMA DataExecute ==
    ASSUME ControlOK, EmitOK, ControlOK', DataInv, StoreKept, Execute
    PROVE  DataInv'
  <1> DEFINE n == fresh'
             L == Len(store'.mem)
             F == FramesTo(n, L)
  <1>1. /\ fresh \in Nat /\ n \in Nat /\ fresh <= n /\ L \in Nat /\ Len(store.mem) <= L
        /\ stack \in Seq(F) /\ FramesTo(fresh, Len(store.mem)) \subseteq F
        /\ store'.len \in Nat /\ store'.len <= L
    BY SizesAreNat, StackKnown DEF StoreKept
  <1>2. /\ pc = "call" /\ call.goals # <<>>
    BY DEF Execute, Running, SolveTrue, SolveFail, SolveCut, SolveAnd, SolveOr, SolveIte, SolveInner,
       SolveThrow, SolveEq, SolveNeq, SolveCall, SolveAssert, SolveRetract
  <1>3. /\ Current \in InstTo(n) /\ Rest \in Seq(InstTo(n)) /\ Current \in Instances
        /\ call.mark \in Nat /\ call.mark <= L /\ call.depth + 1 \in Nat /\ call.emit \in Nat
        /\ Len(stack) + 1 \in Nat
    <2>1. /\ Current \in InstTo(fresh) /\ Rest \in Seq(InstTo(fresh))
          /\ call.mark \in Nat /\ call.mark <= Len(store.mem) /\ call.depth \in Nat /\ call.emit \in Nat
      BY <1>2, CallKnown
    <2>2. Current \in InstTo(n) /\ Rest \in Seq(InstTo(n))
      BY <1>1, <2>1, KnownGrows, SeqGrows
    <2>3. Len(stack) \in Nat
      BY <1>1, LenProperties
    <2>4. call.mark <= L
      <3> HIDE DEF L
      <3>1. Len(store.mem) \in Nat
        BY SizesAreNat
      <3> QED
        BY <1>1, <2>1, <3>1
    <2> QED
      BY <2>1, <2>2, <2>3, <2>4 DEF InstTo
  <1>4. ASSUME stack' = stack, NextTo(n, L)
        PROVE  DataInv'
    BY <1>1, <1>4, DataNext
  <1>5. ASSUME NEW r \in ResultsTo(n), stack' = stack, Return(r)
        PROVE  DataInv'
    BY <1>1, <1>4, <1>5, ReturnKnown
  <1>6. ASSUME NEW m \in Nat, m <= L, stack' = stack, Continue(m)
        PROVE  DataInv'
    BY <1>1, <1>2, <1>4, <1>6, ContinueKnown
  <1>7. ASSUME NEW f, NEW k, NextTo(n, L), stack' = Append(stack, f),
               \/ f = Frame(k)
               \/ \E b : f = [Frame(k) EXCEPT !.bar = b]
               \/ \E cs, b : f = [Frame(k) EXCEPT !.clauses = cs, !.bar = b]
        PROVE  DataInv'
    <2>1. stack \in Seq(Frames) /\ stack' \in Seq(Frames)
      BY DEF ControlOK
    <2>2. f \in Frames
      <3>1. Len(stack) \in Nat /\ stack'[Len(stack) + 1] = f /\ Len(stack') = Len(stack) + 1
        <4> DEFINE G == Frames \cup {f}
        <4>1. f \in G /\ stack \in Seq(G)
          BY <2>1, SeqGrows
        <4> HIDE DEF G
        <4>2. /\ Append(stack, f)[Len(stack) + 1] = f
              /\ Len(Append(stack, f)) = Len(stack) + 1 /\ Len(stack) \in Nat
          BY <4>1, PushFacts, LenProperties
        <4> QED
          BY <1>7, <4>2
      <3>2. Len(stack) + 1 \in 1 .. Len(stack')
        BY <3>1
      <3> QED
        BY <2>1, <3>1, <3>2, ElementOfSeq
    <2>3. f \in F
      BY <1>1, <1>2, <1>7, <2>2, NewFrameKnown
    <2> HIDE DEF F
    <2>4. stack' \in Seq(F)
      BY <1>1, <1>7, <2>3, PushFacts
    <2> QED
      BY <1>7, <2>4, DataNext DEF F
  <1>8. CASE SolveTrue
    BY <1>3, <1>6, <1>8 DEF SolveTrue
  <1>9. CASE SolveFail
    BY <1>1, <1>5, <1>9, ResultsKnown DEF SolveFail
  <1>10. CASE SolveCut
    <2>1. NextTo(n, L)
      BY <1>1, <1>2, <1>3, <1>10, ContinueKnown DEF SolveCut
    <2>2. stack' = Append(stack, [Frame("cut") EXCEPT !.bar = Current.bar])
      BY <1>10 DEF SolveCut, Push
    <2> QED
      BY <1>7, <2>1, <2>2
  <1>11. CASE SolveAnd
    <2>1. Current.g.left \in Goals /\ Current.g.right \in Goals
      BY <1>3, <1>11, SubgoalTypes DEF SolveAnd, Running
    <2>2. <<Branch(Current, Current.g.left), Branch(Current, Current.g.right)>> \in Seq(InstTo(n))
      BY <1>1, <1>3, <2>1, GoalKnown, ShortSequences
    <2>3. <<Branch(Current, Current.g.left), Branch(Current, Current.g.right)>> \o Rest \in Seq(InstTo(n))
      BY <1>3, <2>2, ConcatFacts
    <2>4. NextTo(n, L)
      BY <1>1, <1>3, <1>11, <2>3, ResumeKnown DEF SolveAnd
    <2> QED
      BY <1>4, <1>11, <2>4 DEF SolveAnd
  <1>12. CASE SolveOr
    <2>1. Current.g.left \in Goals
      BY <1>3, <1>12, SubgoalTypes DEF SolveOr, Running
    <2>2. <<Branch(Current, Current.g.left)>> \in Seq(InstTo(n))
      BY <1>1, <1>3, <2>1, GoalKnown, ShortSequences
    <2>3. <<Branch(Current, Current.g.left)>> \o Rest \in Seq(InstTo(n))
      BY <1>3, <2>2, ConcatFacts
    <2>4. NextTo(n, L)
      BY <1>1, <1>3, <1>12, <2>3, ResumeKnown DEF SolveOr
    <2> QED
      BY <1>7, <1>12, <2>4 DEF SolveOr, Push
  <1>13. CASE SolveIte
    <2>1. Cond(Current.g) \in Goals
      <3>1. Current.g.op = "then" \/ IsIte(Current.g)
        BY <1>3, <1>13 DEF SolveIte, Running
      <3>2. Current.g \in Goals
        BY <1>3, SubgoalTypes
      <3> QED
        BY <3>1, <3>2, IteTypes
    <2>2. <<Branch(Current, Cond(Current.g))>> \in Seq(InstTo(n))
      BY <1>1, <1>3, <2>1, GoalKnown, ShortSequences
    <2>3. NextTo(n, L)
      BY <1>1, <1>3, <1>13, <2>2, ResumeKnown DEF SolveIte
    <2> QED
      BY <1>7, <1>13, <2>3 DEF SolveIte, Push
  <1>14. CASE SolveInner
    <2>1. Current.g.left \in Goals
      BY <1>3, <1>14, SubgoalTypes DEF SolveInner, Running
    <2>2. <<Opaque(Current, Current.g.left)>> \in Seq(InstTo(n))
      BY <1>1, <1>3, <2>1, GoalKnown, ShortSequences
    <2>3. NextTo(n, L)
      BY <1>1, <1>3, <1>14, <2>2, ResumeKnown DEF SolveInner
    <2> QED
      BY <1>7, <1>14, <2>3 DEF SolveInner, Push
  <1>15. CASE SolveThrow
    <2>1. Arg(Current) \in Terms
      BY <1>1, <1>3, <1>15, GoalKnown DEF SolveThrow, Running, KnownTo
    <2>2. Error(Throw(CopyOut(Arg(Current), store, n))) \in ResultsTo(n)
      BY <1>1, <2>1, CopyKnown, ResultsKnown
    <2> QED
      BY <1>5, <1>15, <2>2 DEF SolveThrow
  <1>16. CASE SolveEq
    <2> DEFINE u == Unify(Arg(Current), Inst(Current.g.arg2, Current.act), store)
    <2>1. store' = u.st /\ stack' = stack /\ (Continue(u.st.len) \/ Return(Fail))
      BY <1>16 DEF SolveEq
    <2> HIDE DEF u
    <2> QED
      BY <1>1, <1>5, <1>6, <2>1, ResultsKnown
  <1>17. CASE SolveNeq
    <2>1. stack' = stack /\ (Continue(call.mark) \/ Return(Fail))
      BY <1>17 DEF SolveNeq
    <2> QED
      BY <1>1, <1>3, <1>5, <1>6, <2>1, ResultsKnown
  <1>18. CASE SolveCall
    <2>1. NextTo(n, L)
      BY <1>1, <1>18, ResultsKnown DEF SolveCall, NextTo
    <2> QED
      BY <1>7, <1>18, <2>1 DEF SolveCall, Push
  <1>19. Error(Throw(PermissionError)) \in ResultsTo(n)
    <2>1. PermissionError \in KnownTo(n)
      BY ProgramsAssumption, ConstsAssumption DEF KnownTo, Terms
    <2> QED
      BY <1>1, <2>1, ResultsKnown
  <1>20. CASE SolveAssert
    <2>1. stack' = stack /\ (Return(Error(Throw(PermissionError))) \/ Continue(call.mark))
      BY <1>20 DEF SolveAssert
    <2> QED
      BY <1>3, <1>5, <1>6, <1>19, <2>1
  <1>21. CASE SolveRetract
    <2>1. /\ stack' = stack
          /\ Return(Error(Throw(PermissionError))) \/ Return(Fail) \/ Continue(store'.len)
      BY <1>21 DEF SolveRetract
    <2> QED
      BY <1>1, <1>5, <1>6, <1>19, <2>1, ResultsKnown
  <1> QED
    BY <1>8, <1>9, <1>10, <1>11, <1>12, <1>13, <1>14, <1>15, <1>16, <1>17, <1>18, <1>20, <1>21
       DEF Execute

LEMMA DataTry ==
    ASSUME ControlOK, DataInv, StoreKept, TryClause
    PROVE  DataInv'
  <1> DEFINE n == fresh'
             L == Len(store'.mem)
             F == FramesTo(n, L)
             c == Head(Top.clauses)
             f == [Top EXCEPT !.clauses = Tail(Top.clauses)]
  <1>1. /\ fresh \in Nat /\ n \in Nat /\ n = fresh + 1 /\ L \in Nat
        /\ stack # <<>> /\ Top \in F /\ Top \in Frames /\ Popped \in Seq(F)
        /\ Top.kind = "loop" /\ Top.clauses # <<>> /\ Top.clauses \in Seq(Clauses)
        /\ store'.len \in Nat /\ store'.len <= L
    BY SizesAreNat, StackKnown, TopTypes, FrameFields DEF TryClause, Trying, ControlOK
  <1>2. c \in Clauses /\ Tail(Top.clauses) \in Seq(Clauses)
    BY <1>1, NonEmptyFacts
  <1>3. f \in Frames
    BY <1>1, <1>2 DEF Frames, Records, FitsGoal
  <1>4. /\ f.found = Top.found /\ f.goal = Top.goal /\ f.rest = Top.rest /\ f.mark = Top.mark
        /\ f.base = Top.base /\ f.items = Top.items /\ f.cont = Top.cont /\ f.bar \in Nat
    BY <1>1, <1>2 DEF Frames, Records
  <1> HIDE DEF f
  <1>5. f \in F
    BY <1>1, <1>3, <1>4 DEF FramesTo
  <1>6. stack' \in Seq(F)
    <2>1. stack' = Append(Popped, f)
      BY DEF TryClause, f
    <2> HIDE DEF F
    <2> QED
      BY <1>1, <1>5, <2>1, PushFacts
  <1>7. CASE ContinueFrame(f, Body(c, n, f.bar), store'.len)
    <2>1. Body(c, n, f.bar) \in Seq(InstTo(n))
      BY <1>1, <1>2, <1>4, BodyKnown
    <2>2. NextTo(n, L)
      BY <1>1, <1>5, <1>7, <2>1, ContinueFrameKnown
    <2> QED
      BY <1>6, <2>2, DataNext
  <1>8. CASE UNCHANGED <<pc, call, ret>>
    <2>1. pc = "try" /\ call = NoCall /\ ret \in ResultsTo(n)
      BY SizesAreNat, StackKnown DEF TryClause, Trying, DataInv, ControlTo
    <2>2. NextTo(n, L)
      BY <1>8, <2>1 DEF NextTo
    <2> QED
      BY <1>6, <2>2, DataNext
  <1>9. \/ ContinueFrame(f, Body(c, n, f.bar), store'.len)
        \/ UNCHANGED <<pc, call, ret>>
    BY DEF TryClause, f
  <1> QED
    BY <1>7, <1>8, <1>9

\* A frame that pops: what it returns or goes on with is known.
LEMMA DataPop ==
    ASSUME ControlOK, DataInv, StoreKept, stack # <<>>, stack' = Popped,
           \/ \E r \in ResultsTo(fresh') : Return(r)
           \/ \E gs \in Seq(InstTo(fresh')) : \E m \in Nat :
                 m <= Len(store'.mem) /\ ContinueFrame(Top, gs, m)
    PROVE  DataInv'
  <1>1. /\ fresh' \in Nat /\ Len(store'.mem) \in Nat /\ Top \in FramesTo(fresh', Len(store'.mem))
        /\ stack' \in Seq(FramesTo(fresh', Len(store'.mem)))
    BY StackKnown
  <1>2. NextTo(fresh', Len(store'.mem))
    BY <1>1, ReturnKnown, ContinueFrameKnown
  <1> QED
    BY <1>1, <1>2, DataNext

LEMMA DataPops ==
    ASSUME ControlOK, DataInv, StoreKept,
           \/ LoopExhausted \/ (LoopReturn /\ Escapes(ret)) \/ CutReturn \/ OrReturn \/ CondReturn
           \/ NotReturn \/ OnceReturn \/ FindallReturn \/ CatchReturn
    PROVE  DataInv'
  <1> DEFINE n == fresh'
             L == Len(store'.mem)
             f == Top
             g == Top.goal.g
  <1>1. /\ stack # <<>> /\ n \in Nat /\ L \in Nat /\ f \in FramesTo(n, L) /\ f \in Frames
        /\ f.goal \in InstTo(n) /\ f.goal \in Instances /\ f.bar \in Nat
        /\ f.mark \in Nat /\ f.mark <= L /\ f.found \in Seq(0 .. L) /\ f.cont \in Seq(ResultsTo(n))
        /\ ret \in ResultsTo(n) /\ store'.len \in Nat /\ store'.len <= L /\ FitsGoal(f)
    BY SizesAreNat, StackKnown, FrameKnown, FrameFields
       DEF LoopExhausted, LoopReturn, CutReturn, OrReturn, CondReturn, NotReturn, OnceReturn,
           FindallReturn, CatchReturn, Returned, ControlOK
  <1>2. ret \in Results /\ Error(ret.err) \in ResultsTo(n) /\ Fail \in ResultsTo(n)
        /\ Stop \in ResultsTo(n) /\ \A b \in Nat : Commit(b) \in ResultsTo(n)
        /\ ret.commit \in Nat
    BY <1>1, ResultsKnown, ResultFields DEF ResultsTo
  <1>3. ASSUME NEW h \in Goals
        PROVE  <<Branch(f.goal, h)>> \in Seq(InstTo(n)) /\ <<Opaque(f.goal, h)>> \in Seq(InstTo(n))
    BY <1>1, <1>3, GoalKnown, ShortSequences
  <1>4. f.found # <<>> => Head(f.found) \in Nat /\ Head(f.found) <= L
    <2>1. f.found # <<>> => Head(f.found) \in 0 .. L
      BY <1>1, NonEmptyFacts
    <2> QED
      BY <1>1, <2>1
  <1>5. <<>> \in Seq(InstTo(n))
    OBVIOUS
  <1>6. CASE LoopExhausted
    BY <1>1, <1>2, <1>6, DataPop DEF LoopExhausted
  <1>7. CASE LoopReturn /\ Escapes(ret)
    <2>1. LoopResult(f, ret) \in ResultsTo(n)
      BY <1>2 DEF LoopResult
    <2> QED
      BY <1>1, <1>7, <2>1, DataPop DEF LoopReturn, PopAndReturn
  <1>8. CASE CutReturn
    BY <1>1, <1>2, <1>8, DataPop DEF CutReturn, PopAndReturn
  <1>9. CASE OrReturn
    <2>1. g.right \in Goals
      BY <1>1, <1>9, SubgoalTypes DEF OrReturn, Returned, FitsGoal
    <2>2. \/ stack' = Popped /\ Return(ret)
          \/ stack' = Popped /\ ContinueFrame(f, <<Branch(f.goal, g.right)>>, f.mark)
      BY <1>9 DEF OrReturn, PopAndReturn
    <2> QED
      BY <1>1, <1>3, <2>1, <2>2, DataPop
  <1>10. CASE CondReturn
    <2>1. Then(g) \in Goals /\ (g.op # "then" => g.right \in Goals)
      <3>1. g \in Goals /\ (g.op = "then" \/ IsIte(g))
        BY <1>1, <1>10, SubgoalTypes DEF CondReturn, Returned, FitsGoal
      <3> QED
        BY <3>1, IteTypes
    <2>2. \/ stack' = Popped /\ Return(Error(ret.err))
          \/ /\ stack' = Popped /\ f.found # <<>>
             /\ ContinueFrame(f, <<Branch(f.goal, Then(g))>>, Head(f.found))
          \/ stack' = Popped /\ Return(Fail)
          \/ stack' = Popped /\ g.op # "then" /\ ContinueFrame(f, <<Branch(f.goal, g.right)>>, f.mark)
      BY <1>10 DEF CondReturn, PopAndReturn
    <2> QED
      BY <1>1, <1>2, <1>3, <1>4, <2>1, <2>2, DataPop
  <1>11. CASE NotReturn
    <2>1. \/ stack' = Popped /\ Return(Error(ret.err))
          \/ stack' = Popped /\ Return(Fail)
          \/ stack' = Popped /\ ContinueFrame(f, <<>>, f.mark)
      BY <1>11 DEF NotReturn, PopAndReturn
    <2> QED
      BY <1>1, <1>2, <1>5, <2>1, DataPop
  <1>12. CASE OnceReturn
    <2>1. \/ stack' = Popped /\ Return(Error(ret.err))
          \/ stack' = Popped /\ Return(Fail)
          \/ stack' = Popped /\ f.found # <<>> /\ ContinueFrame(f, <<>>, Head(f.found))
      BY <1>12 DEF OnceReturn, PopAndReturn
    <2> QED
      BY <1>1, <1>2, <1>4, <1>5, <2>1, DataPop
  <1>13. CASE FindallReturn
    <2>1. \/ stack' = Popped /\ Return(Error(ret.err))
          \/ stack' = Popped /\ Return(Fail)
          \/ stack' = Popped /\ ContinueFrame(f, <<>>, store'.len)
      BY <1>13 DEF FindallReturn, PopAndReturn
    <2> QED
      BY <1>1, <1>2, <1>5, <2>1, DataPop
  <1>14. CASE CatchReturn
    <2>1. g.right \in Goals
      BY <1>1, <1>14, SubgoalTypes DEF CatchReturn, Returned, FitsGoal
    <2>2. f.cont # <<>> => Head(f.cont) \in ResultsTo(n)
      BY <1>1, NonEmptyFacts
    <2>3. \/ stack' = Popped /\ f.cont # <<>> /\ Return(Head(f.cont))
          \/ stack' = Popped /\ Return(ret)
          \/ stack' = Popped /\ ContinueFrame(f, <<Opaque(f.goal, g.right)>>, store'.len)
      BY <1>14 DEF CatchReturn, PopAndReturn
    <2> QED
      BY <1>1, <1>3, <2>1, <2>2, <2>3, DataPop
  <1> QED
    BY <1>6, <1>7, <1>8, <1>9, <1>10, <1>11, <1>12, <1>13, <1>14

LEMMA DataCont ==
    ASSUME ControlOK, EmitOK, DataInv, StoreKept, ContReturn
    PROVE  DataInv'
  <1> DEFINE n == fresh'
             L == Len(store'.mem)
             F == FramesTo(n, L)
             o == Top.owner
             g == [Popped[o] EXCEPT !.cont = Captured(ret)]
  <1>1. /\ stack # <<>> /\ n \in Nat /\ L \in Nat /\ Popped \in Seq(F) /\ ret \in ResultsTo(n)
        /\ ret \in Results /\ Popped \in Seq(Frames)
    BY SizesAreNat, StackKnown, ReturnedFacts DEF ContReturn, ResultsTo
  <1>2. o \in 1 .. Len(Popped) /\ Popped[o] \in F /\ Popped[o] \in Frames
    <2>1. o \in 1 .. Len(stack) - 1
      BY OwnerFacts DEF ContReturn
    <2>2. Len(Popped) = Len(stack) - 1
      BY <1>1, TopTypes
    <2> HIDE DEF F
    <2> QED
      BY <1>1, <2>1, <2>2, ElementOfSeq
  <1>3. Captured(ret) \in Seq(ResultsTo(n)) /\ Captured(ret) \in Seq(Results)
    BY <1>1, ShortSequences DEF Captured
  <1>4. g \in Frames
    BY <1>2, <1>3 DEF Frames, Records, FitsGoal
  <1>5. /\ g.found = Popped[o].found /\ g.goal = Popped[o].goal /\ g.rest = Popped[o].rest
        /\ g.mark = Popped[o].mark /\ g.base = Popped[o].base /\ g.items = Popped[o].items
        /\ g.cont = Captured(ret)
    BY <1>2 DEF Frames, Records
  <1> HIDE DEF g
  <1>6. g \in F
    BY <1>2, <1>3, <1>4, <1>5 DEF FramesTo
  <1>7. stack' \in Seq(F)
    <2>1. stack' = [Popped EXCEPT ![o] = g]
      BY DEF ContReturn, g
    <2> HIDE DEF F
    <2> QED
      BY <1>1, <1>2, <1>6, <2>1, ExceptSeq
  <1>8. NextTo(n, L)
    <2>1. Result(Escapes(ret), 0, NoErr) \in ResultsTo(n)
      <3>1. Escapes(ret) \in BOOLEAN
        BY <1>1 DEF Escapes, Results
      <3> QED
        BY <1>1, <3>1, ResultsKnown
    <2> QED
      BY <1>1, <2>1, ReturnKnown DEF ContReturn
  <1> QED
    BY <1>7, <1>8, DataNext

LEMMA DataFinish ==
    ASSUME ControlOK, DataInv, Finish
    PROVE  DataInv' /\ TrailKept
  <1>1. /\ fresh' = fresh /\ fresh \in Nat /\ store' = EmptyStore /\ stack' = <<>> /\ pc' = "done"
        /\ call' = call /\ ret' = ret /\ pc = "return"
    BY SizesAreNat DEF Finish
  <1>2. StoreTo(store', fresh') /\ TrailFits(store')
    <2>1. /\ store'.m = <<>> /\ store'.mem = <<>> /\ store'.len = 0 /\ DOMAIN store'.m = {}
          /\ Len(store'.mem) = 0
      BY <1>1 DEF EmptyStore
    <2>2. Ranks(store'.m, 0, [v \in Vars |-> 0])
      BY <2>1 DEF Ranks
    <2>3. Acyclic(store'.m)
      BY <2>1, <2>2 DEF Acyclic
    <2>4. store'.mem \in Seq(Vars)
      BY <2>1
    <2> QED
      BY <2>1, <2>3, <2>4 DEF StoreTo, StoreOK, TrailFits
  <1>3. call = NoCall /\ ret \in ResultsTo(fresh)
    BY <1>1 DEF DataInv, ControlTo
  <1> QED
    BY <1>1, <1>2, <1>3 DEF DataInv, ControlTo, TrailKept

LEMMA DataStep ==
    ASSUME ControlOK, EmitOK, ControlOK', DataInv, [Next]_vars
    PROVE  DataInv' /\ TrailKept
  <1>1. CASE Cancel \/ Terminated \/ UNCHANGED vars
    <2>1. UNCHANGED <<store, fresh, pc, call, ret, stack>>
      BY <1>1 DEF Cancel, Terminated, vars, control
    <2> QED
      BY <2>1 DEF DataInv, TrailKept
  <1>2. CASE Step /\ ~Finish
    <2>1. StoreKept
      BY <1>2, StoreStep
    <2>2. CASE LoopReturn /\ ~Escapes(ret)
      <3>1. /\ stack \in Seq(FramesTo(fresh', Len(store'.mem))) /\ ret \in ResultsTo(fresh')
        BY <2>1, SizesAreNat, StackKnown
      <3>2. stack' = stack /\ pc' = "try" /\ call' = call /\ ret' = ret /\ pc = "return"
        BY <2>2 DEF LoopReturn, Returned
      <3>3. call = NoCall
        BY <3>2 DEF DataInv, ControlTo
      <3> QED
        BY <2>1, <3>1, <3>2, <3>3, DataNext DEF NextTo, StoreKept
    <2>3. CASE ~(LoopReturn /\ ~Escapes(ret))
      <3>1. TrailKept
        BY <2>1 DEF StoreKept
      <3> QED
        BY <1>2, <2>1, <2>3, <3>1, DataEnter, DataExecute, DataTry, DataPops, DataCont
           DEF Step, Unwind
    <2> QED
      BY <2>1, <2>2, <2>3
  <1> QED
    BY <1>1, <1>2, DataFinish DEF Next

LEMMA DataInitially == Init => DataInv /\ TrailFits(store)
  <1> SUFFICES ASSUME Init PROVE DataInv /\ TrailFits(store)
    OBVIOUS
  <1>1. ControlOK
    BY ControlInitially
  <1>2. store = EmptyStore /\ fresh = 0 /\ stack = <<>> /\ pc = "call" /\ ret = Fail
    BY DEF Init
  <1>3. StoreTo(store, fresh) /\ TrailFits(store)
    <2>1. store.m = <<>> /\ store.mem = <<>> /\ store.len = 0 /\ DOMAIN store.m = {} /\ Len(store.mem) = 0
      BY <1>2 DEF EmptyStore
    <2>2. Ranks(store.m, 0, [v \in Vars |-> 0])
      BY <2>1 DEF Ranks
    <2>3. Acyclic(store.m)
      BY <2>1, <2>2 DEF Acyclic
    <2>4. store.mem \in Seq(Vars)
      BY <2>1
    <2> QED
      BY <2>1, <2>3, <2>4 DEF StoreTo, StoreOK, TrailFits
  <1>4. call \in CallsTo(fresh, Len(store.mem))
    <2>1. call \in Calls /\ call.mark = 0 /\ Len(store.mem) = 0
      BY <1>1, <1>2 DEF ControlOK, Init, EmptyStore
    <2>2. call.goals = [i \in 1 .. Len(query) |-> Goal(query[i], 0, 0)]
      BY DEF Init
    <2>3. \A i \in DOMAIN call.goals : call.goals[i].act = 0
      BY <2>2 DEF Goal
    <2>4. call.goals \in Seq(Instances)
      BY <2>1 DEF Calls
    <2>5. \A i \in 1 .. Len(call.goals) : call.goals[i] \in InstTo(0)
      <3>1. DOMAIN call.goals = 1 .. Len(call.goals) /\ \A i \in 1 .. Len(call.goals) : call.goals[i] \in Instances
        BY <2>4, LenProperties, ElementOfSeq
      <3> QED
        BY <2>3, <3>1 DEF InstTo
    <2>6. call.goals \in Seq(InstTo(0))
      BY <2>4, <2>5, SeqOf
    <2> QED
      BY <1>2, <2>1, <2>6 DEF CallsTo
  <1>5. ret \in ResultsTo(fresh)
    BY <1>2, ResultsKnown
  <1> QED
    BY <1>2, <1>3, <1>4, <1>5 DEF DataInv, ControlTo

-----------------------------------------------------------------------------
(* What follows for the whole run. *)

\* The substitution of a run never gets a cycle, every bound term, goal, frame
\* and result mentions activations that were numbered before, and every handle
\* is within the trail's array (solve.go:77, 605-610; unify.go:14-34).
THEOREM DataIsKnown == Spec => []DataInv
  <1>1. Init => DataInv
    BY DataInitially
  <1>2. ControlOK /\ EmitOK /\ ControlOK' /\ DataInv /\ [Next]_vars => DataInv'
    BY DataStep
  <1> QED
    BY <1>1, <1>2, ControlIsLinked, PTL DEF Spec

\* The answers and the audit log.
Entries == [op : {"asserta", "assertz", "retract"}, clause : {c \in Clauses : c.pred \in Dynamic}]

RecordsOK == out \in Seq([Names -> Terms]) /\ log \in Seq(Entries) /\ cancelled \in BOOLEAN

LEMMA RecordsInitially == Init => RecordsOK
  <1> SUFFICES ASSUME Init PROVE RecordsOK
    OBVIOUS
  <1>1. out = <<>> /\ log = <<>> /\ cancelled = FALSE
    BY DEF Init
  <1>2. <<>> \in Seq([Names -> Terms]) /\ <<>> \in Seq(Entries)
    OBVIOUS
  <1> QED
    BY <1>1, <1>2 DEF RecordsOK

LEMMA RecordsStep ==
    ASSUME ControlOK, RecordsOK, [Next]_vars
    PROVE  RecordsOK'
  <1>1. out' \in Seq([Names -> Terms])
    <2>1. CASE out' = out
      BY <2>1 DEF RecordsOK
    <2>2. CASE EmitAnswer
      <3> DEFINE a == [n \in Names |-> Walk(Var(n, 0), store)]
      <3>1. \A n \in Names : Var(n, 0) \in Terms
        BY DEF Var, Vars, Terms
      <3>2. a \in [Names -> Terms]
        BY <3>1, WalkType
      <3>3. out' = Append(out, a)
        BY <2>2 DEF EmitAnswer
      <3> HIDE DEF a
      <3> QED
        BY <3>2, <3>3, PushFacts DEF RecordsOK
    <2> QED
      BY <2>1, <2>2 DEF Next, Step, Enter, Execute, Unwind, Interrupted, EmitFirst, EmitCollected,
         EmitContinuation, DepthExceeded, SolveTrue, SolveFail, SolveCut, SolveAnd, SolveOr, SolveIte,
         SolveInner, SolveThrow, SolveEq, SolveNeq, SolveCall, SolveAssert, SolveRetract, TryClause,
         LoopExhausted, LoopReturn, CutReturn, OrReturn, CondReturn, NotReturn, OnceReturn,
         FindallReturn, CatchReturn, ContReturn, Finish, Cancel, Terminated, vars
  <1>2. cancelled' \in BOOLEAN
    BY DEF RecordsOK, Next, Step, Enter, Execute, Unwind, Interrupted, EmitAnswer, EmitFirst, EmitCollected,
         EmitContinuation, DepthExceeded, SolveTrue, SolveFail, SolveCut, SolveAnd, SolveOr, SolveIte,
         SolveInner, SolveThrow, SolveEq, SolveNeq, SolveCall, SolveAssert, SolveRetract, TryClause,
         LoopExhausted, LoopReturn, CutReturn, OrReturn, CondReturn, NotReturn, OnceReturn,
         FindallReturn, CatchReturn, ContReturn, Finish, Cancel, Terminated, vars
  <1>3. log' \in Seq(Entries)
    <2>1. CASE log' = log
      BY <2>1 DEF RecordsOK
    <2>2. CASE SolveAssert /\ log' # log
      <3> DEFINE g == Current.g
                 c == Fact(g.pred, Stored(CopyOut(Arg(Current), store, fresh')))
      <3>1. /\ Current \in Instances /\ g.op \in {"asserta", "assertz"} /\ fresh \in Nat
            /\ fresh' = fresh + 1
        BY <2>2, RunningFacts DEF SolveAssert
      <3>2. g.pred \in Dynamic /\ log' = Append(log, [op |-> g.op, clause |-> c])
        BY <2>2 DEF SolveAssert, world
      <3>3. g.arg \in Templates /\ g.pred \in STRING /\ Current.act \in Nat
        BY <3>1, SubgoalTypes
      <3>4. c \in Clauses
        <4>1. fresh' \in Nat
          BY <3>1
        <4> QED
          BY <3>3, <4>1, InstType, CopyOutType, FactType DEF Arg
      <3>5. c.pred = g.pred
        BY DEF Fact
      <3> HIDE DEF c
      <3>6. [op |-> g.op, clause |-> c] \in Entries
        BY <3>1, <3>2, <3>4, <3>5 DEF Entries
      <3> QED
        BY <3>2, <3>6, PushFacts DEF RecordsOK
    <2>3. CASE SolveRetract /\ log' # log
      <3>1. PICK i \in 1 .. Len(db) : /\ log' = Append(log, [op |-> "retract", clause |-> db[i]])
                                      /\ db[i].pred = Current.g.pred /\ Current.g.pred \in Dynamic
        BY <2>3 DEF SolveRetract, world
      <3>2. db[i] \in Clauses
        BY ElementOfSeq DEF ControlOK
      <3>3. [op |-> "retract", clause |-> db[i]] \in Entries
        BY <3>1, <3>2 DEF Entries
      <3> QED
        BY <3>1, <3>3, PushFacts DEF RecordsOK
    <2> QED
      BY <2>1, <2>2, <2>3 DEF Next, Step, Enter, Execute, Unwind, Interrupted, EmitAnswer, EmitFirst,
         EmitCollected, EmitContinuation, DepthExceeded, SolveTrue, SolveFail, SolveCut, SolveAnd,
         SolveOr, SolveIte, SolveInner, SolveThrow, SolveEq, SolveNeq, SolveCall, TryClause,
         LoopExhausted, LoopReturn, CutReturn, OrReturn, CondReturn, NotReturn, OnceReturn,
         FindallReturn, CatchReturn, ContReturn, Finish, Cancel, Terminated, vars, world
  <1> QED
    BY <1>1, <1>2, <1>3 DEF RecordsOK

\* What the records and the store say of the types of the data.
LEMMA DataIsTyped ==
    ASSUME DataInv, RecordsOK
    PROVE  DataOK
  <1>1. \A i \in 1 .. Len(out) : out[i] \in [Names -> Terms]
    BY ElementOfSeq DEF RecordsOK
  <1>2. \A i \in 1 .. Len(log) : log[i] \in [op : {"asserta", "assertz", "retract"}, clause : Clauses]
    <2>1. \A i \in 1 .. Len(log) : log[i] \in Entries
      BY ElementOfSeq DEF RecordsOK
    <2>2. Entries \subseteq [op : {"asserta", "assertz", "retract"}, clause : Clauses]
      BY DEF Entries
    <2> QED
      BY <2>1, <2>2
  <1>3. /\ DOMAIN store.m \subseteq Vars /\ \A v \in DOMAIN store.m : store.m[v] \in Terms
        /\ store.mem \in Seq(Vars) /\ store.len <= Len(store.mem)
    BY DEF DataInv, StoreTo, StoreOK, Acyclic
  <1> QED
    BY <1>1, <1>2, <1>3 DEF DataOK, RecordsOK

\* The machine's state has the types of the code, the terms included: no store
\* cell, answer, ball or logged clause holds anything else (solve.go:74-99).
THEOREM TypesHold == Spec => []TypeOK
  <1>1. Init => RecordsOK
    BY RecordsInitially
  <1>2. ControlOK /\ RecordsOK /\ [Next]_vars => RecordsOK'
    BY RecordsStep
  <1>3. DataInv /\ RecordsOK => DataOK
    BY DataIsTyped
  <1>4. ControlOK /\ DataOK => TypeOK
    BY DEF TypeOK
  <1> QED
    BY <1>1, <1>2, <1>3, <1>4, ControlIsLinked, DataIsKnown, PTL DEF Spec

\* Elements of a sequence by its domain.
LEMMA InDomain ==
    ASSUME NEW S, NEW s \in Seq(S)
    PROVE  \A k \in DOMAIN s : s[k] \in S
  BY LenProperties, ElementOfSeq

LEMMA DataRenamesApart ==
    ASSUME ControlOK, DataInv
    PROVE  RenamedApart
  <1> DEFINE n == fresh
             L == Len(store.mem)
  <1>1. n \in Nat /\ L \in Nat /\ stack \in Seq(FramesTo(n, L)) /\ ret \in ResultsTo(n)
    BY SizesAreNat
  <1>2. ASSUME NEW gs \in Seq(InstTo(n))
        PROVE  KnownGoals(gs)
    BY <1>2, InDomain DEF KnownGoals, InstTo
  <1>3. KnownGoals(call.goals)
    <2>1. CASE pc = "call"
      BY <1>2, <2>1, CallKnown
    <2>2. CASE pc # "call"
      <3>1. call.goals = <<>>
        BY <2>2 DEF DataInv, ControlTo, NoCall
      <3>2. <<>> \in Seq(InstTo(n))
        OBVIOUS
      <3> QED
        BY <1>2, <3>1, <3>2
    <2> QED
      BY <2>1, <2>2
  <1>4. \A r \in ResultsTo(n) : KnownBall(r)
    BY DEF ResultsTo, KnownBall, KnownTo, Known
  <1>5. \A v \in DOMAIN store.m : Known(v) /\ Known(store.m[v])
    BY DEF DataInv, StoreTo, KnownTo, Known
  <1>6. ASSUME NEW i \in Levels
        PROVE  /\ stack[i].goal.act <= fresh /\ KnownGoals(stack[i].rest)
               /\ \A k \in DOMAIN stack[i].items : Known(stack[i].items[k])
               /\ \A k \in DOMAIN stack[i].cont : KnownBall(stack[i].cont[k])
    <2>1. stack[i] \in FramesTo(n, L)
      BY <1>1, <1>6, ElementOfSeq DEF Levels
    <2>2. /\ stack[i].goal \in InstTo(n) /\ stack[i].rest \in Seq(InstTo(n))
          /\ stack[i].items \in Seq(KnownTo(n)) /\ stack[i].cont \in Seq(ResultsTo(n))
      BY <1>1, <2>1, FrameKnown
    <2>3. \A k \in DOMAIN stack[i].items : Known(stack[i].items[k])
      BY <2>2, InDomain DEF KnownTo, Known
    <2>4. \A k \in DOMAIN stack[i].cont : KnownBall(stack[i].cont[k])
      BY <1>4, <2>2, InDomain
    <2> QED
      BY <1>2, <2>2, <2>3, <2>4 DEF InstTo
  <1> QED
    BY <1>1, <1>3, <1>4, <1>5, <1>6 DEF RenamedApart

\* Every variable that a step can still reach was numbered before, so those of
\* the next activation and of the next copy are new (solve.go:605-610; meta.go:133).
THEOREM RenamesApart == Spec => []RenamedApart
  BY DataRenamesApart, ControlIsLinked, DataIsKnown, PTL

\* Short handles, where the handles are exact.
LEMMA HandlesAreShort ==
    ASSUME ControlOK, DataInv, HandlesExact, ~leaked
    PROVE  MarksShort
  <1>1. pc = "call" => call.mark <= store.len
    BY SizesAreNat DEF HandlesExact
  <1>2. stack # <<>> => Top.mark <= store.len /\ Top.base <= store.len
    <2> SUFFICES ASSUME stack # <<>> PROVE Top.mark <= store.len /\ Top.base <= store.len
      OBVIOUS
    <2>1. Len(stack) \in Levels /\ Top = stack[Len(stack)]
      BY TopTypes DEF Levels, Top
    <2> QED
      BY <2>1 DEF HandlesExact
  <1> QED
    BY <1>1, <1>2 DEF MarksShort

\* An activation never forgets that an Else leaked.
LEMMA LeakStays ==
    ASSUME [Next]_vars, leaked
    PROVE  leaked'
  <1>1. CASE CondReturn
    BY <1>1 DEF CondReturn
  <1> QED
    BY <1>1 DEF Next, Step, Enter, Execute, Unwind, Interrupted, EmitAnswer, EmitFirst, EmitCollected,
         EmitContinuation, DepthExceeded, SolveTrue, SolveFail, SolveCut, SolveAnd, SolveOr, SolveIte,
         SolveInner, SolveThrow, SolveEq, SolveNeq, SolveCall, SolveAssert, SolveRetract, TryClause,
         LoopExhausted, LoopReturn, CutReturn, OrReturn, NotReturn, OnceReturn,
         FindallReturn, CatchReturn, ContReturn, Finish, Cancel, Terminated, vars

TrailExact == ~leaked => TrailFits(store)

LEMMA TrailExactStep ==
    ASSUME ControlOK, EmitOK, ControlOK', DataInv, HandlesExact, TrailExact, [Next]_vars
    PROVE  TrailExact'
  <1> SUFFICES ASSUME ~leaked'
               PROVE  TrailFits(store')
    BY DEF TrailExact, TrailFits
  <1>1. ~leaked
    BY LeakStays
  <1>2. TrailFits(store) /\ MarksShort
    BY <1>1, HandlesAreShort DEF TrailExact
  <1> QED
    BY <1>2, DataStep DEF TrailKept

LEMMA TrailIsSound ==
    ASSUME DataInv, TrailExact
    PROVE  TrailSound
  <1> DEFINE t == SubSeq(store.mem, 1, store.len)
             k == store.len
             l == store.mem
  <1>1. l \in Seq(Vars) /\ k \in Nat /\ k <= Len(l) /\ Len(l) \in Nat
    BY LenProperties DEF DataInv, StoreTo, StoreOK
  <1>2. \A i \in 1 .. k : t[i] = l[i]
    <2> HIDE DEF k, l
    <2>1. \A i \in 1 .. k : l[i] \in Vars
      BY <1>1, ElementOfSeq
    <2>2. \A i \in 1 .. k - 1 + 1 : SubSeq(l, 1, k)[i] = l[1 + i - 1]
      BY <1>1, <2>1, SubSeqProperties
    <2>3. \A i \in 1 .. k : i \in 1 .. k - 1 + 1 /\ 1 + i - 1 = i
      BY <1>1
    <2> QED
      BY <2>2, <2>3 DEF k, l
  <1> HIDE DEF t
  <1>3. ~leaked => /\ DOMAIN store.m = {t[i] : i \in 1 .. store.len}
                   /\ \A i, j \in 1 .. store.len : i # j => t[i] # t[j]
    BY <1>2 DEF TrailExact, TrailFits
  <1> QED
    BY <1>3 DEF TrailSound, t

\* Unless an Else ran over the bindings of its condition, the trail lists the
\* bound variables, each once: no undo deletes an older binding, and none
\* leaves one behind (unify.go:14-28).
THEOREM TrailListsBindings == Spec => []TrailSound
  <1>1. Init => TrailExact
    BY DataInitially DEF TrailExact
  <1>2. ControlOK /\ EmitOK /\ ControlOK' /\ DataInv /\ HandlesExact /\ TrailExact /\ [Next]_vars
          => TrailExact'
    BY TrailExactStep
  <1>3. DataInv /\ TrailExact => TrailSound
    BY TrailIsSound
  <1> QED
    BY <1>1, <1>2, <1>3, ControlIsLinked, DataIsKnown, HandlesAreExact, PTL DEF Spec

-----------------------------------------------------------------------------
(* The audited database: replaying the log over the program. *)

\* What the database is after the first n logged changes.
After(f, base, l, n) == IF n = 0 THEN base ELSE Applied(f[n - 1], l[n])

Replays(f, base, l) == f = [n \in 0 .. Len(l) |-> After(f, base, l, n)]

OnLog(f, l) == f = [n \in 0 .. Len(l) |-> f[n]]

LEMMA ReplaysValues ==
    ASSUME NEW f, NEW base, NEW l
    PROVE  Replays(f, base, l) <=> OnLog(f, l) /\ \A n \in 0 .. Len(l) : f[n] = After(f, base, l, n)
  <1> DEFINE D == 0 .. Len(l)
             val(n) == After(f, base, l, n)
  <1>1. Replays(f, base, l) <=> f = [n \in D |-> val(n)]
    BY DEF Replays
  <1>2. OnLog(f, l) <=> f = [n \in D |-> f[n]]
    BY DEF OnLog
  <1> HIDE DEF D, val
  <1>3. CASE f = [n \in D |-> val(n)]
    <2>1. \A n \in D : f[n] = val(n)
      BY <1>3, Zenon
    <2>2. [n \in D |-> val(n)] = [n \in D |-> f[n]]
      BY <2>1, Zenon
    <2> QED
      BY <1>1, <1>2, <1>3, <2>1, <2>2, Zenon DEF D, val
  <1>4. CASE f = [n \in D |-> f[n]] /\ \A n \in D : f[n] = val(n)
    <2>1. [n \in D |-> val(n)] = [n \in D |-> f[n]]
      BY <1>4, Zenon
    <2> QED
      BY <1>1, <1>2, <1>4, <2>1, Zenon DEF D, val
  <1> QED
    BY <1>1, <1>2, <1>3, <1>4, Zenon DEF D, val

\* Replayed is the last value of that function.
LEMMA ReplayedIs ==
    ASSUME NEW base, NEW l, NEW cs, \E f : Replays(f, base, l),
           \A f : Replays(f, base, l) => f[Len(l)] = cs
    PROVE  Replayed(base, l) = cs
  <1> DEFINE w == CHOOSE f : Replays(f, base, l)
  <1>1. Replays(w, base, l)
    BY Zenon
  <1>2. Replayed(base, l) = w[Len(l)]
    BY Zenon DEF Replayed, Replays, After
  <1> HIDE DEF w
  <1> QED
    BY <1>1, <1>2, Zenon

\* There is one such function, and it ends with the database.
Audited(base, l, cs) == /\ \E f : Replays(f, base, l)
                        /\ \A f : Replays(f, base, l) => f[Len(l)] = cs

\* One more entry: the change it logs is applied to what was there.
LEMMA AuditGrows ==
    ASSUME NEW base, NEW S, NEW l \in Seq(S), NEW e \in S, NEW cs, Audited(base, l, cs)
    PROVE  Audited(base, Append(l, e), Applied(cs, e))
  <1> DEFINE k == Append(l, e)
             N == Len(l)
  <1>1. /\ N \in Nat /\ Len(k) = N + 1 /\ k[N + 1] = e /\ \A n \in 1 .. N : k[n] = l[n]
    BY PushFacts, LenProperties
  <1> HIDE DEF k, N
  <1>2. \A n \in 0 .. N + 1 : n \in 0 .. N \/ n = N + 1
    BY <1>1
  <1>3. \A n \in 0 .. N : n \in 0 .. N + 1 /\ n # N + 1 /\ (n # 0 => n \in 1 .. N /\ n - 1 \in 0 .. N)
    BY <1>1
  <1>4. N + 1 \in 0 .. N + 1 /\ N + 1 # 0 /\ N + 1 - 1 = N /\ N \in 0 .. N
    BY <1>1
  <1>5. \E f : Replays(f, base, k)
    <2>1. PICK f : Replays(f, base, l)
      BY DEF Audited
    <2>2. \A n \in 0 .. N : f[n] = After(f, base, l, n)
      BY <2>1, ReplaysValues DEF N
    <2> DEFINE h == [n \in 0 .. N + 1 |-> IF n = N + 1 THEN Applied(f[N], e) ELSE f[n]]
    <2>3. h[N + 1] = Applied(f[N], e) /\ \A n \in 0 .. N : h[n] = f[n]
      BY <1>3, <1>4, Zenon
    <2>4. h = [n \in 0 .. N + 1 |-> h[n]]
      BY Zenon
    <2> HIDE DEF h
    <2>5. OnLog(h, k)
      BY <1>1, <2>4, Zenon DEF OnLog
    <2>6. ASSUME NEW n \in 0 .. N + 1
          PROVE  h[n] = After(h, base, k, n)
      <3>1. CASE n = N + 1
        <4>1. h[n] = Applied(f[N], e) /\ k[n] = e /\ n # 0 /\ n - 1 = N /\ h[N] = f[N]
          BY <1>1, <1>4, <2>3, <3>1
        <4> QED
          BY <4>1 DEF After
      <3>2. CASE n \in 0 .. N
        <4>1. h[n] = After(f, base, l, n)
          BY <2>2, <2>3, <3>2
        <4>2. CASE n = 0
          BY <4>1, <4>2 DEF After
        <4>3. CASE n # 0
          <5>1. n \in 1 .. N /\ n - 1 \in 0 .. N
            BY <1>3, <3>2, <4>3
          <5>2. h[n - 1] = f[n - 1] /\ k[n] = l[n]
            BY <1>1, <2>3, <5>1
          <5> QED
            BY <4>1, <4>3, <5>2, Zenon DEF After
        <4> QED
          BY <4>2, <4>3
      <3> QED
        BY <1>2, <3>1, <3>2
    <2> QED
      BY <1>1, <2>5, <2>6, ReplaysValues
  <1>6. ASSUME NEW f, Replays(f, base, k)
        PROVE  f[Len(k)] = Applied(cs, e)
    <2>1. \A n \in 0 .. N + 1 : f[n] = After(f, base, k, n)
      BY <1>1, <1>6, ReplaysValues
    <2> DEFINE h == [n \in 0 .. N |-> f[n]]
    <2>2. \A n \in 0 .. N : h[n] = f[n]
      BY Zenon
    <2>3. h = [n \in 0 .. N |-> h[n]]
      BY Zenon
    <2> HIDE DEF h
    <2>4. OnLog(h, l)
      BY <2>3, Zenon DEF OnLog, N
    <2>5. ASSUME NEW n \in 0 .. N
          PROVE  h[n] = After(h, base, l, n)
      <3>1. h[n] = After(f, base, k, n)
        BY <1>3, <2>1, <2>2
      <3>2. CASE n = 0
        BY <3>1, <3>2 DEF After
      <3>3. CASE n # 0
        <4>1. n \in 1 .. N /\ n - 1 \in 0 .. N
          BY <1>3, <3>3
        <4>2. h[n - 1] = f[n - 1] /\ k[n] = l[n]
          BY <1>1, <2>2, <4>1
        <4> QED
          BY <3>1, <3>3, <4>2, Zenon DEF After
      <3> QED
        BY <3>2, <3>3
    <2>6. Replays(h, base, l)
      BY <2>4, <2>5, ReplaysValues DEF N
    <2>7. h[N] = cs
      BY <2>6 DEF Audited, N
    <2>8. f[N] = cs
      BY <1>4, <2>2, <2>7
    <2>9. f[N + 1] = Applied(f[N], k[N + 1])
      <3>1. f[N + 1] = After(f, base, k, N + 1)
        BY <1>4, <2>1
      <3> QED
        BY <1>4, <3>1 DEF After
    <2> QED
      BY <1>1, <2>8, <2>9
  <1> QED
    BY <1>5, <1>6 DEF Audited, k

LEMMA AuditStarts ==
    ASSUME NEW base
    PROVE  Audited(base, <<>>, base)
  <1> DEFINE f == [n \in 0 .. 0 |-> base]
  <1>1. Len(<<>>) = 0 /\ 0 \in 0 .. 0 /\ \A n \in 0 .. 0 : n = 0
    OBVIOUS
  <1>2. \A n \in 0 .. 0 : f[n] = base
    OBVIOUS
  <1>3. f = [n \in 0 .. 0 |-> f[n]]
    BY <1>2, Zenon
  <1> HIDE DEF f
  <1>4. OnLog(f, <<>>)
    BY <1>1, <1>3, Zenon DEF OnLog
  <1>5. Replays(f, base, <<>>)
    BY <1>1, <1>2, <1>4, ReplaysValues DEF After
  <1>6. ASSUME NEW g, Replays(g, base, <<>>)
        PROVE  g[Len(<<>>)] = base
    BY <1>1, <1>6, ReplaysValues DEF After
  <1> QED
    BY <1>5, <1>6 DEF Audited

\* Removing clause i, as retract does and as the log says.
LEMMA WithoutIsRemoveAt ==
    ASSUME NEW S, NEW s \in Seq(S), NEW i \in 1 .. Len(s)
    PROVE  Without(s, i) = RemoveAt(s, i)
  <1> DEFINE N == Len(s)
             p == SubSeq(s, 1, i - 1)
             q == SubSeq(s, i + 1, N)
             w == [k \in 1 .. N - 1 |-> IF k < i THEN s[k] ELSE s[k + 1]]
  <1>1. N \in Nat /\ i \in Nat /\ i >= 1 /\ i <= N /\ N - 1 \in Nat /\ \A k \in 1 .. N : s[k] \in S
    BY LenProperties, ElementOfSeq
  <1> HIDE DEF N
  <1>2. p \in Seq(S) /\ Len(p) = i - 1 /\ \A k \in 1 .. i - 1 : p[k] = s[k]
    <2>1. \A k \in 1 .. i - 1 : s[k] \in S
      BY <1>1
    <2>2. i - 1 \in Int /\ 1 \in Int
      BY <1>1
    <2>3. /\ p \in Seq(S) /\ Len(p) = (IF 1 <= i - 1 THEN i - 1 - 1 + 1 ELSE 0)
          /\ \A k \in 1 .. i - 1 - 1 + 1 : p[k] = s[1 + k - 1]
      BY <2>1, <2>2, SubSeqProperties
    <2> HIDE DEF p
    <2> QED
      BY <1>1, <2>3
  <1>3. q \in Seq(S) /\ Len(q) = N - i /\ \A k \in 1 .. N - i : q[k] = s[i + k]
    <2>1. \A k \in i + 1 .. N : s[k] \in S
      BY <1>1
    <2>2. i + 1 \in Int /\ N \in Int
      BY <1>1
    <2>3. /\ q \in Seq(S) /\ Len(q) = (IF i + 1 <= N THEN N - (i + 1) + 1 ELSE 0)
          /\ \A k \in 1 .. N - (i + 1) + 1 : q[k] = s[i + 1 + k - 1]
      BY <2>1, <2>2, SubSeqProperties
    <2> HIDE DEF q
    <2> QED
      BY <1>1, <2>3
  <1> HIDE DEF p, q
  <1>4. /\ p \o q \in Seq(S) /\ Len(p \o q) = Len(p) + Len(q)
        /\ \A k \in 1 .. Len(p) + Len(q) : (p \o q)[k] = IF k <= Len(p) THEN p[k] ELSE q[k - Len(p)]
    BY <1>2, <1>3, ConcatProperties
  <1>5. Len(p) + Len(q) = N - 1
    BY <1>1, <1>2, <1>3
  <1>6. w \in Seq(S) /\ Len(w) = N - 1 /\ \A k \in 1 .. N - 1 : w[k] = IF k < i THEN s[k] ELSE s[k + 1]
    <2>1. \A k \in 1 .. N - 1 : (IF k < i THEN s[k] ELSE s[k + 1]) \in S
      BY <1>1
    <2>2. w \in [1 .. N - 1 -> S]
      BY <2>1
    <2>3. w \in Seq(S)
      BY <1>1, <2>2, SeqDef
    <2>4. Len(w) = N - 1
      BY <1>1, <2>2, <2>3, LenProperties
    <2> QED
      BY <2>3, <2>4
  <1> DEFINE v == p \o q
  <1>7. v \in Seq(S) /\ Len(v) = N - 1 /\ \A k \in 1 .. N - 1 : v[k] = IF k <= i - 1 THEN p[k] ELSE q[k - (i - 1)]
    BY <1>2, <1>4, <1>5
  <1>8. Without(s, i) = w /\ RemoveAt(s, i) = v
    BY DEF Without, RemoveAt, N, p, q
  <1> HIDE DEF v, w
  <1>9. \A k \in 1 .. N - 1 : w[k] = v[k]
    <2> SUFFICES ASSUME NEW k \in 1 .. N - 1 PROVE w[k] = v[k]
      OBVIOUS
    <2>1. CASE k < i
      BY <1>1, <1>2, <1>6, <1>7, <2>1
    <2>2. CASE ~(k < i)
      <3>1. k - (i - 1) \in 1 .. N - i /\ i + (k - (i - 1)) = k + 1 /\ ~(k <= i - 1)
        BY <1>1, <2>2
      <3> QED
        BY <1>3, <1>6, <1>7, <2>2, <3>1
    <2> QED
      BY <2>1, <2>2
  <1>10. w = v
    BY <1>6, <1>7, <1>9, SeqEqual
  <1> QED
    BY <1>8, <1>10

\* The first of several equal clauses.
LEMMA FirstOfIs ==
    ASSUME NEW S, NEW s \in Seq(S), NEW i \in 1 .. Len(s), \A j \in 1 .. i - 1 : s[j] # s[i]
    PROVE  FirstOf(s, s[i]) = i
  <1> DEFINE First(k) == s[k] = s[i] /\ \A j \in 1 .. k - 1 : s[j] # s[i]
  <1>1. DOMAIN s = 1 .. Len(s) /\ Len(s) \in Nat
    BY LenProperties
  <1>2. First(i)
    OBVIOUS
  <1>3. ASSUME NEW k \in 1 .. Len(s), First(k)
        PROVE  k = i
    <2>1. ~(k < i)
      <3>1. k < i => k \in 1 .. i - 1
        BY <1>1
      <3> QED
        BY <1>3, <3>1
    <2>2. ~(i < k)
      <3>1. i < k => i \in 1 .. k - 1
        BY <1>1
      <3> QED
        BY <1>3, <3>1
    <2> QED
      BY <1>1, <2>1, <2>2
  <1>4. FirstOf(s, s[i]) = CHOOSE k \in 1 .. Len(s) : First(k)
    BY <1>1 DEF FirstOf
  <1> HIDE DEF First
  <1> QED
    BY <1>2, <1>3, <1>4

\* Of two equal clauses retract takes the first: a renamed argument variable is
\* free in the store, so a copy of a clause that unifies unifies as well.
LEMMA TwinsUnify ==
    ASSUME NEW st, NEW n \in Nat, StoreTo(st, n), NEW s, NEW t \in Templates,
           NEW a \in Nat, NEW b \in Nat, n < a, Unify(s, Inst(t, b), st).ok
    PROVE  Unify(s, Inst(t, a), st).ok
  <1>1. CASE t \in Names
    <2> DEFINE v == Inst(t, a)
    <2>1. v = [var |-> t, act |-> a] /\ v \in Vars
      BY <1>1 DEF Inst, Var, Vars
    <2>2. v \notin DOMAIN st.m
      <3>1. v.act = a /\ ~(a <= n)
        BY <2>1
      <3> QED
        BY <2>1, <3>1 DEF StoreTo, KnownTo
    <2>3. Walk(v, st) = v
      BY <2>1, <2>2, WalkFree DEF StoreTo
    <2> HIDE DEF v
    <2>4. Unify(s, v, st).ok
      BY <2>1, <2>3 DEF Unify
    <2> QED
      BY <2>4 DEF v
  <1>2. CASE t \notin Names
    <2>1. Inst(t, a) = t /\ Inst(t, b) = t
      BY <1>2 DEF Inst
    <2> QED
      BY <2>1
  <1> QED
    BY <1>1, <1>2

LEMMA RetractTakesFirst ==
    ASSUME ControlOK, DataInv, SolveRetract, world' # world
    PROVE  \E i \in 1 .. Len(db) :
             /\ \A j \in 1 .. i - 1 : db[j] # db[i]
             /\ db' = RemoveAt(db, i)
             /\ log' = Append(log, [op |-> "retract", clause |-> db[i]])
             /\ Current.g.pred \in Dynamic /\ db[i].pred = Current.g.pred
  <1> DEFINE g    == Current.g
             s    == Arg(Current)
             base == IF db = <<>> THEN store ELSE UndoTo(store, call.mark)
             try  == [i \in 1 .. Len(db) |-> Unify(s, Inst(db[i].arg, fresh + i), base)]
             hits == {i \in 1 .. Len(db) : db[i].pred = g.pred /\ db[i].body = <<>> /\ try[i].ok}
  <1>1. /\ fresh \in Nat /\ pc = "call" /\ call.goals # <<>> /\ g.op = "retract"
        /\ db \in Seq(Clauses) /\ Len(db) \in Nat
    BY SizesAreNat, LenProperties DEF SolveRetract, Running, ControlOK
  <1>2. PICK i \in hits : /\ g.pred \in Dynamic /\ \A j \in hits : i <= j
                          /\ db' = RemoveAt(db, i)
                          /\ log' = Append(log, [op |-> "retract", clause |-> db[i]])
    BY DEF SolveRetract, world
  <1>3. i \in 1 .. Len(db) /\ db[i].pred = g.pred /\ db[i].body = <<>> /\ try[i].ok
    OBVIOUS
  <1>4. StoreTo(base, fresh)
    <2>1. /\ Current \in InstTo(fresh) /\ call.mark \in Nat /\ call.mark <= Len(store.mem)
          /\ StoreTo(store, fresh)
      BY <1>1, CallKnown, SizesAreNat
    <2> QED
      BY <1>1, <2>1, UndoKnown
  <1> HIDE DEF base
  <1>5. ASSUME NEW j \in 1 .. i - 1, db[j] = db[i]
        PROVE  FALSE
    <2>1. j \in 1 .. Len(db) /\ j < i
      BY <1>1, <1>3
    <2>2. db[i].arg \in Templates
      <3>1. db[i] \in Clauses
        BY <1>1, <1>3, ElementOfSeq
      <3> QED
        BY <3>1 DEF Clauses
    <2>3. Unify(s, Inst(db[i].arg, fresh + i), base).ok
      BY <1>3
    <2>4. fresh + i \in Nat /\ fresh + j \in Nat /\ fresh < fresh + j
      BY <1>1, <1>3, <2>1
    <2> HIDE DEF s
    <2>5. Unify(s, Inst(db[i].arg, fresh + j), base).ok
      BY <1>1, <1>4, <2>2, <2>3, <2>4, TwinsUnify
    <2>6. try[j].ok
      BY <1>5, <2>1, <2>5
    <2>7. j \in hits
      BY <1>3, <1>5, <2>1, <2>6
    <2> HIDE DEF hits
    <2> QED
      BY <1>1, <1>2, <1>3, <2>1, <2>7
  <1> QED
    BY <1>2, <1>3, <1>5

AuditKept == pc # "done" => Audited(prog, log, db)

\* Only assert and retract change the database or its log during the run.
LEMMA WorldStep ==
    ASSUME [Next]_vars
    PROVE  /\ prog' = prog
           /\ pc = "done" => pc' = "done"
           /\ \/ world' = world
              \/ Finish
              \/ SolveAssert \/ SolveRetract
  <1>1. prog' = prog /\ (world' = world \/ Finish \/ SolveAssert \/ SolveRetract)
    BY DEF Next, Step, Enter, Execute, Unwind, Interrupted, EmitAnswer, EmitFirst, EmitCollected,
         EmitContinuation, DepthExceeded, SolveTrue, SolveFail, SolveCut, SolveAnd, SolveOr, SolveIte,
         SolveInner, SolveThrow, SolveEq, SolveNeq, SolveCall, SolveAssert, SolveRetract, TryClause,
         LoopExhausted, LoopReturn, CutReturn, OrReturn, CondReturn, NotReturn, OnceReturn,
         FindallReturn, CatchReturn, ContReturn, Finish, Cancel, Terminated, vars, input, world
  <1>2. pc = "done" => pc' = "done"
    BY DEF Next, Step, Enter, Execute, Unwind, Interrupted, EmitAnswer, EmitFirst, EmitCollected,
         EmitContinuation, DepthExceeded, SolveTrue, SolveFail, SolveCut, SolveAnd, SolveOr, SolveIte,
         SolveInner, SolveThrow, SolveEq, SolveNeq, SolveCall, SolveAssert, SolveRetract, TryClause,
         LoopExhausted, LoopReturn, CutReturn, OrReturn, CondReturn, NotReturn, OnceReturn,
         FindallReturn, CatchReturn, ContReturn, Finish, Cancel, Terminated, vars,
         Running, Trying, Returned, Emitting
  <1> QED
    BY <1>1, <1>2

LEMMA AuditStep ==
    ASSUME ControlOK, DataInv, RecordsOK, RecordsOK', AuditKept, [Next]_vars
    PROVE  AuditKept'
  <1> SUFFICES ASSUME pc' # "done"
               PROVE  Audited(prog', log', db')
    BY DEF AuditKept, Audited, Replays, After, Applied, Without, FirstOf
  <1>1. prog' = prog /\ pc # "done" /\ Audited(prog, log, db)
    BY WorldStep DEF AuditKept
  <1>2. ASSUME NEW e, log' = Append(log, e), db' = Applied(db, e)
        PROVE  Audited(prog', log', db')
    <2>1. log \in Seq(Entries \cup {e})
      <3>1. log \in Seq(Entries) /\ Entries \subseteq Entries \cup {e}
        BY DEF RecordsOK
      <3> QED
        BY <3>1, SeqGrows
    <2> DEFINE S == Entries \cup {e}
    <2>2. e \in S /\ log \in Seq(S)
      BY <2>1
    <2> HIDE DEF S
    <2> QED
      BY <1>1, <1>2, <2>2, AuditGrows
  <1>3. CASE world' = world
    BY <1>1, <1>3 DEF world
  <1>4. CASE SolveAssert /\ world' # world
    <2> DEFINE g == Current.g
               c == Fact(g.pred, Stored(CopyOut(Arg(Current), store, fresh')))
               e == [op |-> g.op, clause |-> c]
    <2>1. /\ g.op \in {"asserta", "assertz"} /\ log' = Append(log, e)
          /\ db' = IF g.op = "asserta" THEN <<c>> \o db ELSE Append(db, c)
      BY <1>4 DEF SolveAssert, Running, world
    <2>2. e.op = g.op /\ e.clause = c
      OBVIOUS
    <2> HIDE DEF e, c
    <2>3. db' = Applied(db, e)
      <3>1. CASE g.op = "asserta"
        BY <2>1, <2>2, <3>1 DEF Applied
      <3>2. CASE g.op = "assertz"
        BY <2>1, <2>2, <3>2 DEF Applied
      <3> QED
        BY <2>1, <3>1, <3>2
    <2> QED
      BY <1>2, <2>1, <2>3
  <1>5. CASE SolveRetract /\ world' # world
    <2>1. PICK i \in 1 .. Len(db) :
             /\ \A j \in 1 .. i - 1 : db[j] # db[i]
             /\ db' = RemoveAt(db, i)
             /\ log' = Append(log, [op |-> "retract", clause |-> db[i]])
      BY <1>5, RetractTakesFirst
    <2> DEFINE e == [op |-> "retract", clause |-> db[i]]
    <2>2. e.op = "retract" /\ e.clause = db[i]
      OBVIOUS
    <2>3. log' = Append(log, e)
      BY <2>1
    <2> HIDE DEF e
    <2>4. FirstOf(db, db[i]) = i /\ Without(db, i) = RemoveAt(db, i)
      BY <2>1, FirstOfIs, WithoutIsRemoveAt DEF ControlOK
    <2>5. db' = Applied(db, e)
      BY <2>1, <2>2, <2>4 DEF Applied
    <2> QED
      BY <1>2, <2>3, <2>5
  <1>6. ~Finish
    BY DEF Finish
  <1> QED
    BY <1>3, <1>4, <1>5, <1>6, WorldStep

LEMMA AuditIsKept ==
    ASSUME AuditKept, RecordsOK
    PROVE  DatabaseAudited
  <1>1. pc # "done" => db = Replayed(prog, log)
    <2> SUFFICES ASSUME pc # "done" PROVE Replayed(prog, log) = db
      OBVIOUS
    <2>1. Audited(prog, log, db)
      BY DEF AuditKept
    <2> QED
      BY <2>1, ReplayedIs DEF Audited
  <1>2. \A i \in DOMAIN log : log[i] \in Entries
    BY InDomain DEF RecordsOK
  <1> QED
    BY <1>1, <1>2 DEF DatabaseAudited, Entries

\* The audit log replays to the database: every change made by assert and
\* retract is in it, in order, also those of branches that failed or threw, and
\* a logged retract names the clause that was taken (assert.go:46-61, 67-88).
THEOREM LogAuditsDatabase == Spec => []DatabaseAudited
  <1>1. Init => RecordsOK
    BY RecordsInitially
  <1>2. Init => AuditKept
    BY AuditStarts DEF Init, AuditKept
  <1>3. ControlOK /\ RecordsOK /\ [Next]_vars => RecordsOK'
    BY RecordsStep
  <1>4. ControlOK /\ DataInv /\ RecordsOK /\ RecordsOK' /\ AuditKept /\ [Next]_vars => AuditKept'
    BY AuditStep
  <1>5. AuditKept /\ RecordsOK => DatabaseAudited
    BY AuditIsKept
  <1> QED
    BY <1>1, <1>2, <1>3, <1>4, <1>5, ControlIsLinked, DataIsKnown, PTL DEF Spec

-----------------------------------------------------------------------------
(* The run of a query that is asked for n answers ends with the nth: every   *)
(* frame that is then on the stack hands the stop of Solve's collector on.   *)

Full == cap > 0 /\ Len(out) >= cap

Unwinding == /\ pc \in {"return", "done"} /\ ret = Stop
             /\ \A i \in Levels : /\ stack[i].kind \in Transparent
                                  /\ stack[i].cont \in {<<>>, <<Stop>>}

Capped == cap \in Nat /\ (Full => Len(out) = cap /\ Unwinding)

\* Only the emission of an answer changes the answers.
LEMMA AnswersKept ==
    ASSUME [Next]_vars, ~EmitAnswer
    PROVE  out' = out
  BY DEF Next, Step, Enter, Execute, Unwind, Interrupted, EmitFirst, EmitCollected,
     EmitContinuation, DepthExceeded, SolveTrue, SolveFail, SolveCut, SolveAnd, SolveOr, SolveIte,
     SolveInner, SolveThrow, SolveEq, SolveNeq, SolveCall, SolveAssert, SolveRetract, TryClause,
     LoopExhausted, LoopReturn, CutReturn, OrReturn, CondReturn, NotReturn, OnceReturn,
     FindallReturn, CatchReturn, ContReturn, Finish, Cancel, Terminated, vars

\* A run stays for the number of answers it was asked for.
LEMMA CapKept ==
    ASSUME [Next]_vars
    PROVE  cap' = cap
  BY DEF Next, Step, Enter, Execute, Unwind, Interrupted, EmitAnswer, EmitFirst, EmitCollected,
     EmitContinuation, DepthExceeded, SolveTrue, SolveFail, SolveCut, SolveAnd, SolveOr, SolveIte,
     SolveInner, SolveThrow, SolveEq, SolveNeq, SolveCall, SolveAssert, SolveRetract, TryClause,
     LoopExhausted, LoopReturn, CutReturn, OrReturn, CondReturn, NotReturn, OnceReturn,
     FindallReturn, CatchReturn, ContReturn, Finish, Cancel, Terminated, vars, input

\* The last answer: Solve's own collector is called, so no probe, findall or
\* catch waits between it and the end of the run.
LEMMA LastAnswer ==
    ASSUME ControlOK, EmitOK, PendingOK, RecordsOK, Capped, EmitAnswer
    PROVE  Capped'
  <1>1. pc = "call" /\ call.emit = 0 /\ Len(stack) \in Nat /\ stack' = stack /\ cap' = cap
    BY LenProperties DEF EmitAnswer, Emitting, ControlOK, input
  <1>2. ~Full /\ cap \in Nat
    BY <1>1 DEF Capped, Unwinding
  <1>3. Len(out') = Len(out) + 1 /\ Len(out) \in Nat
    <2> DEFINE a == [n \in Names |-> Walk(Var(n, 0), store)]
    <2>1. out' = Append(out, a)
      BY DEF EmitAnswer
    <2> HIDE DEF a
    <2>2. Len(out) \in Nat
      BY LenProperties DEF RecordsOK
    <2>3. \A n \in Names : Var(n, 0) \in Terms
      BY DEF Var, Vars, Terms
    <2>4. a \in [Names -> Terms]
      BY <2>3, WalkType DEF a
    <2> QED
      BY <2>1, <2>2, <2>4, PushFacts DEF RecordsOK
  <1>4. Quiet(stack) /\ EmitterOf(0, Len(stack))
    BY <1>1, QuietUnlessStopping DEF EmitOK
  <1>5. \A i \in Levels : stack[i].kind \in Transparent /\ stack[i].cont = <<>>
    BY <1>1, <1>4 DEF EmitterOf, Quiet, Levels
  <1>6. pc' = "return" /\ ret' = Result(cap > 0 /\ Len(out') >= cap, 0, NoErr)
    BY DEF EmitAnswer, Return
  <1>7. ASSUME Full' PROVE Len(out') = cap /\ ret' = Stop
    <2>1. cap > 0 /\ Len(out') >= cap
      BY <1>1, <1>7 DEF Full
    <2>2. Len(out') = cap
      BY <1>2, <1>3, <2>1 DEF Full
    <2> QED
      BY <1>6, <2>1, <2>2 DEF Stop
  <1>8. Levels' = Levels
    BY <1>1 DEF Levels
  <1> QED
    BY <1>1, <1>2, <1>5, <1>6, <1>7, <1>8 DEF Capped, Unwinding

\* ... and once it was emitted nothing but the stop moves.
LEMMA StopsUnwind ==
    ASSUME ControlOK, EmitOK, Unwinding, Unwind
    PROVE  Unwinding'
  <1>1. Len(stack) \in Nat /\ pc # "try" /\ pc # "call"
    BY LenProperties DEF Unwinding, ControlOK
  <1>2. ~TryClause /\ ~LoopExhausted
    BY <1>1 DEF TryClause, Trying, LoopExhausted
  <1>3. stack # <<>> => Len(stack) \in Levels /\ Top = stack[Len(stack)]
    BY TopTypes DEF Levels, Top
  <1>4. ~CondReturn /\ ~NotReturn /\ ~OnceReturn /\ ~FindallReturn
    BY <1>3 DEF CondReturn, NotReturn, OnceReturn, FindallReturn, Returned, Unwinding, Transparent
  <1>5. CASE LoopReturn \/ CutReturn \/ OrReturn \/ CatchReturn
    <2>1. stack # <<>> /\ pc = "return"
      BY <1>5 DEF LoopReturn, CutReturn, OrReturn, CatchReturn, Returned
    <2>2. Top.cont \in {<<>>, <<Stop>>} /\ ret = Stop
      BY <1>3, <2>1 DEF Unwinding
    <2>3. pc' = "return" /\ ret' = Stop
      BY <1>5, <2>2, StopsPass
    <2>4. stack' = Popped
      BY <1>5, <2>3, PopsContinue
    <2>5. Len(stack') = Len(stack) - 1 /\ \A i \in 1 .. Len(stack) - 1 : stack'[i] = stack[i]
      BY <2>1, <2>4, PopShape
    <2>6. \A i \in Levels' : i \in Levels /\ stack'[i] = stack[i]
      BY <1>1, <2>5 DEF Levels
    <2> QED
      BY <2>3, <2>6 DEF Unwinding
  <1>6. CASE ContReturn
    <2>1. ret = Stop /\ pc' = "return" /\ ret' = Result(Escapes(ret), 0, NoErr)
      BY <1>6 DEF ContReturn, Return, Unwinding
    <2>2. Escapes(ret) /\ ret' = Stop /\ Captured(ret) = <<Stop>>
      BY <2>1 DEF Escapes, Stop, Result, Captured
    <2>3. /\ Len(stack') = Len(stack) - 1
          /\ \A i \in 1 .. Len(stack) - 1 : i # Top.owner => stack'[i] = stack[i]
          /\ Top.owner \in 1 .. Len(stack) - 1 /\ stack[Top.owner].kind = "catch"
          /\ stack'[Top.owner] = [stack[Top.owner] EXCEPT !.cont = Captured(ret)]
          /\ stack[Top.owner] \in Frames
      BY <1>6, ContShape
    <2>4. stack'[Top.owner].kind = "catch" /\ stack'[Top.owner].cont = <<Stop>>
      BY <2>2, <2>3 DEF Frames, Records
    <2>5. ASSUME NEW i \in Levels'
          PROVE  stack'[i].kind \in Transparent /\ stack'[i].cont \in {<<>>, <<Stop>>}
      <3>1. i \in 1 .. Len(stack) - 1 /\ i \in Levels
        BY <1>1, <2>3 DEF Levels
      <3>2. CASE i = Top.owner
        BY <2>4, <3>2 DEF Transparent
      <3>3. CASE i # Top.owner
        BY <2>3, <3>1, <3>3 DEF Unwinding
      <3> QED
        BY <3>2, <3>3
    <2> QED
      BY <2>1, <2>2, <2>5 DEF Unwinding
  <1>7. CASE Finish
    BY <1>7 DEF Finish, Unwinding, Levels
  <1> QED
    BY <1>2, <1>4, <1>5, <1>6, <1>7 DEF Unwind

LEMMA CappedStep ==
    ASSUME ControlOK, EmitOK, PendingOK, RecordsOK, Capped, [Next]_vars
    PROVE  Capped'
  <1>1. CASE EmitAnswer
    BY <1>1, LastAnswer
  <1>2. CASE ~EmitAnswer
    <2>1. out' = out /\ cap' = cap
      BY <1>2, AnswersKept, CapKept
    <2>2. Full' <=> Full
      BY <2>1 DEF Full
    <2> SUFFICES ASSUME Full PROVE Unwinding'
      BY <2>1, <2>2 DEF Capped
    <2>3. Unwinding /\ pc # "call"
      BY DEF Capped, Unwinding
    <2>4. ~Execute
      BY <2>3, ExecuteShape
    <2>5. ~Enter
      BY <2>3 DEF Enter, Interrupted, EmitAnswer, EmitFirst, EmitCollected, EmitContinuation,
                  DepthExceeded, Emitting
    <2>6. CASE Unwind
      BY <2>3, <2>6, StopsUnwind
    <2>7. CASE Cancel \/ Terminated \/ UNCHANGED vars
      BY <2>3, <2>7 DEF Cancel, Terminated, vars, control, Unwinding, Levels
    <2> QED
      BY <2>4, <2>5, <2>6, <2>7 DEF Next, Step
  <1> QED
    BY <1>1, <1>2

\* A run that is asked for n answers stops at the nth, whatever disjunctions,
\* cuts, clause loops and catches still have alternatives, and none of them
\* turns the stop into anything else (solve.go:225-234, 247-255).
THEOREM RunsEndAtTheirCap == Spec => []CapEndsTheRun
  <1>1. Init => RecordsOK /\ Capped
    BY RecordsInitially, CapsAssumption DEF Init, Capped, Full
  <1>2. ControlOK /\ EmitOK /\ PendingOK /\ RecordsOK /\ Capped /\ [Next]_vars => RecordsOK' /\ Capped'
    BY RecordsStep, CappedStep
  <1>3. Capped => CapEndsTheRun
    BY DEF Capped, Full, Unwinding, CapEndsTheRun
  <1>4. StopsReachTheirProbe <=> EmitOK /\ PendingOK
    BY DEF StopsReachTheirProbe
  <1> QED
    BY <1>1, <1>2, <1>3, <1>4, ControlIsLinked, StopsReachProbes, PTL DEF Spec
=============================================================================
