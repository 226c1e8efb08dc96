--------------------------- MODULE EngineSoundness ---------------------------
(***************************************************************************)
(* Three proofs about what a run of module Engine computes, for every      *)
(* program, query and bound: a handle stands for the same substitution as  *)
(* long as a frame keeps it, every answer is a consequence of the program, *)
(* and the run of a definite program finds every solution (module Models). *)
(***************************************************************************)
EXTENDS EngineData, Models

-----------------------------------------------------------------------------
(* The substitution of a handle, under the changes of a store. *)

\* Two functions with the same values.
SameMap(m, k) == DOMAIN m = DOMAIN k /\ \A v \in DOMAIN m : m[v] = k[v]

\* What the first k entries of a trail record.
Listed(st, k) == {st.mem[i] : i \in 1 .. k}

LEMMA DenotesFacts ==
    ASSUME NEW st, NEW k
    PROVE  /\ DOMAIN Denotes(st, k) = DOMAIN st.m \cap Listed(st, k)
           /\ \A v \in DOMAIN Denotes(st, k) : Denotes(st, k)[v] = st.m[v]
  BY DEF Denotes, Listed

LEMMA SameDenotes ==
    ASSUME NEW st, NEW tt, NEW k, NEW l,
           DOMAIN Denotes(st, k) = DOMAIN Denotes(tt, l),
           \A v \in DOMAIN Denotes(st, k) : st.m[v] = tt.m[v]
    PROVE  Denotes(st, k) = Denotes(tt, l)
  <1> DEFINE D == DOMAIN st.m \cap Listed(st, k)
             E == DOMAIN tt.m \cap Listed(tt, l)
  <1>1. D = E /\ \A v \in D : st.m[v] = tt.m[v]
    <2>1. DOMAIN Denotes(st, k) = D /\ DOMAIN Denotes(tt, l) = E
      BY DenotesFacts
    <2> HIDE DEF D, E
    <2> QED
      BY <2>1
  <1>2. Denotes(st, k) = [v \in D |-> st.m[v]] /\ Denotes(tt, l) = [v \in E |-> tt.m[v]]
    BY Zenon DEF Denotes, Listed
  <1> HIDE DEF D, E
  <1> QED
    BY <1>1, <1>2

\* A new binding is recorded above the handles there are.
LEMMA BindDenotes ==
    ASSUME NEW st, StoreOK(st), TrailFits(st), NEW x \in Vars, x \notin DOMAIN st.m,
           NEW y \in Terms, y \notin DOMAIN st.m, x # y, NEW k \in Nat, k <= st.len
    PROVE  Denotes(Bind(st, x, y), k) = Denotes(st, k)
  <1> DEFINE b == Bind(st, x, y)
  <1>1. DOMAIN b.m = DOMAIN st.m \cup {x} /\ \A v \in DOMAIN st.m : b.m[v] = st.m[v]
    BY BindFacts
  <1>2. st.mem \in Seq(Vars) /\ st.len \in Nat /\ st.len <= Len(st.mem)
    BY DEF StoreOK
  <1>3. \A i \in 1 .. st.len : b.mem[i] = st.mem[i]
    <2>1. b.mem = Recorded(st.mem, st.len, x)
      BY DEF Bind, Recorded
    <2> DEFINE n == st.len
               l == st.mem
    <2>2. l \in Seq(Vars) /\ n \in Nat /\ n <= Len(l)
      BY <1>2
    <2> HIDE DEF b, n, l
    <2>3. \A i \in 1 .. n : Recorded(l, n, x)[i] = l[i]
      BY <2>2, BindTrail
    <2> QED
      BY <2>1, <2>3 DEF n, l
  <1> HIDE DEF b
  <1>4. \A i \in 1 .. k : i \in 1 .. st.len
    BY <1>2
  <1>5. Listed(b, k) = Listed(st, k)
    BY <1>3, <1>4 DEF Listed
  <1>6. x \notin Listed(st, k)
    BY <1>4 DEF TrailFits, Listed
  <1>7. DOMAIN Denotes(b, k) = DOMAIN Denotes(st, k)
    <2>1. DOMAIN b.m \cap Listed(b, k) = DOMAIN st.m \cap Listed(st, k)
      BY <1>1, <1>5, <1>6
    <2> QED
      BY <2>1, DenotesFacts
  <1>8. \A v \in DOMAIN Denotes(b, k) : b.m[v] = st.m[v]
    BY <1>1, <1>7, DenotesFacts
  <1> QED
    BY <1>7, <1>8, SameDenotes DEF b

\* An undo keeps what was bound before its handle, and no more.
LEMMA UndoDenotes ==
    ASSUME NEW st, StoreOK(st), TrailFits(st), NEW n \in Nat, n <= st.len, NEW k \in Nat, k <= n
    PROVE  /\ Denotes(UndoTo(st, n), k) = Denotes(st, k)
           /\ SameMap(UndoTo(st, n).m, Denotes(st, n))
  <1> DEFINE b == UndoTo(st, n)
             dropped == {st.mem[i] : i \in (n + 1) .. st.len}
             m == [v \in DOMAIN st.m \ dropped |-> st.m[v]]
  <1>1. b.m = m /\ b.mem = st.mem
    BY DEF UndoTo
  <1>2. DOMAIN m = DOMAIN st.m \ dropped /\ \A v \in DOMAIN m : m[v] = st.m[v]
    OBVIOUS
  <1> HIDE DEF b, m
  <1>3. st.len \in Nat
    BY DEF StoreOK
  <1>4. \A i \in 1 .. n : st.mem[i] \notin dropped
    <2> SUFFICES ASSUME NEW i \in 1 .. n, NEW j \in n + 1 .. st.len
                 PROVE  st.mem[i] # st.mem[j]
      OBVIOUS
    <2>1. i \in 1 .. st.len /\ j \in 1 .. st.len /\ i # j
      BY <1>3
    <2> QED
      BY <2>1 DEF TrailFits
  <1>5. \A i \in 1 .. st.len : i \in 1 .. n \/ i \in n + 1 .. st.len
    BY <1>3
  <1>6. DOMAIN m = DOMAIN st.m \cap Listed(st, n)
    BY <1>2, <1>4, <1>5 DEF TrailFits, Listed
  <1>7. \A i \in 1 .. k : i \in 1 .. n
    OBVIOUS
  <1>8. DOMAIN Denotes(b, k) = DOMAIN Denotes(st, k)
    <2>1. \A v \in Listed(st, k) : v \notin dropped
      BY <1>4, <1>7 DEF Listed
    <2>2. Listed(b, k) = Listed(st, k)
      BY <1>1 DEF Listed
    <2>3. DOMAIN b.m \cap Listed(b, k) = DOMAIN st.m \cap Listed(st, k)
      BY <1>1, <1>2, <2>1, <2>2
    <2> QED
      BY <2>3, DenotesFacts
  <1>9. \A v \in DOMAIN Denotes(b, k) : b.m[v] = st.m[v]
    BY <1>1, <1>2, DenotesFacts
  <1>10. SameMap(b.m, Denotes(st, n))
    <2>1. DOMAIN Denotes(st, n) = DOMAIN m /\ \A v \in DOMAIN Denotes(st, n) : Denotes(st, n)[v] = st.m[v]
      BY <1>6, DenotesFacts
    <2> QED
      BY <1>1, <1>2, <2>1 DEF SameMap
  <1> QED
    BY <1>8, <1>9, <1>10, SameDenotes DEF b

\* A unification binds at most one variable, which was free.
LEMMA UnifyDenotes ==
    ASSUME NEW st, StoreOK(st), TrailFits(st), NEW s \in Terms, NEW t \in Terms,
           NEW k \in Nat, k <= st.len
    PROVE  Denotes(Unify(s, t, st).st, k) = Denotes(st, k)
  <1> DEFINE x == Walk(s, st)
             y == Walk(t, st)
             u == Unify(s, t, st)
  <1>1. x \in Terms /\ x \notin DOMAIN st.m /\ y \in Terms /\ y \notin DOMAIN st.m
    <2>1. \A v \in DOMAIN st.m : st.m[v] \in Terms
      BY DEF StoreOK
    <2> QED
      BY <2>1, WalkFacts
  <1>2. \/ u.st = st
        \/ x # y /\ x \in Vars /\ u.st = Bind(st, x, y)
        \/ x # y /\ y \in Vars /\ u.st = Bind(st, y, x)
    BY DEF Unify
  <1> HIDE DEF x, y, u
  <1>3. Denotes(u.st, k) = Denotes(st, k)
    BY <1>1, <1>2, BindDenotes
  <1> QED
    BY <1>3 DEF u

-----------------------------------------------------------------------------
(* What a step does to the store: nothing, or an undo to a handle that no    *)
(* waiting frame's handle lies beyond, and then perhaps a unification.       *)

Withdrawn(b) ==
    \/ b = store
    \/ \E m \in Nat : /\ b = UndoTo(store, m) /\ m <= store.len
                      /\ \A i \in 1 .. Len(stack) : stack[i].mark <= m

StoreMove == \E b : /\ Withdrawn(b)
                    /\ store' = b \/ \E s, t \in Terms : store' = Unify(s, t, b).st

\* What the proofs about the substitution start from.
Exact == ControlOK /\ EmitOK /\ PendingOK /\ DataInv /\ HandlesExact /\ TrailExact /\ ~leaked

LEMMA ExactStore ==
    ASSUME Exact
    PROVE  /\ StoreOK(store) /\ TrailFits(store) /\ store.len \in Nat
           /\ stack \in Seq(Frames)
           /\ \A i \in 1 .. Len(stack) : /\ stack[i] \in Frames /\ stack[i].mark \in Nat
                                         /\ stack[i].mark <= store.len
                                         /\ stack[i].base = stack[i].mark
           /\ pc = "call" => call.mark = store.len
  <1>1. StoreOK(store) /\ store.len \in Nat /\ stack \in Seq(Frames)
    BY SizesAreNat DEF Exact, StoreTo, ControlOK
  <1>2. \A i \in 1 .. Len(stack) : stack[i] \in Frames /\ stack[i].mark \in Nat
    BY <1>1, ElementOfSeq, FrameFields
  <1>3. \A i \in 1 .. Len(stack) : stack[i].mark <= store.len /\ stack[i].base = stack[i].mark
    BY DEF Exact, HandlesExact, Levels
  <1> QED
    BY <1>1, <1>2, <1>3 DEF Exact, TrailExact, HandlesExact

\* An undo to the handle of the top frame.
LEMMA TopWithdrawn ==
    ASSUME Exact, stack # <<>>
    PROVE  /\ Withdrawn(UndoTo(store, Top.mark)) /\ Top.base = Top.mark
           /\ Top = stack[Len(stack)] /\ Len(stack) \in 1 .. Len(stack) /\ Top.mark \in Nat
           /\ Top.mark <= store.len /\ Top \in Frames
  <1>1. Top = stack[Len(stack)] /\ Len(stack) \in 1 .. Len(stack) /\ Len(stack) \in Nat
    BY TopTypes DEF Exact, Top
  <1>2. Top.mark \in Nat /\ Top.mark <= store.len /\ Top.base = Top.mark /\ Top \in Frames
    BY <1>1, ExactStore
  <1>3. \A i \in 1 .. Len(stack) : stack[i].mark <= Top.mark
    BY <1>1 DEF Exact, HandlesExact, Levels
  <1> QED
    BY <1>1, <1>2, <1>3 DEF Withdrawn

LEMMA CallWithdrawn ==
    ASSUME Exact, pc = "call"
    PROVE  Withdrawn(UndoTo(store, call.mark))
  BY ExactStore DEF Withdrawn

\* The arguments of a goal are terms.
LEMMA ArgTypes ==
    ASSUME NEW gi \in Instances
    PROVE  /\ gi.g.op \in {"eq", "neq", "throw", "catch", "findall", "call", "asserta", "assertz",
                           "retract"} => gi.g.arg \in Templates /\ Arg(gi) \in Terms
           /\ gi.g.op \in {"eq", "neq"} =>
                gi.g.arg2 \in Templates /\ Inst(gi.g.arg2, gi.act) \in Terms
  BY SubgoalTypes, InstType DEF Arg

\* What a withdrawal leaves, and a unification after it.
LEMMA WithdrawnFacts ==
    ASSUME Exact, NEW b, Withdrawn(b)
    PROVE  StoreOK(b) /\ TrailFits(b)
  <1>1. StoreOK(store) /\ TrailFits(store) /\ store.len \in Nat
    BY ExactStore
  <1>2. ASSUME NEW m \in Nat, b = UndoTo(store, m), m <= store.len
        PROVE  StoreOK(b) /\ TrailFits(b)
    <2>1. m <= Len(store.mem)
      BY <1>1, <1>2, LenProperties DEF StoreOK
    <2> QED
      BY <1>1, <1>2, <2>1, UndoFacts
  <1> QED
    BY <1>1, <1>2 DEF Withdrawn

LEMMA MoveDenotes ==
    ASSUME Exact, StoreMove, NEW i \in 1 .. Len(stack)
    PROVE  Denotes(store', stack[i].mark) = Denotes(store, stack[i].mark)
  <1> DEFINE k == stack[i].mark
  <1>1. PICK b : /\ Withdrawn(b)
                 /\ store' = b \/ \E s, t \in Terms : store' = Unify(s, t, b).st
    BY DEF StoreMove
  <1>2. StoreOK(store) /\ TrailFits(store) /\ store.len \in Nat /\ k \in Nat /\ k <= store.len
    BY ExactStore
  <1>3. StoreOK(b) /\ TrailFits(b)
    BY <1>1, WithdrawnFacts
  <1>4. Denotes(b, k) = Denotes(store, k) /\ k <= b.len
    <2>1. CASE b = store
      BY <1>2, <2>1
    <2>2. CASE b # store
      <3>1. PICK m \in Nat : b = UndoTo(store, m) /\ m <= store.len /\ k <= m
        BY <1>1, <2>2 DEF Withdrawn
      <3> QED
        BY <1>2, <3>1, UndoDenotes, UndoToLength
    <2> QED
      BY <2>1, <2>2
  <1> HIDE DEF k
  <1>5. \A s, t \in Terms : Denotes(Unify(s, t, b).st, k) = Denotes(b, k)
    BY <1>2, <1>3, <1>4, UnifyDenotes
  <1>6. Denotes(store', k) = Denotes(store, k)
    BY <1>1, <1>4, <1>5
  <1> QED
    BY <1>6 DEF k

LEMMA NoMove ==
    ASSUME store' = store
    PROVE  StoreMove
  BY DEF StoreMove, Withdrawn

LEMMA MoveExecute ==
    ASSUME Exact, Execute
    PROVE  StoreMove
  <1>1. CASE \/ SolveTrue \/ SolveFail \/ SolveCut \/ SolveAnd \/ SolveOr \/ SolveIte \/ SolveInner
             \/ SolveThrow \/ SolveCall \/ SolveAssert
    <2>1. store' = store
      BY <1>1 DEF SolveTrue, SolveFail, SolveCut, SolveAnd, SolveOr, SolveIte, SolveInner, SolveThrow,
         SolveCall, SolveAssert
    <2> QED
      BY <2>1, NoMove
  <1>2. CASE SolveEq \/ SolveNeq
    <2>1. Current \in Instances /\ Current.g.op \in {"eq", "neq"}
      BY <1>2, RunningFacts DEF SolveEq, SolveNeq, Exact
    <2>2. Arg(Current) \in Terms /\ Inst(Current.g.arg2, Current.act) \in Terms
      BY <2>1, ArgTypes
    <2>3. store' = Unify(Arg(Current), Inst(Current.g.arg2, Current.act), store).st
      BY <1>2 DEF SolveEq, SolveNeq
    <2> QED
      BY <2>2, <2>3 DEF StoreMove, Withdrawn
  <1>3. CASE SolveRetract
    <2> DEFINE base == IF db = <<>> THEN store ELSE UndoTo(store, call.mark)
               try  == [i \in 1 .. Len(db) |-> Unify(Arg(Current), Inst(db[i].arg, fresh + i), base)]
    <2>1. /\ Current \in Instances /\ Current.g.op = "retract" /\ pc = "call" /\ fresh \in Nat
          /\ db \in Seq(Clauses)
      BY <1>3, RunningFacts DEF SolveRetract, Exact, Running
    <2>2. Arg(Current) \in Terms /\ Withdrawn(base)
      BY <2>1, ArgTypes, CallWithdrawn DEF Withdrawn
    <2>3. \A i \in 1 .. Len(db) : Inst(db[i].arg, fresh + i) \in Terms
      <3> SUFFICES ASSUME NEW i \in 1 .. Len(db) PROVE Inst(db[i].arg, fresh + i) \in Terms
        OBVIOUS
      <3>1. db[i] \in Clauses /\ fresh + i \in Nat
        BY <2>1, ElementOfSeq
      <3>2. db[i].arg \in Templates
        BY <3>1 DEF Clauses
      <3> QED
        BY <3>1, <3>2, InstType
    <2>4. \/ store' = store \/ store' = base
          \/ \E i \in 1 .. Len(db) : store' = try[i].st
      <3> HIDE DEF base
      <3>1. CASE Current.g.pred \notin Dynamic
        BY <1>3, <3>1 DEF SolveRetract
      <3>2. CASE Current.g.pred \in Dynamic
        BY <1>3, <3>2 DEF SolveRetract, base
      <3> QED
        BY <3>1, <3>2
    <2> HIDE DEF base
    <2>5. CASE \E i \in 1 .. Len(db) : store' = try[i].st
      <3>1. PICK i \in 1 .. Len(db) : store' = try[i].st
        BY <2>5
      <3>2. store' = Unify(Arg(Current), Inst(db[i].arg, fresh + i), base).st
        BY <3>1
      <3> QED
        BY <2>2, <2>3, <3>2 DEF StoreMove
    <2>6. CASE store' = base
      BY <2>2, <2>6 DEF StoreMove
    <2> QED
      BY <2>4, <2>5, <2>6, NoMove
  <1> QED
    BY <1>1, <1>2, <1>3 DEF Execute

\* The parts of the clause loop: its goal's argument and the next clause.
LEMMA TryFacts ==
    ASSUME Exact, TryClause
    PROVE  /\ stack # <<>> /\ Top \in Frames /\ Top.goal \in Instances /\ Top.goal.g.op = "call"
           /\ Arg(Top.goal) \in Terms /\ Top.goal.g.arg \in Templates
           /\ Head(Top.clauses) \in Clauses /\ Head(Top.clauses) = Top.clauses[1]
           /\ 1 \in DOMAIN Top.clauses
           /\ Head(Top.clauses).arg \in Templates /\ fresh' \in Nat
           /\ Inst(Head(Top.clauses).arg, fresh') \in Terms
           /\ Withdrawn(UndoTo(store, Top.mark))
  <1>1. /\ stack # <<>> /\ Top \in Frames /\ Top.kind = "loop" /\ Top.clauses # <<>>
        /\ fresh' = fresh + 1 /\ fresh \in Nat
    BY TopTypes DEF Exact, TryClause, Trying, ControlOK
  <1>2. Top.goal \in Instances /\ Top.clauses \in Seq(Clauses) /\ Top.goal.g.op = "call"
    BY <1>1, FrameFields DEF FitsGoal
  <1>3. /\ Head(Top.clauses) \in Clauses /\ Head(Top.clauses) = Top.clauses[1]
        /\ 1 \in DOMAIN Top.clauses
    BY <1>1, <1>2, NonEmptyFacts, LenProperties
  <1>4. Head(Top.clauses).arg \in Templates
    BY <1>3 DEF Clauses
  <1>5. Arg(Top.goal) \in Terms /\ Top.goal.g.arg \in Templates /\ fresh' \in Nat
    BY <1>1, <1>2, ArgTypes
  <1> QED
    BY <1>1, <1>2, <1>3, <1>4, <1>5, InstType, TopWithdrawn

LEMMA MoveUnwind ==
    ASSUME Exact, Unwind, ~Finish
    PROVE  StoreMove
  <1>1. CASE LoopReturn \/ CutReturn \/ CondReturn \/ OnceReturn \/ ContReturn
    <2>1. store' = store
      BY <1>1 DEF LoopReturn, CutReturn, CondReturn, OnceReturn, ContReturn
    <2> QED
      BY <2>1, NoMove
  <1>2. CASE TryClause
    <2> DEFINE base == UndoTo(store, Top.mark)
               u    == Unify(Arg(Top.goal), Inst(Head(Top.clauses).arg, fresh'), base)
    <2>1. store' = u.st \/ store' = base
      BY <1>2 DEF TryClause
    <2> QED
      BY <1>2, <2>1, TryFacts DEF StoreMove
  <1>3. CASE LoopExhausted \/ OrReturn \/ NotReturn \/ FindallReturn \/ CatchReturn
    <2>1. stack # <<>> /\ Top \in Frames
      BY <1>3, TopTypes DEF LoopExhausted, OrReturn, NotReturn, FindallReturn, CatchReturn, Returned,
         Exact, ControlOK
    <2>2. /\ Withdrawn(UndoTo(store, Top.mark)) /\ Top.base = Top.mark
          /\ Top.goal \in Instances /\ FitsGoal(Top) /\ Top.items \in Seq(Consts \cup Vars)
      BY <2>1, TopWithdrawn, FrameFields
    <2> DEFINE base == UndoTo(store, Top.mark)
    <2>3. CASE LoopExhausted \/ OrReturn \/ NotReturn
      <3>1. store' = store \/ store' = base
        BY <2>2, <2>3 DEF LoopExhausted, OrReturn, NotReturn
      <3> HIDE DEF base
      <3> QED
        BY <2>2, <3>1, NoMove DEF StoreMove, base
    <2>4. CASE FindallReturn
      <3> DEFINE u == Unify(Arg(Top.goal), [list |-> Top.items], base)
      <3>1. store' = base \/ store' = u.st
        BY <2>2, <2>4 DEF FindallReturn
      <3>2. Top.goal.g.op = "findall"
        BY <2>2, <2>4 DEF FindallReturn, Returned, FitsGoal
      <3>3. Arg(Top.goal) \in Terms /\ [list |-> Top.items] \in Terms
        BY <2>2, <3>2, ArgTypes DEF Terms, Lists
      <3> QED
        BY <2>2, <3>1, <3>3 DEF StoreMove
    <2>5. CASE CatchReturn
      <3> DEFINE u == Unify(Arg(Top.goal), Ball(ret.err), base)
      <3>1. store' = store \/ (Catchable(ret.err) /\ store' = u.st)
        BY <2>5 DEF CatchReturn
      <3>2. Top.goal.g.op = "catch"
        BY <2>2, <2>5 DEF CatchReturn, Returned, FitsGoal
      <3>3. Catchable(ret.err) => Arg(Top.goal) \in Terms /\ Ball(ret.err) \in Terms
        <4>1. fresh \in Nat /\ ret \in ResultsTo(fresh)
          BY SizesAreNat DEF Exact
        <4> QED
          BY <2>2, <3>2, <4>1, ArgTypes, BallKnown DEF KnownTo
      <3> QED
        BY <2>2, <3>1, <3>3, NoMove DEF StoreMove
    <2> QED
      BY <1>3, <2>3, <2>4, <2>5
  <1> QED
    BY <1>1, <1>2, <1>3 DEF Unwind

\* The handles of the frames that stay denote what they denoted.
LEMMA HandlesKept ==
    ASSUME Exact, [Next]_vars, NEW i \in 1 .. Len(stack), i <= Len(stack')
    PROVE  Denotes(store', stack[i].mark) = Denotes(store, stack[i].mark)
  <1>1. CASE Cancel \/ Terminated \/ UNCHANGED vars
    BY <1>1 DEF Cancel, Terminated, vars
  <1>2. CASE Enter
    <2>1. store' = store
      BY <1>2 DEF Enter, Interrupted, EmitAnswer, EmitFirst, EmitCollected, EmitContinuation, DepthExceeded
    <2> QED
      BY <2>1
  <1>3. CASE Execute
    BY <1>3, MoveExecute, MoveDenotes
  <1>4. CASE Unwind /\ ~Finish
    BY <1>4, MoveUnwind, MoveDenotes
  <1>5. CASE Finish
    BY <1>5 DEF Finish
  <1> QED
    BY <1>1, <1>2, <1>3, <1>4, <1>5 DEF Next, Step

\* As long as a frame waits, the trail below its handle is not touched: what the
\* goal text, the probe or the catch was given is still what its handle stands
\* for when it gets its result (unify.go:30-34).
THEOREM HandlesAreSubstitutions == Spec => HandlesKeepTheirBindings
  <1> DEFINE Kept == ~leaked' => \A i \in 1 .. Len(stack) :
                        i <= Len(stack') => Denotes(store', stack[i].mark) = Denotes(store, stack[i].mark)
  <1>1. ASSUME ControlOK, EmitOK, PendingOK, DataInv, HandlesExact, TrailExact, [Next]_vars
        PROVE  [Kept]_vars
    <2>1. ~leaked' => ~leaked
      BY <1>1, LeakStays
    <2>2. ~leaked => Exact
      BY <1>1 DEF Exact
    <2> QED
      BY <1>1, <2>1, <2>2, HandlesKept
  <1>2. Init => TrailExact
    BY DataInitially DEF TrailExact
  <1>3. ControlOK /\ EmitOK /\ ControlOK' /\ DataInv /\ HandlesExact /\ TrailExact /\ [Next]_vars
          => TrailExact'
    BY TrailExactStep
  <1>4. StopsReachTheirProbe <=> EmitOK /\ PendingOK
    BY DEF StopsReachTheirProbe
  <1> QED
    BY <1>1, <1>2, <1>3, <1>4, ControlIsLinked, StopsReachProbes, DataIsKnown, HandlesAreExact, PTL
       DEF Spec, HandlesKeepTheirBindings

-----------------------------------------------------------------------------
(* Solutions of a substitution: a valuation gives every variable a value,    *)
(* and it solves a substitution when a bound variable has the value of what  *)
(* it is bound to.                                                           *)

Valuations == [Vars -> Values]

Val(t, th) == IF t \in Vars THEN th[t] ELSE t

Solves(th, m) == \A v \in DOMAIN m : th[v] = Val(m[v], th)

\* The environment of activation a.
Under(th, a) == [n \in Names |-> th[Var(n, a)]]

LEMMA UnderEnvs ==
    ASSUME NEW th \in Valuations, NEW a \in Nat
    PROVE  Under(th, a) \in Envs /\ \A n \in Names : Under(th, a)[n] = th[Var(n, a)]
  <1>1. \A n \in Names : Var(n, a) \in Vars
    BY DEF Var, Vars
  <1>2. \A n \in Names : th[Var(n, a)] \in Values
    BY <1>1 DEF Valuations
  <1> QED
    BY <1>2 DEF Under, Envs

\* A source term has the value of the term it is renamed to.
LEMMA InstValue ==
    ASSUME NEW th \in Valuations, NEW a \in Nat, NEW t \in Templates
    PROVE  ValueIn(t, Under(th, a)) = Val(Inst(t, a), th)
  <1>1. CASE t \in Names
    <2>1. Inst(t, a) = Var(t, a) /\ Var(t, a) \in Vars
      BY <1>1 DEF Inst, Var, Vars
    <2>2. ValueIn(t, Under(th, a)) = th[Var(t, a)]
      BY <1>1, UnderEnvs DEF ValueIn
    <2> QED
      BY <2>1, <2>2 DEF Val
  <1>2. CASE t \notin Names
    <2>1. t \notin Vars
      <3>1. t \in Consts \/ t \in Lists
        BY <1>2 DEF Templates
      <3>2. t \in Lists => t \notin Vars
        BY DEF Lists, Vars
      <3> QED
        BY <3>1, <3>2, ConstsAssumption
    <2> QED
      BY <1>2, <2>1 DEF ValueIn, Val, Inst
  <1> QED
    BY <1>1, <1>2

\* Walking keeps the value of a term under every solution.
LEMMA WalkValue ==
    ASSUME NEW st, StoreOK(st), NEW th \in Valuations, Solves(th, st.m), NEW t \in Terms
    PROVE  Val(Walk(t, st), th) = Val(t, th)
  <1> DEFINE K == {u \in Terms : Val(u, th) = Val(t, th)}
  <1>1. \A v \in DOMAIN st.m : v \in Vars /\ st.m[v] \in Terms
    BY DEF StoreOK, Acyclic
  <1>2. \A v \in DOMAIN st.m : Val(v, th) = Val(st.m[v], th)
    <2> SUFFICES ASSUME NEW v \in DOMAIN st.m PROVE Val(v, th) = Val(st.m[v], th)
      OBVIOUS
    <2>1. Val(v, th) = th[v]
      BY <1>1 DEF Val
    <2> QED
      BY <2>1 DEF Solves
  <1>3. \A v \in DOMAIN st.m : v \in K => st.m[v] \in K
    BY <1>1, <1>2
  <1>4. K \in SUBSET Terms /\ t \in K
    OBVIOUS
  <1> HIDE DEF K
  <1>5. Walk(t, st) \in K
    BY <1>3, <1>4, WalkFacts
  <1> QED
    BY <1>5 DEF K

\* A unification that succeeds leaves exactly the solutions that make its terms
\* equal; one that fails has none.
LEMMA UnifySolves ==
    ASSUME NEW st, StoreOK(st), NEW s \in Terms, NEW t \in Terms, NEW th \in Valuations
    PROVE  LET u == Unify(s, t, st)
           IN  /\ u.ok /\ Solves(th, u.st.m) => Solves(th, st.m) /\ Val(s, th) = Val(t, th)
               /\ ~u.ok => u.st = st /\ (Solves(th, st.m) => Val(s, th) # Val(t, th))
  <1> DEFINE x == Walk(s, st)
             y == Walk(t, st)
             u == Unify(s, t, st)
  <1>1. x \in Terms /\ x \notin DOMAIN st.m /\ y \in Terms /\ y \notin DOMAIN st.m
    <2>1. \A v \in DOMAIN st.m : st.m[v] \in Terms
      BY DEF StoreOK
    <2> QED
      BY <2>1, WalkFacts
  <1>2. \/ u.ok /\ u.st = st /\ x = y
        \/ u.ok /\ x # y /\ x \in Vars /\ u.st = Bind(st, x, y)
        \/ u.ok /\ x # y /\ y \in Vars /\ u.st = Bind(st, y, x)
        \/ ~u.ok /\ u.st = st /\ x # y /\ x \notin Vars /\ y \notin Vars
    BY DEF Unify
  <1>3. Solves(th, st.m) => Val(s, th) = Val(x, th) /\ Val(t, th) = Val(y, th)
    BY WalkValue
  <1> HIDE DEF x, y, u
  <1>4. ASSUME NEW v \in Vars, NEW w \in Terms, v \notin DOMAIN st.m, w \notin DOMAIN st.m, v # w,
               u.st = Bind(st, v, w), Solves(th, u.st.m)
        PROVE  Solves(th, st.m) /\ Val(v, th) = Val(w, th)
    <2> DEFINE b == Bind(st, v, w)
    <2>1. /\ DOMAIN b.m = DOMAIN st.m \cup {v} /\ b.m[v] = w
          /\ \A z \in DOMAIN st.m : b.m[z] = st.m[z]
      BY <1>4, BindFacts
    <2> HIDE DEF b
    <2>2. u.st = b
      BY <1>4 DEF b
    <2>3. \A z \in DOMAIN b.m : th[z] = Val(b.m[z], th)
      BY <1>4, <2>2 DEF Solves
    <2>4. Solves(th, st.m)
      BY <2>1, <2>3 DEF Solves
    <2>5. th[v] = Val(w, th)
      BY <2>1, <2>3
    <2>6. Val(v, th) = th[v]
      BY DEF Val
    <2> QED
      BY <2>4, <2>5, <2>6
  <1>5. CASE u.ok /\ u.st = st /\ x = y
    BY <1>3, <1>5 DEF u
  <1>6. CASE u.ok /\ x # y /\ x \in Vars /\ u.st = Bind(st, x, y)
    BY <1>1, <1>3, <1>4, <1>6 DEF u
  <1>7. CASE u.ok /\ x # y /\ y \in Vars /\ u.st = Bind(st, y, x)
    BY <1>1, <1>3, <1>4, <1>7 DEF u
  <1>8. CASE ~u.ok /\ u.st = st /\ x # y /\ x \notin Vars /\ y \notin Vars
    <2>1. Val(x, th) = x /\ Val(y, th) = y
      BY <1>8 DEF Val
    <2> QED
      BY <1>3, <1>8, <2>1 DEF u
  <1> QED
    BY <1>2, <1>5, <1>6, <1>7, <1>8

\* What solves a store solves what its handles denote.
LEMMA SolvesDenotes ==
    ASSUME NEW st, NEW th
    PROVE  /\ \A k : Solves(th, st.m) => Solves(th, Denotes(st, k))
           /\ \A j, k \in Nat : j <= k /\ Solves(th, Denotes(st, k)) => Solves(th, Denotes(st, j))
           /\ TrailFits(st) /\ Solves(th, Denotes(st, st.len)) => Solves(th, st.m)
  <1>1. ASSUME NEW k, Solves(th, st.m)
        PROVE  Solves(th, Denotes(st, k))
    BY <1>1, DenotesFacts DEF Solves
  <1>2. ASSUME NEW j \in Nat, NEW k \in Nat, j <= k, Solves(th, Denotes(st, k))
        PROVE  Solves(th, Denotes(st, j))
    <2>1. \A i \in 1 .. j : i \in 1 .. k
      BY <1>2
    <2>2. \A v \in Listed(st, j) : v \in Listed(st, k)
      BY <2>1 DEF Listed
    <2>3. \A v \in DOMAIN Denotes(st, j) : /\ v \in DOMAIN Denotes(st, k)
                                           /\ Denotes(st, j)[v] = Denotes(st, k)[v]
      <3> SUFFICES ASSUME NEW v \in DOMAIN Denotes(st, j)
                   PROVE  v \in DOMAIN Denotes(st, k) /\ Denotes(st, j)[v] = Denotes(st, k)[v]
        OBVIOUS
      <3>1. v \in DOMAIN st.m /\ v \in Listed(st, j) /\ Denotes(st, j)[v] = st.m[v]
        BY DenotesFacts
      <3>2. v \in DOMAIN Denotes(st, k)
        BY <2>2, <3>1, DenotesFacts
      <3> QED
        BY <3>1, <3>2, DenotesFacts
    <2> QED
      BY <1>2, <2>3 DEF Solves
  <1>3. ASSUME TrailFits(st), Solves(th, Denotes(st, st.len))
        PROVE  Solves(th, st.m)
    <2>1. DOMAIN st.m = Listed(st, st.len)
      BY <1>3 DEF TrailFits, Listed
    <2>2. \A v \in DOMAIN st.m : /\ v \in DOMAIN Denotes(st, st.len)
                                 /\ Denotes(st, st.len)[v] = st.m[v]
      BY <2>1, DenotesFacts
    <2> QED
      BY <1>3, <2>2 DEF Solves
  <1> QED
    BY <1>1, <1>2, <1>3

LEMMA UndoSolves ==
    ASSUME NEW st, StoreOK(st), TrailFits(st), NEW n \in Nat, n <= st.len, NEW th,
           Solves(th, UndoTo(st, n).m)
    PROVE  Solves(th, Denotes(st, n))
  <1>1. SameMap(UndoTo(st, n).m, Denotes(st, n))
    BY UndoDenotes
  <1> DEFINE m == UndoTo(st, n).m
             k == Denotes(st, n)
  <1>2. SameMap(m, k) /\ Solves(th, m)
    BY <1>1
  <1> HIDE DEF m, k
  <1>3. Solves(th, k)
    BY <1>2 DEF SameMap, Solves
  <1> QED
    BY <1>3 DEF k

\* The instances of what is still free: every valuation of the free variables
\* extends to a solution, in which a term has the value of what it stands for.
Extended(st, th) == [v \in Vars |-> Val(Walk(v, st), th)]

LEMMA ExtendedSolves ==
    ASSUME NEW st, StoreOK(st), NEW th \in Valuations, Consts \cup Lists \subseteq Values
    PROVE  /\ Extended(st, th) \in Valuations
           /\ Solves(Extended(st, th), st.m)
           /\ \A t \in Terms : Val(t, Extended(st, th)) = Val(Walk(t, st), th)
  <1> DEFINE w == Extended(st, th)
  <1>1. \A v \in DOMAIN st.m : v \in Vars /\ st.m[v] \in Terms
    BY DEF StoreOK, Acyclic
  <1>2. \A t \in Terms : Val(t, th) \in Values
    BY DEF Terms, Val, Valuations
  <1>3. \A v \in Vars : v \in Terms /\ Walk(v, st) \in Terms
    BY WalkType DEF Terms
  <1>4. \A v \in Vars : Val(Walk(v, st), th) \in Values
    BY <1>2, <1>3
  <1>5. w \in Valuations /\ \A v \in Vars : w[v] = Val(Walk(v, st), th)
    BY <1>4 DEF Extended, Valuations
  <1> HIDE DEF w
  <1>6. ASSUME NEW t \in Terms
        PROVE  Val(t, w) = Val(Walk(t, st), th)
    <2>1. CASE t \in Vars
      BY <1>5, <2>1 DEF Val
    <2>2. CASE t \notin Vars
      <3>1. Walk(t, st) = t
        BY <2>2 DEF Walk
      <3> QED
        BY <2>2, <3>1 DEF Val
    <2> QED
      BY <2>1, <2>2
  <1>7. ASSUME NEW v \in DOMAIN st.m
        PROVE  w[v] = Val(st.m[v], w)
    <2>1. w[v] = Val(Walk(v, st), th) /\ Val(st.m[v], w) = Val(Walk(st.m[v], st), th)
      BY <1>1, <1>5, <1>6
    <2>2. Walk(v, st) = Walk(st.m[v], st)
      <3>1. Acyclic(st.m)
        BY DEF StoreOK
      <3>2. \E g : Walks(st.m, g)
        BY <3>1, AcyclicWalks
      <3>3. PICK g : /\ Walks(st.m, g)
                     /\ \A u : Walk(u, st) = IF u \in Vars /\ g[u] \in Terms THEN g[u] ELSE u
        BY <3>2, WalkIs
      <3>4. g[v] = IF st.m[v] \in Vars THEN g[st.m[v]] ELSE st.m[v]
        BY <1>1, <3>3, WalksValues DEF Toward
      <3>5. \A u \in Vars : g[u] \in Terms
        <4>1. \A u \in DOMAIN st.m : u \in Terms => st.m[u] \in Terms
          BY <1>1
        <4>2. \A u \in Vars : u \in Terms => g[u] \in Terms
          BY <3>1, <3>3, <4>1, WalksEnd
        <4> QED
          BY <1>3, <4>2
      <3> QED
        BY <1>1, <3>3, <3>4, <3>5
    <2> QED
      BY <2>1, <2>2
  <1>8. Solves(w, st.m)
    BY <1>7 DEF Solves
  <1> QED
    BY <1>5, <1>6, <1>8 DEF w

LEMMA SolutionExists ==
    ASSUME NEW st, StoreOK(st), Consts \cup Lists \subseteq Values
    PROVE  \E th \in Valuations : Solves(th, st.m)
  <1> DEFINE th == [v \in Vars |-> PermissionError]
  <1>1. th \in Valuations
    BY ProgramsAssumption DEF Valuations
  <1> HIDE DEF th
  <1> QED
    BY <1>1, ExtendedSolves

\* Every instance of the answer that is emitted over a store is the environment
\* of the query under a solution of that store.
LEMMA InstanceSolves ==
    ASSUME NEW st, StoreOK(st), Consts \cup Lists \subseteq Values, NEW e \in Envs,
           InstanceOf(e, [n \in Names |-> Walk(Var(n, 0), st)])
    PROVE  \E th \in Valuations : Solves(th, st.m) /\ Under(th, 0) = e
  <1> DEFINE a     == [n \in Names |-> Walk(Var(n, 0), st)]
             of(v) == {n \in Names : a[n] = v}
             name(v) == IF of(v) # {} THEN CHOOSE n \in of(v) : TRUE ELSE v.var
             th    == [v \in Vars |-> e[name(v)]]
  <1>1. \A n \in Names : a[n] = Walk(Var(n, 0), st) /\ Var(n, 0) \in Vars /\ Var(n, 0) \in Terms
    BY DEF Var, Vars, Terms
  <1>2. /\ \A n \in Names : a[n] \notin Vars => e[n] = a[n]
        /\ \A n, k \in Names : a[n] = a[k] => e[n] = e[k]
    BY DEF InstanceOf
  <1>3. e \in [Names -> Values]
    BY DEF Envs
  <1> HIDE DEF a
  <1>4. \A v \in Vars : name(v) \in Names /\ (of(v) # {} => a[name(v)] = v)
    <2> SUFFICES ASSUME NEW v \in Vars
                 PROVE  name(v) \in Names /\ (of(v) # {} => a[name(v)] = v)
      OBVIOUS
    <2>1. v.var \in Names
      BY DEF Vars
    <2>2. of(v) # {} => name(v) \in of(v)
      <3> HIDE DEF of
      <3> QED
        OBVIOUS
    <2> QED
      BY <2>1, <2>2
  <1> HIDE DEF name
  <1>5. th \in Valuations /\ \A v \in Vars : th[v] = e[name(v)]
    BY <1>3, <1>4 DEF Valuations
  <1> HIDE DEF th
  <1>6. ASSUME NEW n \in Names
        PROVE  Val(a[n], th) = e[n]
    <2>1. CASE a[n] \in Vars
      <3>1. n \in of(a[n])
        OBVIOUS
      <3>2. a[name(a[n])] = a[n] /\ name(a[n]) \in Names
        BY <1>4, <2>1, <3>1
      <3>3. e[name(a[n])] = e[n]
        BY <1>2, <3>2
      <3> QED
        BY <1>5, <2>1, <3>3 DEF Val
    <2>2. CASE a[n] \notin Vars
      BY <1>2, <2>2 DEF Val
    <2> QED
      BY <2>1, <2>2
  <1> DEFINE w == Extended(st, th)
  <1>7. w \in Valuations /\ Solves(w, st.m) /\ \A t \in Terms : Val(t, w) = Val(Walk(t, st), th)
    BY <1>5, ExtendedSolves
  <1> HIDE DEF w
  <1>8. \A n \in Names : w[Var(n, 0)] = e[n]
    BY <1>1, <1>6, <1>7 DEF Val
  <1>9. Under(w, 0) = e
    BY <1>3, <1>8 DEF Under
  <1> QED
    BY <1>7, <1>9

-----------------------------------------------------------------------------
(* The invariant.  H is a model of the clauses available.  What the machine  *)
(* still has to do is right when every solution under which it would succeed *)
(* makes true what the collector it answers to was asked for.                *)

TrueIn(H, th, gi)  == <<gi.g, Under(th, gi.act)>> \in H
AllTrue(H, th, gs) == \A k \in DOMAIN gs : TrueIn(H, th, gs[k])

\* The goal a collector was created for.
Asked(f) == Goal(IF f.kind = "cond" THEN Cond(f.goal.g) ELSE f.goal.g.left, f.goal.act, 0)

\* What an emit to collector e of stack st claims: its goal, or the query q.
Duty(H, th, e, q, st) ==
    IF e = 0 THEN \A k \in DOMAIN q : <<q[k], Under(th, 0)>> \in H
    ELSE TrueIn(H, th, Asked(st[e]))

\* The activation about to run, under substitution m.
CallIn(H, m, c, q, st) ==
    \A th \in Valuations : Solves(th, m) /\ AllTrue(H, th, c.goals) => Duty(H, th, c.emit, q, st)

\* A frame: its own goal and the rest, under what its handle denotes.
FrameIn(H, s, f, q, st) ==
    \A th \in Valuations :
        Solves(th, Denotes(s, f.mark)) /\ TrueIn(H, th, f.goal) /\ AllTrue(H, th, f.rest)
          => Duty(H, th, f.emit, q, st)

\* A probe that has its solution, and what findall has collected.
FoundIn(H, m, f) ==
    f.found # <<>> => \A th \in Valuations : Solves(th, m) => TrueIn(H, th, Asked(f))

ItemsIn(H, f) ==
    f.kind = "findall" =>
        \A k \in DOMAIN f.items : f.items[k] \in Consts =>
            \E d \in Envs : <<f.goal.g.left, d>> \in H /\ ValueIn(f.goal.g.tmpl, d) = f.items[k]

FramesIn(H) ==
    \A i \in 1 .. Len(stack) : /\ FrameIn(H, store, stack[i], query, stack)
                               /\ FoundIn(H, store.m, stack[i])
                               /\ ItemsIn(H, stack[i])

SoundIn(H) == /\ pc = "call" => CallIn(H, store.m, call, query, stack)
              /\ FramesIn(H)
              /\ AnswersIn(H)

Sound == ~leaked => \A H : IsModel(H, Available) => SoundIn(H)

\* The clauses a loop or retract goes through are available.
ClausesKnown ==
    /\ pc # "done" => db \in Seq(Available)
    /\ \A i \in 1 .. Len(stack) : stack[i].clauses \in Seq(Available)

\* What the proofs about a step start from.
Ready(H) == /\ Exact /\ RecordsOK /\ ClausesKnown /\ IsModel(H, Available) /\ SoundIn(H)
            /\ Consts \cup Lists \subseteq Values

-----------------------------------------------------------------------------
(* The constructs, read as rules. *)

LEMMA ModelRule ==
    ASSUME NEW H, IsModel(H, Available), NEW gi \in Instances, NEW th \in Valuations,
           Follows(gi.g, Under(th, gi.act), H, Available)
    PROVE  TrueIn(H, th, gi)
  <1>1. gi.g \in Goals /\ Under(th, gi.act) \in Envs
    BY UnderEnvs DEF Instances
  <1> QED
    BY <1>1 DEF IsModel, TrueIn

LEMMA ConstructRules ==
    ASSUME NEW H, IsModel(H, Available), NEW gi \in Instances, NEW th \in Valuations
    PROVE  /\ gi.g.op \in {"true", "cut", "not", "asserta", "assertz"} => TrueIn(H, th, gi)
           /\ gi.g.op \in {"and", "then"} /\ TrueIn(H, th, Branch(gi, gi.g.left))
                /\ TrueIn(H, th, Branch(gi, gi.g.right)) => TrueIn(H, th, gi)
           /\ gi.g.op \in {"or", "catch", "once"} /\ TrueIn(H, th, Branch(gi, gi.g.left))
                => TrueIn(H, th, gi)
           /\ gi.g.op \in {"or", "catch"} /\ TrueIn(H, th, Branch(gi, gi.g.right))
                => TrueIn(H, th, gi)
           /\ gi.g.op = "eq" /\ Val(Arg(gi), th) = Val(Inst(gi.g.arg2, gi.act), th)
                => TrueIn(H, th, gi)
           /\ gi.g.op = "neq" /\ Val(Arg(gi), th) # Val(Inst(gi.g.arg2, gi.act), th)
                => TrueIn(H, th, gi)
  <1>1. \A g : TrueIn(H, th, Branch(gi, g)) <=> <<g, Under(th, gi.act)>> \in H
    BY DEF TrueIn, Branch, Goal
  <1>2. gi.act \in Nat
    BY DEF Instances
  <1>3. gi.g.op \in {"true", "cut", "not", "asserta", "assertz"} => TrueIn(H, th, gi)
    BY ModelRule DEF Follows
  <1>4. gi.g.op \in {"and", "then"} /\ TrueIn(H, th, Branch(gi, gi.g.left))
          /\ TrueIn(H, th, Branch(gi, gi.g.right)) => TrueIn(H, th, gi)
    BY <1>1, ModelRule DEF Follows
  <1>5. gi.g.op \in {"or", "catch", "once"} /\ TrueIn(H, th, Branch(gi, gi.g.left))
          => TrueIn(H, th, gi)
    BY <1>1, ModelRule DEF Follows
  <1>6. gi.g.op \in {"or", "catch"} /\ TrueIn(H, th, Branch(gi, gi.g.right)) => TrueIn(H, th, gi)
    BY <1>1, ModelRule DEF Follows
  <1>7. gi.g.op \in {"eq", "neq"} =>
          /\ ValueIn(gi.g.arg, Under(th, gi.act)) = Val(Arg(gi), th)
          /\ ValueIn(gi.g.arg2, Under(th, gi.act)) = Val(Inst(gi.g.arg2, gi.act), th)
    BY <1>2, ArgTypes, InstValue DEF Arg
  <1>8. gi.g.op = "eq" /\ Val(Arg(gi), th) = Val(Inst(gi.g.arg2, gi.act), th) => TrueIn(H, th, gi)
    BY <1>7, ModelRule DEF Follows
  <1>9. gi.g.op = "neq" /\ Val(Arg(gi), th) # Val(Inst(gi.g.arg2, gi.act), th) => TrueIn(H, th, gi)
    BY <1>7, ModelRule DEF Follows
  <1> QED
    BY <1>3, <1>4, <1>5, <1>6, <1>8, <1>9

\* A condition that was met, with its Then.
LEMMA IteRule ==
    ASSUME NEW H, IsModel(H, Available), NEW gi \in Instances, NEW th \in Valuations,
           gi.g.op = "then" \/ IsIte(gi.g),
           TrueIn(H, th, Branch(gi, Cond(gi.g))), TrueIn(H, th, Branch(gi, Then(gi.g)))
    PROVE  TrueIn(H, th, gi)
  <1>1. CASE gi.g.op = "then"
    BY <1>1, ConstructRules DEF Cond, Then
  <1>2. CASE gi.g.op # "then"
    <2> DEFINE c == Branch(gi, gi.g.left)
    <2>1. gi.g.op = "or" /\ gi.g.left.op = "then" /\ gi.g.left \in Goals
      BY <1>2, SubgoalTypes DEF IsIte
    <2>2. c \in Instances /\ c.g = gi.g.left /\ c.act = gi.act
      BY <2>1, BranchTypes DEF Branch, Goal
    <2> HIDE DEF c
    <2>3. TrueIn(H, th, Branch(c, c.g.left)) /\ TrueIn(H, th, Branch(c, c.g.right))
      BY <1>2, <2>2 DEF Cond, Then, TrueIn, Branch, Goal
    <2>4. TrueIn(H, th, c)
      BY <2>1, <2>2, <2>3, ConstructRules
    <2> QED
      BY <2>1, <2>4, ConstructRules DEF c
  <1> QED
    BY <1>1, <1>2

\* A clause whose head has the value of the goal and whose body is true.
LEMMA ClauseRule ==
    ASSUME NEW H, IsModel(H, Available), NEW gi \in Instances, NEW th \in Valuations,
           NEW c \in Clauses, c \in Available, NEW n \in Nat, NEW b, gi.g.op = "call",
           c.pred = gi.g.pred, Val(Arg(gi), th) = Val(Inst(c.arg, n), th),
           AllTrue(H, th, Body(c, n, b))
    PROVE  TrueIn(H, th, gi)
  <1> DEFINE d == Under(th, n)
             e == Under(th, gi.act)
  <1>1. c.arg \in Templates /\ c.body \in Seq(Goals)
    BY DEF Clauses
  <1>2. d \in Envs /\ ValueIn(c.arg, d) = Val(Inst(c.arg, n), th)
    BY <1>1, UnderEnvs, InstValue
  <1>3. ValueIn(gi.g.arg, e) = Val(Arg(gi), th)
    BY ArgTypes, InstValue DEF Arg, Instances
  <1>4. ASSUME NEW k \in DOMAIN c.body
        PROVE  <<c.body[k], d>> \in H
    <2>1. k \in 1 .. Len(c.body)
      BY <1>1, LenProperties
    <2>2. k \in DOMAIN Body(c, n, b) /\ Body(c, n, b)[k] = Goal(c.body[k], n, b)
      BY <2>1 DEF Body
    <2>3. TrueIn(H, th, Goal(c.body[k], n, b))
      BY <2>2 DEF AllTrue
    <2> QED
      BY <2>3 DEF TrueIn, Goal
  <1> HIDE DEF d, e
  <1>5. Follows(gi.g, e, H, Available)
    BY <1>2, <1>3, <1>4 DEF Follows
  <1> QED
    BY <1>5, ModelRule DEF e

\* A fact that retract unified with its pattern.
LEMMA RetractRule ==
    ASSUME NEW H, IsModel(H, Available), NEW gi \in Instances, NEW th \in Valuations,
           NEW c \in Clauses, c \in Available, NEW n \in Nat, gi.g.op = "retract",
           c.pred = gi.g.pred, c.body = <<>>, Val(Arg(gi), th) = Val(Inst(c.arg, n), th)
    PROVE  TrueIn(H, th, gi)
  <1> DEFINE d == Under(th, n)
             e == Under(th, gi.act)
  <1>1. c.arg \in Templates
    BY DEF Clauses
  <1>2. d \in Envs /\ ValueIn(c.arg, d) = Val(Inst(c.arg, n), th)
    BY <1>1, UnderEnvs, InstValue
  <1>3. ValueIn(gi.g.arg, e) = Val(Arg(gi), th)
    BY ArgTypes, InstValue DEF Arg, Instances
  <1> HIDE DEF d, e
  <1>4. Follows(gi.g, e, H, Available)
    BY <1>2, <1>3 DEF Follows
  <1> QED
    BY <1>4, ModelRule DEF e

\* The list of what was collected.
LEMMA FindallRule ==
    ASSUME NEW H, IsModel(H, Available), NEW f \in Frames, f.kind = "findall", ItemsIn(H, f),
           NEW th \in Valuations, Val(Arg(f.goal), th) = [list |-> f.items]
    PROVE  TrueIn(H, th, f.goal)
  <1> DEFINE e == Under(th, f.goal.act)
             g == f.goal.g
  <1>1. f.goal \in Instances /\ g.op = "findall" /\ f.items \in Seq(Consts \cup Vars)
    BY FrameFields DEF FitsGoal
  <1>2. ValueIn(g.arg, e) = [list |-> f.items]
    BY <1>1, ArgTypes, InstValue DEF Arg, Instances
  <1>3. ValueIn(g.arg, e) \in Lists /\ ValueIn(g.arg, e).list = f.items
    BY <1>1, <1>2 DEF Lists
  <1> HIDE DEF e
  <1>4. Follows(g, e, H, Available)
    BY <1>1, <1>3 DEF Follows, ItemsIn
  <1> QED
    BY <1>1, <1>4, ModelRule DEF e

-----------------------------------------------------------------------------
(* Conjunctions, and the clauses a run can use. *)

LEMMA AllOfConcat ==
    ASSUME NEW H, NEW th, NEW S, NEW s \in Seq(S), NEW t \in Seq(S), AllTrue(H, th, s \o t)
    PROVE  AllTrue(H, th, s) /\ AllTrue(H, th, t)
  <1> DEFINE u == s \o t
  <1>1. /\ DOMAIN s = 1 .. Len(s) /\ DOMAIN t = 1 .. Len(t) /\ Len(s) \in Nat /\ Len(t) \in Nat
        /\ DOMAIN u = 1 .. Len(s) + Len(t)
        /\ \A i \in 1 .. Len(s) : u[i] = s[i]
        /\ \A i \in 1 .. Len(t) : u[i + Len(s)] = t[i]
    OBVIOUS
  <1> HIDE DEF u
  <1>2. \A k \in DOMAIN u : TrueIn(H, th, u[k])
    BY DEF AllTrue, u
  <1>3. \A i \in DOMAIN s : i \in DOMAIN u /\ u[i] = s[i]
    BY <1>1
  <1>4. \A i \in DOMAIN t : i + Len(s) \in DOMAIN u /\ u[i + Len(s)] = t[i]
    BY <1>1
  <1> QED
    BY <1>2, <1>3, <1>4 DEF AllTrue

LEMMA AllOfFew ==
    ASSUME NEW H, NEW th
    PROVE  /\ AllTrue(H, th, <<>>)
           /\ \A a : AllTrue(H, th, <<a>>) => TrueIn(H, th, a)
           /\ \A a, b : AllTrue(H, th, <<a, b>>) => TrueIn(H, th, a) /\ TrueIn(H, th, b)
  <1>1. DOMAIN <<>> = {}
    OBVIOUS
  <1>2. ASSUME NEW a
        PROVE  1 \in DOMAIN <<a>> /\ <<a>>[1] = a
    OBVIOUS
  <1>3. ASSUME NEW a, NEW b
        PROVE  /\ 1 \in DOMAIN <<a, b>> /\ <<a, b>>[1] = a
               /\ 2 \in DOMAIN <<a, b>> /\ <<a, b>>[2] = b
    OBVIOUS
  <1>4. AllTrue(H, th, <<>>)
    BY <1>1 DEF AllTrue
  <1>5. ASSUME NEW a, AllTrue(H, th, <<a>>)
        PROVE  TrueIn(H, th, a)
    <2> DEFINE s == <<a>>
    <2>1. 1 \in DOMAIN s /\ s[1] = a /\ AllTrue(H, th, s)
      BY <1>2, <1>5
    <2> HIDE DEF s
    <2> QED
      BY <2>1 DEF AllTrue
  <1>6. ASSUME NEW a, NEW b, AllTrue(H, th, <<a, b>>)
        PROVE  TrueIn(H, th, a) /\ TrueIn(H, th, b)
    <2> DEFINE s == <<a, b>>
    <2>1. 1 \in DOMAIN s /\ s[1] = a /\ 2 \in DOMAIN s /\ s[2] = b /\ AllTrue(H, th, s)
      BY <1>3, <1>6
    <2> HIDE DEF s
    <2> QED
      BY <2>1 DEF AllTrue
  <1> QED
    BY <1>4, <1>5, <1>6

LEMMA AllOfGoals ==
    ASSUME NEW H, NEW th, NEW S, NEW s \in Seq(S), s # <<>>,
           TrueIn(H, th, Head(s)), AllTrue(H, th, Tail(s))
    PROVE  AllTrue(H, th, s)
  <1> DEFINE t == Tail(s)
  <1>1. /\ DOMAIN s = 1 .. Len(s) /\ Len(s) \in Nat /\ Head(s) = s[1]
        /\ \A i \in 2 .. Len(s) : i - 1 \in DOMAIN t /\ t[i - 1] = s[i]
    OBVIOUS
  <1> HIDE DEF t
  <1>2. \A k \in DOMAIN t : TrueIn(H, th, t[k])
    BY DEF AllTrue, t
  <1>3. \A i \in 1 .. Len(s) : i = 1 \/ i \in 2 .. Len(s)
    BY <1>1
  <1>4. \A i \in DOMAIN s : TrueIn(H, th, s[i])
    BY <1>1, <1>2, <1>3
  <1> QED
    BY <1>4 DEF AllTrue

\* A model of more clauses is a model of fewer.
LEMMA FewerClauses ==
    ASSUME NEW H, NEW cs, NEW ds, cs \subseteq ds, IsModel(H, ds)
    PROVE  IsModel(H, cs)
  <1>1. ASSUME NEW g, NEW e, Follows(g, e, H, cs)
        PROVE  Follows(g, e, H, ds)
    BY <1>1 DEF Follows
  <1> QED
    BY <1>1 DEF IsModel

LEMMA AvailableFacts ==
    /\ \A i \in DOMAIN prog : prog[i] \in Available
    /\ \A c : c \in Available <=> \/ \E i \in DOMAIN prog : c = prog[i]
                                  \/ \E i \in DOMAIN log : log[i].op # "retract" /\ c = log[i].clause
  BY DEF Available

LEMMA AvailableGrows ==
    ASSUME ControlOK, RecordsOK, [Next]_vars
    PROVE  /\ prog' = prog /\ query' = query
           /\ Available \subseteq Available'
           /\ \A e : log' = Append(log, e) /\ e.op # "retract" => e.clause \in Available'
  <1>1. prog' = prog /\ query' = query
    BY DEF Next, Step, Enter, Execute, Unwind, Interrupted, EmitAnswer, EmitFirst, EmitCollected,
         EmitContinuation, DepthExceeded, SolveTrue, SolveFail, SolveCut, SolveAnd, SolveOr, SolveIte,
         SolveInner, SolveThrow, SolveEq, SolveNeq, SolveCall, SolveAssert, SolveRetract, TryClause,
         LoopExhausted, LoopReturn, CutReturn, OrReturn, CondReturn, NotReturn, OnceReturn,
         FindallReturn, CatchReturn, ContReturn, Finish, Cancel, Terminated, vars, input
  <1>2. ASSUME NEW e, log' = Append(log, e)
        PROVE  /\ \A i \in DOMAIN log : i \in DOMAIN log' /\ log'[i] = log[i]
               /\ \E i \in DOMAIN log' : log'[i] = e
    <2>1. log \in Seq(Entries) /\ Entries \subseteq Entries \cup {e}
      BY DEF RecordsOK
    <2>2. log \in Seq(Entries \cup {e})
      BY <2>1, SeqGrows
    <2> DEFINE S == Entries \cup {e}
    <2>3. log \in Seq(S) /\ e \in S
      BY <2>2
    <2> HIDE DEF S
    <2> QED
      BY <1>2, <2>3
  <1>3. log' = log \/ \E e : log' = Append(log, e)
    BY DEF Next, Step, Enter, Execute, Unwind, Interrupted, EmitAnswer, EmitFirst, EmitCollected,
         EmitContinuation, DepthExceeded, SolveTrue, SolveFail, SolveCut, SolveAnd, SolveOr, SolveIte,
         SolveInner, SolveThrow, SolveEq, SolveNeq, SolveCall, SolveAssert, SolveRetract, TryClause,
         LoopExhausted, LoopReturn, CutReturn, OrReturn, CondReturn, NotReturn, OnceReturn,
         FindallReturn, CatchReturn, ContReturn, Finish, Cancel, Terminated, vars, world
  <1>4. \A i \in DOMAIN log : i \in DOMAIN log' /\ log'[i] = log[i]
    BY <1>2, <1>3
  <1>5. \A c : (\E i \in DOMAIN prog : c = prog[i])
               \/ (\E i \in DOMAIN log' : log'[i].op # "retract" /\ c = log'[i].clause)
               => c \in Available'
    BY <1>1 DEF Available
  <1>6. Available \subseteq Available'
    BY <1>4, <1>5, AvailableFacts
  <1> QED
    BY <1>1, <1>2, <1>5, <1>6

\* What one step does to the clauses that the frames go through.
LEMMA ClausesStep ==
    ASSUME ControlOK, EmitOK, RecordsOK, ClausesKnown, [Next]_vars
    PROVE  ClausesKnown'
  <1> DEFINE A == Available'
             N == Len(stack)
             Fine(f) == f.clauses \in Seq(A)
  <1>1. Available \subseteq A /\ N \in Nat /\ stack \in Seq(Frames)
    BY AvailableGrows, LenProperties DEF ControlOK
  <1>2. \A i \in 1 .. N : Fine(stack[i])
    BY <1>1, SeqGrows DEF ClausesKnown
  <1>3. pc # "done" => db \in Seq(A)
    BY <1>1, SeqGrows DEF ClausesKnown
  <1>4. \A e : log' = Append(log, e) /\ e.op # "retract" => e.clause \in A
    BY AvailableGrows
  <1> HIDE DEF A
  <1>5. ASSUME pc' # "done"
        PROVE  db' \in Seq(A)
    <2>1. pc # "done"
      BY <1>5, WorldStep
    <2>2. CASE world' = world
      BY <1>3, <2>1, <2>2 DEF world
    <2>3. CASE SolveAssert /\ world' # world
      <3> DEFINE c == Fact(Current.g.pred, Stored(CopyOut(Arg(Current), store, fresh')))
                 e == [op |-> Current.g.op, clause |-> c]
      <3>1. /\ Current.g.op \in {"asserta", "assertz"} /\ log' = Append(log, e)
            /\ db' = <<c>> \o db \/ db' = Append(db, c)
        BY <2>3 DEF SolveAssert, Running, world
      <3>2. e.op # "retract" /\ e.clause = c
        BY <3>1
      <3> HIDE DEF c, e
      <3>3. c \in A
        BY <1>4, <3>1, <3>2
      <3>4. db \in Seq(A) /\ <<c>> \in Seq(A)
        BY <1>3, <2>1, <3>3, ShortSequences
      <3>5. <<c>> \o db \in Seq(A)
        BY <3>4, ConcatFacts
      <3>6. Append(db, c) \in Seq(A)
        BY <3>3, <3>4, PushFacts
      <3> QED
        BY <3>1, <3>5, <3>6
    <2>4. CASE SolveRetract /\ world' # world
      <3>1. PICK i \in 1 .. Len(db) : db' = RemoveAt(db, i)
        BY <2>4 DEF SolveRetract, world
      <3> QED
        BY <1>3, <2>1, <3>1, RemoveAtType
    <2>5. ~Finish
      BY <1>5 DEF Finish
    <2> QED
      BY <2>2, <2>3, <2>4, <2>5, WorldStep
  <1>6. ASSUME stack' = stack
        PROVE  \A i \in 1 .. Len(stack') : Fine(stack'[i])
    BY <1>2, <1>6
  <1>7. ASSUME NEW f, Push(f), Fine(f)
        PROVE  \A i \in 1 .. Len(stack') : Fine(stack'[i])
    <2>1. \A i \in 1 .. Len(stack') : i = N + 1 \/ i \in 1 .. N
      BY <1>1, <1>7, PushShape
    <2> HIDE DEF Fine
    <2> QED
      BY <1>1, <1>2, <1>7, <2>1, PushShape
  <1> SUFFICES \A i \in 1 .. Len(stack') : Fine(stack'[i])
    BY <1>5 DEF ClausesKnown, A
  <1>8. CASE Enter
    <2>1. CASE Interrupted \/ EmitAnswer \/ DepthExceeded
      BY <1>6, <2>1 DEF Interrupted, EmitAnswer, DepthExceeded
    <2>2. CASE EmitFirst \/ EmitCollected
      <3>1. PICK f : /\ stack' = [stack EXCEPT ![call.emit] = f]
                     /\ f.clauses = stack[call.emit].clauses
                     /\ Emitting /\ call.emit > 0
        <4>1. CASE EmitFirst
          <5> DEFINE f == [stack[call.emit] EXCEPT !.found = <<call.mark>>]
          <5>1. stack' = [stack EXCEPT ![call.emit] = f] /\ f.clauses = stack[call.emit].clauses
            BY <4>1 DEF EmitFirst
          <5> QED
            BY <4>1, <5>1 DEF EmitFirst
        <4>2. CASE EmitCollected
          <5> DEFINE t == CopyOut(Inst(stack[call.emit].goal.g.tmpl, stack[call.emit].goal.act), store, fresh + 1)
                     f == [stack[call.emit] EXCEPT !.items = Append(stack[call.emit].items, t)]
          <5>1. stack' = [stack EXCEPT ![call.emit] = f] /\ f.clauses = stack[call.emit].clauses
            BY <4>2 DEF EmitCollected
          <5> QED
            BY <4>2, <5>1 DEF EmitCollected
        <4> QED
          BY <2>2, <4>1, <4>2
      <3>2. call.emit \in Levels
        BY <3>1, EmitFrame
      <3>3. /\ Len(stack') = N /\ stack'[call.emit] = f
            /\ \A i \in Levels \ {call.emit} : stack'[i] = stack[i]
        BY <1>1, <3>1, <3>2, FieldShape
      <3>4. \A i \in 1 .. N : stack'[i].clauses = stack[i].clauses
        BY <3>1, <3>3 DEF Levels
      <3> QED
        BY <1>2, <3>3, <3>4
    <2>3. CASE EmitContinuation
      <3> DEFINE g == stack[call.emit]
                 f == [g EXCEPT !.kind = "cont", !.owner = call.emit,
                                !.mark = call.mark, !.base = store.len]
      <3>1. call.emit \in Levels /\ Push(f)
        BY <2>3, EmitFrame DEF EmitContinuation
      <3>2. f.clauses = g.clauses
        OBVIOUS
      <3>3. Fine(f)
        BY <1>2, <3>1, <3>2 DEF Levels
      <3> HIDE DEF f
      <3> QED
        BY <1>7, <3>1, <3>3
    <2> QED
      BY <1>8, <2>1, <2>2, <2>3 DEF Enter
  <1>9. CASE Execute
    <2>1. CASE stack' = stack
      BY <1>6, <2>1
    <2>2. CASE SolveCut \/ SolveOr \/ SolveIte \/ SolveInner \/ SolveCall
      <3>1. PICK f : Push(f) /\ (f.clauses = <<>> \/ f.clauses = db) /\ pc # "done"
        BY <2>2 DEF SolveCut, SolveOr, SolveIte, SolveInner, SolveCall, Frame, Running
      <3> QED
        BY <1>3, <1>7, <3>1, EmptyIsSeq
    <2> QED
      BY <1>9, <2>1, <2>2 DEF Execute, SolveTrue, SolveFail, SolveAnd, SolveThrow, SolveEq, SolveNeq,
         SolveAssert, SolveRetract
  <1>10. CASE TryClause
    <2> DEFINE f == [Top EXCEPT !.clauses = Tail(@)]
    <2>1. /\ Top \in Frames /\ Top = stack[N] /\ N >= 1 /\ Len(stack') = N /\ stack'[N] = f
          /\ \A i \in 1 .. N - 1 : stack'[i] = stack[i]
      BY <1>10, TryShape
    <2>2. f.clauses = Tail(Top.clauses)
      BY <2>1 DEF Frames, Records
    <2>3. Top.clauses \in Seq(A) /\ Top.clauses # <<>>
      BY <1>1, <1>2, <1>10, <2>1 DEF TryClause, Trying
    <2> HIDE DEF f
    <2>4. Fine(f)
      BY <2>2, <2>3, NonEmptyFacts
    <2>5. \A i \in 1 .. N : i = N \/ i \in 1 .. N - 1
      BY <1>1
    <2> QED
      BY <1>2, <2>1, <2>4, <2>5
  <1>11. CASE LoopReturn /\ pc' = "try"
    BY <1>6, <1>11 DEF LoopReturn, PopAndReturn, Return
  <1>12. CASE \/ LoopExhausted \/ CutReturn \/ OrReturn \/ CondReturn \/ NotReturn \/ OnceReturn
              \/ FindallReturn \/ CatchReturn \/ (LoopReturn /\ pc' # "try")
    <2>1. stack # <<>>
      BY <1>12 DEF LoopExhausted, CutReturn, OrReturn, CondReturn, NotReturn, OnceReturn,
         FindallReturn, CatchReturn, LoopReturn, Returned, ControlOK
    <2>2. /\ Len(stack') = N - 1 /\ \A i \in 1 .. N - 1 : stack'[i] = stack[i]
      BY <1>12, <2>1, PopsContinue, PopShape
    <2> QED
      BY <1>1, <1>2, <2>2
  <1>13. CASE ContReturn
    <2>1. /\ Len(stack') = N - 1 /\ stack[Top.owner] \in Frames
          /\ \A i \in 1 .. N - 1 : i # Top.owner => stack'[i] = stack[i]
          /\ stack'[Top.owner] = [stack[Top.owner] EXCEPT !.cont = Captured(ret)]
      BY <1>13, ContShape
    <2>2. [stack[Top.owner] EXCEPT !.cont = Captured(ret)].clauses = stack[Top.owner].clauses
      OBVIOUS
    <2> DEFINE k == Top.owner
               f == [stack[k] EXCEPT !.cont = Captured(ret)]
    <2>5. f.clauses = stack[k].clauses /\ stack'[k] = f
      BY <2>1, <2>2
    <2> HIDE DEF f
    <2>6. \A i \in 1 .. N - 1 : stack'[i].clauses = stack[i].clauses
      BY <2>1, <2>5
    <2>3. \A i \in 1 .. N - 1 : i \in 1 .. N /\ stack'[i].clauses = stack[i].clauses
      BY <1>1, <2>6
    <2>4. \A i \in 1 .. N - 1 : Fine(stack'[i])
      BY <1>2, <2>3
    <2> QED
      BY <2>1, <2>4
  <1>14. CASE Finish
    <2>1. Len(stack') = 0
      BY <1>14 DEF Finish
    <2> QED
      BY <2>1
  <1>15. CASE Cancel \/ Terminated \/ UNCHANGED vars
    BY <1>6, <1>15 DEF Cancel, Terminated, vars, control
  <1> QED
    BY <1>8, <1>9, <1>10, <1>11, <1>12, <1>13, <1>14, <1>15 DEF Next, Step, Unwind

-----------------------------------------------------------------------------
(* What an old frame claims, after a step. *)

LEMMA DutySame ==
    ASSUME NEW H, NEW th, NEW q, NEW st, NEW tt, NEW e, e = 0 \/ SameFrame(st[e], tt[e])
    PROVE  Duty(H, th, e, q, st) <=> Duty(H, th, e, q, tt)
  <1>1. e # 0 => Asked(st[e]) = Asked(tt[e])
    BY DEF SameFrame, Asked
  <1> QED
    BY <1>1 DEF Duty

LEMMA EmitBelow ==
    ASSUME Exact
    PROVE  /\ Len(stack) \in Nat
           /\ \A i \in 1 .. Len(stack) : stack[i].emit \in Nat /\ stack[i].emit <= i - 1
           /\ pc = "call" => call.emit \in Nat /\ call.emit <= Len(stack)
  <1>1. stack \in Seq(Frames) /\ call \in Calls /\ Links(stack)
        /\ (pc = "call" => EmitterIn(stack, call.emit, Len(stack)))
    BY EmitOKIsLinks DEF Exact, ControlOK
  <1>2. Len(stack) \in Nat /\ call.emit \in Nat
    BY <1>1, LenProperties DEF Calls
  <1>3. \A i \in 1 .. Len(stack) : stack[i].emit \in Nat
    BY <1>1, ElementOfSeq, FrameFields
  <1> QED
    BY <1>1, <1>2, <1>3 DEF Links, Linked, EmitterIn

\* A probe that has its solution waits for it without the store being touched.
LEMMA StopKeepsStore ==
    ASSUME Exact, [Next]_vars, NEW i \in 1 .. Len(stack), i <= Len(stack'), stack[i].found # <<>>
    PROVE  store' = store
  <1>1. pc = "return" /\ ret = Stop /\ Len(stack) \in Nat /\ stack # <<>>
    <2>1. WaitsOK(stack, pc, ret)
      BY PendingOKIsWaitsOK DEF Exact
    <2> QED
      BY <2>1, EmitBelow DEF WaitsOK, Waits
  <1>2. ret.err = NoErr /\ Escapes(ret) /\ ~Catchable(ret.err)
    BY <1>1 DEF Stop, Result, Escapes, Catchable, NoErr
  <1>3. CASE Enter \/ Execute
    <2>1. pc = "call"
      BY <1>3, ExecuteShape DEF Exact, Enter, Interrupted, EmitAnswer, EmitFirst, EmitCollected,
         EmitContinuation, DepthExceeded, Emitting
    <2> QED
      BY <1>1, <2>1
  <1>4. CASE TryClause \/ LoopExhausted \/ Finish
    BY <1>1, <1>4 DEF TryClause, Trying, LoopExhausted, Finish
  <1>5. CASE LoopReturn \/ CutReturn \/ CondReturn \/ OnceReturn \/ ContReturn
    BY <1>5 DEF LoopReturn, CutReturn, CondReturn, OnceReturn, ContReturn
  <1>6. CASE OrReturn
    BY <1>2, <1>6 DEF OrReturn
  <1>7. CASE CatchReturn
    BY <1>2, <1>7 DEF CatchReturn
  <1>8. CASE NotReturn \/ FindallReturn
    <2>1. Len(stack') = Len(stack) - 1 /\ Top = stack[Len(stack)]
      BY <1>1, <1>8, PopsContinue, PopShape DEF Exact
    <2>2. i < Len(stack) /\ Len(stack) \in 1 .. Len(stack)
      BY <1>1, <2>1
    <2>3. Top.kind \in Transparent
      <3>1. WaitsOK(stack, pc, ret)
        BY PendingOKIsWaitsOK DEF Exact
      <3> QED
        BY <2>1, <2>2, <3>1 DEF WaitsOK, Waits
    <2> QED
      BY <1>8, <2>3 DEF NotReturn, FindallReturn, Returned, Transparent
  <1>9. CASE Cancel \/ Terminated \/ UNCHANGED vars
    BY <1>9 DEF Cancel, Terminated, vars
  <1> QED
    BY <1>3, <1>4, <1>5, <1>6, <1>7, <1>8, <1>9 DEF Next, Step, Unwind

LEMMA OldFrame ==
    ASSUME NEW H, Ready(H), [Next]_vars, NEW i \in 1 .. Len(stack), i <= Len(stack'),
           SameBelow(stack, stack', i)
    PROVE  /\ FrameIn(H, store', stack'[i], query', stack')
           /\ stack'[i].found = stack[i].found => FoundIn(H, store'.m, stack'[i])
           /\ stack'[i].items = stack[i].items => ItemsIn(H, stack'[i])
  <1> DEFINE f == stack[i]
             g == stack'[i]
  <1>1. Exact /\ FrameIn(H, store, f, query, stack) /\ FoundIn(H, store.m, f) /\ ItemsIn(H, f)
    BY DEF Ready, SoundIn, FramesIn
  <1>2. Len(stack) \in Nat /\ i \in 1 .. i /\ f.emit \in Nat /\ (f.emit = 0 \/ f.emit \in 1 .. i)
    BY <1>1, EmitBelow
  <1>3. SameFrame(f, g) /\ (f.emit = 0 \/ SameFrame(stack[f.emit], stack'[f.emit]))
    BY <1>2 DEF SameBelow
  <1>4. f.kind = g.kind /\ f.goal = g.goal /\ f.rest = g.rest /\ f.mark = g.mark /\ f.emit = g.emit
    BY <1>3 DEF SameFrame
  <1>5. query' = query
    BY AvailableGrows DEF Ready, Exact
  <1>6. Denotes(store', f.mark) = Denotes(store, f.mark)
    BY <1>1, HandlesKept
  <1>7. f.found # <<>> => store' = store
    BY <1>1, StopKeepsStore
  <1> HIDE DEF f, g
  <1>8. \A th : Duty(H, th, f.emit, query, stack) <=> Duty(H, th, f.emit, query, stack')
    BY <1>3, DutySame
  <1>9. FrameIn(H, store', g, query', stack')
    BY <1>1, <1>4, <1>5, <1>6, <1>8 DEF FrameIn
  <1>10. g.found = f.found => FoundIn(H, store'.m, g)
    BY <1>1, <1>4, <1>7 DEF FoundIn, Asked
  <1>11. g.items = f.items => ItemsIn(H, g)
    BY <1>1, <1>4 DEF ItemsIn
  <1> QED
    BY <1>9, <1>10, <1>11 DEF f, g

\* The activation that a step continues with: for the same collector and after
\* the first goal, or for a frame's collector and after the frame's goal.
LEMMA ContinueSound ==
    ASSUME NEW H, Ready(H), pc = "call", call.goals # <<>>, query' = query,
           SameBelow(stack, stack', Len(stack)), call'.emit = call.emit,
           \A th \in Valuations : Solves(th, store'.m) /\ AllTrue(H, th, call'.goals)
               => Solves(th, store.m) /\ TrueIn(H, th, Current) /\ AllTrue(H, th, Rest)
    PROVE  CallIn(H, store'.m, call', query', stack')
  <1>1. CallIn(H, store.m, call, query, stack) /\ call.goals \in Seq(Instances)
    BY DEF Ready, SoundIn, Exact, ControlOK, Calls
  <1>2. call.emit = 0 \/ SameFrame(stack[call.emit], stack'[call.emit])
    BY EmitBelow DEF Ready, SameBelow
  <1>3. \A th : Duty(H, th, call.emit, query, stack) <=> Duty(H, th, call.emit, query, stack')
    BY <1>2, DutySame
  <1>4. \A th : TrueIn(H, th, Current) /\ AllTrue(H, th, Rest) => AllTrue(H, th, call.goals)
    BY <1>1, AllOfGoals DEF Current, Rest
  <1> QED
    BY <1>1, <1>3, <1>4 DEF CallIn

LEMMA ResumeSound ==
    ASSUME NEW H, Ready(H), stack # <<>>, query' = query,
           SameBelow(stack, stack', Len(stack) - 1), call'.emit = Top.emit,
           \A th \in Valuations : Solves(th, store'.m) /\ AllTrue(H, th, call'.goals)
               => /\ Solves(th, Denotes(store, Top.mark))
                  /\ TrueIn(H, th, Top.goal) /\ AllTrue(H, th, Top.rest)
    PROVE  CallIn(H, store'.m, call', query', stack')
  <1>1. Exact /\ Top = stack[Len(stack)] /\ Len(stack) \in 1 .. Len(stack)
    BY TopWithdrawn DEF Ready
  <1>2. FrameIn(H, store, Top, query, stack)
    BY <1>1 DEF Ready, SoundIn, FramesIn
  <1>3. Top.emit = 0 \/ Top.emit \in 1 .. Len(stack) - 1
    BY <1>1, EmitBelow
  <1>4. Top.emit = 0 \/ SameFrame(stack[Top.emit], stack'[Top.emit])
    BY <1>3 DEF SameBelow
  <1>5. \A th : Duty(H, th, Top.emit, query, stack) <=> Duty(H, th, Top.emit, query, stack')
    BY <1>4, DutySame
  <1> QED
    BY <1>2, <1>5 DEF CallIn, FrameIn

-----------------------------------------------------------------------------
(* The steps, by what they do to the frames. *)

LEMMA KeptFrames ==
    ASSUME NEW H, Ready(H), [Next]_vars, Len(stack') <= Len(stack), Len(stack') \in Nat,
           \A i \in 1 .. Len(stack') : /\ SameFrame(stack[i], stack'[i])
                                       /\ stack'[i].found = stack[i].found
                                       /\ stack'[i].items = stack[i].items
    PROVE  FramesIn(H)'
  <1> SUFFICES ASSUME NEW i \in 1 .. Len(stack')
               PROVE  /\ FrameIn(H, store', stack'[i], query', stack')
                      /\ FoundIn(H, store'.m, stack'[i])
                      /\ ItemsIn(H, stack'[i])
    BY DEF FramesIn, FrameIn, FoundIn, ItemsIn, Duty
  <1>1. Len(stack) \in Nat /\ i \in 1 .. Len(stack) /\ i <= Len(stack')
    BY EmitBelow DEF Ready
  <1>2. SameBelow(stack, stack', i)
    BY <1>1 DEF SameBelow
  <1> QED
    BY <1>1, <1>2, OldFrame

LEMMA PushedFrames ==
    ASSUME NEW H, Ready(H), [Next]_vars, NEW f, Push(f), f.found = <<>>,
           f.kind = "findall" => f.items = <<>>,
           FrameIn(H, store', f, query', stack')
    PROVE  FramesIn(H)'
  <1> SUFFICES ASSUME NEW i \in 1 .. Len(stack')
               PROVE  /\ FrameIn(H, store', stack'[i], query', stack')
                      /\ FoundIn(H, store'.m, stack'[i])
                      /\ ItemsIn(H, stack'[i])
    BY DEF FramesIn, FrameIn, FoundIn, ItemsIn, Duty
  <1>1. /\ Len(stack) \in Nat /\ Len(stack') = Len(stack) + 1 /\ stack'[Len(stack) + 1] = f
        /\ \A k \in 1 .. Len(stack) : stack'[k] = stack[k]
        /\ SameBelow(stack, stack', Len(stack))
    BY PushShape DEF Ready, Exact, ControlOK
  <1>2. CASE i = Len(stack) + 1
    BY <1>1, <1>2 DEF FoundIn, ItemsIn
  <1>3. CASE i # Len(stack) + 1
    <2>1. i \in 1 .. Len(stack) /\ i <= Len(stack') /\ SameBelow(stack, stack', i)
      BY <1>1, <1>3 DEF SameBelow
    <2> QED
      BY <1>1, <2>1, OldFrame
  <1> QED
    BY <1>2, <1>3

\* The frame of the current goal.
LEMMA NewFrameSound ==
    ASSUME NEW H, Ready(H), [Next]_vars, pc = "call", call.goals # <<>>, store' = store,
           NEW f, Push(f), f.goal = Current, f.rest = Rest, f.mark = call.mark,
           f.emit = call.emit, f.found = <<>>, f.items = <<>>
    PROVE  FramesIn(H)' /\ SameBelow(stack, stack', Len(stack))
  <1>1. query' = query /\ CallIn(H, store.m, call, query, stack) /\ call.goals \in Seq(Instances)
    BY AvailableGrows DEF Ready, SoundIn, Exact, ControlOK, Calls
  <1>2. SameBelow(stack, stack', Len(stack))
    BY PushShape DEF Ready, Exact, ControlOK
  <1>3. call.emit = 0 \/ SameFrame(stack[call.emit], stack'[call.emit])
    BY <1>2, EmitBelow DEF Ready, SameBelow
  <1>4. \A th : Duty(H, th, call.emit, query, stack) <=> Duty(H, th, call.emit, query, stack')
    BY <1>3, DutySame
  <1>5. call.mark = store.len /\ TrailFits(store)
    BY ExactStore DEF Ready
  <1>6. \A th : Solves(th, Denotes(store, call.mark)) => Solves(th, store.m)
    BY <1>5, SolvesDenotes
  <1>7. \A th : TrueIn(H, th, Current) /\ AllTrue(H, th, Rest) => AllTrue(H, th, call.goals)
    BY <1>1, AllOfGoals DEF Current, Rest
  <1>8. FrameIn(H, store', f, query', stack')
    BY <1>1, <1>4, <1>6, <1>7 DEF FrameIn, CallIn
  <1> QED
    BY <1>2, <1>8, PushedFrames

LEMMA AnswersSame ==
    ASSUME NEW H, AnswersIn(H), out' = out, query' = query
    PROVE  AnswersIn(H)'
  BY DEF AnswersIn

\* What holds when a goal has been solved: the collector is told the truth.
LEMMA EmittingFacts ==
    ASSUME NEW H, Ready(H), Emitting, NEW th \in Valuations, Solves(th, store.m)
    PROVE  Duty(H, th, call.emit, query, stack)
  <1>1. pc = "call" /\ call.goals = <<>>
    BY DEF Emitting
  <1>2. CallIn(H, store.m, call, query, stack)
    BY <1>1 DEF Ready, SoundIn
  <1>3. AllTrue(H, th, call.goals)
    BY <1>1, AllOfFew
  <1> QED
    BY <1>2, <1>3 DEF CallIn

\* An answer is recorded.
LEMMA AnswerSound ==
    ASSUME NEW H, Ready(H), EmitAnswer
    PROVE  AnswersIn(H)'
  <1> DEFINE a == [n \in Names |-> Walk(Var(n, 0), store)]
  <1>1. out' = Append(out, a) /\ query' = query /\ call.emit = 0 /\ Emitting
    BY DEF EmitAnswer, input
  <1>2. \A e \in Envs : InstanceOf(e, a) => \A k \in DOMAIN query : <<query[k], e>> \in H
    <2> SUFFICES ASSUME NEW e \in Envs, InstanceOf(e, a)
                 PROVE  \A k \in DOMAIN query : <<query[k], e>> \in H
      OBVIOUS
    <2>1. StoreOK(store) /\ Consts \cup Lists \subseteq Values
      BY ExactStore DEF Ready
    <2>2. PICK th \in Valuations : Solves(th, store.m) /\ Under(th, 0) = e
      BY <2>1, InstanceSolves
    <2>3. Duty(H, th, 0, query, stack)
      BY <1>1, <2>2, EmittingFacts
    <2> QED
      BY <2>2, <2>3 DEF Duty
  <1>3. AnswersIn(H) /\ out \in Seq([Names -> Terms])
    BY DEF Ready, SoundIn, RecordsOK
  <1> HIDE DEF a
  <1>4. \A i \in DOMAIN out' : out'[i] = a \/ (i \in DOMAIN out /\ out'[i] = out[i])
    <2>1. out \in Seq([Names -> Terms] \cup {a})
      <3>1. [Names -> Terms] \subseteq [Names -> Terms] \cup {a}
        OBVIOUS
      <3> QED
        BY <1>3, <3>1, SeqGrows
    <2> DEFINE S == [Names -> Terms] \cup {a}
    <2>2. out \in Seq(S) /\ a \in S
      BY <2>1
    <2> HIDE DEF S
    <2> QED
      BY <1>1, <2>2
  <1> QED
    BY <1>1, <1>2, <1>3, <1>4 DEF AnswersIn

\* A probe takes its solution.
LEMMA FirstSound ==
    ASSUME NEW H, Ready(H), EmitFirst
    PROVE  FramesIn(H)'
  <1> DEFINE e == call.emit
             f == stack[e]
             g == [f EXCEPT !.found = <<call.mark>>]
  <1>1. Emitting /\ e > 0 /\ stack' = [stack EXCEPT ![e] = g] /\ store' = store
    BY DEF EmitFirst
  <1>2. e \in Levels /\ f \in Frames /\ stack \in Seq(Frames) /\ [Next]_vars
    BY <1>1, EmitFrame DEF Ready, Exact, ControlOK, Next, Step, Enter
  <1>3. SameFrame(f, g) /\ g.items = f.items /\ g.kind = f.kind /\ g.goal = f.goal
    BY <1>2 DEF SameFrame
  <1>4. \A th \in Valuations : Solves(th, store.m) => TrueIn(H, th, Asked(f))
    BY <1>1, EmittingFacts DEF Duty
  <1> HIDE DEF f, g
  <1>5. FoundIn(H, store'.m, g)
    BY <1>1, <1>3, <1>4 DEF FoundIn, Asked
  <1>6. /\ Len(stack) \in Nat /\ Len(stack') = Len(stack) /\ stack'[e] = g
        /\ \A i \in Levels \ {e} : stack'[i] = stack[i]
        /\ SameBelow(stack, stack', Len(stack))
    BY <1>1, <1>2, <1>3, FieldShape DEF f
  <1>7. ASSUME NEW i \in 1 .. Len(stack')
        PROVE  /\ FrameIn(H, store', stack'[i], query', stack')
               /\ FoundIn(H, store'.m, stack'[i])
               /\ ItemsIn(H, stack'[i])
    <2>1. i \in 1 .. Len(stack) /\ i <= Len(stack') /\ SameBelow(stack, stack', i)
      BY <1>6 DEF SameBelow
    <2>2. CASE i = e
      BY <1>2, <1>3, <1>5, <1>6, <2>1, <2>2, OldFrame DEF f
    <2>3. CASE i # e
      BY <1>2, <1>6, <2>1, <2>3, OldFrame DEF Levels
    <2> QED
      BY <2>2, <2>3
  <1> QED
    BY <1>7 DEF FramesIn, FrameIn, FoundIn, ItemsIn, Duty

\* What findall copies out, when it is a constant, is the template of a solution.
LEMMA CopyIsSolution ==
    ASSUME NEW H, Ready(H), Emitting, call.emit > 0, NEW f \in Frames, f = stack[call.emit],
           f.kind = "findall", NEW n \in Nat,
           CopyOut(Inst(f.goal.g.tmpl, f.goal.act), store, n) \in Consts
    PROVE  \E d \in Envs : /\ <<f.goal.g.left, d>> \in H
                           /\ ValueIn(f.goal.g.tmpl, d)
                                = CopyOut(Inst(f.goal.g.tmpl, f.goal.act), store, n)
  <1> DEFINE s == Inst(f.goal.g.tmpl, f.goal.act)
             x == Walk(s, store)
             t == CopyOut(s, store, n)
  <1>1. /\ f.goal \in Instances /\ f.goal.g.op = "findall" /\ f.goal.g.tmpl \in Templates
        /\ f.goal.act \in Nat /\ s \in Terms
    BY FrameFields, SubgoalTypes, InstType DEF FitsGoal
  <1>2. x \notin Vars /\ t = x
    <2>1. x \in Vars => t = Var(x.var, n) /\ Var(x.var, n) \in Vars
      BY DEF CopyOut, Var, Vars
    <2>2. t \in Consts
      OBVIOUS
    <2>3. x \notin Vars => t = x
      BY DEF CopyOut
    <2> HIDE DEF x, t
    <2> QED
      BY <2>1, <2>2, <2>3, ConstsAssumption
  <1>3. StoreOK(store) /\ Consts \cup Lists \subseteq Values
    BY ExactStore DEF Ready
  <1>4. PICK th \in Valuations : Solves(th, store.m)
    BY <1>3, SolutionExists
  <1>5. TrueIn(H, th, Asked(f))
    BY <1>4, EmittingFacts DEF Duty
  <1>6. <<f.goal.g.left, Under(th, f.goal.act)>> \in H
    BY <1>5 DEF TrueIn, Asked, Goal
  <1>7. ValueIn(f.goal.g.tmpl, Under(th, f.goal.act)) = Val(s, th)
    BY <1>1, InstValue
  <1>8. Val(x, th) = Val(s, th)
    BY <1>1, <1>3, <1>4, WalkValue
  <1>9. Val(x, th) = x
    BY <1>2 DEF Val
  <1>10. Under(th, f.goal.act) \in Envs
    BY <1>1, UnderEnvs
  <1> HIDE DEF s, x
  <1> QED
    BY <1>2, <1>6, <1>7, <1>8, <1>9, <1>10 DEF s

LEMMA CollectedSound ==
    ASSUME NEW H, Ready(H), EmitCollected
    PROVE  FramesIn(H)'
  <1> DEFINE e == call.emit
             f == stack[e]
             t == CopyOut(Inst(f.goal.g.tmpl, f.goal.act), store, fresh + 1)
             g == [f EXCEPT !.items = Append(f.items, t)]
  <1>1. /\ Emitting /\ e > 0 /\ stack' = [stack EXCEPT ![e] = g] /\ store' = store
        /\ t \in Consts \cup Vars /\ f.kind = "findall"
    BY DEF EmitCollected
  <1>2. e \in Levels /\ f \in Frames /\ stack \in Seq(Frames) /\ [Next]_vars
    BY <1>1, EmitFrame DEF Ready, Exact, ControlOK, Next, Step, Enter
  <1>3. SameFrame(f, g) /\ g.found = f.found /\ g.kind = f.kind /\ g.goal = f.goal
        /\ g.items = Append(f.items, t) /\ f.items \in Seq(Consts \cup Vars)
    BY <1>2, FrameFields DEF SameFrame
  <1>4. ItemsIn(H, f)
    BY <1>2 DEF Ready, SoundIn, FramesIn, Levels
  <1>5. fresh + 1 \in Nat
    BY SizesAreNat DEF Ready, Exact
  <1>6. t \in Consts => \E d \in Envs : <<f.goal.g.left, d>> \in H /\ ValueIn(f.goal.g.tmpl, d) = t
    BY <1>1, <1>2, <1>5, CopyIsSolution
  <1> HIDE DEF t, f, g
  <1>7. \A k \in DOMAIN g.items : g.items[k] = t \/ (k \in DOMAIN f.items /\ g.items[k] = f.items[k])
    <2> DEFINE s == f.items
               S == Consts \cup Vars
    <2>1. g.items = Append(s, t) /\ s \in Seq(S) /\ t \in S
      BY <1>1, <1>3
    <2> HIDE DEF s, S
    <2>2. \A k \in DOMAIN Append(s, t) : Append(s, t)[k] = t \/ (k \in DOMAIN s /\ Append(s, t)[k] = s[k])
      BY <2>1
    <2> QED
      BY <2>1, <2>2 DEF s
  <1>8. ItemsIn(H, g)
    BY <1>1, <1>3, <1>4, <1>6, <1>7 DEF ItemsIn
  <1>9. /\ Len(stack) \in Nat /\ Len(stack') = Len(stack) /\ stack'[e] = g
        /\ \A i \in Levels \ {e} : stack'[i] = stack[i]
        /\ SameBelow(stack, stack', Len(stack))
    BY <1>1, <1>2, <1>3, FieldShape DEF f
  <1>10. ASSUME NEW i \in 1 .. Len(stack')
         PROVE  /\ FrameIn(H, store', stack'[i], query', stack')
                /\ FoundIn(H, store'.m, stack'[i])
                /\ ItemsIn(H, stack'[i])
    <2>1. i \in 1 .. Len(stack) /\ i <= Len(stack') /\ SameBelow(stack, stack', i)
      BY <1>9 DEF SameBelow
    <2>2. CASE i = e
      BY <1>2, <1>3, <1>8, <1>9, <2>1, <2>2, OldFrame DEF f
    <2>3. CASE i # e
      BY <1>2, <1>9, <2>1, <2>3, OldFrame DEF Levels
    <2> QED
      BY <2>2, <2>3
  <1> QED
    BY <1>10 DEF FramesIn, FrameIn, FoundIn, ItemsIn, Duty

\* catch runs its continuation from inside its goal, which has been solved.
LEMMA ContinuationSound ==
    ASSUME NEW H, Ready(H), EmitContinuation
    PROVE  FramesIn(H)' /\ CallIn(H, store'.m, call', query', stack')
  <1> DEFINE e == call.emit
             f == stack[e]
             g == [f EXCEPT !.kind = "cont", !.owner = e, !.mark = call.mark, !.base = store.len]
  <1>1. /\ Emitting /\ e > 0 /\ Push(g) /\ store' = store /\ query' = query /\ f.kind = "catch"
        /\ call'.goals = f.rest /\ call'.emit = f.emit
    BY DEF EmitContinuation, Resume, input
  <1>2. /\ e \in Levels /\ f \in Frames /\ stack \in Seq(Frames) /\ [Next]_vars
        /\ Len(stack) \in Nat /\ f.mark \in Nat /\ f.mark <= store.len
        /\ call.mark = store.len /\ TrailFits(store) /\ store.len \in Nat
    BY <1>1, EmitFrame, ExactStore, EmitBelow
       DEF Ready, Exact, ControlOK, Next, Step, Enter, Emitting, Levels
  <1>3. /\ g.kind = "cont" /\ g.goal = f.goal /\ g.rest = f.rest /\ g.mark = call.mark
        /\ g.emit = f.emit /\ g.found = f.found
    BY <1>2 DEF Frames, Records
  <1>4. f.goal \in Instances /\ f.goal.g.op = "catch"
    BY <1>1, <1>2, FrameFields DEF FitsGoal
  <1>5. f.found = <<>>
    <2>1. Quiet(stack)
      BY <1>1, QuietUnlessStopping DEF Ready, Exact, Emitting
    <2> QED
      BY <1>2, <2>1 DEF Quiet, Levels
  <1>6. FrameIn(H, store, f, query, stack)
    BY <1>2 DEF Ready, SoundIn, FramesIn, Levels
  <1>7. SameBelow(stack, stack', Len(stack))
    BY <1>1, <1>2, PushShape
  <1>8. f.emit = 0 \/ SameFrame(stack[f.emit], stack'[f.emit])
    <2>1. f.emit \in Nat /\ f.emit <= e - 1
      BY <1>2, EmitBelow DEF Ready, Levels
    <2>2. f.emit = 0 \/ f.emit \in 1 .. Len(stack)
      BY <1>2, <2>1 DEF Levels
    <2> QED
      BY <1>7, <2>2 DEF SameBelow
  <1>9. \A th \in Valuations : Solves(th, store.m) => TrueIn(H, th, f.goal)
    <2> SUFFICES ASSUME NEW th \in Valuations, Solves(th, store.m)
                 PROVE  TrueIn(H, th, f.goal)
      OBVIOUS
    <2>1. TrueIn(H, th, Asked(f))
      BY <1>1, EmittingFacts DEF Duty
    <2>2. TrueIn(H, th, Branch(f.goal, f.goal.g.left))
      BY <1>1, <2>1 DEF Asked, TrueIn, Branch, Goal
    <2> QED
      BY <1>4, <2>2, ConstructRules DEF Ready
  <1> HIDE DEF f, g
  <1>10. \A th : Duty(H, th, f.emit, query, stack) <=> Duty(H, th, f.emit, query, stack')
    BY <1>8, DutySame
  <1>11. \A th : Solves(th, store.m) => Solves(th, Denotes(store, f.mark))
    BY SolvesDenotes
  <1>12. \A th : Solves(th, Denotes(store, call.mark)) => Solves(th, store.m)
    BY <1>2, SolvesDenotes
  <1>13. FrameIn(H, store', g, query', stack')
    BY <1>1, <1>3, <1>6, <1>10, <1>11, <1>12 DEF FrameIn
  <1>14. FramesIn(H)'
    BY <1>1, <1>2, <1>3, <1>5, <1>13, PushedFrames
  <1>15. CallIn(H, store'.m, call', query', stack')
    BY <1>1, <1>6, <1>9, <1>10, <1>11 DEF CallIn, FrameIn
  <1> QED
    BY <1>14, <1>15

LEMMA EnterSound ==
    ASSUME NEW H, Ready(H), Enter
    PROVE  SoundIn(H)'
  <1>1. [Next]_vars /\ query' = query
    BY AvailableGrows DEF Ready, Exact, Next, Step
  <1>2. CASE Interrupted \/ EmitAnswer \/ DepthExceeded
    <2>1. stack' = stack /\ store' = store /\ pc' = "return" /\ (out' = out \/ EmitAnswer)
      BY <1>2 DEF Interrupted, EmitAnswer, DepthExceeded, Return
    <2>2. Len(stack) \in Nat
      BY EmitBelow DEF Ready
    <2>3. FramesIn(H)'
      BY <1>1, <2>1, <2>2, KeptFrames, SameFrameReflexive
    <2>4. AnswersIn(H)'
      BY <1>1, <2>1, AnswersSame, AnswerSound DEF Ready, SoundIn
    <2> QED
      BY <2>1, <2>3, <2>4 DEF SoundIn
  <1>3. CASE EmitFirst \/ EmitCollected
    <2>1. FramesIn(H)' /\ pc' = "return" /\ out' = out
      BY <1>3, FirstSound, CollectedSound DEF EmitFirst, EmitCollected, Return
    <2> QED
      BY <1>1, <2>1, AnswersSame DEF Ready, SoundIn
  <1>4. CASE EmitContinuation
    <2>1. FramesIn(H)' /\ CallIn(H, store'.m, call', query', stack') /\ out' = out
      BY <1>4, ContinuationSound DEF EmitContinuation
    <2>2. AnswersIn(H)'
      BY <1>1, <2>1, AnswersSame DEF Ready, SoundIn
    <2>3. CallIn(H, store.m, call, query, stack)'
      BY <2>1 DEF CallIn, Duty
    <2> QED
      BY <2>1, <2>2, <2>3 DEF SoundIn
  <1> QED
    BY <1>2, <1>3, <1>4 DEF Enter

-----------------------------------------------------------------------------
(* The constructs. *)

LEMMA CallPrimed ==
    ASSUME NEW H, CallIn(H, store'.m, call', query', stack')
    PROVE  CallIn(H, store.m, call, query, stack)'
  BY DEF CallIn, Duty

\* A step that leaves the frames alone.
LEMMA StaySound ==
    ASSUME NEW H, Ready(H), [Next]_vars, pc = "call", call.goals # <<>>, stack' = stack, out' = out,
           pc' = "call" =>
              /\ call'.emit = call.emit
              /\ \A th \in Valuations : Solves(th, store'.m) /\ AllTrue(H, th, call'.goals)
                   => Solves(th, store.m) /\ TrueIn(H, th, Current) /\ AllTrue(H, th, Rest)
    PROVE  SoundIn(H)'
  <1>1. query' = query /\ Len(stack) \in Nat
    BY AvailableGrows, EmitBelow DEF Ready, Exact
  <1>2. SameBelow(stack, stack', Len(stack))
    BY SameFrameReflexive DEF SameBelow
  <1>3. FramesIn(H)'
    BY <1>1, KeptFrames, SameFrameReflexive
  <1>4. pc' = "call" => CallIn(H, store.m, call, query, stack)'
    BY <1>1, <1>2, ContinueSound, CallPrimed
  <1>5. AnswersIn(H)'
    BY <1>1, AnswersSame DEF Ready, SoundIn
  <1> QED
    BY <1>3, <1>4, <1>5 DEF SoundIn

LEMMA TrueSound ==
    ASSUME NEW H, Ready(H), SolveTrue \/ SolveFail \/ SolveThrow \/ SolveAssert
    PROVE  SoundIn(H)'
  <1>1. /\ pc = "call" /\ call.goals # <<>> /\ Current \in Instances /\ [Next]_vars
        /\ stack' = stack /\ store' = store /\ out' = out
    BY RunningFacts DEF Ready, Exact, SolveTrue, SolveFail, SolveThrow, SolveAssert, Running, Next,
       Step, Execute
  <1>2. pc' = "call" => /\ Current.g.op \in {"true", "cut", "asserta", "assertz"}
                        /\ call'.goals = Rest /\ call'.emit = call.emit
    BY DEF SolveTrue, SolveFail, SolveThrow, SolveAssert, Running, Continue, Resume, Return
  <1>3. pc' = "call" => \A th \in Valuations : TrueIn(H, th, Current)
    BY <1>1, <1>2, ConstructRules DEF Ready
  <1> QED
    BY <1>1, <1>2, <1>3, StaySound

LEMMA AndSound ==
    ASSUME NEW H, Ready(H), SolveAnd
    PROVE  SoundIn(H)'
  <1> DEFINE a == Branch(Current, Current.g.left)
             b == Branch(Current, Current.g.right)
  <1>1. /\ pc = "call" /\ call.goals # <<>> /\ Current \in Instances /\ [Next]_vars
        /\ stack' = stack /\ store' = store /\ out' = out /\ Current.g.op = "and"
        /\ Rest \in Seq(Instances)
        /\ call'.goals = <<a, b>> \o Rest /\ call'.emit = call.emit
    BY RunningFacts DEF Ready, Exact, SolveAnd, Running, Next, Step, Execute, Resume
  <1>2. a \in Instances /\ b \in Instances
    BY <1>1, SubgoalTypes, BranchTypes
  <1>3. \A th \in Valuations : TrueIn(H, th, a) /\ TrueIn(H, th, b) => TrueIn(H, th, Current)
    BY <1>1, ConstructRules DEF Ready
  <1> HIDE DEF a, b
  <1>4. <<a, b>> \in Seq(Instances)
    BY <1>2, ShortSequences
  <1>5. \A th : AllTrue(H, th, call'.goals)
           => TrueIn(H, th, a) /\ TrueIn(H, th, b) /\ AllTrue(H, th, Rest)
    BY <1>1, <1>4, AllOfConcat, AllOfFew
  <1> QED
    BY <1>1, <1>3, <1>5, StaySound

LEMMA EqSound ==
    ASSUME NEW H, Ready(H), SolveEq \/ SolveNeq
    PROVE  SoundIn(H)'
  <1> DEFINE s == Arg(Current)
             t == Inst(Current.g.arg2, Current.act)
             u == Unify(s, t, store)
  <1>1. /\ pc = "call" /\ call.goals # <<>> /\ Current \in Instances /\ [Next]_vars
        /\ stack' = stack /\ out' = out /\ store' = u.st
        /\ Current.g.op \in {"eq", "neq"}
    BY RunningFacts DEF Ready, Exact, SolveEq, SolveNeq, Running, Next, Step, Execute
  <1>2. pc' = "call" => /\ (Current.g.op = "eq" /\ u.ok) \/ (Current.g.op = "neq" /\ ~u.ok)
                        /\ call'.goals = Rest /\ call'.emit = call.emit
    BY DEF SolveEq, SolveNeq, Running, Continue, Resume, Return
  <1>3. s \in Terms /\ t \in Terms /\ StoreOK(store)
    BY <1>1, ArgTypes, ExactStore DEF Ready
  <1>4. \A th \in Valuations :
           /\ u.ok /\ Solves(th, u.st.m) => Solves(th, store.m) /\ Val(s, th) = Val(t, th)
           /\ ~u.ok => u.st = store /\ (Solves(th, store.m) => Val(s, th) # Val(t, th))
    BY <1>3, UnifySolves
  <1>5. \A th \in Valuations :
           /\ Current.g.op = "eq" /\ Val(s, th) = Val(t, th) => TrueIn(H, th, Current)
           /\ Current.g.op = "neq" /\ Val(s, th) # Val(t, th) => TrueIn(H, th, Current)
    BY <1>1, ConstructRules DEF Ready
  <1> HIDE DEF s, t, u
  <1> QED
    BY <1>1, <1>2, <1>4, <1>5, StaySound

LEMMA RetractSound ==
    ASSUME NEW H, Ready(H), SolveRetract
    PROVE  SoundIn(H)'
  <1> DEFINE base == UndoTo(store, call.mark)
             try(i) == Unify(Arg(Current), Inst(db[i].arg, fresh + i), base)
  <1>1. /\ pc = "call" /\ call.goals # <<>> /\ Current \in Instances /\ [Next]_vars
        /\ stack' = stack /\ out' = out /\ Current.g.op = "retract" /\ fresh \in Nat
        /\ db \in Seq(Clauses)
    BY RunningFacts DEF Ready, Exact, SolveRetract, Running, Next, Step, Execute
  <1>2. ASSUME pc' = "call"
        PROVE  /\ call'.goals = Rest /\ call'.emit = call.emit
               /\ \E i \in 1 .. Len(db) : /\ db[i].pred = Current.g.pred /\ db[i].body = <<>>
                                          /\ try(i).ok /\ store' = try(i).st
    <2> DEFINE b    == IF db = <<>> THEN store ELSE UndoTo(store, call.mark)
               tr   == [i \in 1 .. Len(db) |-> Unify(Arg(Current), Inst(db[i].arg, fresh + i), b)]
               hits == {i \in 1 .. Len(db) : db[i].pred = Current.g.pred /\ db[i].body = <<>> /\ tr[i].ok}
    <2>1. /\ call'.goals = Rest /\ call'.emit = call.emit
          /\ \E i \in hits : store' = tr[i].st
      <3> HIDE DEF tr, b
      <3>1. \A r : Return(r) => pc' # "call"
        BY DEF Return
      <3>2. \A m : Continue(m) => call'.goals = Rest /\ call'.emit = call.emit
        BY DEF Continue, Resume
      <3>3. \E i \in hits : store' = tr[i].st /\ Continue(store'.len)
        BY <1>2, <3>1 DEF SolveRetract, tr, b
      <3> QED
        BY <3>2, <3>3
    <2>2. PICK i \in 1 .. Len(db) : /\ db[i].pred = Current.g.pred /\ db[i].body = <<>>
                                    /\ tr[i].ok /\ store' = tr[i].st
      BY <2>1
    <2>3. db # <<>>
      BY <1>1, <2>2
    <2>4. tr[i] = try(i)
      BY <2>3
    <2> QED
      BY <2>1, <2>2, <2>4
  <1>3. ASSUME pc' = "call"
        PROVE  \A th \in Valuations : Solves(th, store'.m)
                  => Solves(th, store.m) /\ TrueIn(H, th, Current)
    <2>1. PICK i \in 1 .. Len(db) : /\ db[i].pred = Current.g.pred /\ db[i].body = <<>>
                                    /\ try(i).ok /\ store' = try(i).st
      BY <1>2, <1>3
    <2> DEFINE s == Arg(Current)
               t == Inst(db[i].arg, fresh + i)
    <2>2. /\ db[i] \in Clauses /\ db[i] \in Available /\ fresh + i \in Nat
      <3>1. db \in Seq(Available)
        BY <1>1 DEF Ready, ClausesKnown
      <3> QED
        BY <1>1, <3>1, ElementOfSeq
    <2>3. db[i].arg \in Templates
      BY <2>2 DEF Clauses
    <2>4. s \in Terms /\ t \in Terms
      BY <1>1, <2>2, <2>3, ArgTypes, InstType
    <2>5. /\ StoreOK(base) /\ StoreOK(store) /\ TrailFits(store) /\ call.mark = store.len
          /\ store.len \in Nat
      BY <1>1, CallWithdrawn, WithdrawnFacts, ExactStore DEF Ready
    <2> HIDE DEF s, base
    <2> SUFFICES ASSUME NEW th \in Valuations, Solves(th, store'.m)
                 PROVE  Solves(th, store.m) /\ TrueIn(H, th, Current)
      OBVIOUS
    <2>6. Solves(th, base.m) /\ Val(s, th) = Val(t, th)
      <3> DEFINE r == t
      <3>1. r \in Terms /\ Unify(s, r, base).ok /\ store' = Unify(s, r, base).st
        BY <2>1, <2>4 DEF s
      <3> HIDE DEF r
      <3>2. Solves(th, base.m) /\ Val(s, th) = Val(r, th)
        BY <2>4, <2>5, <3>1, UnifySolves
      <3> QED
        BY <3>2 DEF r
    <2>7. Solves(th, store.m)
      <3>1. Solves(th, Denotes(store, store.len))
        BY <2>5, <2>6, UndoSolves DEF base
      <3> QED
        BY <2>5, <3>1, SolvesDenotes
    <2>8. TrueIn(H, th, Current)
      BY <1>1, <2>1, <2>2, <2>6, RetractRule DEF Ready, s
    <2> QED
      BY <2>7, <2>8
  <1> QED
    BY <1>1, <1>2, <1>3, StaySound

\* A step that pushes the frame of the current goal: a cut, the left branch of
\* a disjunction, a clause loop...
LEMMA CutOrCallSound ==
    ASSUME NEW H, Ready(H), SolveCut \/ SolveOr \/ SolveCall
    PROVE  SoundIn(H)'
  <1>1. /\ pc = "call" /\ call.goals # <<>> /\ Current \in Instances /\ [Next]_vars
        /\ Rest \in Seq(Instances) /\ store' = store /\ out' = out /\ query' = query
    BY RunningFacts, AvailableGrows DEF Ready, Exact, SolveCut, SolveOr, SolveCall, Running, Next,
       Step, Execute
  <1>2. PICK f : /\ Push(f) /\ f.goal = Current /\ f.rest = Rest /\ f.mark = call.mark
                 /\ f.emit = call.emit /\ f.found = <<>> /\ f.items = <<>>
    <2>1. CASE SolveCut
      <3> DEFINE g == [Frame("cut") EXCEPT !.bar = Current.bar]
      <3>1. /\ g.goal = Current /\ g.rest = Rest /\ g.mark = call.mark
            /\ g.emit = call.emit /\ g.found = <<>> /\ g.items = <<>>
        BY DEF Frame
      <3> QED
        BY <2>1, <3>1 DEF SolveCut
    <2>2. CASE SolveOr
      <3> DEFINE g == Frame("or")
      <3>1. /\ g.goal = Current /\ g.rest = Rest /\ g.mark = call.mark
            /\ g.emit = call.emit /\ g.found = <<>> /\ g.items = <<>>
        BY DEF Frame
      <3> QED
        BY <2>2, <3>1 DEF SolveOr
    <2>3. CASE SolveCall
      <3> DEFINE g == [Frame("loop") EXCEPT !.clauses = db, !.bar = barriers + 1]
      <3>1. /\ g.goal = Current /\ g.rest = Rest /\ g.mark = call.mark
            /\ g.emit = call.emit /\ g.found = <<>> /\ g.items = <<>>
        BY DEF Frame
      <3> QED
        BY <2>3, <3>1 DEF SolveCall
    <2> QED
      BY <2>1, <2>2, <2>3
  <1>3. FramesIn(H)' /\ SameBelow(stack, stack', Len(stack))
    BY <1>1, <1>2, NewFrameSound
  <1>4. pc' = "call" =>
           /\ call'.emit = call.emit
           /\ \A th \in Valuations : AllTrue(H, th, call'.goals)
                 => TrueIn(H, th, Current) /\ AllTrue(H, th, Rest)
    <2>1. CASE SolveCut
      <3>1. call'.emit = call.emit /\ call'.goals = Rest /\ Current.g.op = "cut"
        BY <2>1 DEF SolveCut, Running, Continue, Resume
      <3> QED
        BY <1>1, <3>1, ConstructRules DEF Ready
    <2>2. CASE SolveOr
      <3> DEFINE a == Branch(Current, Current.g.left)
      <3>1. call'.emit = call.emit /\ call'.goals = <<a>> \o Rest /\ Current.g.op = "or"
        BY <2>2 DEF SolveOr, Running, Resume
      <3>2. a \in Instances
        BY <1>1, <3>1, SubgoalTypes, BranchTypes
      <3>3. \A th \in Valuations : TrueIn(H, th, a) => TrueIn(H, th, Current)
        BY <1>1, <3>1, ConstructRules DEF Ready
      <3> HIDE DEF a
      <3>4. <<a>> \in Seq(Instances)
        BY <3>2, ShortSequences
      <3>5. \A th : AllTrue(H, th, call'.goals) => TrueIn(H, th, a) /\ AllTrue(H, th, Rest)
        BY <1>1, <3>1, <3>4, AllOfConcat, AllOfFew
      <3> QED
        BY <3>1, <3>3, <3>5
    <2>3. CASE SolveCall
      BY <2>3 DEF SolveCall
    <2> QED
      BY <2>1, <2>2, <2>3
  <1>5. pc' = "call" => CallIn(H, store.m, call, query, stack)'
    BY <1>1, <1>3, <1>4, ContinueSound, CallPrimed
  <1>6. AnswersIn(H)'
    BY <1>1, AnswersSame DEF Ready, SoundIn
  <1> QED
    BY <1>3, <1>5, <1>6 DEF SoundIn

\* ... or a collector of its own, for a goal of which the frame is asked.
LEMMA InnerSound ==
    ASSUME NEW H, Ready(H), SolveIte \/ SolveInner
    PROVE  SoundIn(H)'
  <1>1. /\ pc = "call" /\ call.goals # <<>> /\ Current \in Instances /\ [Next]_vars
        /\ Rest \in Seq(Instances) /\ store' = store /\ out' = out /\ query' = query
    BY RunningFacts, AvailableGrows DEF Ready, Exact, SolveIte, SolveInner, Running, Next,
       Step, Execute
  <1>2. PICK f, gi :
           /\ Push(f) /\ f.goal = Current /\ f.rest = Rest /\ f.mark = call.mark
           /\ f.emit = call.emit /\ f.found = <<>> /\ f.items = <<>>
           /\ pc' = "call" /\ call'.goals = <<gi>> /\ call'.emit = Len(stack) + 1
           /\ gi.g = Asked(f).g /\ gi.act = Asked(f).act
    <2>1. CASE SolveIte
      <3> DEFINE f  == Frame("cond")
                 gi == Branch(Current, Cond(Current.g))
      <3>1. /\ Push(f) /\ pc' = "call" /\ call'.goals = <<gi>> /\ call'.emit = Len(stack) + 1
        BY <2>1 DEF SolveIte, Resume
      <3>2. /\ f.goal = Current /\ f.rest = Rest /\ f.mark = call.mark /\ f.kind = "cond"
            /\ f.emit = call.emit /\ f.found = <<>> /\ f.items = <<>>
        BY DEF Frame
      <3>3. gi.g = Cond(Current.g) /\ gi.act = Current.act
        BY DEF Branch, Goal
      <3> HIDE DEF f, gi
      <3>4. gi.g = Asked(f).g /\ gi.act = Asked(f).act
        BY <3>2, <3>3 DEF Asked, Goal
      <3> QED
        BY <3>1, <3>2, <3>4
    <2>2. CASE SolveInner
      <3> DEFINE f  == Frame(Current.g.op)
                 gi == Opaque(Current, Current.g.left)
      <3>1. /\ Push(f) /\ pc' = "call" /\ call'.goals = <<gi>> /\ call'.emit = Len(stack) + 1
            /\ Current.g.op # "cond"
        BY <2>2 DEF SolveInner, Running, Resume
      <3>2. /\ f.goal = Current /\ f.rest = Rest /\ f.mark = call.mark /\ f.kind = Current.g.op
            /\ f.emit = call.emit /\ f.found = <<>> /\ f.items = <<>>
        BY DEF Frame
      <3>3. gi.g = Current.g.left /\ gi.act = Current.act
        BY DEF Opaque, Goal
      <3> HIDE DEF f, gi
      <3>4. gi.g = Asked(f).g /\ gi.act = Asked(f).act
        BY <3>1, <3>2, <3>3 DEF Asked, Goal
      <3> QED
        BY <3>1, <3>2, <3>4
    <2> QED
      BY <2>1, <2>2
  <1>3. FramesIn(H)'
    BY <1>1, <1>2, NewFrameSound
  <1>4. stack'[Len(stack) + 1] = f /\ Len(stack) + 1 # 0
    BY <1>2, PushShape DEF Ready, Exact, ControlOK
  <1>5. \A th : AllTrue(H, th, call'.goals) => TrueIn(H, th, gi)
    BY <1>2, AllOfFew
  <1>6. CallIn(H, store'.m, call', query', stack')
    BY <1>2, <1>4, <1>5 DEF CallIn, Duty, TrueIn
  <1>7. AnswersIn(H)'
    BY <1>1, AnswersSame DEF Ready, SoundIn
  <1> QED
    BY <1>3, <1>6, <1>7, CallPrimed DEF SoundIn

LEMMA ExecuteSound ==
    ASSUME NEW H, Ready(H), Execute
    PROVE  SoundIn(H)'
  BY TrueSound, AndSound, EqSound, RetractSound, CutOrCallSound, InnerSound DEF Execute

-----------------------------------------------------------------------------
(* The results. *)

\* A step that pops the top frame, and perhaps goes on with its rest.
LEMMA PopSound ==
    ASSUME NEW H, Ready(H), [Next]_vars, stack # <<>>, stack' = Popped, out' = out,
           pc' = "call" =>
              /\ call'.emit = Top.emit
              /\ \A th \in Valuations : Solves(th, store'.m) /\ AllTrue(H, th, call'.goals)
                   => /\ Solves(th, Denotes(store, Top.mark))
                      /\ TrueIn(H, th, Top.goal) /\ AllTrue(H, th, Top.rest)
    PROVE  SoundIn(H)'
  <1>1. /\ query' = query /\ Len(stack) \in Nat /\ Len(stack') = Len(stack) - 1 /\ Len(stack) >= 1
        /\ \A i \in 1 .. Len(stack) - 1 : stack'[i] = stack[i]
        /\ SameBelow(stack, stack', Len(stack) - 1)
    BY AvailableGrows, PopShape DEF Ready, Exact
  <1>2. FramesIn(H)'
    BY <1>1, KeptFrames, SameFrameReflexive
  <1>3. pc' = "call" => CallIn(H, store.m, call, query, stack)'
    BY <1>1, ResumeSound, CallPrimed
  <1>4. AnswersIn(H)'
    BY <1>1, AnswersSame DEF Ready, SoundIn
  <1> QED
    BY <1>2, <1>3, <1>4 DEF SoundIn

LEMMA ResumedGoals ==
    ASSUME NEW f \in Frames, NEW gs \in Seq(Instances), NEW m, ContinueFrame(f, gs, m), NEW H
    PROVE  /\ call'.emit = f.emit
           /\ \A th : AllTrue(H, th, call'.goals) => AllTrue(H, th, gs) /\ AllTrue(H, th, f.rest)
  <1>1. call'.goals = gs \o f.rest /\ call'.emit = f.emit
    BY DEF ContinueFrame, Resume
  <1>2. f.rest \in Seq(Instances)
    BY FrameFields
  <1> QED
    BY <1>1, <1>2, AllOfConcat

\* The top frame of a result.
LEMMA ReturnedTop ==
    ASSUME NEW H, Ready(H), NEW k, Returned(k)
    PROVE  /\ stack # <<>> /\ Top \in Frames /\ Top.kind = k /\ Top.goal \in Instances /\ FitsGoal(Top)
           /\ Top.base = Top.mark /\ Top.mark \in Nat /\ Top.mark <= store.len
           /\ FoundIn(H, store.m, Top) /\ ItemsIn(H, Top)
           /\ LET b == UndoTo(store, Top.mark)
              IN  StoreOK(b) /\ \A th : Solves(th, b.m) => Solves(th, Denotes(store, Top.mark))
           /\ \A th : Solves(th, store.m) => Solves(th, Denotes(store, Top.mark))
           /\ <<>> \in Seq(Instances)
  <1>1. /\ stack # <<>> /\ Top \in Frames /\ Top.kind = k /\ Top.goal \in Instances /\ FitsGoal(Top)
        /\ <<>> \in Seq(Instances)
    BY ReturnedFacts DEF Ready, Exact
  <1>2. /\ Withdrawn(UndoTo(store, Top.mark)) /\ Top.base = Top.mark /\ Top.mark \in Nat
        /\ Top.mark <= store.len /\ Top = stack[Len(stack)] /\ Len(stack) \in 1 .. Len(stack)
    BY <1>1, TopWithdrawn DEF Ready
  <1>3. FoundIn(H, store.m, Top) /\ ItemsIn(H, Top)
    BY <1>2 DEF Ready, SoundIn, FramesIn
  <1>4. StoreOK(store) /\ TrailFits(store) /\ StoreOK(UndoTo(store, Top.mark))
    BY <1>2, ExactStore, WithdrawnFacts DEF Ready
  <1>5. \A th : Solves(th, UndoTo(store, Top.mark).m) => Solves(th, Denotes(store, Top.mark))
    BY <1>2, <1>4, UndoSolves
  <1>6. \A th : Solves(th, store.m) => Solves(th, Denotes(store, Top.mark))
    BY SolvesDenotes
  <1> QED
    BY <1>1, <1>2, <1>3, <1>4, <1>5, <1>6

\* Results that only pop: nothing more is run.
LEMMA FailingSound ==
    ASSUME NEW H, Ready(H), LoopExhausted \/ (LoopReturn /\ pc' # "try") \/ CutReturn
    PROVE  SoundIn(H)'
  <1>1. stack # <<>> /\ out' = out /\ [Next]_vars
    BY DEF Ready, Exact, ControlOK, LoopExhausted, LoopReturn, CutReturn, Returned, Next, Step, Unwind
  <1>2. stack' = Popped
    BY PopsContinue
  <1>3. pc' # "call"
    <2>1. pc = "return" \/ LoopExhausted
      BY DEF LoopReturn, CutReturn, Returned
    <2> QED
      BY <2>1 DEF LoopExhausted, LoopReturn, CutReturn, Return, PopAndReturn
  <1> QED
    BY <1>1, <1>2, <1>3, PopSound

LEMMA OrSound ==
    ASSUME NEW H, Ready(H), OrReturn
    PROVE  SoundIn(H)'
  <1> DEFINE a == Branch(Top.goal, Top.goal.g.right)
             b == UndoTo(store, Top.mark)
  <1>1. out' = out /\ [Next]_vars /\ Returned("or") /\ stack' = Popped
    BY PopsContinue DEF OrReturn, Next, Step, Unwind
  <1>2. /\ stack # <<>> /\ Top \in Frames /\ Top.goal \in Instances /\ Top.goal.g.op = "or"
        /\ \A th : Solves(th, b.m) => Solves(th, Denotes(store, Top.mark))
    BY <1>1, ReturnedTop DEF FitsGoal
  <1>3. pc' = "call" => ContinueFrame(Top, <<a>>, Top.mark) /\ store' = b
    BY DEF OrReturn, PopAndReturn, Return
  <1>4. a \in Instances
    BY <1>2, SubgoalTypes, BranchTypes
  <1>5. \A th \in Valuations : TrueIn(H, th, a) => TrueIn(H, th, Top.goal)
    BY <1>2, ConstructRules DEF Ready
  <1> HIDE DEF a, b
  <1>6. <<a>> \in Seq(Instances)
    BY <1>4, ShortSequences
  <1>7. pc' = "call" => /\ call'.emit = Top.emit
                        /\ \A th : AllTrue(H, th, call'.goals) => TrueIn(H, th, a) /\ AllTrue(H, th, Top.rest)
    BY <1>2, <1>3, <1>6, ResumedGoals, AllOfFew
  <1> QED
    BY <1>1, <1>2, <1>3, <1>5, <1>7, PopSound

\* Then starts where the condition was met; Else where it was not, unless the
\* condition left something bound.
LEMMA CondSound ==
    ASSUME NEW H, Ready(H), CondReturn, ~leaked'
    PROVE  SoundIn(H)'
  <1> DEFINE g == Top.goal.g
             a == Branch(Top.goal, Then(g))
             b == Branch(Top.goal, g.right)
  <1>1. out' = out /\ [Next]_vars /\ Returned("cond") /\ stack' = Popped /\ store' = store
    BY PopsContinue DEF CondReturn, Next, Step, Unwind
  <1>2. /\ stack # <<>> /\ Top \in Frames /\ Top.goal \in Instances /\ Top.kind = "cond"
        /\ g.op = "then" \/ IsIte(g)
        /\ \A th : Solves(th, store.m) => Solves(th, Denotes(store, Top.mark))
        /\ FoundIn(H, store.m, Top)
    BY <1>1, ReturnedTop DEF FitsGoal
  <1>3. pc' = "call" =>
           \/ Top.found # <<>> /\ ContinueFrame(Top, <<a>>, Head(Top.found))
           \/ g.op # "then" /\ ContinueFrame(Top, <<b>>, Top.mark)
    BY DEF CondReturn, PopAndReturn, Return
  <1>4. g \in Goals /\ a \in Instances /\ (g.op # "then" => b \in Instances /\ g.op = "or")
    BY <1>2, SubgoalTypes, IteTypes, BranchTypes DEF IsIte
  <1>5. Top.found # <<>> => \A th \in Valuations : Solves(th, store.m) /\ TrueIn(H, th, a)
                                 => TrueIn(H, th, Top.goal)
    <2> SUFFICES ASSUME Top.found # <<>>, NEW th \in Valuations, Solves(th, store.m), TrueIn(H, th, a)
                 PROVE  TrueIn(H, th, Top.goal)
      OBVIOUS
    <2>1. TrueIn(H, th, Asked(Top))
      BY <1>2 DEF FoundIn
    <2>2. TrueIn(H, th, Branch(Top.goal, Cond(g)))
      BY <1>2, <2>1 DEF Asked, TrueIn, Branch, Goal
    <2> QED
      BY <1>2, <2>2, IteRule DEF Ready
  <1>6. g.op # "then" => \A th \in Valuations : TrueIn(H, th, b) => TrueIn(H, th, Top.goal)
    BY <1>2, <1>4, ConstructRules DEF Ready
  <1> HIDE DEF a, b, g
  <1>7. CASE Top.found # <<>> /\ ContinueFrame(Top, <<a>>, Head(Top.found))
    <2>1. <<a>> \in Seq(Instances)
      BY <1>4, ShortSequences
    <2>2. /\ call'.emit = Top.emit
          /\ \A th : AllTrue(H, th, call'.goals) => TrueIn(H, th, a) /\ AllTrue(H, th, Top.rest)
      BY <1>2, <1>7, <2>1, ResumedGoals, AllOfFew
    <2> QED
      BY <1>1, <1>2, <1>5, <1>7, <2>2, PopSound
  <1>8. CASE g.op # "then" /\ ContinueFrame(Top, <<b>>, Top.mark)
    <2>1. <<b>> \in Seq(Instances)
      BY <1>4, <1>8, ShortSequences
    <2>2. /\ call'.emit = Top.emit
          /\ \A th : AllTrue(H, th, call'.goals) => TrueIn(H, th, b) /\ AllTrue(H, th, Top.rest)
      BY <1>2, <1>8, <2>1, ResumedGoals, AllOfFew
    <2> QED
      BY <1>1, <1>2, <1>6, <1>8, <2>2, PopSound
  <1>9. CASE pc' # "call"
    BY <1>1, <1>2, <1>9, PopSound
  <1> QED
    BY <1>3, <1>7, <1>8, <1>9

LEMMA ProbeSound ==
    ASSUME NEW H, Ready(H), NotReturn \/ OnceReturn
    PROVE  SoundIn(H)'
  <1> DEFINE b == UndoTo(store, Top.mark)
  <1>1. out' = out /\ [Next]_vars /\ stack' = Popped /\ (Returned("not") \/ Returned("once"))
    BY PopsContinue DEF NotReturn, OnceReturn, Next, Step, Unwind
  <1>2. /\ stack # <<>> /\ Top \in Frames /\ Top.goal \in Instances /\ Top.base = Top.mark
        /\ Top.kind \in {"not", "once"} /\ Top.goal.g.op = Top.kind
        /\ \A th : Solves(th, b.m) => Solves(th, Denotes(store, Top.mark))
        /\ \A th : Solves(th, store.m) => Solves(th, Denotes(store, Top.mark))
        /\ FoundIn(H, store.m, Top) /\ <<>> \in Seq(Instances)
    BY <1>1, ReturnedTop DEF FitsGoal
  <1>3. pc' = "call" =>
           \/ Top.kind = "not" /\ store' = b /\ ContinueFrame(Top, <<>>, Top.mark)
           \/ /\ Top.kind = "once" /\ store' = store /\ Top.found # <<>>
              /\ ContinueFrame(Top, <<>>, Head(Top.found))
    BY <1>2 DEF NotReturn, OnceReturn, Returned, PopAndReturn, Return
  <1>4. Top.kind = "not" => \A th \in Valuations : TrueIn(H, th, Top.goal)
    BY <1>2, ConstructRules DEF Ready
  <1>5. Top.kind = "once" /\ Top.found # <<>>
          => \A th \in Valuations : Solves(th, store.m) => TrueIn(H, th, Top.goal)
    <2> SUFFICES ASSUME Top.kind = "once", Top.found # <<>>, NEW th \in Valuations, Solves(th, store.m)
                 PROVE  TrueIn(H, th, Top.goal)
      OBVIOUS
    <2>1. TrueIn(H, th, Asked(Top))
      BY <1>2 DEF FoundIn
    <2>2. TrueIn(H, th, Branch(Top.goal, Top.goal.g.left))
      BY <2>1 DEF Asked, TrueIn, Branch, Goal
    <2> QED
      BY <1>2, <2>2, ConstructRules DEF Ready
  <1> HIDE DEF b
  <1>6. pc' = "call" => /\ call'.emit = Top.emit
                        /\ \A th : AllTrue(H, th, call'.goals) => AllTrue(H, th, Top.rest)
    BY <1>2, <1>3, ResumedGoals
  <1> QED
    BY <1>1, <1>2, <1>3, <1>4, <1>5, <1>6, PopSound

LEMMA FindallSound ==
    ASSUME NEW H, Ready(H), FindallReturn
    PROVE  SoundIn(H)'
  <1> DEFINE b == UndoTo(store, Top.mark)
             s == Arg(Top.goal)
             t == [list |-> Top.items]
             u == Unify(s, t, b)
  <1>1. out' = out /\ [Next]_vars /\ stack' = Popped /\ Returned("findall")
    BY PopsContinue DEF FindallReturn, Next, Step, Unwind
  <1>2. /\ stack # <<>> /\ Top \in Frames /\ Top.goal \in Instances /\ Top.base = Top.mark
        /\ Top.kind = "findall" /\ Top.goal.g.op = "findall" /\ StoreOK(b)
        /\ \A th : Solves(th, b.m) => Solves(th, Denotes(store, Top.mark))
        /\ ItemsIn(H, Top) /\ <<>> \in Seq(Instances)
    BY <1>1, ReturnedTop DEF FitsGoal
  <1>3. pc' = "call" => u.ok /\ store' = u.st /\ ContinueFrame(Top, <<>>, u.st.len)
    BY <1>2 DEF FindallReturn, PopAndReturn, Return
  <1>4. s \in Terms /\ t \in Terms /\ t \notin Vars
    <2>1. t \in Lists /\ t \notin Vars
      BY <1>2, FrameFields DEF Lists, Vars
    <2> QED
      BY <1>2, <2>1, ArgTypes DEF Terms
  <1>5. \A th \in Valuations : u.ok /\ Solves(th, u.st.m) => Solves(th, b.m) /\ Val(s, th) = Val(t, th)
    <2> HIDE DEF b, s, t
    <2> QED
      BY <1>2, <1>4, UnifySolves
  <1>6. \A th \in Valuations : Val(s, th) = Val(t, th) => TrueIn(H, th, Top.goal)
    BY <1>2, <1>4, FindallRule DEF Val, Ready
  <1>7. pc' = "call" => /\ call'.emit = Top.emit
                        /\ \A th : AllTrue(H, th, call'.goals) => AllTrue(H, th, Top.rest)
    <2> HIDE DEF u
    <2> QED
      BY <1>2, <1>3, ResumedGoals
  <1> HIDE DEF b, s, t, u
  <1> QED
    BY <1>1, <1>2, <1>3, <1>5, <1>6, <1>7, PopSound

LEMMA CatchSound ==
    ASSUME NEW H, Ready(H), CatchReturn
    PROVE  SoundIn(H)'
  <1> DEFINE b == UndoTo(store, Top.mark)
             s == Arg(Top.goal)
             t == Ball(ret.err)
             u == Unify(s, t, b)
             a == Opaque(Top.goal, Top.goal.g.right)
  <1>1. out' = out /\ [Next]_vars /\ stack' = Popped /\ Returned("catch")
    BY PopsContinue DEF CatchReturn, Next, Step, Unwind
  <1>2. /\ stack # <<>> /\ Top \in Frames /\ Top.goal \in Instances
        /\ Top.goal.g.op = "catch" /\ StoreOK(b)
        /\ \A th : Solves(th, b.m) => Solves(th, Denotes(store, Top.mark))
    BY <1>1, ReturnedTop DEF FitsGoal
  <1>3. pc' = "call" =>
           Catchable(ret.err) /\ u.ok /\ store' = u.st /\ ContinueFrame(Top, <<a>>, u.st.len)
    BY DEF CatchReturn, PopAndReturn, Return
  <1>4. Catchable(ret.err) => s \in Terms /\ t \in Terms
    <2>1. fresh \in Nat /\ ret \in ResultsTo(fresh)
      BY SizesAreNat DEF Ready, Exact
    <2> QED
      BY <1>2, <2>1, ArgTypes, BallKnown DEF KnownTo
  <1>5. Catchable(ret.err) => \A th \in Valuations : u.ok /\ Solves(th, u.st.m) => Solves(th, b.m)
    <2> HIDE DEF b, s, t
    <2> QED
      BY <1>2, <1>4, UnifySolves
  <1>6. a \in Instances /\ \A th \in Valuations : TrueIn(H, th, a) => TrueIn(H, th, Top.goal)
    <2>1. a \in Instances
      BY <1>2, SubgoalTypes, BranchTypes
    <2>2. \A th : TrueIn(H, th, a) <=> TrueIn(H, th, Branch(Top.goal, Top.goal.g.right))
      BY DEF TrueIn, Opaque, Branch, Goal
    <2> HIDE DEF a
    <2> QED
      BY <1>2, <2>1, <2>2, ConstructRules DEF Ready
  <1> HIDE DEF a, b, s, t, u
  <1>7. pc' = "call" => /\ call'.emit = Top.emit
                        /\ \A th : AllTrue(H, th, call'.goals) => TrueIn(H, th, a) /\ AllTrue(H, th, Top.rest)
    <2>1. <<a>> \in Seq(Instances)
      BY <1>6, ShortSequences
    <2> QED
      BY <1>2, <1>3, <2>1, ResumedGoals, AllOfFew
  <1> QED
    BY <1>1, <1>2, <1>3, <1>5, <1>6, <1>7, PopSound

\* A clause whose head unified with the goal: its body stands for the goal.
LEMMA TrySound ==
    ASSUME NEW H, Ready(H), TryClause
    PROVE  SoundIn(H)'
  <1> DEFINE b  == UndoTo(store, Top.mark)
             c  == Head(Top.clauses)
             s  == Arg(Top.goal)
             t  == Inst(c.arg, fresh')
             u  == Unify(s, t, b)
             f  == [Top EXCEPT !.clauses = Tail(@)]
             bd == Body(c, fresh', f.bar)
  <1>1. /\ out' = out /\ [Next]_vars /\ query' = query /\ stack # <<>> /\ Top \in Frames
        /\ Top.goal \in Instances /\ Top.goal.g.op = "call" /\ s \in Terms /\ t \in Terms
        /\ c \in Clauses /\ fresh' \in Nat /\ Withdrawn(b) /\ pc = "try"
    BY TryFacts DEF Ready, TryClause, Trying, Next, Step, Unwind, input
  <1>2. /\ Len(stack) \in Nat /\ Len(stack) >= 1 /\ Len(stack') = Len(stack) /\ stack'[Len(stack)] = f
        /\ \A i \in 1 .. Len(stack) - 1 : stack'[i] = stack[i]
        /\ SameBelow(stack, stack', Len(stack)) /\ Top = stack[Len(stack)]
    BY TryShape DEF Ready, Exact
  <1>3. f.found = Top.found /\ f.items = Top.items /\ f.rest = Top.rest /\ f.emit = Top.emit /\ f.bar = Top.bar
        /\ f.bar \in Nat /\ f.rest \in Seq(Instances)
    BY <1>1, FrameFields DEF Frames, Records
  <1>4. c \in Available
    <2>1. Top.clauses \in Seq(Available) /\ Top.clauses # <<>>
      BY <1>2 DEF Ready, ClausesKnown, TryClause, Trying
    <2> QED
      BY <2>1, NonEmptyFacts
  <1>5. pc' = "call" => /\ c.pred = Top.goal.g.pred /\ u.ok /\ store' = u.st
                        /\ call'.goals = bd \o f.rest /\ call'.emit = f.emit
    <2>1. pc' = "call" => c.pred = Top.goal.g.pred /\ u.ok /\ store' = u.st
      BY <1>1 DEF TryClause
    <2>2. pc' = "call" => ContinueFrame(f, bd, u.st.len)
      BY <1>1 DEF TryClause
    <2> HIDE DEF f, bd, u
    <2>3. ContinueFrame(f, bd, u.st.len) => call'.goals = bd \o f.rest /\ call'.emit = f.emit
      BY DEF ContinueFrame, Resume
    <2> QED
      BY <2>1, <2>2, <2>3
  <1>6. bd \in Seq(Instances)
    BY <1>1, <1>3, BodyType
  <1>7. StoreOK(b) /\ \A th : Solves(th, b.m) => Solves(th, Denotes(store, Top.mark))
    <2>1. StoreOK(store) /\ TrailFits(store) /\ Top.mark \in Nat /\ Top.mark <= store.len /\ StoreOK(b)
      BY <1>1, ExactStore, TopWithdrawn, WithdrawnFacts DEF Ready
    <2> QED
      BY <2>1, UndoSolves
  <1>8. \A th \in Valuations : u.ok /\ Solves(th, u.st.m) => Solves(th, b.m) /\ Val(s, th) = Val(t, th)
    <2> HIDE DEF b, s, t
    <2> QED
      BY <1>1, <1>7, UnifySolves
  <1>9. c.pred = Top.goal.g.pred => \A th \in Valuations :
           Val(s, th) = Val(t, th) /\ AllTrue(H, th, bd) => TrueIn(H, th, Top.goal)
    <2> HIDE DEF c
    <2> QED
      BY <1>1, <1>4, ClauseRule DEF Ready
  <1> HIDE DEF b, c, s, t, u, f, bd
  <1>10. \A i \in 1 .. Len(stack') : i = Len(stack) \/ i \in 1 .. Len(stack) - 1
    BY <1>2
  <1>11. \A i \in 1 .. Len(stack') : /\ SameFrame(stack[i], stack'[i])
                                     /\ stack'[i].found = stack[i].found
                                     /\ stack'[i].items = stack[i].items
    BY <1>2, <1>3, <1>10 DEF SameBelow
  <1>12. FramesIn(H)'
    BY <1>1, <1>2, <1>11, KeptFrames
  <1>13. \A th : AllTrue(H, th, bd \o f.rest) => AllTrue(H, th, bd) /\ AllTrue(H, th, Top.rest)
    BY <1>3, <1>6, AllOfConcat
  <1>14. SameBelow(stack, stack', Len(stack) - 1)
    BY <1>2 DEF SameBelow
  <1>15. pc' = "call" => CallIn(H, store'.m, call', query', stack')
    BY <1>1, <1>3, <1>5, <1>7, <1>8, <1>9, <1>13, <1>14, ResumeSound
  <1>16. AnswersIn(H)'
    BY <1>1, AnswersSame DEF Ready, SoundIn
  <1> QED
    BY <1>12, <1>15, <1>16, CallPrimed DEF SoundIn

\* Steps that only hand a result on.
LEMMA HandedOnSound ==
    ASSUME NEW H, Ready(H), (LoopReturn /\ pc' = "try") \/ ContReturn \/ Finish
    PROVE  SoundIn(H)'
  <1>1. /\ out' = out /\ [Next]_vars /\ pc' # "call" /\ query' = query /\ Len(stack) \in Nat
    BY EmitBelow, AvailableGrows
       DEF Ready, Exact, LoopReturn, ContReturn, Finish, Return, Next, Step, Unwind
  <1>2. FramesIn(H)'
    <2>1. CASE stack' = stack
      BY <1>1, <2>1, KeptFrames, SameFrameReflexive
    <2>2. CASE ContReturn
      <3> DEFINE k == Top.owner
                 g == [stack[k] EXCEPT !.cont = Captured(ret)]
      <3>1. /\ Len(stack') = Len(stack) - 1 /\ Len(stack) \in Levels /\ stack[k] \in Frames
            /\ SameBelow(stack, stack', Len(stack) - 1)
            /\ \A i \in 1 .. Len(stack) - 1 : i # k => stack'[i] = stack[i]
            /\ stack'[k] = g
        BY <2>2, ContShape DEF Ready, Exact
      <3>2. g.found = stack[k].found /\ g.items = stack[k].items
        OBVIOUS
      <3> HIDE DEF g, k
      <3>3. \A i \in 1 .. Len(stack') : /\ SameFrame(stack[i], stack'[i])
                                        /\ stack'[i].found = stack[i].found
                                        /\ stack'[i].items = stack[i].items
        BY <3>1, <3>2 DEF SameBelow
      <3>4. Len(stack') \in Nat /\ Len(stack') <= Len(stack)
        BY <1>1, <3>1 DEF Levels
      <3> QED
        BY <1>1, <3>3, <3>4, KeptFrames
    <2> QED
      BY <2>1, <2>2 DEF LoopReturn, PopAndReturn, Return, Finish
  <1>3. AnswersIn(H)'
    BY <1>1, AnswersSame DEF Ready, SoundIn
  <1> QED
    BY <1>1, <1>2, <1>3 DEF SoundIn

LEMMA UnwindSound ==
    ASSUME NEW H, Ready(H), Unwind, ~leaked'
    PROVE  SoundIn(H)'
  BY FailingSound, OrSound, CondSound, ProbeSound, FindallSound, CatchSound, TrySound, HandedOnSound
     DEF Unwind

-----------------------------------------------------------------------------
(* The theorem. *)

\* What the invariant rests on, as far as other theorems show it.
Grounds == ControlOK /\ EmitOK /\ PendingOK /\ DataInv /\ HandlesExact /\ TrailExact

LEMMA SoundStep ==
    ASSUME Consts \cup Lists \subseteq Values, Grounds, RecordsOK, ClausesKnown, Sound, [Next]_vars
    PROVE  Sound'
  <1> SUFFICES ASSUME ~leaked', NEW H, IsModel(H, Available')
               PROVE  SoundIn(H)'
    BY DEF Sound, Available
  <1>1. ~leaked
    BY LeakStays
  <1>2. IsModel(H, Available)
    BY AvailableGrows, FewerClauses DEF Grounds
  <1>3. Ready(H)
    BY <1>1, <1>2 DEF Ready, Exact, Grounds, Sound
  <1>4. CASE Enter
    BY <1>3, <1>4, EnterSound
  <1>5. CASE Execute
    BY <1>3, <1>5, ExecuteSound
  <1>6. CASE Unwind
    BY <1>3, <1>6, UnwindSound
  <1>7. CASE Cancel \/ Terminated \/ UNCHANGED vars
    <2>1. UNCHANGED <<pc, call, stack, store, query, out>>
      BY <1>7 DEF Cancel, Terminated, vars, control, input
    <2> QED
      BY <1>3, <2>1 DEF Ready, SoundIn, FramesIn, AnswersIn, CallIn, FrameIn, FoundIn, ItemsIn, Duty
  <1> QED
    BY <1>4, <1>5, <1>6, <1>7 DEF Next, Step

LEMMA SoundInitially == Init => Sound /\ ClausesKnown
  <1> SUFFICES ASSUME Init PROVE Sound /\ ClausesKnown
    OBVIOUS
  <1>1. /\ stack = <<>> /\ out = <<>> /\ call.emit = 0 /\ db = prog
        /\ call.goals = [i \in 1 .. Len(query) |-> Goal(query[i], 0, 0)]
        /\ prog \in Seq(Clauses) /\ query \in Seq(Goals)
    BY ProgramsAssumption DEF Init
  <1>2. Len(stack) = 0 /\ DOMAIN out = {}
    BY <1>1
  <1>3. ASSUME NEW H
        PROVE  CallIn(H, store.m, call, query, stack)
    <2>1. DOMAIN query = 1 .. Len(query)
      BY <1>1, LenProperties
    <2> SUFFICES ASSUME NEW th, AllTrue(H, th, call.goals), NEW k \in DOMAIN query
                 PROVE  <<query[k], Under(th, 0)>> \in H
      BY <1>1 DEF CallIn, Duty
    <2>2. k \in DOMAIN call.goals /\ call.goals[k] = Goal(query[k], 0, 0)
      BY <1>1, <2>1
    <2>3. TrueIn(H, th, Goal(query[k], 0, 0))
      BY <2>2 DEF AllTrue
    <2> QED
      BY <2>3 DEF TrueIn, Goal
  <1>4. Sound
    BY <1>2, <1>3 DEF Sound, SoundIn, FramesIn, AnswersIn
  <1>5. db \in Seq(Available)
    <2>1. \A k \in 1 .. Len(prog) : prog[k] \in Available
      BY <1>1, LenProperties, AvailableFacts
    <2> QED
      BY <1>1, <2>1, SeqOf
  <1> QED
    BY <1>2, <1>4, <1>5 DEF ClausesKnown

\* Every answer of every run is a consequence of the clauses the run could use,
\* in every model of them: cut, \+, if-then-else, catch, findall and changes of
\* the database never make the machine say what does not follow, unless an Else
\* ran over the bindings of its condition (solve.go:225-566).
THEOREM AnswersAreConsequences ==
    ASSUME Consts \cup Lists \subseteq Values
    PROVE  Spec => []AnswersTrue
  <1> SUFFICES ASSUME Consts \cup Lists \subseteq Values
               PROVE  Spec => []AnswersTrue
    OBVIOUS
  <1>1. Grounds /\ RecordsOK /\ ClausesKnown /\ Sound /\ [Next]_vars
          => RecordsOK' /\ ClausesKnown' /\ Sound'
    BY RecordsStep, ClausesStep, SoundStep DEF Grounds
  <1>2. Init => RecordsOK /\ ClausesKnown /\ Sound /\ TrailExact
    BY RecordsInitially, SoundInitially, DataInitially DEF TrailExact
  <1>3. ControlOK /\ EmitOK /\ ControlOK' /\ DataInv /\ HandlesExact /\ TrailExact /\ [Next]_vars
          => TrailExact'
    BY TrailExactStep
  <1>4. StopsReachTheirProbe <=> EmitOK /\ PendingOK
    BY DEF StopsReachTheirProbe
  <1>5. Grounds <=> ControlOK /\ EmitOK /\ PendingOK /\ DataInv /\ HandlesExact /\ TrailExact
    BY DEF Grounds
  <1>6. Sound => AnswersTrue
    BY DEF Sound, SoundIn, AnswersTrue
  <1> QED
    BY <1>1, <1>2, <1>3, <1>4, <1>5, <1>6, ControlIsLinked, StopsReachProbes, DataIsKnown,
       HandlesAreExact, PTL DEF Spec

-----------------------------------------------------------------------------
(* The other direction: solutions that a step keeps. *)

\* A solution that makes its terms equal outlives a unification.
LEMMA UnifyKeeps ==
    ASSUME NEW st, StoreOK(st), NEW s \in Terms, NEW t \in Terms, NEW th \in Valuations,
           Solves(th, st.m), Val(s, th) = Val(t, th)
    PROVE  Unify(s, t, st).ok /\ Solves(th, Unify(s, t, st).st.m)
  <1> DEFINE x == Walk(s, st)
             y == Walk(t, st)
             u == Unify(s, t, st)
  <1>1. x \in Terms /\ x \notin DOMAIN st.m /\ y \in Terms /\ y \notin DOMAIN st.m
    <2>1. \A v \in DOMAIN st.m : st.m[v] \in Terms
      BY DEF StoreOK
    <2> QED
      BY <2>1, WalkFacts
  <1>2. Val(x, th) = Val(y, th)
    BY WalkValue
  <1>3. \/ u.ok /\ u.st = st
        \/ u.ok /\ x # y /\ x \in Vars /\ u.st = Bind(st, x, y)
        \/ u.ok /\ x # y /\ y \in Vars /\ u.st = Bind(st, y, x)
        \/ x # y /\ x \notin Vars /\ y \notin Vars
    BY DEF Unify
  <1>4. x # y => x \in Vars \/ y \in Vars
    BY <1>2 DEF Val
  <1> HIDE DEF x, y, u
  <1>5. ASSUME NEW v \in Vars, NEW w \in Terms, v \notin DOMAIN st.m, w \notin DOMAIN st.m, v # w,
               Val(v, th) = Val(w, th)
        PROVE  Solves(th, Bind(st, v, w).m)
    <2> DEFINE b == Bind(st, v, w)
    <2>1. /\ DOMAIN b.m = DOMAIN st.m \cup {v} /\ b.m[v] = w
          /\ \A z \in DOMAIN st.m : b.m[z] = st.m[z]
      BY <1>5, BindFacts
    <2> HIDE DEF b
    <2>2. th[v] = Val(w, th)
      BY <1>5 DEF Val
    <2>3. Solves(th, b.m)
      BY <2>1, <2>2 DEF Solves
    <2> QED
      BY <2>3 DEF b
  <1>6. u.ok /\ Solves(th, u.st.m)
    BY <1>1, <1>2, <1>3, <1>4, <1>5
  <1> QED
    BY <1>6 DEF u

LEMMA UndoKeeps ==
    ASSUME NEW st, StoreOK(st), TrailFits(st), NEW n \in Nat, n <= st.len, NEW th,
           Solves(th, Denotes(st, n))
    PROVE  Solves(th, UndoTo(st, n).m)
  <1> DEFINE m == UndoTo(st, n).m
             k == Denotes(st, n)
  <1>1. SameMap(m, k) /\ Solves(th, k)
    BY UndoDenotes
  <1> HIDE DEF m, k
  <1>2. Solves(th, m)
    BY <1>1 DEF SameMap, Solves
  <1> QED
    BY <1>2 DEF m

\* A valuation that gives the variables of activation n the values of d.
Patched(th, n, d) == [v \in Vars |-> IF v.act = n THEN d[v.var] ELSE th[v]]

LEMMA PatchedFacts ==
    ASSUME NEW th \in Valuations, NEW n \in Nat, NEW d \in Envs, NEW k \in Nat, k < n
    PROVE  LET w == Patched(th, n, d)
           IN  /\ w \in Valuations
               /\ Under(w, n) = d
               /\ \A a \in Nat : a <= k => Under(w, a) = Under(th, a)
               /\ \A t \in KnownTo(k) : Val(t, w) = Val(t, th)
  <1> DEFINE w == Patched(th, n, d)
  <1>1. d \in [Names -> Values] /\ \A v \in Vars : th[v] \in Values /\ v.var \in Names /\ v.act \in Nat
    BY DEF Envs, Valuations, Vars
  <1>2. w \in Valuations /\ \A v \in Vars : w[v] = IF v.act = n THEN d[v.var] ELSE th[v]
    BY <1>1 DEF Patched, Valuations
  <1> HIDE DEF w
  <1>3. \A a \in Nat, x \in Names : Var(x, a) \in Vars /\ Var(x, a).act = a /\ Var(x, a).var = x
    BY DEF Var, Vars
  <1>4. Under(w, n) = d
    <2>1. \A x \in Names : w[Var(x, n)] = d[x]
      BY <1>2, <1>3
    <2> QED
      BY <1>1, <2>1 DEF Under
  <1>5. ASSUME NEW a \in Nat, a <= k
        PROVE  Under(w, a) = Under(th, a)
    <2>1. \A x \in Names : w[Var(x, a)] = th[Var(x, a)]
      BY <1>2, <1>3, <1>5
    <2> QED
      BY <2>1 DEF Under
  <1>6. ASSUME NEW t \in KnownTo(k)
        PROVE  Val(t, w) = Val(t, th)
    BY <1>1, <1>2 DEF KnownTo, Val
  <1> QED
    BY <1>2, <1>4, <1>5, <1>6 DEF w

\* What was known before keeps its value: solutions and true goals stay.
LEMMA PatchedKeeps ==
    ASSUME NEW th \in Valuations, NEW n \in Nat, NEW d \in Envs, NEW k \in Nat, k < n
    PROVE  /\ \A st : StoreTo(st, k) /\ Solves(th, st.m) => Solves(Patched(th, n, d), st.m)
           /\ \A H, gs : gs \in Seq(InstTo(k)) /\ AllTrue(H, th, gs) => AllTrue(H, Patched(th, n, d), gs)
  <1> DEFINE w == Patched(th, n, d)
  <1>1. /\ \A a \in Nat : a <= k => Under(w, a) = Under(th, a)
        /\ \A t \in KnownTo(k) : Val(t, w) = Val(t, th)
    BY PatchedFacts
  <1> HIDE DEF w
  <1>2. ASSUME NEW st, StoreTo(st, k), Solves(th, st.m)
        PROVE  Solves(w, st.m)
    <2> SUFFICES ASSUME NEW v \in DOMAIN st.m PROVE w[v] = Val(st.m[v], w)
      BY DEF Solves
    <2>1. v \in KnownTo(k) /\ st.m[v] \in KnownTo(k) /\ v \in Vars
      BY <1>2 DEF StoreTo, StoreOK, Acyclic
    <2>2. Val(v, w) = Val(v, th) /\ Val(st.m[v], w) = Val(st.m[v], th)
      BY <1>1, <2>1
    <2>3. th[v] = Val(st.m[v], th)
      BY <1>2 DEF Solves
    <2> QED
      BY <2>1, <2>2, <2>3 DEF Val
  <1>3. ASSUME NEW H, NEW gs \in Seq(InstTo(k)), AllTrue(H, th, gs)
        PROVE  AllTrue(H, w, gs)
    <2> SUFFICES ASSUME NEW i \in DOMAIN gs PROVE TrueIn(H, w, gs[i])
      BY DEF AllTrue
    <2>1. gs[i] \in InstTo(k)
      BY InDomain
    <2>2. Under(w, gs[i].act) = Under(th, gs[i].act)
      BY <1>1, <2>1 DEF InstTo, Instances
    <2> QED
      BY <1>3, <2>2 DEF AllTrue, TrueIn
  <1> QED
    BY <1>2, <1>3 DEF w

\* Conjunctions.
LEMMA AllOfBoth ==
    ASSUME NEW H, NEW th, NEW S, NEW s \in Seq(S), NEW t \in Seq(S),
           AllTrue(H, th, s), AllTrue(H, th, t)
    PROVE  AllTrue(H, th, s \o t)
  <1> DEFINE u == s \o t
  <1>1. /\ DOMAIN s = 1 .. Len(s) /\ DOMAIN t = 1 .. Len(t) /\ Len(s) \in Nat /\ Len(t) \in Nat
        /\ DOMAIN u = 1 .. Len(s) + Len(t)
        /\ \A i \in 1 .. Len(s) : u[i] = s[i]
        /\ \A i \in 1 .. Len(t) : u[i + Len(s)] = t[i]
    OBVIOUS
  <1> HIDE DEF u
  <1>2. ASSUME NEW k \in DOMAIN u
        PROVE  TrueIn(H, th, u[k])
    <2>1. CASE k \in 1 .. Len(s)
      BY <1>1, <2>1 DEF AllTrue
    <2>2. CASE k \notin 1 .. Len(s)
      <3>1. k - Len(s) \in 1 .. Len(t) /\ (k - Len(s)) + Len(s) = k
        BY <1>1, <2>2
      <3>2. u[k] = t[k - Len(s)]
        BY <1>1, <3>1
      <3> QED
        BY <1>1, <3>1, <3>2 DEF AllTrue
    <2> QED
      BY <2>1, <2>2
  <1>3. AllTrue(H, th, u)
    BY <1>2 DEF AllTrue
  <1> QED
    BY <1>3 DEF u

LEMMA AllOfThese ==
    ASSUME NEW H, NEW th
    PROVE  /\ \A a : TrueIn(H, th, a) => AllTrue(H, th, <<a>>)
           /\ \A a, b : TrueIn(H, th, a) /\ TrueIn(H, th, b) => AllTrue(H, th, <<a, b>>)
           /\ \A S : \A s \in Seq(S) : s # <<>> /\ AllTrue(H, th, s)
                 => TrueIn(H, th, Head(s)) /\ AllTrue(H, th, Tail(s))
  <1>1. ASSUME NEW a, TrueIn(H, th, a)
        PROVE  AllTrue(H, th, <<a>>)
    <2> DEFINE s == <<a>>
    <2>1. \A i \in DOMAIN s : s[i] = a
      OBVIOUS
    <2> HIDE DEF s
    <2>2. AllTrue(H, th, s)
      BY <1>1, <2>1 DEF AllTrue
    <2> QED
      BY <2>2 DEF s
  <1>2. ASSUME NEW a, NEW b, TrueIn(H, th, a), TrueIn(H, th, b)
        PROVE  AllTrue(H, th, <<a, b>>)
    <2> DEFINE s == <<a, b>>
    <2>1. \A i \in DOMAIN s : s[i] = a \/ s[i] = b
      OBVIOUS
    <2> HIDE DEF s
    <2>2. AllTrue(H, th, s)
      BY <1>2, <2>1 DEF AllTrue
    <2> QED
      BY <2>2 DEF s
  <1>3. ASSUME NEW S, NEW s \in Seq(S), s # <<>>, AllTrue(H, th, s)
        PROVE  TrueIn(H, th, Head(s)) /\ AllTrue(H, th, Tail(s))
    <2> DEFINE t == Tail(s)
    <2>1. /\ Head(s) = s[1] /\ 1 \in DOMAIN s
          /\ \A i \in DOMAIN t : i + 1 \in DOMAIN s /\ t[i] = s[i + 1]
      BY <1>3
    <2> HIDE DEF t
    <2>2. AllTrue(H, th, t) /\ TrueIn(H, th, Head(s))
      BY <1>3, <2>1 DEF AllTrue
    <2> QED
      BY <2>2 DEF t
  <1> QED
    BY <1>1, <1>2, <1>3

-----------------------------------------------------------------------------
(* The search of a definite program: clause loops and disjunctions only.     *)

DefiniteInstances == {gi \in Instances : gi.g \in DefiniteGoals}

DefiniteFrame(f) == /\ f.kind \in {"loop", "or"} /\ f.goal \in DefiniteInstances
                    /\ f.rest \in Seq(DefiniteInstances)

DefiniteState ==
    /\ log = <<>> /\ (pc # "done" => db = prog) /\ ~leaked
    /\ call.goals \in Seq(DefiniteInstances)
    /\ \A i \in 1 .. Len(stack) : DefiniteFrame(stack[i])
    /\ ret.commit = 0 /\ (ret.stop => Full)

\* The goals of a definite goal.
LEMMA DefiniteGoalFacts ==
    ASSUME NEW gi \in DefiniteInstances
    PROVE  /\ gi \in Instances /\ gi.g \in DefiniteGoals /\ gi.g \in Goals
           /\ gi.g.op \in {"true", "fail", "and", "or", "eq", "call"} /\ ~IsIte(gi.g)
           /\ gi.g.op \in {"and", "or"} => /\ Branch(gi, gi.g.left) \in DefiniteInstances
                                           /\ Branch(gi, gi.g.right) \in DefiniteInstances
  <1>1. gi \in Instances /\ gi.g \in DefiniteGoals
    BY DEF DefiniteInstances
  <1>2. /\ gi.g \in Goals /\ gi.g.op \in {"true", "fail", "and", "or", "eq", "call"}
        /\ gi.g.op \in {"and", "or"} => gi.g.left \in DefiniteGoals /\ gi.g.right \in DefiniteGoals
        /\ \A g \in DefiniteGoals : g \in Goals /\ g.op # "then"
    BY <1>1, DefiniteAssumption
  <1>3. ~IsIte(gi.g)
    BY <1>2 DEF IsIte
  <1>4. \A g \in DefiniteGoals : Branch(gi, g) \in Instances /\ Branch(gi, g).g = g
    BY <1>1, <1>2, BranchTypes DEF Branch, Goal
  <1> QED
    BY <1>1, <1>2, <1>3, <1>4 DEF DefiniteInstances

\* The clauses of a definite program, and their bodies.
LEMMA DefiniteClauses ==
    ASSUME DefiniteRun, DefiniteState, ControlOK
    PROVE  /\ \A c : c \in Available <=> \E i \in DOMAIN prog : c = prog[i]
           /\ \A c \in Available \cap Clauses, n \in Nat, b \in Nat :
                 Body(c, n, b) \in Seq(DefiniteInstances)
  <1>1. \A c : c \in Available <=> \E i \in DOMAIN prog : c = prog[i]
    <2>1. DOMAIN log = {}
      BY DEF DefiniteState
    <2> QED
      BY <2>1, AvailableFacts
  <1>2. ASSUME NEW c \in Available \cap Clauses, NEW n \in Nat, NEW b \in Nat
        PROVE  Body(c, n, b) \in Seq(DefiniteInstances)
    <2>1. c.body \in Seq(Goals) /\ \A k \in DOMAIN c.body : c.body[k] \in DefiniteGoals
      BY <1>1, <1>2 DEF DefiniteRun, Clauses
    <2>2. \A k \in 1 .. Len(c.body) : c.body[k] \in DefiniteGoals
      BY <2>1, LenProperties
    <2>3. \A g \in DefiniteGoals : Goal(g, n, b) \in DefiniteInstances
      BY DefiniteAssumption DEF Goal, DefiniteInstances, Instances
    <2>4. Len(c.body) \in Nat
      BY <2>1, LenProperties
    <2> QED
      BY <2>2, <2>3, <2>4 DEF Body
  <1> QED
    BY <1>1, <1>2

\* Only the collector of Solve is called.
LEMMA OneCollector ==
    ASSUME ControlOK, EmitOK, DefiniteState
    PROVE  pc = "call" => call.emit = 0
  <1> SUFFICES ASSUME pc = "call" PROVE call.emit = 0
    OBVIOUS
  <1>1. EmitterOf(call.emit, Len(stack)) /\ call.emit \in Nat /\ Len(stack) \in Nat
    BY LenProperties DEF EmitOK, ControlOK, Calls
  <1>2. ASSUME call.emit > 0 PROVE FALSE
    <2>1. call.emit \in 1 .. Len(stack) /\ stack[call.emit].kind \in Emitters
      BY <1>1, <1>2 DEF EmitterOf
    <2> QED
      BY <2>1 DEF DefiniteState, DefiniteFrame, Emitters, Probes
  <1> QED
    BY <1>1, <1>2

\* The steps that there are.
LEMMA DefiniteSteps ==
    ASSUME ControlOK, EmitOK, DefiniteState, [Next]_vars
    PROVE  \/ Interrupted \/ DepthExceeded \/ EmitAnswer
           \/ (SolveTrue /\ Current.g.op = "true") \/ SolveFail \/ SolveAnd \/ SolveOr \/ SolveEq \/ SolveCall
           \/ TryClause \/ LoopExhausted \/ LoopReturn \/ OrReturn \/ Finish
           \/ Cancel \/ Terminated \/ UNCHANGED vars
  <1>1. ASSUME pc = "call", call.goals # <<>>
        PROVE  Current.g.op \in {"true", "fail", "and", "or", "eq", "call"} /\ ~IsIte(Current.g)
    <2>1. Current \in DefiniteInstances
      BY <1>1, NonEmptyFacts DEF DefiniteState, Current
    <2> QED
      BY <2>1, DefiniteGoalFacts
  <1>2. ~EmitFirst /\ ~EmitCollected /\ ~EmitContinuation
    BY OneCollector DEF EmitFirst, EmitCollected, EmitContinuation, Emitting
  <1>3. /\ ~SolveCut /\ ~SolveIte /\ ~SolveInner /\ ~SolveThrow /\ ~SolveNeq /\ ~SolveAssert /\ ~SolveRetract
        /\ SolveTrue => Current.g.op = "true"
    BY <1>1 DEF SolveCut, SolveIte, SolveInner, SolveThrow, SolveNeq, SolveAssert, SolveRetract, SolveTrue, Running
  <1>4. stack # <<>> => Top.kind \in {"loop", "or"}
    BY TopTypes DEF DefiniteState, DefiniteFrame, Top
  <1>5. ~CutReturn /\ ~CondReturn /\ ~NotReturn /\ ~OnceReturn /\ ~FindallReturn /\ ~CatchReturn /\ ~ContReturn
    BY <1>4 DEF CutReturn, CondReturn, NotReturn, OnceReturn, FindallReturn, CatchReturn, ContReturn, Returned
  <1> QED
    BY <1>2, <1>3, <1>5 DEF Next, Step, Enter, Execute, Unwind

LEMMA DefiniteInitially ==
    ASSUME Init, DefiniteRun
    PROVE  DefiniteState
  <1>1. /\ call.goals = [i \in 1 .. Len(query) |-> Goal(query[i], 0, 0)] /\ query \in Seq(Goals)
        /\ log = <<>> /\ db = prog /\ ~leaked /\ stack = <<>> /\ ret.commit = 0 /\ ~ret.stop
    BY ProgramsAssumption DEF Init, Fail, Result
  <1>2. \A k \in 1 .. Len(query) : query[k] \in DefiniteGoals
    BY <1>1, LenProperties DEF DefiniteRun
  <1>3. \A g \in DefiniteGoals : Goal(g, 0, 0) \in DefiniteInstances
    BY DefiniteAssumption DEF Goal, DefiniteInstances, Instances
  <1>4. Len(query) \in Nat
    BY <1>1, LenProperties
  <1>5. call.goals \in Seq(DefiniteInstances)
    BY <1>1, <1>2, <1>3, <1>4
  <1> QED
    BY <1>1, <1>5 DEF DefiniteState

\* What a step leaves of it.
LEMMA DefiniteStep ==
    ASSUME ControlOK, EmitOK, RecordsOK, ClausesKnown, DefiniteRun, DefiniteState, [Next]_vars
    PROVE  DefiniteState'
  <1> DEFINE D == DefiniteInstances
  <1>1. /\ <<>> \in Seq(D) /\ NoCall.goals = <<>> /\ Fail.commit = 0 /\ ~Fail.stop
        /\ stack \in Seq(Frames) /\ Len(stack) \in Nat
    BY LenProperties DEF NoCall, Fail, Result, ControlOK
  <1>2. /\ \A r : Return(r) => call'.goals \in Seq(D) /\ ret' = r
        /\ \A gs, m, d, e : Resume(gs, m, d, e) => call'.goals = gs /\ ret' = Fail
    <2>1. ASSUME NEW r, Return(r)
          PROVE  call'.goals \in Seq(D) /\ ret' = r
      BY <1>1, <2>1 DEF Return
    <2>2. ASSUME NEW gs, NEW m, NEW d, NEW e, Resume(gs, m, d, e)
          PROVE  call'.goals = gs /\ ret' = Fail
      BY <2>2 DEF Resume
    <2> QED
      BY <2>1, <2>2
  <1>3. \A s, t \in Seq(D) : s \o t \in Seq(D)
    BY ConcatFacts
  <1>4. stack # <<>> => DefiniteFrame(Top) /\ Top = stack[Len(stack)]
    BY TopTypes DEF DefiniteState, Top
  <1>5. pc = "call" /\ call.goals # <<>> => Current \in D /\ Rest \in Seq(D)
    BY NonEmptyFacts DEF DefiniteState, Current, Rest
  <1>6. (\/ stack' = stack \/ (stack # <<>> /\ stack' = Popped) \/ TryClause
         \/ \E f : Push(f) /\ DefiniteFrame(f))
          => \A i \in 1 .. Len(stack') : DefiniteFrame(stack'[i])
    <2>1. CASE stack' = stack
      BY <2>1 DEF DefiniteState
    <2>2. CASE stack # <<>> /\ stack' = Popped
      <3>1. \A i \in 1 .. Len(stack') : i \in 1 .. Len(stack) /\ stack'[i] = stack[i]
        BY <2>2, TopTypes
      <3> QED
        BY <3>1 DEF DefiniteState
    <2>3. CASE TryClause
      <3> DEFINE f == [Top EXCEPT !.clauses = Tail(@)]
      <3>1. /\ Len(stack') = Len(stack) /\ stack'[Len(stack)] = f /\ stack # <<>>
            /\ \A i \in 1 .. Len(stack) - 1 : stack'[i] = stack[i]
        BY <2>3, TryShape
      <3>2. f.kind = Top.kind /\ f.goal = Top.goal /\ f.rest = Top.rest
        BY <3>1, TopTypes DEF Frames, Records
      <3> HIDE DEF f
      <3>3. DefiniteFrame(f)
        BY <1>4, <3>1, <3>2 DEF DefiniteFrame
      <3>4. \A i \in 1 .. Len(stack') : i = Len(stack) \/ i \in 1 .. Len(stack) - 1
        BY <1>1, <3>1
      <3>5. \A i \in 1 .. Len(stack) - 1 : i \in 1 .. Len(stack)
        BY <1>1
      <3> QED
        BY <3>1, <3>3, <3>4, <3>5 DEF DefiniteState
    <2>4. CASE \E f : Push(f) /\ DefiniteFrame(f)
      <3>1. PICK f : Push(f) /\ DefiniteFrame(f)
        BY <2>4
      <3>2. /\ Len(stack') = Len(stack) + 1 /\ stack'[Len(stack) + 1] = f
            /\ \A i \in 1 .. Len(stack) : stack'[i] = stack[i]
        BY <1>1, <3>1, PushShape
      <3>3. \A i \in 1 .. Len(stack') : i = Len(stack) + 1 \/ i \in 1 .. Len(stack)
        BY <1>1, <3>2
      <3> QED
        BY <3>1, <3>2, <3>3 DEF DefiniteState
    <2> QED
      BY <2>1, <2>2, <2>3, <2>4
  <1>7. ~EmitAnswer => Full' = Full
    BY AnswersKept, CapKept DEF Full
  <1>8. prog' = prog /\ cap' = cap
    BY AvailableGrows, CapKept
  <1> DEFINE Kept  == log' = log /\ (pc' # "done" => pc # "done" /\ db' = db) /\ leaked' = leaked
             Going == call'.goals \in Seq(D)
             Deep  == \A i \in 1 .. Len(stack') : DefiniteFrame(stack'[i])
             Told  == ret'.commit = 0 /\ (ret'.stop => Full')
  <1>9. Kept /\ Going /\ Deep /\ Told => DefiniteState'
    BY <1>8 DEF DefiniteState
  <1>10. (pc # "done" /\ UNCHANGED world) /\ leaked' = leaked => Kept
    BY DEF world
  <1> HIDE DEF D
  <1>11. CASE Interrupted \/ DepthExceeded \/ SolveFail
    <2>1. /\ UNCHANGED <<world, stack, leaked>> /\ pc = "call"
          /\ \E e : Return(Error(e)) \/ Return(Fail)
      BY <1>11 DEF Interrupted, DepthExceeded, SolveFail, Running
    <2>2. \A e : Error(e).commit = 0 /\ ~Error(e).stop
      BY DEF Error, Result
    <2>3. Told /\ Going
      BY <1>1, <1>2, <2>1, <2>2
    <2>4. Deep
      BY <1>6, <2>1
    <2> HIDE DEF Told, Going, Deep, Kept
    <2> QED
      BY <1>9, <1>10, <2>1, <2>3, <2>4
  <1>12. CASE EmitAnswer
    <2>1. UNCHANGED <<world, stack, leaked>> /\ pc = "call"
      BY <1>12 DEF EmitAnswer, Emitting
    <2> DEFINE r == Result(cap > 0 /\ Len(out') >= cap, 0, NoErr)
    <2>2. Return(r)
      BY <1>12 DEF EmitAnswer
    <2>3. r.commit = 0 /\ r.stop = (cap > 0 /\ Len(out') >= cap)
      BY DEF Result
    <2> HIDE DEF r
    <2>4. Told /\ Going
      BY <1>2, <1>8, <2>2, <2>3 DEF Full
    <2>5. Deep
      BY <1>6, <2>1
    <2> HIDE DEF Told, Going, Deep, Kept
    <2> QED
      BY <1>9, <1>10, <2>1, <2>4, <2>5
  <1>13. CASE SolveTrue \/ SolveEq \/ SolveAnd
    <2>1. UNCHANGED <<world, stack, leaked>> /\ pc = "call" /\ call.goals # <<>>
      BY <1>13 DEF SolveTrue, SolveEq, SolveAnd, Running
    <2>2. \/ \E m : Continue(m)
          \/ Return(Fail)
          \/ /\ Current.g.op = "and"
             /\ Resume(<<Branch(Current, Current.g.left), Branch(Current, Current.g.right)>> \o Rest,
                       call.mark, call.depth + 1, call.emit)
      BY <1>13 DEF SolveTrue, SolveEq, SolveAnd, Running
    <2>3. Current.g.op = "and" =>
             <<Branch(Current, Current.g.left), Branch(Current, Current.g.right)>> \o Rest \in Seq(D)
      BY <1>3, <1>5, <2>1, DefiniteGoalFacts, ShortSequences DEF D
    <2>4. Told /\ Going
      BY <1>1, <1>2, <1>5, <2>1, <2>2, <2>3 DEF Continue
    <2>5. Deep
      BY <1>6, <2>1
    <2> HIDE DEF Told, Going, Deep, Kept
    <2> QED
      BY <1>9, <1>10, <2>1, <2>4, <2>5
  <1>14. CASE SolveOr \/ SolveCall
    <2>1. UNCHANGED <<world, leaked>> /\ pc = "call" /\ call.goals # <<>>
      BY <1>14 DEF SolveOr, SolveCall, Running
    <2>2. \E f : Push(f) /\ f.kind \in {"loop", "or"} /\ f.goal = Current /\ f.rest = Rest
      <3>1. CASE SolveOr
        <4> DEFINE f == Frame("or")
        <4>1. f.kind = "or" /\ f.goal = Current /\ f.rest = Rest
          BY DEF Frame
        <4> QED
          BY <3>1, <4>1 DEF SolveOr
      <3>2. CASE SolveCall
        <4> DEFINE f == [Frame("loop") EXCEPT !.clauses = db, !.bar = barriers + 1]
        <4>1. f.kind = "loop" /\ f.goal = Current /\ f.rest = Rest
          BY DEF Frame
        <4> QED
          BY <3>2, <4>1 DEF SolveCall
      <3> QED
        BY <1>14, <3>1, <3>2
    <2>3. \E f : Push(f) /\ DefiniteFrame(f)
      BY <1>5, <2>1, <2>2 DEF DefiniteFrame, D
    <2>4. Told /\ Going
      <3>1. CASE SolveOr
        <4>1. /\ Current.g.op = "or"
              /\ Resume(<<Branch(Current, Current.g.left)>> \o Rest, call.mark, call.depth + 1, call.emit)
          BY <3>1 DEF SolveOr, Running
        <4>2. <<Branch(Current, Current.g.left)>> \o Rest \in Seq(D)
          BY <1>3, <1>5, <2>1, <4>1, DefiniteGoalFacts, ShortSequences DEF D
        <4> QED
          BY <1>1, <1>2, <4>1, <4>2
      <3>2. CASE SolveCall
        BY <1>1, <3>2 DEF SolveCall
      <3> QED
        BY <1>14, <3>1, <3>2
    <2>5. Deep
      BY <1>6, <2>3
    <2> HIDE DEF Told, Going, Deep, Kept
    <2> QED
      BY <1>9, <1>10, <2>1, <2>4, <2>5
  <1>15. CASE TryClause
    <2>1. UNCHANGED <<world, leaked>> /\ pc = "try"
      BY <1>15 DEF TryClause, Trying
    <2> DEFINE f  == [Top EXCEPT !.clauses = Tail(@)]
               c  == Head(Top.clauses)
               bd == Body(c, fresh', f.bar)
    <2>2. \/ \E m : ContinueFrame(f, bd, m)
          \/ UNCHANGED <<call, ret>>
      BY <1>15 DEF TryClause
    <2>3. /\ stack # <<>> /\ Top \in Frames /\ fresh' = fresh + 1 /\ fresh \in Nat
          /\ Top.clauses # <<>> /\ Top.clauses \in Seq(Available)
      <3>1. stack # <<>> /\ Top \in Frames
        BY <1>15, TryShape
      <3>2. Top.clauses \in Seq(Available)
        BY <1>1, <1>4, <3>1, TopTypes DEF ClausesKnown
      <3> QED
        BY <1>15, <3>1, <3>2 DEF TryClause, Trying, ControlOK
    <2>4. f.rest = Top.rest /\ f.bar = Top.bar
      BY <2>3 DEF Frames, Records
    <2>5. bd \in Seq(D)
      <3>1. c \in Available /\ c \in Clauses /\ Top.bar \in Nat /\ fresh' \in Nat
        BY <2>3, NonEmptyFacts, FrameFields
      <3> HIDE DEF c
      <3> QED
        BY <2>4, <3>1, DefiniteClauses DEF D
    <2>6. Told /\ Going
      <3>1. bd \o f.rest \in Seq(D)
        BY <1>3, <1>4, <2>3, <2>4, <2>5 DEF DefiniteFrame, D
      <3> HIDE DEF f, bd
      <3>2. ~EmitAnswer
        BY <2>1 DEF EmitAnswer, Emitting
      <3>3. CASE UNCHANGED <<call, ret>>
        BY <1>7, <3>2, <3>3 DEF DefiniteState, D
      <3>4. CASE \E m : ContinueFrame(f, bd, m)
        BY <1>1, <1>2, <3>1, <3>4 DEF ContinueFrame
      <3> QED
        BY <2>2, <3>3, <3>4
    <2>7. Deep
      BY <1>6, <1>15
    <2> HIDE DEF Told, Going, Deep, Kept
    <2> QED
      BY <1>9, <1>10, <2>1, <2>6, <2>7
  <1>16. CASE LoopExhausted \/ LoopReturn \/ OrReturn
    <2>1. UNCHANGED <<world, leaked, out>> /\ stack # <<>> /\ pc \in {"try", "return"}
      BY <1>16 DEF LoopExhausted, LoopReturn, OrReturn, Returned, ControlOK
    <2>2. stack' = stack \/ stack' = Popped
      BY <1>16 DEF LoopExhausted, LoopReturn, OrReturn, PopAndReturn
    <2>3. ~EmitAnswer
      BY <2>1 DEF EmitAnswer, Emitting
    <2>4. \/ \E r : Return(r) /\ (r = Fail \/ r = ret \/ r = LoopResult(Top, ret))
          \/ UNCHANGED <<call, ret>>
          \/ Top.kind = "or" /\ ContinueFrame(Top, <<Branch(Top.goal, Top.goal.g.right)>>, Top.mark)
      BY <1>16 DEF LoopExhausted, LoopReturn, OrReturn, PopAndReturn, Returned
    <2>5. LoopResult(Top, ret).commit = 0 /\ (LoopResult(Top, ret).stop => ret.stop)
      BY DEF LoopResult, DefiniteState, Error, Stop, Fail, Commit, Result
    <2>6. Top.kind = "or" => <<Branch(Top.goal, Top.goal.g.right)>> \o Top.rest \in Seq(D)
      <3> SUFFICES ASSUME Top.kind = "or"
                   PROVE  <<Branch(Top.goal, Top.goal.g.right)>> \o Top.rest \in Seq(D)
        OBVIOUS
      <3>1. Top \in Frames /\ Top.goal \in D /\ Top.rest \in Seq(D)
        BY <1>4, <2>1, TopTypes DEF DefiniteFrame, D
      <3>2. Top.goal.g.op = "or"
        BY <3>1 DEF Frames, FitsGoal
      <3>3. Branch(Top.goal, Top.goal.g.right) \in D
        BY <3>1, <3>2, DefiniteGoalFacts DEF D
      <3> QED
        BY <1>3, <3>1, <3>3, ShortSequences
    <2>7. Told /\ Going
      <3>1. ret.commit = 0 /\ (ret.stop => Full') /\ call.goals \in Seq(D)
        BY <1>7, <2>3 DEF DefiniteState, D
      <3>2. CASE \E r : Return(r) /\ (r = Fail \/ r = ret \/ r = LoopResult(Top, ret))
        BY <1>1, <1>2, <2>5, <3>1, <3>2
      <3>3. CASE UNCHANGED <<call, ret>>
        BY <3>1, <3>3
      <3>4. CASE Top.kind = "or" /\ ContinueFrame(Top, <<Branch(Top.goal, Top.goal.g.right)>>, Top.mark)
        BY <1>1, <1>2, <2>6, <3>4 DEF ContinueFrame
      <3> QED
        BY <2>4, <3>2, <3>3, <3>4
    <2>8. Deep
      BY <1>6, <2>1, <2>2
    <2> HIDE DEF Told, Going, Deep, Kept
    <2> QED
      BY <1>9, <1>10, <2>1, <2>7, <2>8
  <1>17. CASE Finish \/ Cancel \/ Terminated \/ UNCHANGED vars
    <2>1. /\ UNCHANGED <<log, call, ret, stack, out, leaked>> /\ ~EmitAnswer
          /\ pc' # "done" => pc # "done" /\ db' = db
      BY <1>17 DEF Finish, Cancel, Terminated, vars, control, world, EmitAnswer, Emitting, Return
    <2>2. Told /\ Going
      BY <1>7, <2>1 DEF DefiniteState, D
    <2>3. Deep /\ Kept
      BY <1>6, <2>1
    <2> HIDE DEF Told, Going, Deep, Kept
    <2> QED
      BY <1>9, <2>2, <2>3
  <1> QED
    BY <1>11, <1>12, <1>13, <1>14, <1>15, <1>16, <1>17, DefiniteSteps

-----------------------------------------------------------------------------
(* The invariant.  A solution of the query is an instance of an answer that    *)
(* was emitted, or the search is still going to reach it: with the goals that  *)
(* are about to run, or with an alternative that a frame has not tried yet.    *)

QueryIn(H, e) == \A k \in DOMAIN query : <<query[k], e>> \in H

\* Goals gs under substitution m have e among their solutions.
GoalsReach(H, e, m, gs) ==
    \E th \in Valuations : Under(th, 0) = e /\ Solves(th, m) /\ AllTrue(H, th, gs)

\* Clause c solves goal gi under th.
ClauseHolds(H, th, gi, c) ==
    \E d \in Envs : /\ c.pred = gi.g.pred /\ ValueIn(c.arg, d) = Val(Arg(gi), th)
                    /\ \A k \in DOMAIN c.body : <<c.body[k], d>> \in H

\* What frame f has left to try.
Untried(H, th, f) ==
    \/ f.kind = "or"   /\ TrueIn(H, th, Branch(f.goal, f.goal.g.right))
    \/ f.kind = "loop" /\ \E k \in DOMAIN f.clauses : ClauseHolds(H, th, f.goal, f.clauses[k])

FrameReaches(H, e, s, f) ==
    \E th \in Valuations : /\ Under(th, 0) = e /\ Solves(th, Denotes(s, f.mark))
                           /\ Untried(H, th, f) /\ AllTrue(H, th, f.rest)

Reached(H, e) ==
    \/ Found(e)
    \/ pc = "call" /\ GoalsReach(H, e, store.m, call.goals)
    \/ \E i \in 1 .. Len(stack) : FrameReaches(H, e, store, stack[i])

\* An error that ends the search early.
Failed == pc \in {"return", "done"} /\ ret.err # NoErr

Complete ==
    DefiniteRun /\ ~Full /\ ~Failed =>
        \A H : IsSupported(H, Available) => \A e \in Envs : QueryIn(H, e) => Reached(H, e)

\* What the proofs about a step start from.
Searching(H) == /\ Exact /\ RecordsOK /\ ClausesKnown /\ DefiniteRun /\ DefiniteState
                /\ IsSupported(H, Available) /\ ~Full /\ ~Failed

LEMMA FailedStays ==
    ASSUME ControlOK, EmitOK, DefiniteState, Failed, [Next]_vars
    PROVE  Failed'
  <1>1. pc \in {"return", "done"} /\ ret.err # NoErr
    BY DEF Failed
  <1>2. ~(Interrupted \/ DepthExceeded \/ EmitAnswer \/ SolveTrue \/ SolveFail \/ SolveAnd \/ SolveOr
          \/ SolveEq \/ SolveCall \/ TryClause \/ LoopExhausted)
    BY <1>1 DEF Interrupted, DepthExceeded, EmitAnswer, Emitting, SolveTrue, SolveFail, SolveAnd, SolveOr,
                SolveEq, SolveCall, Running, TryClause, Trying, LoopExhausted
  <1>3. Escapes(ret) /\ LoopResult(Top, ret) = Error(ret.err) /\ Error(ret.err).err = ret.err
    BY <1>1 DEF Escapes, LoopResult, Error, Result
  <1>4. CASE LoopReturn \/ OrReturn
    <2>1. Return(LoopResult(Top, ret)) \/ Return(ret)
      BY <1>3, <1>4 DEF LoopReturn, OrReturn, PopAndReturn
    <2>2. pc' = "return" /\ ret'.err = ret.err
      BY <1>3, <2>1 DEF Return
    <2> QED
      BY <1>1, <2>2 DEF Failed
  <1>5. CASE Finish \/ Cancel \/ Terminated \/ UNCHANGED vars
    <2>1. ret' = ret /\ (pc' = "done" \/ pc' = pc)
      BY <1>5 DEF Finish, Cancel, Terminated, vars, control
    <2> QED
      BY <1>1, <2>1 DEF Failed
  <1> QED
    BY <1>2, <1>4, <1>5, DefiniteSteps

LEMMA FoundStays ==
    ASSUME RecordsOK, [Next]_vars, NEW e, Found(e)
    PROVE  Found(e)'
  <1>1. CASE EmitAnswer
    <2> DEFINE a == [n \in Names |-> Walk(Var(n, 0), store)]
               S == [Names -> Terms] \cup {a}
    <2>1. out' = Append(out, a)
      BY <1>1 DEF EmitAnswer
    <2>2. out \in Seq(S)
      <3>1. out \in Seq([Names -> Terms]) /\ [Names -> Terms] \subseteq S
        BY DEF RecordsOK
      <3> HIDE DEF S
      <3> QED
        BY <3>1, SeqGrows
    <2>3. a \in S
      OBVIOUS
    <2> HIDE DEF a, S
    <2>4. \A i \in DOMAIN out : i \in DOMAIN out' /\ out'[i] = out[i]
      BY <2>1, <2>2, <2>3
    <2> QED
      BY <2>4 DEF Found
  <1>2. CASE ~EmitAnswer
    BY <1>2, AnswersKept DEF Found
  <1> QED
    BY <1>1, <1>2

\* What is true in a supported interpretation, by the constructs.
LEMMA SupportedRules ==
    ASSUME NEW H, IsSupported(H, Available), NEW gi \in DefiniteInstances, NEW th \in Valuations,
           TrueIn(H, th, gi)
    PROVE  /\ gi.g.op # "fail"
           /\ gi.g.op = "and" => /\ TrueIn(H, th, Branch(gi, gi.g.left))
                                 /\ TrueIn(H, th, Branch(gi, gi.g.right))
           /\ gi.g.op = "or" => \/ TrueIn(H, th, Branch(gi, gi.g.left))
                                \/ TrueIn(H, th, Branch(gi, gi.g.right))
           /\ gi.g.op = "eq" => Val(Arg(gi), th) = Val(Inst(gi.g.arg2, gi.act), th)
           /\ gi.g.op = "call" => \E c \in Available : ClauseHolds(H, th, gi, c)
  <1> DEFINE e == Under(th, gi.act)
  <1>1. gi \in Instances /\ gi.g \in DefiniteGoals /\ gi.act \in Nat
    BY DefiniteGoalFacts DEF Instances
  <1>2. e \in Envs
    BY <1>1, UnderEnvs
  <1>3. \A g : TrueIn(H, th, Branch(gi, g)) <=> <<g, e>> \in H
    BY DEF TrueIn, Branch, Goal
  <1>4. <<gi.g, e>> \in H
    BY DEF TrueIn
  <1>5. /\ gi.g.op \in {"eq", "call"} => ValueIn(gi.g.arg, e) = Val(Arg(gi), th)
        /\ gi.g.op = "eq" => ValueIn(gi.g.arg2, e) = Val(Inst(gi.g.arg2, gi.act), th)
    BY <1>1, ArgTypes, InstValue DEF Arg
  <1> HIDE DEF e
  <1>6. Follows(gi.g, e, H, Available)
    BY <1>1, <1>2, <1>4 DEF IsSupported
  <1> QED
    BY <1>3, <1>5, <1>6 DEF Follows, ClauseHolds

\* The frames that a step leaves alone still have what they had to try.
LEMMA FrameStillReaches ==
    ASSUME NEW H, Searching(H), [Next]_vars, NEW e, NEW i \in 1 .. Len(stack), i <= Len(stack'),
           stack'[i] = stack[i], FrameReaches(H, e, store, stack[i])
    PROVE  FrameReaches(H, e, store', stack'[i])
  <1>1. Denotes(store', stack[i].mark) = Denotes(store, stack[i].mark)
    BY HandlesKept DEF Searching
  <1> QED
    BY <1>1 DEF FrameReaches

\* A step keeps what is reached when it does so for the goals about to run and
\* for the frames above the lowest n, which it leaves alone.
LEMMA KeepsReached ==
    ASSUME NEW H, Searching(H), [Next]_vars, NEW e, Reached(H, e), NEW n \in Nat,
           n <= Len(stack), n <= Len(stack'), Len(stack') \in Nat,
           \A i \in 1 .. n : stack'[i] = stack[i],
           pc = "call" /\ GoalsReach(H, e, store.m, call.goals) => Reached(H, e)',
           \A i \in n + 1 .. Len(stack) : FrameReaches(H, e, store, stack[i]) => Reached(H, e)'
    PROVE  Reached(H, e)'
  <1>1. CASE Found(e)
    <2>1. Found(e)'
      BY <1>1, FoundStays DEF Searching
    <2> QED
      BY <2>1 DEF Reached
  <1>2. CASE \E i \in 1 .. Len(stack) : FrameReaches(H, e, store, stack[i])
    <2>1. PICK i \in 1 .. Len(stack) : FrameReaches(H, e, store, stack[i])
      BY <1>2
    <2>2. Len(stack) \in Nat
      BY EmitBelow DEF Searching
    <2>3. CASE i \in 1 .. n
      <3>1. i \in 1 .. Len(stack') /\ i <= Len(stack')
        BY <2>3
      <3>2. FrameReaches(H, e, store', stack'[i])
        BY <2>1, <2>3, <3>1, FrameStillReaches
      <3> QED
        BY <3>1, <3>2 DEF Reached, FrameReaches, Untried
    <2>4. CASE i \in n + 1 .. Len(stack)
      BY <2>1, <2>4
    <2> QED
      BY <2>2, <2>3, <2>4
  <1> QED
    BY <1>1, <1>2 DEF Reached

\* How the next state may reach it.
LEMMA ReachedNext ==
    ASSUME NEW H, NEW e,
           \/ pc' = "call" /\ GoalsReach(H, e, store'.m, call'.goals)
           \/ \E i \in 1 .. Len(stack') : FrameReaches(H, e, store', stack'[i])
    PROVE  Reached(H, e)'
  BY DEF Reached, GoalsReach, FrameReaches, Untried

\* The goals about to run, under a solution of them.
LEMMA GoalsSplit ==
    ASSUME NEW H, Searching(H), pc = "call", call.goals # <<>>, NEW th, AllTrue(H, th, call.goals)
    PROVE  /\ TrueIn(H, th, Current) /\ AllTrue(H, th, Rest)
           /\ Current \in DefiniteInstances /\ Current \in Instances /\ Rest \in Seq(DefiniteInstances)
  <1>1. call.goals \in Seq(DefiniteInstances)
    BY DEF Searching, DefiniteState
  <1>2. TrueIn(H, th, Head(call.goals)) /\ AllTrue(H, th, Tail(call.goals))
    BY <1>1, AllOfThese
  <1> QED
    BY <1>1, <1>2, NonEmptyFacts, DefiniteGoalFacts DEF Current, Rest

\* Steps that leave the frames alone.
LEMMA StackStaysReached ==
    ASSUME NEW H, Searching(H), [Next]_vars, NEW e, Reached(H, e), stack' = stack,
           pc = "call" /\ GoalsReach(H, e, store.m, call.goals) => Reached(H, e)'
    PROVE  Reached(H, e)'
  <1> DEFINE n == Len(stack)
  <1>1. n \in Nat /\ n = Len(stack) /\ Len(stack') = n
    BY EmitBelow DEF Searching
  <1> HIDE DEF n
  <1>2. \A i \in n + 1 .. Len(stack) : FALSE
    BY <1>1
  <1> QED
    BY <1>1, <1>2, KeepsReached

\* An empty conjunction under a solution: the answer that is emitted has it.
LEMMA AnswerComplete ==
    ASSUME NEW H, Searching(H), NEW e \in Envs, Reached(H, e), EmitAnswer
    PROVE  Reached(H, e)'
  <1> DEFINE a == [n \in Names |-> Walk(Var(n, 0), store)]
  <1>1. [Next]_vars /\ stack' = stack /\ out' = Append(out, a)
    BY DEF EmitAnswer, Next, Step, Enter
  <1>2. ASSUME NEW th \in Valuations, Under(th, 0) = e, Solves(th, store.m)
        PROVE  InstanceOf(e, a)
    <2>1. StoreOK(store)
      BY ExactStore DEF Searching
    <2>2. ASSUME NEW n \in Names
          PROVE  Val(a[n], th) = e[n]
      <3>1. Var(n, 0) \in Vars /\ Var(n, 0) \in Terms
        BY DEF Var, Vars, Terms
      <3>2. Val(Walk(Var(n, 0), store), th) = Val(Var(n, 0), th)
        BY <1>2, <2>1, <3>1, WalkValue
      <3>3. Val(Var(n, 0), th) = e[n]
        BY <1>2, <3>1, UnderEnvs DEF Val
      <3> QED
        BY <3>2, <3>3
    <2> HIDE DEF a
    <2>3. \A n \in Names : a[n] \notin Vars => e[n] = a[n]
      BY <2>2 DEF Val
    <2>4. \A n, k \in Names : a[n] = a[k] => e[n] = e[k]
      BY <2>2
    <2> QED
      BY <2>3, <2>4 DEF InstanceOf
  <1>3. \E i \in DOMAIN out' : out'[i] = a
    <2>1. out \in Seq([Names -> Terms])
      BY DEF Searching, RecordsOK
    <2> HIDE DEF a
    <2>2. Len(out) + 1 \in DOMAIN out' /\ out'[Len(out) + 1] = a
      BY <1>1, <2>1
    <2> QED
      BY <2>2
  <1> HIDE DEF a
  <1>4. GoalsReach(H, e, store.m, call.goals) => Reached(H, e)'
    BY <1>2, <1>3 DEF GoalsReach, Reached, Found
  <1> QED
    BY <1>1, <1>4, StackStaysReached

\* true, fail, a conjunction and an equation.
LEMMA GoalComplete ==
    ASSUME NEW H, Searching(H), NEW e \in Envs, Reached(H, e),
           \/ SolveTrue /\ Current.g.op = "true"
           \/ SolveFail \/ SolveAnd \/ SolveEq
    PROVE  Reached(H, e)'
  <1>1. [Next]_vars /\ stack' = stack /\ pc = "call" /\ call.goals # <<>>
    BY DEF SolveTrue, SolveFail, SolveAnd, SolveEq, Running, Next, Step, Execute
  <1>2. ASSUME GoalsReach(H, e, store.m, call.goals)
        PROVE  pc' = "call" /\ GoalsReach(H, e, store'.m, call'.goals)
    <2>1. PICK th \in Valuations : /\ Under(th, 0) = e /\ Solves(th, store.m)
                                   /\ AllTrue(H, th, call.goals)
      BY <1>2 DEF GoalsReach
    <2>2. /\ TrueIn(H, th, Current) /\ AllTrue(H, th, Rest) /\ Current \in DefiniteInstances
          /\ Current \in Instances /\ Rest \in Seq(DefiniteInstances) /\ IsSupported(H, Available)
      BY <1>1, <2>1, GoalsSplit DEF Searching
    <2> SUFFICES pc' = "call" /\ Solves(th, store'.m) /\ AllTrue(H, th, call'.goals)
      BY <2>1 DEF GoalsReach
    <2>3. CASE SolveTrue
      <3>1. pc' = "call" /\ store' = store /\ call'.goals = Rest
        BY <2>3 DEF SolveTrue, Continue, Resume
      <3> QED
        BY <2>1, <2>2, <3>1
    <2>4. CASE SolveFail
      <3>1. Current.g.op = "fail"
        BY <2>4 DEF SolveFail, Running
      <3> QED
        BY <2>2, <3>1, SupportedRules
    <2>5. CASE SolveAnd
      <3> DEFINE l == Branch(Current, Current.g.left)
                 r == Branch(Current, Current.g.right)
      <3>1. /\ pc' = "call" /\ store' = store /\ call'.goals = <<l, r>> \o Rest
            /\ Current.g.op = "and"
        BY <2>5 DEF SolveAnd, Running, Resume
      <3>2. TrueIn(H, th, l) /\ TrueIn(H, th, r)
        BY <2>2, <3>1, SupportedRules
      <3>3. l \in DefiniteInstances /\ r \in DefiniteInstances
        BY <2>2, <3>1, DefiniteGoalFacts
      <3> HIDE DEF l, r
      <3>4. AllTrue(H, th, <<l, r>>) /\ <<l, r>> \in Seq(DefiniteInstances)
        BY <3>2, <3>3, AllOfThese, ShortSequences
      <3>5. AllTrue(H, th, <<l, r>> \o Rest)
        BY <2>2, <3>4, AllOfBoth
      <3> QED
        BY <2>1, <3>1, <3>5
    <2>6. CASE SolveEq
      <3> DEFINE s == Arg(Current)
                 t == Inst(Current.g.arg2, Current.act)
                 u == Unify(s, t, store)
      <3>1. /\ store' = u.st /\ Current.g.op = "eq"
            /\ IF u.ok THEN Continue(u.st.len) ELSE Return(Fail)
        BY <2>6 DEF SolveEq, Running
      <3>2. s \in Terms /\ t \in Terms /\ Val(s, th) = Val(t, th)
        BY <2>2, <3>1, ArgTypes, SupportedRules
      <3>3. StoreOK(store)
        BY ExactStore DEF Searching
      <3> HIDE DEF s, t
      <3>4. u.ok /\ Solves(th, u.st.m)
        BY <2>1, <3>2, <3>3, UnifyKeeps
      <3> HIDE DEF u
      <3>5. pc' = "call" /\ call'.goals = Rest
        BY <3>1, <3>4 DEF Continue, Resume
      <3> QED
        BY <2>2, <3>1, <3>4, <3>5
    <2> QED
      BY <2>3, <2>4, <2>5, <2>6
  <1>3. GoalsReach(H, e, store.m, call.goals) => Reached(H, e)'
    BY <1>2, ReachedNext
  <1> QED
    BY <1>1, <1>3, StackStaysReached

\* A disjunction and a call leave a frame with what they do not try at once.
LEMMA PushComplete ==
    ASSUME NEW H, Searching(H), NEW e \in Envs, Reached(H, e), SolveOr \/ SolveCall
    PROVE  Reached(H, e)'
  <1> DEFINE n == Len(stack)
  <1>1. [Next]_vars /\ pc = "call" /\ call.goals # <<>> /\ store' = store
    BY DEF SolveOr, SolveCall, Running, Next, Step, Execute
  <1>2. stack \in Seq(Frames) /\ n \in Nat /\ call.mark = store.len
    BY <1>1, ExactStore, EmitBelow DEF Searching
  <1>3. ASSUME GoalsReach(H, e, store.m, call.goals)
        PROVE  Reached(H, e)'
    <2>1. PICK th \in Valuations : /\ Under(th, 0) = e /\ Solves(th, store.m)
                                   /\ AllTrue(H, th, call.goals)
      BY <1>3 DEF GoalsReach
    <2>2. /\ TrueIn(H, th, Current) /\ AllTrue(H, th, Rest) /\ Current \in DefiniteInstances
          /\ Current \in Instances /\ Rest \in Seq(DefiniteInstances) /\ IsSupported(H, Available)
      BY <1>1, <2>1, GoalsSplit DEF Searching
    <2>3. ASSUME NEW f, Push(f), f.mark = call.mark, f.rest = Rest, Untried(H, th, f)
          PROVE  Reached(H, e)'
      <3>1. Len(stack') = n + 1 /\ stack'[n + 1] = f
        BY <1>2, <2>3, PushShape
      <3>2. Solves(th, Denotes(store, f.mark))
        BY <2>1, SolvesDenotes
      <3>3. FrameReaches(H, e, store', f)
        BY <1>1, <2>1, <2>2, <2>3, <3>2 DEF FrameReaches
      <3>4. n + 1 \in 1 .. Len(stack')
        BY <1>2, <3>1
      <3> QED
        BY <3>1, <3>3, <3>4, ReachedNext
    <2>4. CASE SolveOr
      <3> DEFINE l == Branch(Current, Current.g.left)
                 f == Frame("or")
      <3>1. /\ Current.g.op = "or" /\ Push(f) /\ pc' = "call"
            /\ call'.goals = <<l>> \o Rest
        BY <2>4 DEF SolveOr, Running, Resume
      <3>2. /\ f.kind = "or" /\ f.goal = Current /\ f.rest = Rest /\ f.mark = call.mark
        BY DEF Frame
      <3>3. l \in DefiniteInstances
        BY <2>2, <3>1, DefiniteGoalFacts
      <3> HIDE DEF f
      <3>4. CASE TrueIn(H, th, l)
        <4>1. AllTrue(H, th, <<l>>) /\ <<l>> \in Seq(DefiniteInstances)
          BY <3>3, <3>4, AllOfThese, ShortSequences
        <4>2. AllTrue(H, th, <<l>> \o Rest)
          BY <2>2, <4>1, AllOfBoth
        <4>3. pc' = "call" /\ GoalsReach(H, e, store'.m, call'.goals)
          BY <1>1, <2>1, <3>1, <4>2 DEF GoalsReach
        <4> QED
          BY <4>3, ReachedNext
      <3>5. CASE TrueIn(H, th, Branch(Current, Current.g.right))
        BY <2>3, <3>1, <3>2, <3>5 DEF Untried
      <3> QED
        BY <2>2, <3>1, <3>4, <3>5, SupportedRules
    <2>5. CASE SolveCall
      <3> DEFINE f == [Frame("loop") EXCEPT !.clauses = db, !.bar = barriers + 1]
      <3>1. Current.g.op = "call" /\ Push(f)
        BY <2>5 DEF SolveCall, Running
      <3>2. /\ f.kind = "loop" /\ f.goal = Current /\ f.rest = Rest /\ f.mark = call.mark
            /\ f.clauses = db
        BY DEF Frame
      <3> HIDE DEF f
      <3>3. PICK c \in Available : ClauseHolds(H, th, Current, c)
        BY <2>2, <3>1, SupportedRules
      <3>4. PICK i \in DOMAIN prog : c = prog[i]
        BY <3>3, DefiniteClauses DEF Searching, Exact
      <3>5. db = prog
        BY <1>1 DEF Searching, DefiniteState
      <3>6. Untried(H, th, f)
        BY <3>2, <3>3, <3>4, <3>5 DEF Untried
      <3> QED
        BY <2>3, <3>1, <3>2, <3>6
    <2> QED
      BY <2>4, <2>5
  <1>4. /\ Len(stack') \in Nat /\ n <= Len(stack') /\ \A i \in 1 .. n : stack'[i] = stack[i]
    <2>1. ASSUME NEW f, Push(f)
          PROVE  Len(stack') = n + 1 /\ \A i \in 1 .. n : stack'[i] = stack[i]
      BY <1>2, <2>1, PushShape
    <2>2. \E f : Push(f)
      BY DEF SolveOr, SolveCall
    <2> QED
      BY <1>2, <2>1, <2>2
  <1>5. n <= Len(stack)
    BY <1>2
  <1>6. \A i \in n + 1 .. Len(stack) : FALSE
    BY <1>2
  <1> HIDE DEF n
  <1>7. n \in Nat
    BY <1>2 DEF n
  <1> QED
    BY <1>1, <1>3, <1>4, <1>5, <1>6, <1>7, KeepsReached

\* The next clause: it is the one that has the solution, and then its variables
\* take the values they have in it; or the solution is left for the others.
LEMMA TryComplete ==
    ASSUME NEW H, Searching(H), NEW e \in Envs, Reached(H, e), TryClause
    PROVE  Reached(H, e)'
  <1> DEFINE b  == UndoTo(store, Top.mark)
             c  == Head(Top.clauses)
             n  == fresh'
             s  == Arg(Top.goal)
             t  == Inst(c.arg, n)
             u  == Unify(s, t, b)
             f  == [Top EXCEPT !.clauses = Tail(@)]
             bd == Body(c, n, f.bar)
             L  == Len(stack)
  <1>1. /\ [Next]_vars /\ pc = "try" /\ stack # <<>> /\ Top \in Frames /\ Top.kind = "loop"
        /\ Top.goal \in Instances /\ Top.goal.g.op = "call" /\ s \in Terms /\ t \in Terms
        /\ c \in Clauses /\ c = Top.clauses[1] /\ c.arg \in Templates
        /\ n = fresh + 1 /\ fresh \in Nat
    BY TryFacts, TryShape DEF Searching, Exact, TryClause, Trying, Next, Step, Unwind, ControlOK
  <1>2. /\ L \in Nat /\ L >= 1 /\ Len(stack') = L /\ stack'[L] = f
        /\ \A i \in 1 .. L - 1 : stack'[i] = stack[i]
        /\ Top = stack[L]
    BY TryShape DEF Searching, Exact
  <1>3. /\ f.kind = "loop" /\ f.goal = Top.goal /\ f.rest = Top.rest /\ f.mark = Top.mark
        /\ f.bar = Top.bar /\ f.clauses = Tail(Top.clauses) /\ f.bar \in Nat
        /\ Top.clauses # <<>> /\ Top.clauses \in Seq(Clauses)
    BY <1>1, FrameFields DEF Frames, Records, TryClause, Trying
  <1>4. /\ c \in Available /\ bd \in Seq(DefiniteInstances) /\ Top.rest \in Seq(DefiniteInstances)
    <2>1. Top.clauses \in Seq(Available)
      BY <1>2 DEF Searching, ClausesKnown
    <2>2. c \in Available
      BY <1>3, <2>1, NonEmptyFacts
    <2>3. DefiniteFrame(Top)
      BY <1>2 DEF Searching, DefiniteState
    <2>4. DefiniteRun /\ DefiniteState /\ ControlOK
      BY DEF Searching, Exact
    <2>5. n \in Nat
      BY <1>1
    <2> HIDE DEF c, f, n
    <2>6. bd \in Seq(DefiniteInstances)
      BY <1>1, <1>3, <2>2, <2>4, <2>5, DefiniteClauses
    <2> QED
      BY <2>2, <2>3, <2>6 DEF DefiniteFrame
  <1>5. /\ StoreTo(b, fresh) /\ StoreOK(b)
        /\ \A th : Solves(th, Denotes(store, Top.mark)) => Solves(th, b.m)
    <2>1. StoreOK(store) /\ TrailFits(store) /\ Top.mark \in Nat /\ Top.mark <= store.len
      BY <1>1, ExactStore, TopWithdrawn DEF Searching
    <2>2. StoreTo(store, fresh) /\ Top.mark <= Len(store.mem)
      BY <2>1, SizesAreNat DEF Searching, Exact
    <2>3. StoreTo(b, fresh)
      BY <1>1, <2>1, <2>2, UndoKnown
    <2> QED
      BY <2>1, <2>3, UndoKeeps DEF StoreTo
  <1>6. s \in KnownTo(fresh) /\ Top.rest \in Seq(InstTo(fresh))
    <2>1. Top \in FramesTo(fresh, Len(store.mem)) /\ Len(store.mem) \in Nat
      BY <1>1, TopKnown, SizesAreNat DEF Searching, Exact
    <2> QED
      BY <1>1, <2>1, FrameKnown, GoalKnown
  <1>7. c.pred = Top.goal.g.pred /\ u.ok
          => pc' = "call" /\ store' = u.st /\ call'.goals = bd \o Top.rest
    <2>1. c.pred = Top.goal.g.pred /\ u.ok => store' = u.st /\ ContinueFrame(f, bd, u.st.len)
      BY DEF TryClause
    <2> HIDE DEF f, bd, u
    <2>2. ContinueFrame(f, bd, u.st.len) => pc' = "call" /\ call'.goals = bd \o f.rest
      BY DEF ContinueFrame, Resume
    <2> QED
      BY <1>3, <2>1, <2>2
  <1> HIDE DEF b, s, f, u, L
  <1>8. ASSUME NEW th \in Valuations, Under(th, 0) = e, Solves(th, Denotes(store, Top.mark)),
               AllTrue(H, th, Top.rest), ClauseHolds(H, th, Top.goal, c)
        PROVE  Reached(H, e)'
    <2>1. PICK d \in Envs : /\ c.pred = Top.goal.g.pred /\ ValueIn(c.arg, d) = Val(s, th)
                            /\ \A k \in DOMAIN c.body : <<c.body[k], d>> \in H
      BY <1>8 DEF ClauseHolds, s
    <2> DEFINE w == Patched(th, n, d)
    <2>2. n \in Nat /\ fresh < n /\ 0 <= fresh
      BY <1>1
    <2>3. /\ w \in Valuations /\ Under(w, n) = d /\ Under(w, 0) = e /\ Val(s, w) = Val(s, th)
      BY <1>1, <1>6, <1>8, <2>2, PatchedFacts
    <2>4. Solves(w, b.m) /\ AllTrue(H, w, Top.rest)
      BY <1>1, <1>5, <1>6, <1>8, <2>2, PatchedKeeps
    <2> HIDE DEF w
    <2>5. Val(t, w) = ValueIn(c.arg, d)
      BY <1>1, <2>2, <2>3, InstValue
    <2>6. Val(s, w) = Val(t, w)
      BY <2>1, <2>3, <2>5
    <2>7. u.ok /\ Solves(w, u.st.m)
      <3> HIDE DEF c, n, t
      <3> QED
        BY <1>1, <1>5, <2>3, <2>4, <2>6, UnifyKeeps DEF u
    <2>8. AllTrue(H, w, bd)
      <3> SUFFICES ASSUME NEW k \in DOMAIN bd PROVE TrueIn(H, w, bd[k])
        BY DEF AllTrue
      <3>1. k \in 1 .. Len(c.body) /\ bd[k] = Goal(c.body[k], n, f.bar)
        BY DEF Body
      <3>2. k \in DOMAIN c.body
        <4>1. c.body \in Seq(Goals)
          BY <1>1 DEF Clauses
        <4> QED
          BY <3>1, <4>1, LenProperties
      <3> HIDE DEF c, n, bd
      <3>3. bd[k].g = c.body[k] /\ bd[k].act = n
        BY <3>1 DEF Goal
      <3> QED
        BY <2>1, <2>3, <3>2, <3>3 DEF TrueIn
    <2> HIDE DEF bd
    <2>9. AllTrue(H, w, bd \o Top.rest)
      BY <1>4, <2>4, <2>8, AllOfBoth
    <2>10. pc' = "call" /\ GoalsReach(H, e, store'.m, call'.goals)
      BY <1>7, <2>1, <2>3, <2>7, <2>9 DEF GoalsReach
    <2> QED
      BY <2>10, ReachedNext
  <1> HIDE DEF c, n, t, bd
  <1>9. ASSUME NEW th \in Valuations, Under(th, 0) = e, Solves(th, Denotes(store, Top.mark)),
               AllTrue(H, th, Top.rest), NEW k \in DOMAIN Top.clauses, k # 1,
               ClauseHolds(H, th, Top.goal, Top.clauses[k])
        PROVE  Reached(H, e)'
    <2>1. k - 1 \in DOMAIN f.clauses /\ f.clauses[k - 1] = Top.clauses[k]
      BY <1>3, <1>9
    <2>2. Untried(H, th, f)
      BY <1>3, <1>9, <2>1 DEF Untried
    <2>3. Denotes(store', f.mark) = Denotes(store, Top.mark)
      <3>1. L \in 1 .. Len(stack) /\ L <= Len(stack')
        BY <1>2 DEF L
      <3> QED
        BY <1>1, <1>2, <1>3, <3>1, HandlesKept DEF Searching
    <2>4. FrameReaches(H, e, store', f)
      BY <1>3, <1>9, <2>2, <2>3 DEF FrameReaches
    <2>5. L \in 1 .. Len(stack')
      BY <1>2
    <2> QED
      BY <1>2, <2>4, <2>5, ReachedNext
  <1>10. FrameReaches(H, e, store, Top) => Reached(H, e)'
    <2> SUFFICES ASSUME FrameReaches(H, e, store, Top) PROVE Reached(H, e)'
      OBVIOUS
    <2>1. PICK th \in Valuations : /\ Under(th, 0) = e /\ Solves(th, Denotes(store, Top.mark))
                                   /\ Untried(H, th, Top) /\ AllTrue(H, th, Top.rest)
      BY DEF FrameReaches
    <2>2. PICK k \in DOMAIN Top.clauses : ClauseHolds(H, th, Top.goal, Top.clauses[k])
      BY <1>1, <2>1 DEF Untried
    <2> QED
      BY <1>1, <1>8, <1>9, <2>1, <2>2
  <1> DEFINE m == L - 1
  <1>11. /\ m \in Nat /\ m <= Len(stack) /\ m <= Len(stack') /\ Len(stack') \in Nat
         /\ \A i \in 1 .. m : stack'[i] = stack[i]
         /\ \A i \in m + 1 .. Len(stack) : stack[i] = Top
    <2>1. \A i \in m + 1 .. Len(stack) : i = L
      BY <1>2 DEF L
    <2> QED
      BY <1>2, <2>1 DEF L
  <1> HIDE DEF m
  <1>12. pc # "call"
    BY <1>1
  <1> QED
    BY <1>1, <1>10, <1>11, <1>12, KeepsReached

\* A frame that has nothing left to try goes; the right branch of a disjunction
\* starts from the bindings its handle denotes.
LEMMA ReturnComplete ==
    ASSUME NEW H, Searching(H), NEW e \in Envs, Reached(H, e), LoopExhausted \/ LoopReturn \/ OrReturn
    PROVE  Reached(H, e)'
  <1>1. /\ [Next]_vars /\ stack # <<>> /\ pc \in {"try", "return"} /\ Top \in Frames
        /\ LoopExhausted => Top.kind = "loop" /\ Top.clauses = <<>>
    <2>1. stack # <<>> /\ pc \in {"try", "return"} /\ (pc = "try" => Top.kind = "loop")
      BY DEF Searching, Exact, ControlOK, LoopExhausted, LoopReturn, OrReturn, Returned
    <2> QED
      BY <2>1, TopTypes DEF Searching, Exact, LoopExhausted, LoopReturn, OrReturn, Next, Step, Unwind
  <1>2. pc = "return" => ~Escapes(ret)
    BY DEF Searching, Failed, DefiniteState, Escapes
  <1>3. CASE LoopReturn
    <2>1. stack' = stack /\ pc # "call"
      BY <1>2, <1>3 DEF LoopReturn, Returned
    <2> QED
      BY <1>1, <2>1, StackStaysReached
  <1>4. CASE LoopExhausted \/ OrReturn
    <2> DEFINE n == Len(stack) - 1
    <2>1. /\ stack' = Popped /\ n \in Nat /\ Len(stack') = n /\ n <= Len(stack)
          /\ \A i \in 1 .. n : stack'[i] = stack[i]
          /\ \A i \in n + 1 .. Len(stack) : stack[i] = Top
      <3>1. stack' = Popped
        BY <1>1, <1>2, <1>4 DEF LoopExhausted, OrReturn, Returned
      <3>2. /\ Len(stack) \in Nat /\ Len(stack) >= 1 /\ Len(stack') = Len(stack) - 1
            /\ \A i \in 1 .. Len(stack) - 1 : stack'[i] = stack[i]
            /\ Top = stack[Len(stack)]
        BY <1>1, <3>1, PopShape DEF Searching, Exact
      <3>3. \A i \in n + 1 .. Len(stack) : i = Len(stack)
        BY <3>2
      <3> QED
        BY <3>1, <3>2, <3>3
    <2> HIDE DEF n
    <2>2. ASSUME FrameReaches(H, e, store, Top)
          PROVE  Reached(H, e)'
      <3>1. PICK th \in Valuations : /\ Under(th, 0) = e /\ Solves(th, Denotes(store, Top.mark))
                                     /\ Untried(H, th, Top) /\ AllTrue(H, th, Top.rest)
        BY <2>2 DEF FrameReaches
      <3>2. CASE LoopExhausted
        BY <1>1, <3>1, <3>2 DEF Untried
      <3>3. CASE OrReturn
        <4> DEFINE r == Branch(Top.goal, Top.goal.g.right)
                   b == UndoTo(store, Top.mark)
        <4>1. /\ Top.kind = "or" /\ store' = b /\ pc' = "call" /\ call'.goals = <<r>> \o Top.rest
          <5>1. Top.kind = "or" /\ store' = b /\ ContinueFrame(Top, <<r>>, Top.mark)
            BY <1>2, <3>3 DEF OrReturn, Returned
          <5> HIDE DEF b, r
          <5> QED
            BY <5>1 DEF ContinueFrame, Resume
        <4>2. TrueIn(H, th, r)
          BY <3>1, <4>1 DEF Untried
        <4>3. Solves(th, b.m)
          <5>1. StoreOK(store) /\ TrailFits(store) /\ Top.mark \in Nat /\ Top.mark <= store.len
            BY <1>1, ExactStore, TopWithdrawn DEF Searching
          <5> QED
            BY <3>1, <5>1, UndoKeeps
        <4>4. r \in Instances /\ Top.rest \in Seq(Instances)
          <5>1. Top.goal \in Instances /\ Top.goal.g.op = "or" /\ Top.rest \in Seq(Instances)
            BY <1>1, <4>1, FrameFields DEF FitsGoal
          <5> QED
            BY <5>1, SubgoalTypes, BranchTypes
        <4> HIDE DEF r, b
        <4>5. AllTrue(H, th, <<r>>) /\ <<r>> \in Seq(Instances)
          BY <4>2, <4>4, AllOfThese, ShortSequences
        <4>6. AllTrue(H, th, <<r>> \o Top.rest)
          BY <3>1, <4>4, <4>5, AllOfBoth
        <4>7. pc' = "call" /\ GoalsReach(H, e, store'.m, call'.goals)
          BY <3>1, <4>1, <4>3, <4>6 DEF GoalsReach
        <4> QED
          BY <4>7, ReachedNext
      <3> QED
        BY <1>4, <3>2, <3>3
    <2>3. pc # "call" /\ n <= Len(stack')
      BY <1>1, <2>1
    <2> QED
      BY <1>1, <2>1, <2>2, <2>3, KeepsReached
  <1> QED
    BY <1>3, <1>4

\* The steps that search nothing.
LEMMA QuietComplete ==
    ASSUME NEW H, Searching(H), NEW e \in Envs, Reached(H, e), Finish \/ Cancel \/ Terminated \/ UNCHANGED vars
    PROVE  Reached(H, e)'
  <1>1. [Next]_vars /\ stack' = stack
    BY DEF Finish, Cancel, Terminated, vars, control, Next, Step, Unwind
  <1>2. pc = "call" => pc' = "call" /\ store' = store /\ call' = call
    BY DEF Finish, Cancel, Terminated, vars, control
  <1>3. pc = "call" /\ GoalsReach(H, e, store.m, call.goals) => Reached(H, e)'
    BY <1>2, ReachedNext
  <1> QED
    BY <1>1, <1>3, StackStaysReached

\* A search that has all its answers has them all in the next state.
LEMMA FullStays ==
    ASSUME RecordsOK, cap \in Nat, [Next]_vars, Full
    PROVE  Full'
  <1>1. cap' = cap
    BY CapKept
  <1>2. CASE EmitAnswer
    <2> DEFINE a == [n \in Names |-> Walk(Var(n, 0), store)]
               N == Len(out)
    <2>1. out' = Append(out, a) /\ out \in Seq([Names -> Terms])
      BY <1>2 DEF EmitAnswer, RecordsOK
    <2> HIDE DEF a
    <2>2. Len(out') = N + 1 /\ N \in Nat
      BY <2>1
    <2>3. cap > 0 /\ N >= cap
      BY DEF Full
    <2> HIDE DEF N
    <2>4. cap \in Nat => Len(out') >= cap
      BY <2>2, <2>3
    <2> QED
      BY <1>1, <2>3, <2>4 DEF Full
  <1>3. CASE ~EmitAnswer
    BY <1>1, <1>3, AnswersKept DEF Full
  <1> QED
    BY <1>2, <1>3

\* The invariant: what the search of a definite program looks like, and that it
\* still reaches what it has not found.
Covered == cap \in Nat /\ (DefiniteRun => DefiniteState) /\ Complete

LEMMA CoveredStep ==
    ASSUME Grounds, RecordsOK, ClausesKnown, Covered, [Next]_vars
    PROVE  Covered'
  <1>1. cap' = cap /\ prog' = prog /\ query' = query /\ cap \in Nat
    BY CapKept, AvailableGrows DEF Grounds, Covered
  <1>2. DefiniteRun' <=> DefiniteRun
    BY <1>1 DEF DefiniteRun
  <1>3. DefiniteRun => DefiniteState /\ DefiniteState'
    BY DefiniteStep DEF Grounds, Covered
  <1>4. ASSUME DefiniteRun, ~Full', ~Failed', NEW H, IsSupported(H, Available'), NEW e \in Envs, QueryIn(H, e)'
        PROVE  Reached(H, e)'
    <2>1. DefiniteState /\ log = <<>> /\ log' = <<>>
      BY <1>3, <1>4 DEF DefiniteState
    <2>2. Available' = Available
      BY <1>1, <2>1 DEF Available
    <2>3. ~Full /\ ~Failed
      BY <1>1, <1>4, <2>1, FullStays, FailedStays DEF Grounds
    <2>4. IsSupported(H, Available) /\ QueryIn(H, e)
      BY <1>1, <1>4, <2>2 DEF QueryIn
    <2>5. Searching(H)
      BY <1>4, <2>1, <2>3, <2>4 DEF Searching, Exact, Grounds, DefiniteState
    <2>6. Reached(H, e)
      BY <1>4, <2>3, <2>4 DEF Covered, Complete
    <2>7. ~(Interrupted \/ DepthExceeded)
      <3>1. Interrupted \/ DepthExceeded => \E x \in {Interrupt, Depth} : Return(Error(x))
        BY DEF Interrupted, DepthExceeded
      <3>2. \A x \in {Interrupt, Depth} : x # NoErr /\ Error(x).err = x
        BY DEF Interrupt, Depth, NoErr, Error, Result
      <3>3. \A x : Return(Error(x)) => pc' = "return" /\ ret' = Error(x)
        BY DEF Return
      <3> QED
        BY <1>4, <3>1, <3>2, <3>3 DEF Failed
    <2>8. \/ EmitAnswer
          \/ (SolveTrue /\ Current.g.op = "true") \/ SolveFail \/ SolveAnd \/ SolveEq
          \/ SolveOr \/ SolveCall
          \/ TryClause
          \/ LoopExhausted \/ LoopReturn \/ OrReturn
          \/ Finish \/ Cancel \/ Terminated \/ UNCHANGED vars
      BY <2>1, <2>7, DefiniteSteps DEF Grounds
    <2> QED
      BY <2>5, <2>6, <2>8, AnswerComplete, GoalComplete, PushComplete, TryComplete, ReturnComplete,
         QuietComplete
  <1>5. Complete'
    BY <1>2, <1>4 DEF Complete, Available
  <1> QED
    BY <1>1, <1>2, <1>3, <1>5 DEF Covered

LEMMA CoveredInitially == Init => Covered
  <1> SUFFICES ASSUME Init PROVE Covered
    OBVIOUS
  <1>1. /\ pc = "call" /\ store = EmptyStore /\ cap \in Nat /\ query \in Seq(Goals)
        /\ call.goals = [i \in 1 .. Len(query) |-> Goal(query[i], 0, 0)]
    BY ProgramsAssumption, CapsAssumption DEF Init
  <1>2. ASSUME NEW H, NEW e \in Envs, QueryIn(H, e)
        PROVE  Reached(H, e)
    <2> DEFINE th == [v \in Vars |-> e[v.var]]
    <2>1. e \in [Names -> Values] /\ \A v \in Vars : v.var \in Names
      BY DEF Envs, Vars
    <2>2. th \in Valuations /\ \A v \in Vars : th[v] = e[v.var]
      BY <2>1 DEF Valuations
    <2> HIDE DEF th
    <2>3. Under(th, 0) = e
      <3>1. \A n \in Names : Var(n, 0) \in Vars /\ Var(n, 0).var = n
        BY DEF Var, Vars
      <3>2. \A n \in Names : th[Var(n, 0)] = e[n]
        BY <2>2, <3>1
      <3> QED
        BY <2>1, <3>2 DEF Under
    <2>4. Solves(th, store.m)
      <3>1. DOMAIN store.m = {}
        BY <1>1 DEF EmptyStore
      <3> QED
        BY <3>1 DEF Solves
    <2>5. AllTrue(H, th, call.goals)
      <3>1. DOMAIN query = 1 .. Len(query)
        BY <1>1, LenProperties
      <3>2. \A k \in 1 .. Len(query) : TrueIn(H, th, Goal(query[k], 0, 0))
        BY <1>2, <2>3, <3>1 DEF QueryIn, TrueIn, Goal
      <3> QED
        BY <1>1, <3>2 DEF AllTrue
    <2>6. GoalsReach(H, e, store.m, call.goals)
      BY <2>2, <2>3, <2>4, <2>5 DEF GoalsReach
    <2> QED
      BY <1>1, <2>6 DEF Reached
  <1> QED
    BY <1>1, <1>2, DefiniteInitially DEF Covered, Complete

LEMMA CoveredIsFound ==
    ASSUME ControlOK, RecordsOK, Covered
    PROVE  SolutionsFound
  <1> SUFFICES ASSUME pc = "done", DefiniteRun, ret.err = NoErr, cap = 0 \/ Len(out) < cap,
                      NEW H, IsSupported(H, Available)
               PROVE  SolutionsIn(H)
    BY DEF SolutionsFound
  <1>1. ~Failed /\ ~Full
    <2>1. Len(out) \in Nat /\ cap \in Nat
      BY LenProperties DEF RecordsOK, Covered
    <2> QED
      BY <2>1 DEF Failed, Full
  <1>2. \A e \in Envs : QueryIn(H, e) => Reached(H, e)
    BY <1>1 DEF Covered, Complete
  <1>3. Len(stack) = 0
    BY DEF ControlOK
  <1>4. \A e \in Envs : QueryIn(H, e) => Found(e)
    BY <1>2, <1>3 DEF Reached
  <1> QED
    BY <1>4 DEF SolutionsIn, QueryIn

\* Every solution is found, for every definite program, query and bound: a run
\* that ends by itself has emitted an answer for each of them, in every
\* interpretation that the program supports.  Trying the clauses and the branches
\* in order, over one trail that is cut back between them, loses none
\* (solve.go:225-237, 333-340, 448-482).
THEOREM AllSolutionsAreFound == Spec => []SolutionsFound
  <1>1. Grounds /\ RecordsOK /\ ClausesKnown /\ Covered /\ [Next]_vars
          => RecordsOK' /\ ClausesKnown' /\ Covered'
    BY RecordsStep, ClausesStep, CoveredStep DEF Grounds
  <1>2. Init => RecordsOK /\ ClausesKnown /\ Covered /\ TrailExact
    BY RecordsInitially, SoundInitially, DataInitially, CoveredInitially DEF TrailExact
  <1>3. ControlOK /\ EmitOK /\ ControlOK' /\ DataInv /\ HandlesExact /\ TrailExact /\ [Next]_vars
          => TrailExact'
    BY TrailExactStep
  <1>4. StopsReachTheirProbe <=> EmitOK /\ PendingOK
    BY DEF StopsReachTheirProbe
  <1>5. Grounds <=> ControlOK /\ EmitOK /\ PendingOK /\ DataInv /\ HandlesExact /\ TrailExact
    BY DEF Grounds
  <1>6. ControlOK /\ RecordsOK /\ Covered => SolutionsFound
    BY CoveredIsFound
  <1> QED
    BY <1>1, <1>2, <1>3, <1>4, <1>5, <1>6, ControlIsLinked, StopsReachProbes, DataIsKnown,
       HandlesAreExact, PTL DEF Spec
=============================================================================
