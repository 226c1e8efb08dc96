---------------------------- MODULE EngineTypes ----------------------------
(***************************************************************************)
(* Type correctness of the resolution machine (ControlOK of EngineInv) for *)
(* every program, query and bound, and the facts about terms, goals and    *)
(* the stack that the other proofs use.                                    *)
(***************************************************************************)
EXTENDS EngineInv, SequenceTheorems, TLAPS

-----------------------------------------------------------------------------
(* Sequences, as the stack uses them. *)

\* Append: the frames below stay, the new one is on top.
LEMMA PushFacts ==
    ASSUME NEW S, NEW s \in Seq(S), NEW e \in S
    PROVE  /\ Append(s, e) \in Seq(S)
           /\ Len(Append(s, e)) = Len(s) + 1
           /\ \A i \in 1 .. Len(s) : Append(s, e)[i] = s[i]
           /\ Append(s, e)[Len(s) + 1] = e
  BY AppendProperties, LenProperties

\* A sequence that is not empty has a first and a last element, and a rest.
LEMMA NonEmptyFacts ==
    ASSUME NEW S, NEW s \in Seq(S), s # <<>>
    PROVE  /\ Len(s) \in Nat /\ Len(s) >= 1
           /\ Head(s) \in S /\ Head(s) = s[1]
           /\ Tail(s) \in Seq(S)
           /\ s[Len(s)] \in S
  <1>1. Len(s) \in Nat /\ Len(s) >= 1
    BY EmptySeq, LenProperties
  <1>2. s[1] \in S /\ s[Len(s)] \in S
    BY <1>1, ElementOfSeq
  <1>3. Head(s) = s[1] /\ Tail(s) \in Seq(S)
    BY HeadTailProperties
  <1> QED
    BY <1>1, <1>2, <1>3

\* Dropping the last element: the frames below stay.
LEMMA PopFacts ==
    ASSUME NEW S, NEW s \in Seq(S), s # <<>>
    PROVE  /\ SubSeq(s, 1, Len(s) - 1) \in Seq(S)
           /\ Len(SubSeq(s, 1, Len(s) - 1)) = Len(s) - 1
           /\ \A i \in 1 .. Len(s) - 1 : SubSeq(s, 1, Len(s) - 1)[i] = s[i]
  <1>1. Len(s) \in Nat /\ Len(s) >= 1
    BY NonEmptyFacts
  <1> DEFINE n == Len(s) - 1
  <1>2. n \in Nat /\ n <= Len(s)
    BY <1>1
  <1>3. \A i \in 1 .. n : s[i] \in S
    BY <1>1, ElementOfSeq
  <1> HIDE DEF n
  <1>4. /\ SubSeq(s, 1, n) \in Seq(S)
        /\ Len(SubSeq(s, 1, n)) = IF 1 <= n THEN n - 1 + 1 ELSE 0
        /\ \A i \in 1 .. n - 1 + 1 : SubSeq(s, 1, n)[i] = s[1 + i - 1]
    BY <1>2, <1>3, SubSeqProperties
  <1>5. Len(SubSeq(s, 1, n)) = n
    BY <1>2, <1>4
  <1>6. \A i \in 1 .. n : SubSeq(s, 1, n)[i] = s[i]
    BY <1>2, <1>4
  <1> QED
    BY <1>4, <1>5, <1>6 DEF n

\* Replacing the last element.
LEMMA ReplaceTopFacts ==
    ASSUME NEW S, NEW s \in Seq(S), s # <<>>, NEW e \in S
    PROVE  LET t == Append(SubSeq(s, 1, Len(s) - 1), e)
           IN  /\ t \in Seq(S) /\ Len(t) = Len(s)
               /\ \A i \in 1 .. Len(s) - 1 : t[i] = s[i]
               /\ t[Len(s)] = e
  <1> DEFINE u == SubSeq(s, 1, Len(s) - 1)
  <1>1. Len(s) \in Nat /\ Len(s) >= 1
    BY NonEmptyFacts
  <1>2. u \in Seq(S) /\ Len(u) = Len(s) - 1 /\ \A i \in 1 .. Len(s) - 1 : u[i] = s[i]
    BY PopFacts
  <1> HIDE DEF u
  <1>3. /\ Append(u, e) \in Seq(S) /\ Len(Append(u, e)) = Len(u) + 1
        /\ \A i \in 1 .. Len(u) : Append(u, e)[i] = u[i]
        /\ Append(u, e)[Len(u) + 1] = e
    BY <1>2, PushFacts
  <1>4. Len(u) + 1 = Len(s)
    BY <1>1, <1>2
  <1> QED
    BY <1>1, <1>2, <1>3, <1>4 DEF u

\* Concatenation.
LEMMA ConcatFacts ==
    ASSUME NEW S, NEW s \in Seq(S), NEW t \in Seq(S)
    PROVE  s \o t \in Seq(S)
  BY ConcatProperties

\* Sequences of one and of two elements.
LEMMA ShortSequences ==
    ASSUME NEW S, NEW x \in S, NEW y \in S
    PROVE  <<x>> \in Seq(S) /\ <<x, y>> \in Seq(S) /\ <<>> \in Seq(S)
  OBVIOUS

-----------------------------------------------------------------------------
(* Terms. *)

\* Walking, instantiating and copying a term give a term.
LEMMA WalkType ==
    ASSUME NEW t \in Terms, NEW st
    PROVE  Walk(t, st) \in Terms
  BY DEF Walk

LEMMA InstType ==
    ASSUME NEW t \in Templates, NEW a \in Nat
    PROVE  Inst(t, a) \in Terms
  BY DEF Inst, Templates, Terms, Var, Vars

LEMMA CopyOutType ==
    ASSUME NEW t \in Terms, NEW st, NEW n \in Nat
    PROVE  CopyOut(t, st, n) \in Terms
  <1>1. Walk(t, st) \in Terms
    BY WalkType
  <1>2. \A x \in Vars : Var(x.var, n) \in Terms
    BY DEF Vars, Var, Terms
  <1> QED
    BY <1>1, <1>2 DEF CopyOut

LEMMA StoredType ==
    ASSUME NEW t \in Terms
    PROVE  Stored(t) \in Templates
  BY DEF Stored, Templates, Terms, Vars

\* Unification records at most one more binding.
LEMMA UnifyLength ==
    ASSUME NEW s, NEW t, NEW st, st.len \in Nat
    PROVE  /\ Unify(s, t, st).st.len \in Nat
           /\ Unify(s, t, st).st.len >= st.len
           /\ ~Unify(s, t, st).ok => Unify(s, t, st).st = st
  BY DEF Unify, Bind

\* undoTo leaves the trail at the mark.
LEMMA UndoToLength ==
    ASSUME NEW st, NEW mark
    PROVE  UndoTo(st, mark).len = mark
  BY DEF UndoTo

-----------------------------------------------------------------------------
(* Goals. *)

LEMMA GoalType ==
    ASSUME NEW g \in Goals, NEW a \in Nat, NEW b \in Nat
    PROVE  Goal(g, a, b) \in Instances
  BY DEF Goal, Instances

\* The subgoals and arguments of a goal have their types.
LEMMA SubgoalTypes ==
    ASSUME NEW gi \in Instances
    PROVE  /\ gi.g \in Goals /\ gi.act \in Nat /\ gi.bar \in Nat
           /\ gi.g.op \in {"and", "or", "then", "catch", "not", "once", "findall"} => gi.g.left \in Goals
           /\ gi.g.op \in {"and", "or", "then", "catch"} => gi.g.right \in Goals
           /\ gi.g.op \in {"eq", "neq", "throw", "catch", "findall", "call", "asserta", "assertz",
                           "retract"} => gi.g.arg \in Templates
           /\ gi.g.op \in {"eq", "neq"} => gi.g.arg2 \in Templates
           /\ gi.g.op = "findall" => gi.g.tmpl \in Templates
           /\ gi.g.op \in {"asserta", "assertz"} => gi.g.pred \in STRING
  <1>1. gi.g \in Goals /\ gi.act \in Nat /\ gi.bar \in Nat
    BY DEF Instances
  <1>2. Names \cup Consts \subseteq Templates
    BY DEF Templates, Terms
  <1> QED
    BY <1>1, <1>2, GoalsAssumption

\* The body of a clause for an activation.
LEMMA BodyType ==
    ASSUME NEW c \in Clauses, NEW a \in Nat, NEW b \in Nat
    PROVE  /\ Body(c, a, b) \in Seq(Instances)
           /\ \A k \in DOMAIN Body(c, a, b) : Body(c, a, b)[k].bar = b
  <1>1. c.body \in Seq(Goals) /\ Len(c.body) \in Nat
    BY DEF Clauses
  <1>2. \A i \in 1 .. Len(c.body) : c.body[i] \in Goals
    BY <1>1, ElementOfSeq
  <1>3. \A i \in 1 .. Len(c.body) : Goal(c.body[i], a, b) \in Instances
    BY <1>2, GoalType
  <1>4. Body(c, a, b) \in [1 .. Len(c.body) -> Instances]
    BY <1>3 DEF Body
  <1>5. Body(c, a, b) \in Seq(Instances)
    BY <1>1, <1>4, SeqDef
  <1>6. \A k \in DOMAIN Body(c, a, b) : Body(c, a, b)[k].bar = b
    BY DEF Body, Goal
  <1> QED
    BY <1>5, <1>6

-----------------------------------------------------------------------------
(* The control state. *)

\* Entering and leaving an activation.
LEMMA ResumeType ==
    ASSUME NEW gs \in Seq(Instances), NEW m \in Nat, NEW d \in Nat, NEW e \in Nat,
           Resume(gs, m, d, e)
    PROVE  pc' = "call" /\ call' \in Calls /\ ret' \in Results
  BY DEF Resume, Calls, Results, Fail, Result, Errors

LEMMA ReturnType ==
    ASSUME NEW r \in Results, Return(r)
    PROVE  pc' = "return" /\ call' \in Calls /\ ret' \in Results
  BY DEF Return, NoCall, Calls

\* The results of the activations.
LEMMA ResultTypes ==
    /\ Fail \in Results /\ Stop \in Results
    /\ \A e \in Errors : Error(e) \in Results
    /\ \A b \in Nat : Commit(b) \in Results
    /\ \A s \in BOOLEAN : Result(s, 0, NoErr) \in Results
    /\ \A t \in Terms : Throw(t) \in Errors
    /\ Depth \in Errors /\ Interrupt \in Errors
  BY DEF Fail, Stop, Error, Commit, Result, Results, Errors, Throw

LEMMA CallTypes ==
    ASSUME ControlOK, call.goals # <<>>
    PROVE  /\ Current \in Instances /\ Rest \in Seq(Instances)
           /\ call.mark \in Nat /\ call.depth \in Nat /\ call.emit \in Nat
  BY NonEmptyFacts DEF ControlOK, Calls, Current, Rest

LEMMA TopTypes ==
    ASSUME ControlOK, stack # <<>>
    PROVE  /\ Len(stack) \in Nat /\ Len(stack) >= 1
           /\ Top \in Frames /\ Popped \in Seq(Frames) /\ Len(Popped) = Len(stack) - 1
           /\ \A i \in 1 .. Len(stack) - 1 : Popped[i] = stack[i]
  BY NonEmptyFacts, PopFacts DEF ControlOK, Top, Popped

\* The fields of a frame on the stack.
LEMMA FrameFields ==
    ASSUME NEW f \in Frames
    PROVE  /\ f.kind \in Kinds /\ f.goal \in Instances /\ f.rest \in Seq(Instances)
           /\ f.mark \in Nat /\ f.depth \in Nat /\ f.emit \in Nat /\ f.base \in Nat
           /\ f.found \in Seq(Nat) /\ f.items \in Seq(Consts \cup Vars) /\ f.clauses \in Seq(Clauses)
           /\ f.bar \in Nat /\ f.owner \in Nat /\ f.cont \in Seq(Results)
           /\ FitsGoal(f)
  BY DEF Frames, Records

LEMMA StackFrame ==
    ASSUME ControlOK, NEW i \in Levels
    PROVE  stack[i] \in Frames
  BY ElementOfSeq DEF ControlOK, Levels

\* The frames a construct can push.
LEMMA FrameType ==
    ASSUME ControlOK, call.goals # <<>>, NEW k \in Kinds,
           FitsGoal(Frame(k))
    PROVE  /\ Frame(k) \in Frames
           /\ \A b \in Nat : [Frame(k) EXCEPT !.bar = b] \in Frames
           /\ \A b \in Nat : \A cs \in Seq(Clauses) :
                [Frame(k) EXCEPT !.clauses = cs, !.bar = b] \in Frames
  <1>1. /\ Current \in Instances /\ Rest \in Seq(Instances) /\ store.len \in Nat
        /\ call.mark \in Nat /\ call.depth \in Nat /\ call.emit \in Nat
    BY CallTypes DEF ControlOK
  <1>2. Frame(k) \in Records
    BY <1>1 DEF Frame, Records
  <1>3. \A b \in Nat : [Frame(k) EXCEPT !.bar = b] \in Records
    BY <1>2 DEF Records
  <1>4. \A b \in Nat : \A cs \in Seq(Clauses) :
           [Frame(k) EXCEPT !.clauses = cs, !.bar = b] \in Records
    BY <1>2 DEF Records
  <1>5. \A b : FitsGoal([Frame(k) EXCEPT !.bar = b])
    BY DEF FitsGoal, Frame
  <1>6. \A b, cs : FitsGoal([Frame(k) EXCEPT !.clauses = cs, !.bar = b])
    BY DEF FitsGoal, Frame
  <1> QED
    BY <1>2, <1>3, <1>4, <1>5, <1>6 DEF Frames

\* What a step that ends with a call or a return has to leave in order.
LEMMA ControlStep ==
    ASSUME db' \in Seq(Clauses), fresh' \in Nat, barriers' \in Nat, store'.len \in Nat,
           leaked' \in BOOLEAN, stack' \in Seq(Frames),
           pc' \in {"call", "return"}, call' \in Calls, ret' \in Results
    PROVE  ControlOK'
  BY DEF ControlOK

\* The common case: only the control moves.
LEMMA ControlMoves ==
    ASSUME ControlOK, UNCHANGED <<world, fresh, barriers, store, leaked>>, stack' \in Seq(Frames),
           pc' \in {"call", "return"}, call' \in Calls, ret' \in Results
    PROVE  ControlOK'
  BY ControlStep DEF ControlOK, world

-----------------------------------------------------------------------------
(* The entry of solve. *)

\* The frame of the emit closure that is being called.
LEMMA EmitFrame ==
    ASSUME ControlOK, EmitOK, Emitting, call.emit > 0
    PROVE  call.emit \in Levels /\ stack[call.emit] \in Frames
  <1>1. call.emit \in Nat /\ call.emit <= Len(stack) /\ Len(stack) \in Nat
    BY LenProperties DEF ControlOK, EmitOK, Emitting, EmitterOf, Calls
  <1> QED
    BY <1>1, StackFrame DEF Levels

LEMMA EnterTypes ==
    ASSUME ControlOK, EmitOK, Enter
    PROVE  ControlOK'
  <1> DEFINE f == stack[call.emit]
  <1>0. /\ stack \in Seq(Frames) /\ call.mark \in Nat /\ call.emit \in Nat /\ store.len \in Nat
        /\ fresh \in Nat
    BY DEF ControlOK, Calls
  <1>1. CASE Interrupted
    BY <1>0, <1>1, ControlMoves, ReturnType, ResultTypes DEF Interrupted
  <1>2. CASE EmitAnswer
    BY <1>0, <1>2, ControlMoves, ReturnType, ResultTypes DEF EmitAnswer
  <1>3. CASE EmitFirst
    <2>1. call.emit \in 1 .. Len(stack) /\ f \in Frames
      BY <1>3, EmitFrame DEF EmitFirst, Levels
    <2>2. [f EXCEPT !.found = <<call.mark>>] \in Frames
      BY <1>0, <2>1, ShortSequences DEF Frames, Records, FitsGoal
    <2>3. stack' \in Seq(Frames)
      BY <1>0, <1>3, <2>1, <2>2, ExceptSeq DEF EmitFirst
    <2> QED
      BY <1>3, <2>3, ControlMoves, ReturnType, ResultTypes DEF EmitFirst
  <1>4. CASE EmitCollected
    <2> DEFINE t == CopyOut(Inst(f.goal.g.tmpl, f.goal.act), store, fresh + 1)
    <2>1. call.emit \in 1 .. Len(stack) /\ f \in Frames
      BY <1>4, EmitFrame DEF EmitCollected, Levels
    <2>2. t \in Consts \cup Vars
      BY <1>4 DEF EmitCollected
    <2>3. [f EXCEPT !.items = Append(@, t)] \in Frames
      BY <2>1, <2>2, PushFacts DEF Frames, Records, FitsGoal
    <2>4. stack' \in Seq(Frames)
      BY <1>0, <1>4, <2>1, <2>3, ExceptSeq DEF EmitCollected
    <2> QED
      BY <1>0, <1>4, <2>4, ControlStep, ReturnType, ResultTypes DEF EmitCollected, ControlOK, world
  <1>5. CASE EmitContinuation
    <2>1. f \in Frames
      BY <1>5, EmitFrame DEF EmitContinuation
    <2>2. [f EXCEPT !.kind = "cont", !.owner = call.emit, !.mark = call.mark, !.base = store.len]
            \in Frames
      <3>1. f.goal.g.op = "catch"
        BY <1>5, <2>1, FrameFields DEF EmitContinuation, FitsGoal
      <3> QED
        BY <1>0, <2>1, <3>1 DEF Frames, Records, FitsGoal, Kinds
    <2>3. stack' \in Seq(Frames)
      BY <1>0, <1>5, <2>2, PushFacts DEF EmitContinuation, Push
    <2>4. pc' = "call" /\ call' \in Calls /\ ret' \in Results
      <3>1. f.rest \in Seq(Instances) /\ f.depth + 1 \in Nat /\ f.emit \in Nat
        BY <2>1, FrameFields
      <3>2. Resume(f.rest, call.mark, f.depth + 1, f.emit)
        BY <1>5 DEF EmitContinuation
      <3> QED
        BY <1>0, <3>1, <3>2, ResumeType
    <2> QED
      BY <1>5, <2>3, <2>4, ControlMoves DEF EmitContinuation
  <1>6. CASE DepthExceeded
    BY <1>0, <1>6, ControlMoves, ReturnType, ResultTypes DEF DepthExceeded
  <1> QED
    BY <1>1, <1>2, <1>3, <1>4, <1>5, <1>6 DEF Enter

-----------------------------------------------------------------------------
(* The constructs. *)

\* The tail call of a construct.
LEMMA ContinueType ==
    ASSUME ControlOK, call.goals # <<>>, NEW m \in Nat, Continue(m)
    PROVE  pc' = "call" /\ call' \in Calls /\ ret' \in Results
  <1>1. Rest \in Seq(Instances) /\ call.depth + 1 \in Nat /\ call.emit \in Nat
    BY CallTypes
  <1> QED
    BY <1>1, ResumeType DEF Continue

\* The subgoals of the current goal, as goals to run.
LEMMA BranchTypes ==
    ASSUME NEW gi \in Instances, NEW g \in Goals
    PROVE  /\ Branch(gi, g) \in Instances /\ Opaque(gi, g) \in Instances
           /\ Branch(gi, g).bar = gi.bar /\ Opaque(gi, g).bar = 0
  <1>1. gi.act \in Nat /\ gi.bar \in Nat
    BY DEF Instances
  <1> QED
    BY <1>1, GoalType DEF Branch, Opaque, Goal

\* The condition and the Then of an if-then, with or without an Else.
LEMMA IteTypes ==
    ASSUME NEW g \in Goals, g.op = "then" \/ IsIte(g)
    PROVE  Cond(g) \in Goals /\ Then(g) \in Goals /\ (g.op # "then" => g.right \in Goals)
  <1>1. CASE g.op = "then"
    BY <1>1, GoalsAssumption DEF Cond, Then
  <1>2. CASE g.op # "then"
    <2>1. g.op = "or" /\ g.left.op = "then"
      BY <1>2 DEF IsIte
    <2>2. g.left \in Goals /\ g.right \in Goals
      BY <2>1, GoalsAssumption
    <2>3. g.left.left \in Goals /\ g.left.right \in Goals
      BY <2>1, <2>2, GoalsAssumption
    <2> QED
      BY <1>2, <2>2, <2>3 DEF Cond, Then
  <1> QED
    BY <1>1, <1>2

\* An activation is running a construct.
LEMMA RunningFacts ==
    ASSUME ControlOK, NEW ops, Running(ops)
    PROVE  /\ call.goals # <<>> /\ Current \in Instances /\ Rest \in Seq(Instances)
           /\ call.mark \in Nat /\ call.depth + 1 \in Nat /\ call.emit \in Nat
           /\ Len(stack) + 1 \in Nat /\ store.len \in Nat /\ fresh \in Nat /\ barriers \in Nat
           /\ stack \in Seq(Frames) /\ db \in Seq(Clauses) /\ leaked \in BOOLEAN
           /\ Current.g.op \in ops
  BY CallTypes, LenProperties DEF Running, ControlOK

\* The constructs that push a frame and go on.
LEMMA PushTypes ==
    ASSUME ControlOK, Execute,
           SolveCut \/ SolveOr \/ SolveIte \/ SolveInner \/ SolveCall
    PROVE  ControlOK'
  <1> USE DEF Push
  <1>1. CASE SolveCut
    <2>0. FitsGoal(Frame("cut"))
      <3>1. Current.g.op = "cut"
        BY <1>1, RunningFacts DEF SolveCut
      <3> QED
        BY <3>1 DEF FitsGoal, Frame
    <2>1. [Frame("cut") EXCEPT !.bar = Current.bar] \in Frames
      BY <1>1, <2>0, RunningFacts, FrameType, SubgoalTypes DEF SolveCut, Kinds
    <2>2. stack' \in Seq(Frames)
      BY <1>1, <2>1, RunningFacts, PushFacts DEF SolveCut
    <2> QED
      BY <1>1, <2>2, RunningFacts, ContinueType, ControlMoves DEF SolveCut
  <1>2. CASE SolveOr
    <2>0. FitsGoal(Frame("or"))
      <3>1. Current.g.op = "or"
        BY <1>2, RunningFacts DEF SolveOr
      <3> QED
        BY <3>1 DEF FitsGoal, Frame
    <2>1. Frame("or") \in Frames
      BY <1>2, <2>0, RunningFacts, FrameType DEF SolveOr, Kinds
    <2>2. stack' \in Seq(Frames)
      BY <1>2, <2>1, RunningFacts, PushFacts DEF SolveOr
    <2>3. <<Branch(Current, Current.g.left)>> \o Rest \in Seq(Instances)
      BY <1>2, RunningFacts, SubgoalTypes, BranchTypes, ShortSequences, ConcatFacts DEF SolveOr
    <2> QED
      BY <1>2, <2>2, <2>3, RunningFacts, ResumeType, ControlMoves DEF SolveOr
  <1>3. CASE SolveIte
    <2>1. Current.g.op = "then" \/ IsIte(Current.g)
      BY <1>3, RunningFacts DEF SolveIte
    <2>2. Frame("cond") \in Frames
      BY <1>3, <2>1, RunningFacts, FrameType DEF SolveIte, FitsGoal, Frame, Kinds
    <2>3. stack' \in Seq(Frames)
      BY <1>3, <2>2, RunningFacts, PushFacts DEF SolveIte
    <2>4. <<Branch(Current, Cond(Current.g))>> \in Seq(Instances)
      BY <1>3, <2>1, RunningFacts, SubgoalTypes, IteTypes, BranchTypes, ShortSequences DEF SolveIte
    <2> QED
      BY <1>3, <2>3, <2>4, RunningFacts, ResumeType, ControlMoves DEF SolveIte
  <1>4. CASE SolveInner
    <2>1. Current.g.op \in {"not", "once", "findall", "catch"}
      BY <1>4, RunningFacts DEF SolveInner
    <2>2. Frame(Current.g.op) \in Frames
      BY <1>4, <2>1, RunningFacts, FrameType DEF SolveInner, FitsGoal, Frame, Kinds
    <2>3. stack' \in Seq(Frames)
      BY <1>4, <2>2, RunningFacts, PushFacts DEF SolveInner
    <2>4. <<Opaque(Current, Current.g.left)>> \in Seq(Instances)
      BY <1>4, <2>1, RunningFacts, SubgoalTypes, BranchTypes, ShortSequences DEF SolveInner
    <2> QED
      BY <1>4, <2>3, <2>4, RunningFacts, ResumeType, ControlMoves DEF SolveInner
  <1>5. CASE SolveCall
    <2>0. FitsGoal(Frame("loop"))
      <3>1. Current.g.op = "call"
        BY <1>5, RunningFacts DEF SolveCall
      <3> QED
        BY <3>1 DEF FitsGoal, Frame
    <2>1. [Frame("loop") EXCEPT !.clauses = db, !.bar = barriers + 1] \in Frames
      <3>1. call.goals # <<>> /\ db \in Seq(Clauses) /\ barriers + 1 \in Nat /\ "loop" \in Kinds
        BY <1>5, RunningFacts DEF SolveCall, Kinds
      <3> QED
        BY <2>0, <3>1, FrameType
    <2>2. /\ stack' \in Seq(Frames) /\ Len(stack') = Len(stack) + 1
          /\ stack'[Len(stack) + 1] = [Frame("loop") EXCEPT !.clauses = db, !.bar = barriers + 1]
      BY <1>5, <2>1, RunningFacts, PushFacts DEF SolveCall
    <2>3. stack' # <<>> /\ Top' = [Frame("loop") EXCEPT !.clauses = db, !.bar = barriers + 1]
      BY <1>5, <2>2, RunningFacts DEF Top
    <2>4. Top'.kind = "loop"
      BY <2>3 DEF Frame
    <2>5. pc' = "try" /\ call' \in Calls /\ ret' \in Results /\ barriers' \in Nat
      BY <1>5, RunningFacts, ResultTypes DEF SolveCall, NoCall, Calls
    <2> QED
      BY <1>5, <2>2, <2>3, <2>4, <2>5, RunningFacts DEF SolveCall, ControlOK, world
  <1> QED
    BY <1>1, <1>2, <1>3, <1>4, <1>5

\* Unification only moves the trail's length, whatever terms it is given.
LEMMA EqTypes ==
    ASSUME ControlOK, SolveEq \/ SolveNeq
    PROVE  ControlOK'
  <1> DEFINE u == Unify(Arg(Current), Inst(Current.g.arg2, Current.act), store)
  <1>1. call.goals # <<>> /\ store.len \in Nat /\ call.mark \in Nat /\ stack \in Seq(Frames)
    BY RunningFacts DEF SolveEq, SolveNeq
  <1>2. u.st.len \in Nat
    BY <1>1, UnifyLength
  <1>3. CASE SolveEq
    <2>1. store' = u.st /\ (Continue(u.st.len) \/ Return(Fail))
      BY <1>3 DEF SolveEq
    <2> QED
      BY <1>1, <1>2, <1>3, <2>1, ContinueType, ReturnType, ResultTypes, ControlStep
         DEF SolveEq, ControlOK, world
  <1>4. CASE SolveNeq
    <2>1. store' = u.st /\ (Continue(call.mark) \/ Return(Fail))
      BY <1>4 DEF SolveNeq
    <2> QED
      BY <1>1, <1>2, <1>4, <2>1, ContinueType, ReturnType, ResultTypes, ControlStep
         DEF SolveNeq, ControlOK, world
  <1> QED
    BY <1>3, <1>4

\* Clauses that assert stores are clauses.
LEMMA FactType ==
    ASSUME NEW q \in STRING, NEW t \in Terms
    PROVE  Fact(q, Stored(t)) \in Clauses
  BY StoredType, ShortSequences DEF Fact, Clauses

LEMMA AssertTypes ==
    ASSUME ControlOK, SolveAssert
    PROVE  ControlOK'
  <1> DEFINE g == Current.g
             c == Fact(g.pred, Stored(CopyOut(Arg(Current), store, fresh')))
  <1>1. /\ call.goals # <<>> /\ Current \in Instances /\ call.mark \in Nat /\ fresh \in Nat
        /\ db \in Seq(Clauses) /\ stack \in Seq(Frames)
    BY RunningFacts DEF SolveAssert
  <1>2. g.arg \in Templates /\ g.pred \in STRING /\ Current.act \in Nat
    <2>1. g.op \in {"asserta", "assertz"}
      BY RunningFacts DEF SolveAssert
    <2> QED
      BY <1>1, <2>1, SubgoalTypes
  <1>3. fresh' = fresh + 1 /\ fresh' \in Nat
    BY <1>1 DEF SolveAssert
  <1>4. c \in Clauses
    BY <1>2, <1>3, InstType, CopyOutType, FactType DEF Arg
  <1>5. Append(db, c) \in Seq(Clauses) /\ <<c>> \o db \in Seq(Clauses)
    BY <1>1, <1>4, PushFacts, ShortSequences, ConcatFacts
  <1>6. Error(Throw(PermissionError)) \in Results
    BY ProgramsAssumption, ResultTypes DEF Terms
  <1>7. CASE g.pred \notin Dynamic
    <2>1. Return(Error(Throw(PermissionError))) /\ UNCHANGED <<world, barriers, store, stack, leaked>>
      BY <1>7 DEF SolveAssert
    <2> QED
      BY <1>1, <1>3, <1>6, <2>1, ReturnType, ControlStep DEF ControlOK, world
  <1>8. CASE g.pred \in Dynamic
    <2>1. /\ db' = Append(db, c) \/ db' = <<c>> \o db
          /\ Continue(call.mark)
          /\ UNCHANGED <<barriers, store, stack, leaked>>
      BY <1>8 DEF SolveAssert
    <2> QED
      BY <1>1, <1>3, <1>5, <2>1, ContinueType, ControlStep DEF ControlOK
  <1> QED
    BY <1>7, <1>8

\* Removing an element of a sequence.
LEMMA RemoveAtType ==
    ASSUME NEW S, NEW s \in Seq(S), NEW i \in 1 .. Len(s)
    PROVE  RemoveAt(s, i) \in Seq(S)
  <1>1. Len(s) \in Nat /\ i \in Nat /\ \A k \in 1 .. Len(s) : s[k] \in S
    BY LenProperties, ElementOfSeq
  <1>2. SubSeq(s, 1, i - 1) \in Seq(S)
    <2>1. i - 1 \in Int /\ \A k \in 1 .. i - 1 : s[k] \in S
      BY <1>1
    <2> QED
      BY <2>1, SubSeqProperties
  <1>3. SubSeq(s, i + 1, Len(s)) \in Seq(S)
    <2>1. i + 1 \in Int /\ Len(s) \in Int /\ \A k \in i + 1 .. Len(s) : s[k] \in S
      BY <1>1
    <2> QED
      BY <2>1, SubSeqProperties
  <1> QED
    BY <1>2, <1>3, ConcatFacts DEF RemoveAt

LEMMA RetractTypes ==
    ASSUME ControlOK, SolveRetract
    PROVE  ControlOK'
  <1> DEFINE g    == Current.g
             base == IF db = <<>> THEN store ELSE UndoTo(store, call.mark)
             try  == [i \in 1 .. Len(db) |-> Unify(Arg(Current), Inst(db[i].arg, fresh + i), base)]
             hits == {i \in 1 .. Len(db) : db[i].pred = g.pred /\ db[i].body = <<>> /\ try[i].ok}
  <1>1. /\ call.goals # <<>> /\ call.mark \in Nat /\ fresh \in Nat /\ store.len \in Nat
        /\ db \in Seq(Clauses) /\ stack \in Seq(Frames) /\ Len(db) \in Nat
    BY RunningFacts, LenProperties DEF SolveRetract
  <1>2. base.len \in Nat
    BY <1>1, UndoToLength
  <1>3. \A i \in 1 .. Len(db) : try[i].st.len \in Nat
    BY <1>2, UnifyLength
  <1>4. Error(Throw(PermissionError)) \in Results
    BY ProgramsAssumption, ResultTypes DEF Terms
  <1>5. CASE g.pred \notin Dynamic
    <2>1. Return(Error(Throw(PermissionError))) /\ UNCHANGED <<world, fresh, barriers, store, stack, leaked>>
      BY <1>5 DEF SolveRetract
    <2> QED
      BY <1>1, <1>4, <2>1, ReturnType, ControlStep DEF ControlOK, world
  <1>6. CASE g.pred \in Dynamic /\ hits = {}
    <2>1. /\ Return(Fail) /\ UNCHANGED <<world, barriers, stack, leaked>>
          /\ store' = base /\ fresh' = fresh + Len(db)
      BY <1>6 DEF SolveRetract
    <2>2. store'.len \in Nat /\ fresh' \in Nat
      BY <1>1, <1>2, <2>1
    <2> QED
      BY <1>1, <2>1, <2>2, ResultTypes, ReturnType, ControlStep DEF ControlOK, world
  <1>7. CASE g.pred \in Dynamic /\ hits # {}
    <2>1. PICK i \in hits : /\ store' = try[i].st /\ fresh' = fresh + i /\ db' = RemoveAt(db, i)
                            /\ Continue(store'.len)
      BY <1>7 DEF SolveRetract
    <2>2. i \in 1 .. Len(db)
      OBVIOUS
    <2>3. store'.len \in Nat /\ fresh' \in Nat /\ db' \in Seq(Clauses)
      BY <1>1, <1>3, <2>1, <2>2, RemoveAtType
    <2>4. UNCHANGED <<barriers, stack, leaked>>
      BY DEF SolveRetract
    <2> QED
      BY <1>1, <2>1, <2>3, <2>4, ContinueType, ControlStep DEF ControlOK
  <1> QED
    BY <1>5, <1>6, <1>7
LEMMA ExecuteTypes ==
    ASSUME ControlOK, Execute
    PROVE  ControlOK'
  <1>1. CASE SolveTrue
    <2>1. stack' \in Seq(Frames) /\ pc' = "call" /\ call' \in Calls /\ ret' \in Results
      BY <1>1, RunningFacts, ContinueType DEF SolveTrue
    <2> QED
      BY <1>1, <2>1, ControlMoves DEF SolveTrue
  <1>2. CASE SolveFail
    BY <1>2, RunningFacts, ResultTypes, ReturnType, ControlMoves DEF SolveFail
  <1>3. CASE SolveAnd
    <2>1. Current \in Instances /\ Current.g.op = "and" /\ Rest \in Seq(Instances)
      BY <1>3, RunningFacts DEF SolveAnd
    <2>2. <<Branch(Current, Current.g.left), Branch(Current, Current.g.right)>> \o Rest
            \in Seq(Instances)
      BY <2>1, SubgoalTypes, BranchTypes, ShortSequences, ConcatFacts
    <2>3. stack' \in Seq(Frames) /\ pc' = "call" /\ call' \in Calls /\ ret' \in Results
      BY <1>3, <2>2, RunningFacts, ResumeType DEF SolveAnd
    <2> QED
      BY <1>3, <2>3, ControlMoves DEF SolveAnd
  <1>4. CASE SolveThrow
    <2>1. /\ Current \in Instances /\ Current.g.op = "throw" /\ fresh \in Nat
          /\ stack \in Seq(Frames)
      BY <1>4, RunningFacts DEF SolveThrow
    <2>2. Arg(Current) \in Terms
      BY <2>1, SubgoalTypes, InstType DEF Arg
    <2>3. fresh' \in Nat /\ Error(Throw(CopyOut(Arg(Current), store, fresh'))) \in Results
      BY <1>4, <2>1, <2>2, CopyOutType, ResultTypes DEF SolveThrow
    <2> QED
      BY <1>4, <2>1, <2>3, ReturnType, ControlStep DEF SolveThrow, ControlOK, world
  <1> QED
    BY <1>1, <1>2, <1>3, <1>4, PushTypes, EqTypes, AssertTypes, RetractTypes DEF Execute

-----------------------------------------------------------------------------
(* The frames. *)

\* A frame was popped and its activation goes on.
LEMMA ContinueFrameType ==
    ASSUME NEW f \in Frames, NEW gs \in Seq(Instances), NEW m \in Nat, ContinueFrame(f, gs, m)
    PROVE  pc' = "call" /\ call' \in Calls /\ ret' \in Results
  <1>1. gs \o f.rest \in Seq(Instances) /\ f.depth + 1 \in Nat /\ f.emit \in Nat
    BY FrameFields, ConcatFacts
  <1> QED
    BY <1>1, ResumeType DEF ContinueFrame

LEMMA PopAndReturnType ==
    ASSUME ControlOK, stack # <<>>, NEW r \in Results, PopAndReturn(r)
    PROVE  stack' \in Seq(Frames) /\ pc' = "return" /\ call' \in Calls /\ ret' \in Results
  BY TopTypes, ReturnType DEF PopAndReturn

\* The parts of a result.
LEMMA ResultFields ==
    ASSUME NEW r \in Results
    PROVE  /\ r.err \in Errors /\ r.commit \in Nat
           /\ Error(r.err) \in Results
           /\ Result(Escapes(r), 0, NoErr) \in Results
           /\ Captured(r) \in Seq(Results)
  <1>0. NoErr \in Errors
    BY DEF Errors
  <1>1. r.err \in Errors /\ r.commit \in Nat
    <2>1. CASE r \in [stop : BOOLEAN, commit : Nat, err : {NoErr}]
      <3>1. r.err = NoErr /\ r.commit \in Nat
        BY <2>1
      <3> QED
        BY <1>0, <3>1
    <2>2. CASE r \in [stop : {FALSE}, commit : {0}, err : Errors]
      BY <2>2
    <2> QED
      BY <2>1, <2>2 DEF Results
  <1>2. Escapes(r) \in BOOLEAN
    BY DEF Escapes, Results
  <1> QED
    BY <1>1, <1>2, ResultTypes, ShortSequences DEF Captured

\* A frame returned: what its action starts from.
LEMMA ReturnedFacts ==
    ASSUME ControlOK, NEW k, Returned(k)
    PROVE  /\ stack # <<>> /\ Top \in Frames /\ Top.kind = k /\ Popped \in Seq(Frames)
           /\ ret \in Results /\ Error(ret.err) \in Results /\ Fail \in Results
           /\ Top.goal \in Instances /\ Top.mark \in Nat /\ Top.base \in Nat /\ store.len \in Nat
           /\ <<>> \in Seq(Instances) /\ FitsGoal(Top)
  BY TopTypes, FrameFields, ResultFields, ResultTypes, ShortSequences DEF Returned, ControlOK

\* A frame that pops leaves the database and the counters alone.
LEMMA PopStep ==
    ASSUME ControlOK, UNCHANGED <<world, fresh, barriers>>, store'.len \in Nat, leaked' \in BOOLEAN,
           stack' \in Seq(Frames), pc' \in {"call", "return"}, call' \in Calls, ret' \in Results
    PROVE  ControlOK'
  BY ControlStep DEF ControlOK, world

LEMMA TryClauseTypes ==
    ASSUME ControlOK, TryClause
    PROVE  ControlOK'
  <1> DEFINE c    == Head(Top.clauses)
             base == UndoTo(store, Top.mark)
             u    == Unify(Arg(Top.goal), Inst(c.arg, fresh'), base)
             f    == [Top EXCEPT !.clauses = Tail(@)]
  <1>1. /\ stack \in Seq(Frames) /\ stack # <<>> /\ Top \in Frames /\ Top.kind = "loop"
        /\ Top.clauses # <<>> /\ Top.clauses \in Seq(Clauses) /\ Top.mark \in Nat
        /\ fresh \in Nat /\ barriers \in Nat /\ leaked \in BOOLEAN /\ db \in Seq(Clauses)
    BY TopTypes, FrameFields DEF TryClause, Trying, ControlOK
  <1>2. c \in Clauses /\ Tail(Top.clauses) \in Seq(Clauses)
    BY <1>1, NonEmptyFacts
  <1>3. f \in Frames /\ f.kind = "loop" /\ f.bar \in Nat
    <2>1. f \in Records
      BY <1>1, <1>2 DEF Frames, Records
    <2>2. f.kind = Top.kind /\ f.goal = Top.goal
      BY <1>1 DEF Frames, Records
    <2> QED
      BY <1>1, <2>1, <2>2, FrameFields DEF Frames, FitsGoal, Records
  <1>4. fresh' = fresh + 1 /\ fresh' \in Nat /\ stack' = Append(Popped, f)
    BY <1>1 DEF TryClause
  <1>5. stack' \in Seq(Frames) /\ stack' # <<>> /\ Top' = f
    <2>1. stack' \in Seq(Frames) /\ Len(stack') = Len(stack) /\ stack'[Len(stack)] = f
      BY <1>1, <1>3, <1>4, ReplaceTopFacts DEF Popped
    <2>2. Len(stack) >= 1
      BY <1>1, NonEmptyFacts
    <2> QED
      BY <2>1, <2>2 DEF Top
  <1>6. base.len \in Nat /\ u.st.len \in Nat
    BY <1>1, UndoToLength, UnifyLength
  <1>7. UNCHANGED <<input, world, barriers, out, cancelled, leaked>>
    BY DEF TryClause
  <1>8. CASE c.pred = Top.goal.g.pred /\ u.ok
    <2>1. store' = u.st /\ ContinueFrame(f, Body(c, fresh', f.bar), u.st.len)
      BY <1>8 DEF TryClause
    <2>2. Body(c, fresh', f.bar) \in Seq(Instances)
      BY <1>2, <1>3, <1>4, BodyType
    <2>3. pc' = "call" /\ call' \in Calls /\ ret' \in Results
      BY <1>3, <1>6, <2>1, <2>2, ContinueFrameType
    <2> QED
      BY <1>1, <1>4, <1>5, <1>6, <1>7, <2>1, <2>3 DEF ControlOK, world
  <1>9. CASE ~(c.pred = Top.goal.g.pred /\ u.ok)
    <2>1. store' = base /\ UNCHANGED <<pc, call, ret>>
      BY <1>9 DEF TryClause
    <2>2. pc' = "try"
      BY <2>1 DEF TryClause, Trying
    <2> QED
      BY <1>1, <1>3, <1>4, <1>5, <1>6, <1>7, <2>1, <2>2 DEF ControlOK, world
  <1> QED
    BY <1>8, <1>9
LEMMA LoopTypes ==
    ASSUME ControlOK, LoopExhausted \/ LoopReturn
    PROVE  ControlOK'
  <1>1. CASE LoopExhausted
    <2>1. stack # <<>> /\ Top \in Frames /\ Top.mark \in Nat /\ Fail \in Results /\ leaked \in BOOLEAN
      BY <1>1, TopTypes, FrameFields, ResultTypes DEF LoopExhausted, ControlOK
    <2>2. store'.len \in Nat
      BY <1>1, <2>1, UndoToLength DEF LoopExhausted
    <2>3. PopAndReturn(Fail)
      BY <1>1 DEF LoopExhausted, PopAndReturn
    <2> QED
      BY <1>1, <2>1, <2>2, <2>3, PopAndReturnType, PopStep DEF LoopExhausted
  <1>2. CASE LoopReturn /\ Escapes(ret)
    <2>1. stack # <<>> /\ Top \in Frames /\ ret \in Results
      BY <1>2, ReturnedFacts DEF LoopReturn
    <2>2. LoopResult(Top, ret) \in Results
      BY <2>1, ResultFields, ResultTypes DEF LoopResult
    <2>3. PopAndReturn(LoopResult(Top, ret))
      BY <1>2 DEF LoopReturn
    <2> QED
      BY <1>2, <2>1, <2>2, <2>3, PopAndReturnType, PopStep DEF LoopReturn, ControlOK
  <1>3. CASE LoopReturn /\ ~Escapes(ret)
    <2>1. pc' = "try" /\ UNCHANGED <<call, ret, stack, world, fresh, barriers, store, leaked>>
      BY <1>3 DEF LoopReturn
    <2>2. stack # <<>> /\ Top.kind = "loop"
      BY <1>3, ReturnedFacts DEF LoopReturn
    <2>3. Top' = Top
      BY <2>1 DEF Top
    <2> QED
      BY <2>1, <2>2, <2>3 DEF ControlOK, world
  <1> QED
    BY <1>1, <1>2, <1>3

LEMMA CutOrTypes ==
    ASSUME ControlOK, CutReturn \/ OrReturn
    PROVE  ControlOK'
  <1>1. CASE CutReturn
    <2>1. /\ stack # <<>> /\ ret \in Results /\ Commit(Top.bar) \in Results
          /\ store.len \in Nat /\ leaked \in BOOLEAN
      BY <1>1, ReturnedFacts, FrameFields, ResultTypes DEF CutReturn, ControlOK
    <2>2. PICK r \in Results : PopAndReturn(r)
      BY <1>1, <2>1 DEF CutReturn
    <2> QED
      BY <1>1, <2>1, <2>2, PopAndReturnType, PopStep DEF CutReturn
  <1>2. CASE OrReturn /\ Escapes(ret)
    <2>1. stack # <<>> /\ ret \in Results /\ store.len \in Nat /\ leaked \in BOOLEAN
      BY <1>2, ReturnedFacts DEF OrReturn, ControlOK
    <2>2. PopAndReturn(ret) /\ UNCHANGED store
      BY <1>2 DEF OrReturn
    <2> QED
      BY <1>2, <2>1, <2>2, PopAndReturnType, PopStep DEF OrReturn
  <1>3. CASE OrReturn /\ ~Escapes(ret)
    <2>1. /\ stack # <<>> /\ Top \in Frames /\ Top.kind = "or" /\ Popped \in Seq(Frames)
          /\ Top.goal \in Instances /\ Top.mark \in Nat /\ FitsGoal(Top) /\ leaked \in BOOLEAN
      BY <1>3, ReturnedFacts DEF OrReturn, ControlOK
    <2>2. Top.goal.g.right \in Goals
      <3>1. Top.goal.g.op = "or"
        BY <2>1 DEF FitsGoal
      <3> QED
        BY <2>1, <3>1, SubgoalTypes
    <2>3. <<Branch(Top.goal, Top.goal.g.right)>> \in Seq(Instances)
      BY <2>1, <2>2, BranchTypes, ShortSequences
    <2>4. /\ store' = UndoTo(store, Top.mark) /\ stack' = Popped
          /\ ContinueFrame(Top, <<Branch(Top.goal, Top.goal.g.right)>>, Top.mark)
      BY <1>3 DEF OrReturn
    <2>5. store'.len \in Nat
      BY <2>1, <2>4, UndoToLength
    <2>6. pc' = "call" /\ call' \in Calls /\ ret' \in Results
      BY <2>1, <2>3, <2>4, ContinueFrameType
    <2> QED
      BY <1>3, <2>1, <2>4, <2>5, <2>6, PopStep DEF OrReturn
  <1> QED
    BY <1>1, <1>2, <1>3

LEMMA CondTypes ==
    ASSUME ControlOK, CondReturn
    PROVE  ControlOK'
  <1> DEFINE f == Top
             g == f.goal.g
  <1>1. /\ stack # <<>> /\ f \in Frames /\ f.kind = "cond" /\ Popped \in Seq(Frames)
        /\ f.goal \in Instances /\ f.mark \in Nat /\ FitsGoal(f) /\ f.found \in Seq(Nat)
        /\ Error(ret.err) \in Results /\ Fail \in Results /\ store.len \in Nat /\ leaked \in BOOLEAN
    BY ReturnedFacts, FrameFields DEF CondReturn, ControlOK
  <1>2. Then(g) \in Goals /\ (g.op # "then" => g.right \in Goals)
    <2>1. g \in Goals /\ (g.op = "then" \/ IsIte(g))
      BY <1>1, SubgoalTypes DEF FitsGoal
    <2> QED
      BY <2>1, IteTypes
  <1>3. UNCHANGED <<world, fresh, barriers, store>> /\ leaked' \in BOOLEAN
    BY <1>1 DEF CondReturn
  <1>4. CASE \E r \in Results : PopAndReturn(r)
    BY <1>1, <1>3, <1>4, PopAndReturnType, PopStep
  <1>5. CASE /\ f.found # <<>> /\ stack' = Popped
             /\ ContinueFrame(f, <<Branch(f.goal, Then(g))>>, Head(f.found))
    <2>1. Head(f.found) \in Nat
      BY <1>1, <1>5, NonEmptyFacts
    <2>2. <<Branch(f.goal, Then(g))>> \in Seq(Instances)
      BY <1>1, <1>2, BranchTypes, ShortSequences
    <2>3. pc' = "call" /\ call' \in Calls /\ ret' \in Results
      BY <1>1, <1>5, <2>1, <2>2, ContinueFrameType
    <2> QED
      BY <1>1, <1>3, <1>5, <2>3, PopStep
  <1>6. CASE /\ g.op # "then" /\ stack' = Popped
             /\ ContinueFrame(f, <<Branch(f.goal, g.right)>>, f.mark)
    <2>1. <<Branch(f.goal, g.right)>> \in Seq(Instances)
      BY <1>1, <1>2, <1>6, BranchTypes, ShortSequences
    <2>2. pc' = "call" /\ call' \in Calls /\ ret' \in Results
      BY <1>1, <1>6, <2>1, ContinueFrameType
    <2> QED
      BY <1>1, <1>3, <1>6, <2>2, PopStep
  <1> QED
    BY <1>1, <1>4, <1>5, <1>6 DEF CondReturn
LEMMA ProbeTypes ==
    ASSUME ControlOK, NotReturn \/ OnceReturn
    PROVE  ControlOK'
  <1>1. /\ stack # <<>> /\ Top \in Frames /\ Popped \in Seq(Frames) /\ Top.mark \in Nat
        /\ Top.base \in Nat /\ Top.found \in Seq(Nat) /\ Error(ret.err) \in Results
        /\ Fail \in Results /\ store.len \in Nat /\ leaked \in BOOLEAN /\ <<>> \in Seq(Instances)
    BY ReturnedFacts, FrameFields DEF NotReturn, OnceReturn, ControlOK
  <1>2. UNCHANGED <<world, fresh, barriers, leaked>> /\ store'.len \in Nat
    BY <1>1, UndoToLength DEF NotReturn, OnceReturn
  <1>3. \/ \E r \in Results : PopAndReturn(r)
        \/ stack' = Popped /\ \E m \in Nat : ContinueFrame(Top, <<>>, m)
    BY <1>1, NonEmptyFacts DEF NotReturn, OnceReturn
  <1>4. CASE \E r \in Results : PopAndReturn(r)
    BY <1>1, <1>2, <1>4, PopAndReturnType, PopStep
  <1>5. CASE stack' = Popped /\ \E m \in Nat : ContinueFrame(Top, <<>>, m)
    <2>1. pc' = "call" /\ call' \in Calls /\ ret' \in Results
      BY <1>1, <1>5, ContinueFrameType
    <2> QED
      BY <1>1, <1>2, <1>5, <2>1, PopStep
  <1> QED
    BY <1>3, <1>4, <1>5

LEMMA FindallTypes ==
    ASSUME ControlOK, FindallReturn
    PROVE  ControlOK'
  <1> DEFINE base == UndoTo(store, Top.base)
             u    == Unify(Arg(Top.goal), [list |-> Top.items], base)
  <1>1. /\ stack # <<>> /\ Top \in Frames /\ Popped \in Seq(Frames) /\ Top.base \in Nat
        /\ Error(ret.err) \in Results /\ Fail \in Results /\ leaked \in BOOLEAN
        /\ <<>> \in Seq(Instances)
    BY ReturnedFacts DEF FindallReturn, ControlOK
  <1>2. base.len \in Nat /\ u.st.len \in Nat
    BY <1>1, UndoToLength, UnifyLength
  <1>3. UNCHANGED <<world, fresh, barriers, leaked>> /\ store'.len \in Nat
    BY <1>2 DEF FindallReturn
  <1>4. \/ \E r \in Results : PopAndReturn(r)
        \/ stack' = Popped /\ ContinueFrame(Top, <<>>, u.st.len)
    BY <1>1 DEF FindallReturn
  <1>5. CASE \E r \in Results : PopAndReturn(r)
    BY <1>1, <1>3, <1>5, PopAndReturnType, PopStep
  <1>6. CASE stack' = Popped /\ ContinueFrame(Top, <<>>, u.st.len)
    <2>1. pc' = "call" /\ call' \in Calls /\ ret' \in Results
      BY <1>1, <1>2, <1>6, ContinueFrameType
    <2> QED
      BY <1>1, <1>3, <1>6, <2>1, PopStep
  <1> QED
    BY <1>4, <1>5, <1>6

LEMMA CatchTypes ==
    ASSUME ControlOK, CatchReturn
    PROVE  ControlOK'
  <1> DEFINE f    == Top
             base == UndoTo(store, f.mark)
             u    == Unify(Arg(f.goal), Ball(ret.err), base)
             gs   == <<Opaque(f.goal, f.goal.g.right)>>
  <1>1. /\ stack # <<>> /\ f \in Frames /\ f.kind = "catch" /\ Popped \in Seq(Frames)
        /\ f.goal \in Instances /\ f.mark \in Nat /\ FitsGoal(f) /\ f.cont \in Seq(Results)
        /\ ret \in Results /\ store.len \in Nat /\ leaked \in BOOLEAN
    BY ReturnedFacts, FrameFields DEF CatchReturn, ControlOK
  <1>2. gs \in Seq(Instances)
    <2>1. f.goal.g.op = "catch"
      BY <1>1 DEF FitsGoal
    <2> QED
      BY <1>1, <2>1, SubgoalTypes, BranchTypes, ShortSequences
  <1>3. base.len \in Nat /\ u.st.len \in Nat
    BY <1>1, UndoToLength, UnifyLength
  <1>4. UNCHANGED <<world, fresh, barriers, leaked>> /\ store'.len \in Nat
    BY <1>1, <1>3 DEF CatchReturn
  <1>5. \/ \E r \in Results : PopAndReturn(r)
        \/ stack' = Popped /\ ContinueFrame(f, gs, u.st.len)
    BY <1>1, NonEmptyFacts DEF CatchReturn
  <1>6. CASE \E r \in Results : PopAndReturn(r)
    BY <1>1, <1>4, <1>6, PopAndReturnType, PopStep
  <1>7. CASE stack' = Popped /\ ContinueFrame(f, gs, u.st.len)
    <2>1. pc' = "call" /\ call' \in Calls /\ ret' \in Results
      BY <1>1, <1>2, <1>3, <1>7, ContinueFrameType
    <2> QED
      BY <1>1, <1>4, <1>7, <2>1, PopStep
  <1> QED
    BY <1>5, <1>6, <1>7

\* The frame of a continuation knows the catch it belongs to.
LEMMA OwnerFacts ==
    ASSUME ControlOK, EmitOK, Returned("cont")
    PROVE  /\ Len(stack) \in Levels /\ Top = stack[Len(stack)]
           /\ Top.owner \in 1 .. Len(stack) - 1 /\ Top.owner \in Levels
           /\ stack[Top.owner].kind = "catch"
  <1>1. stack # <<>> /\ Top.kind = "cont" /\ Len(stack) \in Nat /\ Len(stack) >= 1
    BY TopTypes DEF Returned
  <1>2. Len(stack) \in Levels /\ Top = stack[Len(stack)]
    BY <1>1 DEF Levels, Top
  <1>3. Top.owner \in 1 .. Len(stack) - 1 /\ stack[Top.owner].kind = "catch"
    BY <1>1, <1>2 DEF EmitOK
  <1> QED
    BY <1>1, <1>2, <1>3 DEF Levels

LEMMA ContTypes ==
    ASSUME ControlOK, EmitOK, ContReturn
    PROVE  ControlOK'
  <1> DEFINE o == Top.owner
  <1>1. /\ stack # <<>> /\ Popped \in Seq(Frames) /\ ret \in Results
        /\ store.len \in Nat /\ leaked \in BOOLEAN
        /\ Captured(ret) \in Seq(Results) /\ Result(Escapes(ret), 0, NoErr) \in Results
    BY ReturnedFacts, ResultFields DEF ContReturn, ControlOK
  <1>2. o \in 1 .. Len(Popped) /\ Popped[o] \in Frames
    <2>1. o \in 1 .. Len(stack) - 1
      BY OwnerFacts DEF ContReturn
    <2>2. Len(Popped) = Len(stack) - 1
      BY <1>1, TopTypes
    <2> QED
      BY <1>1, <2>1, <2>2, ElementOfSeq
  <1>3. [Popped[o] EXCEPT !.cont = Captured(ret)] \in Frames
    BY <1>1, <1>2 DEF Frames, Records, FitsGoal
  <1>4. stack' = [Popped EXCEPT ![o] = [Popped[o] EXCEPT !.cont = Captured(ret)]]
    BY DEF ContReturn
  <1>5. stack' \in Seq(Frames)
    BY <1>1, <1>2, <1>3, <1>4, ExceptSeq
  <1> QED
    BY <1>1, <1>5, ReturnType, PopStep DEF ContReturn

LEMMA FinishTypes ==
    ASSUME ControlOK, Finish
    PROVE  ControlOK'
  BY DEF ControlOK, Finish, EmptyStore

\* Every step of the machine keeps the types of its control state.
LEMMA ControlPreserved ==
    ASSUME ControlOK, EmitOK, [Next]_vars
    PROVE  ControlOK'
  <1>1. CASE Cancel \/ Terminated \/ UNCHANGED vars
    <2>1. UNCHANGED <<db, fresh, barriers, store, pc, call, ret, stack, leaked>>
      BY <1>1 DEF Cancel, Terminated, vars, world, control
    <2> QED
      BY <2>1 DEF ControlOK, Top
  <1>2. CASE Unwind
    BY <1>2, TryClauseTypes, LoopTypes, CutOrTypes, CondTypes, ProbeTypes, FindallTypes, CatchTypes,
       ContTypes, FinishTypes DEF Unwind
  <1> QED
    BY <1>1, <1>2, EnterTypes, ExecuteTypes DEF Next, Step

\* ... and they hold initially.
LEMMA ControlInitially == Init => ControlOK
  <1> SUFFICES ASSUME Init PROVE ControlOK
    OBVIOUS
  <1>1. query \in Seq(Goals) /\ prog \in Seq(Clauses)
    BY ProgramsAssumption DEF Init
  <1>2. Len(query) \in Nat /\ \A i \in 1 .. Len(query) : query[i] \in Goals
    BY <1>1, LenProperties, ElementOfSeq
  <1>3. [i \in 1 .. Len(query) |-> Goal(query[i], 0, 0)] \in Seq(Instances)
    <2>0. \A i \in 1 .. Len(query) : Goal(query[i], 0, 0) \in Instances
      BY <1>2, GoalType
    <2>1. [i \in 1 .. Len(query) |-> Goal(query[i], 0, 0)] \in [1 .. Len(query) -> Instances]
      BY <2>0
    <2> QED
      BY <1>2, <2>1, SeqDef
  <1>4. call \in Calls
    BY <1>3 DEF Init, Calls
  <1>5. ret \in Results
    BY ResultTypes DEF Init
  <1>6. db \in Seq(Clauses) /\ stack \in Seq(Frames) /\ store.len \in Nat
    BY <1>1, EmptySeq DEF Init, EmptyStore
  <1>7. /\ fresh = 0 /\ barriers = 0 /\ pc = "call" /\ leaked = FALSE /\ stack = <<>>
    BY DEF Init
  <1> QED
    BY <1>4, <1>5, <1>6, <1>7 DEF ControlOK
=============================================================================
