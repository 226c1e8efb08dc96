------------------------------- MODULE Engine -------------------------------
(***************************************************************************)
(* The resolution machine of solve.go: one run of Machine.Solve, modelled  *)
(* with the Go call stack made explicit.                                   *)
(*                                                                         *)
(* Machine.solve is recursive and continuation-passing.  Here `call' holds *)
(* the arguments of the solve activation that is about to run, `ret' the   *)
(* triple (stop, commit, err) that an activation has just returned, and    *)
(* `stack' what the suspended activations below it still have to do: a     *)
(* frame for a clause loop, for the left branch of a disjunction, for a    *)
(* cut, for a probe (\+, once, the condition of ->), for findall, for      *)
(* catch and for the continuation that catch runs from inside its goal.    *)
(* An emit closure is the index of the frame that created it; 0 is the     *)
(* collector of Solve itself.                                              *)
(*                                                                         *)
(* Terms are flat: a constant, a variable of some activation, or a list    *)
(* that findall collected.  A predicate has one argument.  A goal of a     *)
(* running activation is its text, the activation that renames its         *)
(* variables apart, and the barrier that bindCut attached to the '!'s in   *)
(* its cut-transparent positions (0 where a '!' stays unbound).            *)
(***************************************************************************)
EXTENDS Naturals, Sequences

CONSTANTS
    Names,     \* variable names that occur in programs and queries
    Consts,    \* atoms
    Goals,     \* goals that occur in programs and queries, and their subgoals
    Programs,  \* the clause sequences a machine may be built over
    Queries,   \* the goal conjunctions Solve may be called with
    Caps,      \* the values of maxSolutions (0 for all)
    Dynamic,   \* predicates that assert and retract may modify
    MaxDepth,  \* WithMaxDepth
    MayCancel, \* whether the caller may cancel the context of the run
    PermissionError \* the atom that stands for the permission_error ball

VARIABLES
    prog,      \* m.clauses
    query,     \* the goals of this Solve
    cap,       \* its maxSolutions
    db,        \* m.runClauses
    log,       \* m.mutations
    fresh,     \* m.renameCt
    barriers,  \* how many clause-loop barriers were allocated
    store,     \* m.store: the substitution and its trail
    pc,        \* "call", "try" (at the head of a clause loop), "return", "done"
    call,      \* the arguments of the solve activation about to run
    ret,       \* what the last activation returned
    stack,     \* the suspended activations, innermost last
    out,       \* the solutions emitted so far
    cancelled, \* ctx.Err() # nil
    leaked     \* history: an Else ran over bindings of its failed condition

input   == <<prog, query, cap>>
world   == <<db, log>>
control == <<pc, call, ret, stack>>
vars    == <<prog, query, cap, db, log, fresh, barriers, store, pc, call, ret,
             stack, out, cancelled, leaked>>

-----------------------------------------------------------------------------
(* Terms and the trailed substitution. *)

Vars  == [var : Names, act : Nat]
Lists == [list : Seq(Consts \cup Vars)]
Terms == Consts \cup Vars \cup Lists

\* Source terms, and the clauses of a program or of the run's database.
Templates == Names \cup Consts \cup Lists
Clauses   == [pred : STRING, arg : Templates, body : Seq(Goals)]

\* Goals have the fields their construct uses, and with a goal its subgoals.
ASSUME GoalsAssumption ==
    \A g \in Goals :
        /\ g.op \in {"and", "or", "then", "catch", "not", "once", "findall"} => g.left \in Goals
        /\ g.op \in {"and", "or", "then", "catch"} => g.right \in Goals
        /\ g.op \in {"eq", "neq", "throw", "catch", "findall", "call", "asserta", "assertz",
                     "retract"} => g.arg \in Names \cup Consts
        /\ g.op \in {"eq", "neq"} => g.arg2 \in Names \cup Consts
        /\ g.op = "findall" => g.tmpl \in Names \cup Consts
        /\ g.op \in {"asserta", "assertz"} => g.pred \in STRING

ASSUME ProgramsAssumption ==
    /\ Programs \subseteq Seq(Clauses)
    /\ Queries \subseteq Seq(Goals)
    /\ PermissionError \in Consts

\* maxSolutions is a count; 0 stands for the numbers below it too.
ASSUME CapsAssumption == Caps \subseteq Nat

\* Constants are not variables.
ASSUME ConstsAssumption == Consts \cap Vars = {}

Var(n, a) == [var |-> n, act |-> a]

\* mutant: the source term itself, not renamed
Inst_Raw(t, a) == t

\* A source term read in activation a.
Inst(t, a) == IF t \in Names THEN Var(t, a) ELSE t

\* bindStore.  The trail is the first `len' entries of a slice; what lies
\* beyond is what earlier, undone bindings left in the backing array.
EmptyStore == [m |-> <<>>, mem |-> <<>>, len |-> 0]

\* The term a variable ultimately stands for.  (The last test only gives the
\* operator its type: a store binds variables to terms.)
Walk(t, st) ==
    LET m == st.m
        w[v \in Vars] == IF v \notin DOMAIN m THEN v
                         ELSE IF m[v] \in Vars THEN w[m[v]] ELSE m[v]
    IN  IF t \in Vars /\ w[t] \in Terms THEN w[t] ELSE t

Bind(st, v, t) ==
    [m   |-> [u \in DOMAIN st.m \cup {v} |-> IF u = v THEN t ELSE st.m[u]],
     mem |-> SubSeq(st.mem, 1, st.len) \o <<v>> \o SubSeq(st.mem, st.len + 2, Len(st.mem)),
     len |-> st.len + 1]

\* mutant: the trail is cut but the substitution keeps the bindings
UndoTo_KeepBindings(st, mark) == [st EXCEPT !.len = mark]

\* mutant: one binding more is undone than were made since the handle
UndoTo_OneMore(st, mark) ==
    LET dropped == {st.mem[i] : i \in (IF mark = 0 THEN 1 ELSE mark) .. st.len}
    IN  [m   |-> [v \in DOMAIN st.m \ dropped |-> st.m[v]],
         mem |-> st.mem,
         len |-> mark]

\* undoTo: the variables recorded after mark are deleted, whatever they were
\* bound to, and the trail is resliced; a mark beyond its length would bring
\* stale entries back.
UndoTo(st, mark) ==
    LET dropped == {st.mem[i] : i \in (mark + 1) .. st.len}
    IN  [m   |-> [v \in DOMAIN st.m \ dropped |-> st.m[v]],
         mem |-> st.mem,
         len |-> mark]

\* On flat terms a unification makes at most one binding.
Unify(s, t, st) ==
    LET x == Walk(s, st)
        y == Walk(t, st)
    IN  IF x = y THEN [ok |-> TRUE, st |-> st]
        ELSE IF x \in Vars THEN [ok |-> TRUE, st |-> Bind(st, x, y)]
        ELSE IF y \in Vars THEN [ok |-> TRUE, st |-> Bind(st, y, x)]
        ELSE [ok |-> FALSE, st |-> st]

\* copyOut: the resolved term, a variable left free renamed to activation n.
\* (The variables inside a collected list are copies already.)
CopyOut(t, st, n) ==
    LET x == Walk(t, st) IN IF x \in Vars THEN Var(x.var, n) ELSE x

-----------------------------------------------------------------------------
(* Goals of a running activation. *)

Goal(g, a, b) == [g |-> g, act |-> a, bar |-> b]
Arg(gi)       == Inst(gi.g.arg, gi.act)

\* mutant: a '!' in a branch of a control construct stays unbound
Branch_Opaque(gi, g) == Goal(g, gi.act, 0)

\* A branch of a control construct that bindCut descends into...
Branch(gi, g) == Goal(g, gi.act, gi.bar)
\* ... and an argument it does not: a '!' in there stays unbound.
Opaque(gi, g) == Goal(g, gi.act, 0)

IsIte(g)   == g.op = "or" /\ g.left.op = "then"
Cond(g)    == IF g.op = "then" THEN g.left ELSE g.left.left
Then(g)    == IF g.op = "then" THEN g.right ELSE g.left.right

\* The body of clause c for activation a: renamed apart, its cuts bound to b.
Body(c, a, b) == [i \in 1 .. Len(c.body) |-> Goal(c.body[i], a, b)]

-----------------------------------------------------------------------------
(* What solve returns, and the frames that wait for it. *)

NoErr      == <<>>
Throw(t)   == <<"throw", t>>
Depth      == <<"depth">>
Interrupt  == <<"cancelled">>

Result(s, b, e) == [stop |-> s, commit |-> b, err |-> e]
Fail      == Result(FALSE, 0, NoErr)
Stop      == Result(TRUE, 0, NoErr)
Error(e)  == Result(FALSE, 0, e)
Commit(b) == Result(FALSE, b, NoErr)

NoCall == [goals |-> <<>>, mark |-> 0, depth |-> 0, emit |-> 0]

Current == Head(call.goals)
Rest    == Tail(call.goals)

\* The frame of kind k for the current goal: the arguments of its activation,
\* the trail length it found and the fields its kind will use.
Frame(k) ==
    [kind |-> k, goal |-> Current, rest |-> Rest, mark |-> call.mark,
     depth |-> call.depth, emit |-> call.emit, base |-> store.len,
     found |-> <<>>, items |-> <<>>, clauses |-> <<>>, bar |-> 0,
     owner |-> 0, cont |-> <<>>]

Top      == stack[Len(stack)]
Popped   == SubSeq(stack, 1, Len(stack) - 1)
Push(f)  == stack' = Append(stack, f)

\* Enter solve / return from it.
Resume(goals, mark, depth, emit) ==
    /\ pc' = "call"
    /\ call' = [goals |-> goals, mark |-> mark, depth |-> depth, emit |-> emit]
    /\ ret' = Fail

Return(r) == pc' = "return" /\ call' = NoCall /\ ret' = r

\* The tail call solve(rest, s, depth + 1, emit) of most constructs.
Continue(mark) == Resume(Rest, mark, call.depth + 1, call.emit)

\* ... and the same from a frame that has finished its own part.
ContinueFrame(f, goals, mark) == Resume(goals \o f.rest, mark, f.depth + 1, f.emit)

-----------------------------------------------------------------------------
(* The entry of solve. *)

Init ==
    /\ prog \in Programs
    /\ query \in Queries
    /\ cap \in Caps
    /\ db = prog
    /\ log = <<>>
    /\ fresh = 0
    /\ barriers = 0
    /\ store = EmptyStore
    /\ pc = "call"
    /\ call = [goals |-> [i \in 1 .. Len(query) |-> Goal(query[i], 0, 0)],
               mark |-> 0, depth |-> 0, emit |-> 0]
    /\ ret = Fail
    /\ stack = <<>>
    /\ out = <<>>
    /\ cancelled = FALSE
    /\ leaked = FALSE

\* The caller's context may be cancelled at any moment of the run.
Cancel ==
    /\ MayCancel /\ ~cancelled /\ pc # "done"
    /\ cancelled' = TRUE
    /\ UNCHANGED <<input, world, fresh, barriers, store, control, out, leaked>>

Interrupted ==
    /\ pc = "call" /\ cancelled
    /\ Return(Error(Interrupt))
    /\ UNCHANGED <<input, world, fresh, barriers, store, stack, out, cancelled, leaked>>

Emitting == pc = "call" /\ ~cancelled /\ call.goals = <<>>

\* Solve's collector: record the query variables, stop at maxSolutions.
EmitAnswer ==
    /\ Emitting /\ call.emit = 0
    /\ out' = Append(out, [n \in Names |-> Walk(Var(n, 0), store)])
    /\ Return(Result(cap > 0 /\ Len(out') >= cap, 0, NoErr))
    /\ UNCHANGED <<input, world, fresh, barriers, store, stack, cancelled, leaked>>

\* mutant: the probe does not stop at its first solution
EmitFirst_GoOn ==
    /\ Emitting /\ call.emit > 0
    /\ stack[call.emit].kind \in {"not", "once", "cond"}
    /\ stack' = [stack EXCEPT ![call.emit].found = <<call.mark>>]
    /\ Return(Fail)
    /\ UNCHANGED <<input, world, fresh, barriers, store, out, cancelled, leaked>>

\* firstSol's closure: keep the handle, stop at the first solution.
EmitFirst ==
    /\ Emitting /\ call.emit > 0
    /\ stack[call.emit].kind \in {"not", "once", "cond"}
    /\ stack' = [stack EXCEPT ![call.emit].found = <<call.mark>>]
    /\ Return(Stop)
    /\ UNCHANGED <<input, world, fresh, barriers, store, out, cancelled, leaked>>

\* mutant: the copy does not take a new number
EmitCollected_SameNumber ==
    /\ Emitting /\ call.emit > 0
    /\ stack[call.emit].kind = "findall"
    /\ LET f == stack[call.emit]
           t == CopyOut(Inst(f.goal.g.tmpl, f.goal.act), store, fresh + 1)
       IN  /\ t \in Consts \cup Vars
           /\ stack' = [stack EXCEPT ![call.emit].items = Append(@, t)]
    /\ Return(Fail)
    /\ UNCHANGED <<input, world, fresh, barriers, store, out, cancelled, leaked>>

\* collectAll's closure: copy the template out and ask for more.  (A bound of
\* the model: the copies are constants and variables, no list is collected into
\* a list.  Module Prover has the terms for that.)
EmitCollected ==
    /\ Emitting /\ call.emit > 0
    /\ stack[call.emit].kind = "findall"
    /\ LET f == stack[call.emit]
           t == CopyOut(Inst(f.goal.g.tmpl, f.goal.act), store, fresh + 1)
       IN  /\ t \in Consts \cup Vars
           /\ stack' = [stack EXCEPT ![call.emit].items = Append(@, t)]
    /\ fresh' = fresh + 1
    /\ Return(Fail)
    /\ UNCHANGED <<input, world, barriers, store, out, cancelled, leaked>>

\* solveCatch's closure: run the continuation of catch from inside its goal.
EmitContinuation ==
    /\ Emitting /\ call.emit > 0
    /\ stack[call.emit].kind = "catch"
    /\ LET f == stack[call.emit] IN
       /\ Push([f EXCEPT !.kind = "cont", !.owner = call.emit,
                         !.mark = call.mark, !.base = store.len])
       /\ Resume(f.rest, call.mark, f.depth + 1, f.emit)
    /\ UNCHANGED <<input, world, fresh, barriers, store, out, cancelled, leaked>>

DepthExceeded ==
    /\ pc = "call" /\ ~cancelled /\ call.goals # <<>> /\ call.depth > MaxDepth
    /\ Return(Error(Depth))
    /\ UNCHANGED <<input, world, fresh, barriers, store, stack, out, cancelled, leaked>>

-----------------------------------------------------------------------------
(* One action per construct of solve's switch. *)

Running(ops) ==
    /\ pc = "call" /\ ~cancelled /\ call.goals # <<>> /\ call.depth <= MaxDepth
    /\ Current.g.op \in ops

\* true, and a '!' that no clause activation bound.
SolveTrue ==
    /\ Running({"true", "cut"})
    /\ Current.g.op = "cut" => Current.bar = 0
    /\ Continue(call.mark)
    /\ UNCHANGED <<input, world, fresh, barriers, store, stack, out, cancelled, leaked>>

SolveFail ==
    /\ Running({"fail"})
    /\ Return(Fail)
    /\ UNCHANGED <<input, world, fresh, barriers, store, stack, out, cancelled, leaked>>

SolveCut ==
    /\ Running({"cut"}) /\ Current.bar # 0
    /\ Push([Frame("cut") EXCEPT !.bar = Current.bar])
    /\ Continue(call.mark)
    /\ UNCHANGED <<input, world, fresh, barriers, store, out, cancelled, leaked>>

SolveAnd ==
    /\ Running({"and"})
    /\ Resume(<<Branch(Current, Current.g.left), Branch(Current, Current.g.right)>> \o Rest,
              call.mark, call.depth + 1, call.emit)
    /\ UNCHANGED <<input, world, fresh, barriers, store, stack, out, cancelled, leaked>>

SolveOr ==
    /\ Running({"or"}) /\ ~IsIte(Current.g)
    /\ Push(Frame("or"))
    /\ Resume(<<Branch(Current, Current.g.left)>> \o Rest,
              call.mark, call.depth + 1, call.emit)
    /\ UNCHANGED <<input, world, fresh, barriers, store, out, cancelled, leaked>>

\* solveITE: probe the condition.
SolveIte ==
    /\ Running({"or", "then"}) /\ (Current.g.op = "or" => IsIte(Current.g))
    /\ Push(Frame("cond"))
    /\ Resume(<<Branch(Current, Cond(Current.g))>>, call.mark, call.depth + 1, Len(stack) + 1)
    /\ UNCHANGED <<input, world, fresh, barriers, store, out, cancelled, leaked>>

\* \+ (also not/1), once/1, findall/3 and catch/3 solve their goal on its own,
\* with a collector of their own.
SolveInner ==
    /\ Running({"not", "once", "findall", "catch"})
    /\ Push(Frame(Current.g.op))
    /\ Resume(<<Opaque(Current, Current.g.left)>>, call.mark, call.depth + 1, Len(stack) + 1)
    /\ UNCHANGED <<input, world, fresh, barriers, store, out, cancelled, leaked>>

SolveThrow ==
    /\ Running({"throw"})
    /\ fresh' = fresh + 1
    /\ Return(Error(Throw(CopyOut(Arg(Current), store, fresh'))))
    /\ UNCHANGED <<input, world, barriers, store, stack, out, cancelled, leaked>>

SolveEq ==
    /\ Running({"eq"})
    /\ LET u == Unify(Arg(Current), Inst(Current.g.arg2, Current.act), store) IN
       /\ store' = u.st
       /\ IF u.ok THEN Continue(u.st.len) ELSE Return(Fail)
    /\ UNCHANGED <<input, world, fresh, barriers, stack, out, cancelled, leaked>>

\* \=: when the terms do unify the goal fails and their bindings stay behind.
SolveNeq ==
    /\ Running({"neq"})
    /\ LET u == Unify(Arg(Current), Inst(Current.g.arg2, Current.act), store) IN
       /\ store' = u.st
       /\ IF u.ok THEN Return(Fail) ELSE Continue(call.mark)
    /\ UNCHANGED <<input, world, fresh, barriers, stack, out, cancelled, leaked>>

\* A user predicate: a clause loop over the clauses of this moment.
SolveCall ==
    /\ Running({"call"})
    /\ barriers' = barriers + 1
    /\ Push([Frame("loop") EXCEPT !.clauses = db, !.bar = barriers + 1])
    /\ pc' = "try" /\ call' = NoCall /\ ret' = Fail
    /\ UNCHANGED <<input, world, fresh, store, out, cancelled, leaked>>

-----------------------------------------------------------------------------
(* assert/retract on facts of one predicate (assert.go). *)

\* A stored clause keeps a free variable as a name of its own.
Stored(t) == IF t \in Vars THEN t.var ELSE t
Fact(p, t) == [pred |-> p, arg |-> t, body |-> <<>>]

\* mutant: the clauses before the retracted one are lost
RemoveAt_NoPrefix(s, i) == SubSeq(s, i + 1, Len(s))

RemoveAt(s, i) == SubSeq(s, 1, i - 1) \o SubSeq(s, i + 1, Len(s))

SolveAssert ==
    /\ Running({"asserta", "assertz"})
    /\ fresh' = fresh + 1
    /\ LET g == Current.g
           c == Fact(g.pred, Stored(CopyOut(Arg(Current), store, fresh')))
       IN  IF g.pred \notin Dynamic
           THEN /\ Return(Error(Throw(PermissionError)))
                /\ UNCHANGED world
           ELSE /\ db' = IF g.op = "asserta" THEN <<c>> \o db ELSE Append(db, c)
                /\ log' = Append(log, [op |-> g.op, clause |-> c])
                /\ Continue(call.mark)
    /\ UNCHANGED <<input, barriers, store, stack, out, cancelled, leaked>>

\* retract scans the database; every clause it tries is renamed apart, after
\* the trail was reset to the handle it was given.  The code resolves the pattern
\* before that reset, which differs only where an Else has leaked bindings above
\* the handle; and it logs the renamed clause, here the clause as it is stored.
SolveRetract ==
    /\ Running({"retract"})
    /\ LET g    == Current.g
           base == IF db = <<>> THEN store ELSE UndoTo(store, call.mark)
           try  == [i \in 1 .. Len(db) |-> Unify(Arg(Current), Inst(db[i].arg, fresh + i), base)]
           hits == {i \in 1 .. Len(db) : db[i].pred = g.pred /\ db[i].body = <<>> /\ try[i].ok}
       IN  IF g.pred \notin Dynamic
           THEN /\ Return(Error(Throw(PermissionError)))
                /\ UNCHANGED <<world, fresh, store>>
           ELSE IF hits = {}
           THEN /\ store' = base
                /\ fresh' = fresh + Len(db)
                /\ Return(Fail)
                /\ UNCHANGED world
           ELSE \E i \in hits :
                /\ \A j \in hits : i <= j
                /\ store' = try[i].st
                /\ fresh' = fresh + i
                /\ db' = RemoveAt(db, i)
                /\ log' = Append(log, [op |-> "retract", clause |-> db[i]])
                /\ Continue(store'.len)
    /\ UNCHANGED <<input, barriers, stack, out, cancelled, leaked>>

-----------------------------------------------------------------------------
(* The clause loop. *)

Trying == pc = "try" /\ Top.clauses # <<>>

\* mutant: a clause is tried over the bindings that the one before left
TryClause_NoUndo ==
    /\ Trying
    /\ fresh' = fresh + 1
    /\ LET c == Head(Top.clauses)
           u == Unify(Arg(Top.goal), Inst(c.arg, fresh'), store)
           f == [Top EXCEPT !.clauses = Tail(@)]
       IN  /\ stack' = Append(Popped, f)
           /\ IF c.pred = Top.goal.g.pred /\ u.ok
              THEN /\ store' = u.st
                   /\ ContinueFrame(f, Body(c, fresh', f.bar), u.st.len)
              ELSE UNCHANGED <<store, pc, call, ret>>
    /\ UNCHANGED <<input, world, barriers, out, cancelled, leaked>>

\* Reset the trail, rename the next clause apart, unify its head; on success
\* run its body, with this loop's barrier in its cuts, before the rest.
TryClause ==
    /\ Trying
    /\ fresh' = fresh + 1
    /\ LET c    == Head(Top.clauses)
           base == UndoTo(store, Top.mark)
           u    == Unify(Arg(Top.goal), Inst(c.arg, fresh'), base)
           f    == [Top EXCEPT !.clauses = Tail(@)]
       IN  /\ stack' = Append(Popped, f)
           /\ IF c.pred = Top.goal.g.pred /\ u.ok
              THEN /\ store' = u.st
                   /\ ContinueFrame(f, Body(c, fresh', f.bar), u.st.len)
              ELSE store' = base /\ UNCHANGED <<pc, call, ret>>
    /\ UNCHANGED <<input, world, barriers, out, cancelled, leaked>>

\* mutant: the exhausted loop is never left
LoopExhausted_Stay ==
    /\ pc = "try" /\ Top.clauses = <<>>
    /\ store' = UndoTo(store, Top.mark)
    /\ UNCHANGED <<input, world, fresh, barriers, control, out, cancelled, leaked>>

LoopExhausted ==
    /\ pc = "try" /\ Top.clauses = <<>>
    /\ store' = UndoTo(store, Top.mark)
    /\ stack' = Popped
    /\ Return(Fail)
    /\ UNCHANGED <<input, world, fresh, barriers, out, cancelled, leaked>>

-----------------------------------------------------------------------------
(* An activation returned: the frame below takes the result. *)

Returned(k) == pc = "return" /\ stack # <<>> /\ Top.kind = k

\* The result cuts the search short: a hard failure, the solution cap, a cut.
Escapes(r) == r.err # NoErr \/ r.stop \/ r.commit # 0

PopAndReturn(r) == stack' = Popped /\ Return(r)

\* mutant: the loop passes its own commit on instead of consuming it
LoopResult_PassOwnCommit(f, r) ==
    IF r.err # NoErr THEN Error(r.err)
    ELSE IF r.stop THEN Stop ELSE Commit(r.commit)

\* mutant: the loop takes the stop of a full run for a failure
LoopResult_DropStop(f, r) ==
    IF r.err # NoErr THEN Error(r.err)
    ELSE IF r.commit = f.bar THEN Fail ELSE Commit(r.commit)

\* What a clause loop makes of a result that escapes one of its clauses.
LoopResult(f, r) ==
    IF r.err # NoErr THEN Error(r.err)
    ELSE IF r.stop THEN Stop
    ELSE IF r.commit = f.bar THEN Fail ELSE Commit(r.commit)

LoopReturn ==
    /\ Returned("loop")
    /\ IF Escapes(ret) THEN PopAndReturn(LoopResult(Top, ret))
       ELSE pc' = "try" /\ UNCHANGED <<call, ret, stack>>
    /\ UNCHANGED <<input, world, fresh, barriers, store, out, cancelled, leaked>>

\* The continuation of a cut is exhausted: commit to its barrier.
CutReturn ==
    /\ Returned("cut")
    /\ PopAndReturn(IF Escapes(ret) THEN ret ELSE Commit(Top.bar))
    /\ UNCHANGED <<input, world, fresh, barriers, store, out, cancelled, leaked>>

\* mutant: the right branch starts with the bindings of the left one
OrReturn_NoUndo ==
    /\ Returned("or")
    /\ IF Escapes(ret)
       THEN PopAndReturn(ret)
       ELSE /\ stack' = Popped
            /\ ContinueFrame(Top, <<Branch(Top.goal, Top.goal.g.right)>>, Top.mark)
    /\ UNCHANGED <<input, world, fresh, barriers, store, out, cancelled, leaked>>

\* The left branch of a disjunction failed: undo it and run the right one.
OrReturn ==
    /\ Returned("or")
    /\ IF Escapes(ret)
       THEN PopAndReturn(ret) /\ UNCHANGED store
       ELSE /\ store' = UndoTo(store, Top.mark)
            /\ stack' = Popped
            /\ ContinueFrame(Top, <<Branch(Top.goal, Top.goal.g.right)>>, Top.mark)
    /\ UNCHANGED <<input, world, fresh, barriers, out, cancelled, leaked>>

\* solveITE after its condition.  Else runs with the handle s of the
\* if-then-else, but nothing undoes what the failed condition left bound.
CondReturn ==
    /\ Returned("cond")
    /\ LET f == Top
           g == f.goal.g
       IN  IF ret.err # NoErr
           THEN PopAndReturn(Error(ret.err)) /\ UNCHANGED leaked
           ELSE IF f.found # <<>>
           THEN /\ stack' = Popped
                /\ ContinueFrame(f, <<Branch(f.goal, Then(g))>>, Head(f.found))
                /\ UNCHANGED leaked
           ELSE IF g.op = "then"
           THEN PopAndReturn(Fail) /\ UNCHANGED leaked
           ELSE /\ stack' = Popped
                /\ ContinueFrame(f, <<Branch(f.goal, g.right)>>, f.mark)
                /\ leaked' = (leaked \/ store.len > f.mark)
    /\ UNCHANGED <<input, world, fresh, barriers, store, out, cancelled>>

\* mutant: the probe of \+ is not undone
NotReturn_KeepProbe ==
    /\ Returned("not")
    /\ store' = store
    /\ LET f == Top IN
       IF ret.err # NoErr THEN PopAndReturn(Error(ret.err))
       ELSE IF f.found # <<>> THEN PopAndReturn(Fail)
       ELSE stack' = Popped /\ ContinueFrame(f, <<>>, f.mark)
    /\ UNCHANGED <<input, world, fresh, barriers, out, cancelled, leaked>>

\* mutant: \+ takes an error in its goal for a failure
NotReturn_ErrorIsFailure ==
    /\ Returned("not")
    /\ store' = UndoTo(store, Top.base)
    /\ LET f == Top IN
       IF f.found # <<>> THEN PopAndReturn(Fail)
       ELSE stack' = Popped /\ ContinueFrame(f, <<>>, f.mark)
    /\ UNCHANGED <<input, world, fresh, barriers, out, cancelled, leaked>>

\* \+ binds nothing: the probe's bindings go before its outcome is looked at.
NotReturn ==
    /\ Returned("not")
    /\ store' = UndoTo(store, Top.base)
    /\ LET f == Top IN
       IF ret.err # NoErr THEN PopAndReturn(Error(ret.err))
       ELSE IF f.found # <<>> THEN PopAndReturn(Fail)
       ELSE stack' = Popped /\ ContinueFrame(f, <<>>, f.mark)
    /\ UNCHANGED <<input, world, fresh, barriers, out, cancelled, leaked>>

\* mutant: once forgets the bindings of its solution, as \+ does
OnceReturn_Forget ==
    /\ Returned("once")
    /\ store' = UndoTo(store, Top.base)
    /\ LET f == Top IN
       IF ret.err # NoErr THEN PopAndReturn(Error(ret.err))
       ELSE IF f.found = <<>> THEN PopAndReturn(Fail)
       ELSE stack' = Popped /\ ContinueFrame(f, <<>>, f.mark)
    /\ UNCHANGED <<input, world, fresh, barriers, out, cancelled, leaked>>

OnceReturn ==
    /\ Returned("once")
    /\ LET f == Top IN
       IF ret.err # NoErr THEN PopAndReturn(Error(ret.err))
       ELSE IF f.found = <<>> THEN PopAndReturn(Fail)
       ELSE stack' = Popped /\ ContinueFrame(f, <<>>, Head(f.found))
    /\ UNCHANGED <<input, world, fresh, barriers, store, out, cancelled, leaked>>

\* collectAll undoes what its goal left bound; then the list is unified.
FindallReturn ==
    /\ Returned("findall")
    /\ LET f    == Top
           base == UndoTo(store, f.base)
           u    == Unify(Arg(f.goal), [list |-> f.items], base)
       IN  IF ret.err # NoErr
           THEN PopAndReturn(Error(ret.err)) /\ store' = base
           ELSE /\ store' = u.st
                /\ IF u.ok THEN stack' = Popped /\ ContinueFrame(f, <<>>, u.st.len)
                   ELSE PopAndReturn(Fail)
    /\ UNCHANGED <<input, world, fresh, barriers, out, cancelled, leaked>>

Catchable(e) == e # NoErr /\ e[1] = "throw"

\* The ball that catch tries its catcher on.
Ball(e) == e[Len(e)]

\* catch: what escaped from the continuation passes; a ball from the goal is
\* unified with the catcher at the bindings of the catch point.
CatchReturn ==
    /\ Returned("catch")
    /\ LET f    == Top
           base == UndoTo(store, f.mark)
           u    == Unify(Arg(f.goal), Ball(ret.err), base)
       IN  IF f.cont # <<>>
           THEN PopAndReturn(Head(f.cont)) /\ UNCHANGED store
           ELSE IF Catchable(ret.err)
           THEN /\ store' = u.st
                /\ IF u.ok
                   THEN /\ stack' = Popped
                        /\ ContinueFrame(f, <<Opaque(f.goal, f.goal.g.right)>>, u.st.len)
                   ELSE PopAndReturn(ret)
           ELSE PopAndReturn(ret) /\ UNCHANGED store
    /\ UNCHANGED <<input, world, fresh, barriers, out, cancelled, leaked>>

\* mutant: only stops and cuts of the continuation are remembered
Captured_NoErrors(r) == IF Escapes(r) /\ r.err = NoErr THEN <<r>> ELSE <<>>

\* What the closure of catch remembers of its continuation's outcome.
Captured(r) == IF Escapes(r) THEN <<r>> ELSE <<>>

\* The continuation of catch returned into the closure that ran it.
ContReturn ==
    /\ Returned("cont")
    /\ stack' = [Popped EXCEPT ![Top.owner].cont = Captured(ret)]
    /\ Return(Result(Escapes(ret), 0, NoErr))
    /\ UNCHANGED <<input, world, fresh, barriers, store, out, cancelled, leaked>>

\* Solve's deferred clean-up: the run's database and store are dropped.
Finish ==
    /\ pc = "return" /\ stack = <<>>
    /\ pc' = "done"
    /\ db' = <<>> /\ store' = EmptyStore
    /\ UNCHANGED <<input, log, fresh, barriers, call, ret, stack, out, cancelled, leaked>>

Terminated == pc = "done" /\ UNCHANGED vars

-----------------------------------------------------------------------------
Enter   == \/ Interrupted \/ EmitAnswer \/ EmitFirst \/ EmitCollected
           \/ EmitContinuation \/ DepthExceeded
Execute == \/ SolveTrue \/ SolveFail \/ SolveCut \/ SolveAnd \/ SolveOr \/ SolveIte
           \/ SolveInner \/ SolveThrow \/ SolveEq \/ SolveNeq \/ SolveCall
           \/ SolveAssert \/ SolveRetract
Unwind  == \/ TryClause \/ LoopExhausted \/ LoopReturn \/ CutReturn \/ OrReturn
           \/ CondReturn \/ NotReturn \/ OnceReturn \/ FindallReturn \/ CatchReturn
           \/ ContReturn \/ Finish

Step == Enter \/ Execute \/ Unwind
Next == Step \/ Cancel \/ Terminated

\* The run is one goroutine: it takes its next step as long as it has one.
Spec == Init /\ [][Next]_vars /\ WF_vars(Step)
=============================================================================
