------------------------------ MODULE EngineInv ------------------------------
(***************************************************************************)
(* What holds at every moment of a run of module Engine: its types, the    *)
(* discipline of the handles into the trail, and the bookkeeping of stops, *)
(* emit closures and cut barriers across the call stack.  Each part is     *)
(* model-checked (module EngineMC); the proofs are in EngineTypes,         *)
(* EngineProofs, EngineCommits, EngineData and EngineSoundness.            *)
(***************************************************************************)
EXTENDS Engine

Instances == [g : Goals, act : Nat, bar : Nat]
Errors    == {NoErr, Depth, Interrupt} \cup ({"throw"} \X Terms)
\* An error comes alone.
Results   == [stop : BOOLEAN, commit : Nat, err : {NoErr}]
             \cup [stop : {FALSE}, commit : {0}, err : Errors]
Calls     == [goals : Seq(Instances), mark : Nat, depth : Nat, emit : Nat]
Kinds     == {"loop", "or", "cut", "cond", "not", "once", "findall", "catch", "cont"}
\* A frame belongs to a goal of its construct.
FitsGoal(f) ==
    LET g == f.goal.g
    IN  \/ f.kind = "loop" /\ g.op = "call"
        \/ f.kind \in {"or", "cut", "not", "once", "findall", "catch"} /\ g.op = f.kind
        \/ f.kind = "cond" /\ (g.op = "then" \/ IsIte(g))
        \/ f.kind = "cont" /\ g.op = "catch"

Records == [kind : Kinds, goal : Instances, rest : Seq(Instances), mark : Nat,
            depth : Nat, emit : Nat, base : Nat, found : Seq(Nat), items : Seq(Consts \cup Vars),
            clauses : Seq(Clauses), bar : Nat, owner : Nat, cont : Seq(Results)]
Frames  == {f \in Records : FitsGoal(f)}

\* The types of the control state: everything but the terms in the store, in
\* the answers and in the audit log.
ControlOK ==
    /\ db \in Seq(Clauses)
    /\ fresh \in Nat
    /\ barriers \in Nat
    /\ store.len \in Nat
    /\ pc \in {"call", "try", "return", "done"}
    /\ call \in Calls
    /\ ret \in Results
    /\ stack \in Seq(Frames)
    /\ leaked \in BOOLEAN
    /\ pc = "try" => stack # <<>> /\ Top.kind = "loop"
    /\ pc = "done" => stack = <<>>

\* The data: the answers bind the query variables, the log is made of clauses,
\* the store binds variables to terms and its trail fits its backing array.
DataOK ==
    /\ \A i \in 1 .. Len(out) : out[i] \in [Names -> Terms]
    /\ \A i \in 1 .. Len(log) : log[i] \in [op : {"asserta", "assertz", "retract"}, clause : Clauses]
    /\ DOMAIN store.m \subseteq Vars
    /\ \A v \in DOMAIN store.m : store.m[v] \in Terms
    /\ store.mem \in Seq(Vars) /\ store.len <= Len(store.mem)
    /\ cancelled \in BOOLEAN

\* The machine's state has the types of the code (solve.go:74-99, 255).
TypeOK == ControlOK /\ DataOK

-----------------------------------------------------------------------------
Levels == 1 .. Len(stack)

\* Frames that hand a stop on to the frame below; the others absorb it.
Transparent == {"loop", "or", "cut", "catch", "cont"}
Probes      == {"not", "once", "cond"}
Emitters    == Probes \cup {"findall", "catch"}

\* Frame k runs the continuation of a catch from inside that catch's goal.  To
\* code above k the frames from the catch to k are hidden: no closure and no
\* barrier it uses belongs to one of them.
Hidden(e, n) == \E k \in 1 .. n : /\ stack[k].kind = "cont"
                                 /\ stack[k].owner <= e /\ e <= k

\* An emit closure e that code above level n calls: between the two there are
\* only frames that hand a stop on.
EmitterOf(e, n) ==
    /\ e <= n
    /\ e > 0 => stack[e].kind \in Emitters /\ ~Hidden(e, n)
    /\ \A j \in e + 1 .. n : stack[j].kind \in Transparent

EmitOK ==
    /\ \A i \in Levels : EmitterOf(stack[i].emit, i - 1)
    /\ \A i \in Levels : stack[i].kind = "cont" =>
         /\ stack[i].owner \in 1 .. i - 1
         /\ EmitterOf(stack[i].owner, i - 1)
         /\ stack[stack[i].owner].kind = "catch"
    /\ pc = "call" => EmitterOf(call.emit, Len(stack))

\* A probe that has its solution, and a catch whose continuation escaped, wait
\* only while that stop unwinds the frames above them, none of which absorbs it.
Pending(i) == stack[i].found # <<>> \/ stack[i].cont # <<>>

PendingOK ==
    /\ \A i \in Levels :
         /\ stack[i].found # <<>> => stack[i].kind \in Probes
         /\ stack[i].cont # <<>> => stack[i].kind = "catch" /\ Len(stack[i].cont) = 1
         /\ Pending(i) => pc = "return" /\ ret = Stop
    /\ \A i, j \in Levels : Pending(i) /\ i < j =>
         /\ stack[j].kind \in Transparent
         /\ stack[j].cont \in {<<>>, <<Stop>>}
         /\ stack[j].kind = "cont" => i < stack[j].owner

\* A stop reaches exactly the probe that asked for it, and what escapes from the
\* continuation of a catch reaches that catch (solve.go:251, 520-524, 559-563).
StopsReachTheirProbe == EmitOK /\ PendingOK

\* A run that is asked for n answers stops at the nth: from then on the machine
\* only unwinds, on that stop alone, so no construct on the stack resumes its
\* search, reports a cut or turns an error in it (solve.go:225-234, 247-255).
CapEndsTheRun ==
    cap > 0 /\ Len(out) >= cap =>
        Len(out) = cap /\ pc \in {"return", "done"} /\ ret = Stop

\* Unless an Else ran over the bindings of its condition, an activation starts
\* with the trail exactly at its handle, so the handle behaves like the
\* immutable substitution unify.go:30-34 promises; handles never decrease up
\* the stack and never lie beyond the trail, so every undoTo shortens it; and
\* the handle a probe keeps is the trail's length until it is used.
HandlesExact ==
    ~leaked =>
      /\ pc = "call" => call.mark = store.len
      /\ \A i \in Levels :
           /\ stack[i].base = stack[i].mark
           /\ stack[i].mark <= store.len
           /\ stack[i].found # <<>> => stack[i].found = <<store.len>>
      /\ \A i, j \in Levels : i <= j => stack[i].mark <= stack[j].mark

\* The substitution that a handle stands for: what the first k entries of the
\* trail are bound to.
Denotes(st, k) == [v \in DOMAIN st.m \cap {st.mem[i] : i \in 1 .. k} |-> st.m[v]]

\* As long as a frame waits its handle stands for the same substitution: no step
\* of the code above it rebinds, unbinds or reorders what it was given
\* (unify.go:30-34).
HandlesKeepTheirBindings ==
    [][~leaked' => \A i \in 1 .. Len(stack) :
          i <= Len(stack') => Denotes(store', stack[i].mark) = Denotes(store, stack[i].mark)]_vars

-----------------------------------------------------------------------------
\* Barrier b belongs to a clause loop that code above level n can still cut.
Owned(b, n) == \E i \in 1 .. n : stack[i].kind = "loop" /\ stack[i].bar = b /\ ~Hidden(i, n)

OwnedGoals(gs, n) == \A k \in DOMAIN gs : gs[k].bar # 0 => Owned(gs[k].bar, n)

\* Every cut that can still run, and every commit on its way up, names a clause
\* loop that is still on the stack below it, and only that one: a commit never
\* travels past its loop, nor up to the end of the run (solve.go:250-254, 448-462).
CommitsOwned ==
    /\ pc = "call" => OwnedGoals(call.goals, Len(stack))
    /\ pc = "return" /\ ret.commit # 0 => Owned(ret.commit, Len(stack))
    /\ \A i \in Levels :
         /\ stack[i].goal.bar # 0 => Owned(stack[i].goal.bar, i - 1)
         /\ OwnedGoals(stack[i].rest, i - 1)
         /\ stack[i].kind = "cut" => Owned(stack[i].bar, i - 1)
         /\ stack[i].cont # <<>> /\ Head(stack[i].cont).commit # 0
              => Owned(Head(stack[i].cont).commit, i - 1)
    /\ \A i, j \in Levels :
         stack[i].kind = "loop" /\ stack[j].kind = "loop" /\ i # j => stack[i].bar # stack[j].bar
    /\ \A i \in Levels : stack[i].kind = "loop" => stack[i].bar \in 1 .. barriers

-----------------------------------------------------------------------------
\* The trail lists exactly the bound variables, each once, unless an Else ran
\* over leftover bindings: undoTo deletes by name, so a name recorded twice
\* would take an older binding with it (unify.go:14-28).
TrailSound ==
    LET trail == SubSeq(store.mem, 1, store.len) IN
    ~leaked => /\ DOMAIN store.m = {trail[i] : i \in 1 .. store.len}
               /\ \A i, j \in 1 .. store.len : i # j => trail[i] # trail[j]

-----------------------------------------------------------------------------
\* Renaming apart: a variable of a goal that can still run, of a binding, of a
\* collected term or of a ball on its way up belongs to an activation that was
\* numbered before, so that the variables of the next one are new, whatever was
\* undone, stopped or thrown in between (solve.go:77, 605-610; meta.go:133).
Known(t)       == t \in Vars => t.act <= fresh
KnownGoals(gs) == \A k \in DOMAIN gs : gs[k].act <= fresh
KnownBall(r)   == Catchable(r.err) => Known(Ball(r.err))

RenamedApart ==
    /\ KnownGoals(call.goals)
    /\ KnownBall(ret)
    /\ \A v \in DOMAIN store.m : Known(v) /\ Known(store.m[v])
    /\ \A i \in Levels :
         /\ stack[i].goal.act <= fresh /\ KnownGoals(stack[i].rest)
         /\ \A k \in DOMAIN stack[i].items : Known(stack[i].items[k])
         /\ \A k \in DOMAIN stack[i].cont : KnownBall(stack[i].cont[k])

-----------------------------------------------------------------------------
\* The database a logged change leaves: retract takes the first such clause.
FirstOf(cs, c) == CHOOSE i \in DOMAIN cs : cs[i] = c /\ \A j \in 1 .. i - 1 : cs[j] # c
Without(cs, i) == [k \in 1 .. Len(cs) - 1 |-> IF k < i THEN cs[k] ELSE cs[k + 1]]
Applied(cs, e) == CASE e.op = "asserta" -> <<e.clause>> \o cs
                    [] e.op = "assertz" -> Append(cs, e.clause)
                    [] e.op = "retract" -> Without(cs, FirstOf(cs, e.clause))

Replayed(base, l) ==
    LET after[n \in 0 .. Len(l)] == IF n = 0 THEN base ELSE Applied(after[n - 1], l[n])
    IN  after[Len(l)]

\* The database of the run is the program with the logged changes applied in
\* order, and only dynamic predicates were changed: the log audits every change,
\* also those made on branches that failed or threw (assert.go:46-61, 67-88).
DatabaseAudited ==
    /\ pc # "done" => db = Replayed(prog, log)
    /\ \A i \in DOMAIN log : log[i].clause.pred \in Dynamic

-----------------------------------------------------------------------------
\* The depth bound or cancellation error on its way up, directly or kept by a
\* catch whose continuation it escaped from.
HardErrors ==
    {e \in {Depth, Interrupt} :
        ret.err = e \/ \E i \in DOMAIN stack : stack[i].cont = <<Error(e)>>}

\* No construct intercepts the depth bound or a cancellation: once such an error
\* is on its way up, it is what the run ends with (solve.go:510-511, 526-541).
HardErrorsSurface == [][HardErrors \subseteq HardErrors']_vars
=============================================================================
