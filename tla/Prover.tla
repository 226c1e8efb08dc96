------------------------------- MODULE Prover -------------------------------
(***************************************************************************)
(* Machine.Solve on real terms: the library, the deterministic builtins    *)
(* and the all-solutions builtins, run by the resolution loop.             *)
(*                                                                         *)
(* The call stack is explicit, as in module Engine, which has the other    *)
(* control constructs, the run's database, the depth bound and the         *)
(* cancellation of a run over flat terms.  Here a goal is a term, so that  *)
(* what unification, renaming and copying do to compound terms and to the  *)
(* variables in them decides every answer.                                 *)
(***************************************************************************)
EXTENDS Builtins

CONSTANT Queries    \* [program, goals, cap]: the calls of Solve

ASSUME QueriesAssumption == \A q \in Queries : {"program", "goals", "cap"} \subseteq DOMAIN q

VARIABLES
    query,  \* this call
    pc,     \* "call", "try" (in a loop over clauses or groups), "return", "done"
    call,   \* [goals, mark, emit]: the activation of solve about to run
    ret,    \* [stop, commit, err]: what the last one returned
    stack,  \* the suspended activations, innermost last
    store,  \* m.store
    ct,     \* m.renameCt
    out     \* the answers so far

control == <<pc, call, ret, stack>>
vars    == <<query, control, store, ct, out>>

Library == INSTANCE Prelude

QueryVars == UNION {VarsOf(query.goals[i]) : i \in DOMAIN query.goals}

\* NewMachine: a user's definition of a library predicate shadows it.
Database_Doubled == Library!Clauses \o query.program
Database ==
    LET defined == {Indicator(query.program[i].head) : i \in DOMAIN query.program}
    IN  SelectSeq(Library!Clauses, LAMBDA c : Indicator(c.head) \notin defined) \o query.program

\* A '!' that belongs to the clause loop at a place of the stack.
CutMarker(b) == [kind |-> "cut", barrier |-> b]

RECURSIVE BindCut(_, _)
BindCut(g, b) ==
    CASE g = AtomTerm("!") -> CutMarker(b)
      [] Is(g, ",", 2)     -> Compound(",", <<BindCut(g.args[1], b), BindCut(g.args[2], b)>>)
      [] OTHER             -> g

-----------------------------------------------------------------------------
(* Calling and returning. *)

Outcome(s, b, e) == [stop |-> s, commit |-> b, err |-> e]
Failed  == Outcome(FALSE, 0, <<>>)
NoCall  == [goals |-> <<>>, mark |-> 0, emit |-> 0]

Here(kind) == [kind |-> kind, rest |-> Tail(call.goals), mark |-> call.mark, emit |-> call.emit]
Top        == Last(stack)
Push(f)    == stack' = Append(stack, f)
Pop        == stack' = Front(stack)
SetTop(f)  == stack' = Append(Front(stack), f)

Enter(goals, mark, emit) ==
    pc' = "call" /\ call' = [goals |-> goals, mark |-> mark, emit |-> emit] /\ ret' = Failed
Return(r) == pc' = "return" /\ call' = NoCall /\ ret' = r
Loop      == pc' = "try" /\ call' = NoCall /\ ret' = Failed
Continue(mark) == Enter(Tail(call.goals), mark, call.emit)

Init ==
    /\ query \in Queries
    /\ pc = "call" /\ call = [goals |-> query.goals, mark |-> 0, emit |-> 0]
    /\ ret = Failed
    /\ stack = <<>> /\ out = <<>>
    /\ store = EmptyStore
    /\ ct = 0

Emitting == pc = "call" /\ call.goals = <<>>
Solving  == pc = "call" /\ call.goals # <<>>
Goal     == Walk(Head(call.goals), store)

EmitAnswer ==
    /\ Emitting /\ call.emit = 0
    /\ out' = Append(out, [v \in QueryVars |-> Resolve(VarTerm(v), store)])
    /\ Return([Failed EXCEPT !.stop = query.cap > 0 /\ Len(out') >= query.cap])
    /\ UNCHANGED <<query, stack, store, ct>>

EmitCollected ==
    /\ Emitting /\ call.emit > 0
    /\ ct' = ct + 1
    /\ stack' = [stack EXCEPT ![call.emit].items = Append(@, CopyOut(stack[call.emit].pair, store, ct'))]
    /\ Return(Failed)
    /\ UNCHANGED <<query, store, out>>

-----------------------------------------------------------------------------
(* One goal. *)

SolveTrue ==
    /\ Solving /\ Goal \in {AtomTerm("true"), AtomTerm("!")}
    /\ Continue(call.mark)
    /\ UNCHANGED <<query, stack, store, ct, out>>

SolveFail ==
    /\ Solving /\ Goal \in {AtomTerm("fail"), AtomTerm("false")}
    /\ Return(Failed)
    /\ UNCHANGED <<query, stack, store, ct, out>>

SolveAnd ==
    /\ Solving /\ Is(Goal, ",", 2)
    /\ Enter(Goal.args \o Tail(call.goals), call.mark, call.emit)
    /\ UNCHANGED <<query, stack, store, ct, out>>

SolveCut ==
    /\ Solving /\ Goal.kind = "cut"
    /\ Push([barrier |-> Goal.barrier] @@ Here("cut"))
    /\ Continue(call.mark)
    /\ UNCHANGED <<query, store, ct, out>>

SolveDet ==
    /\ Solving /\ IsDet(Goal)
    /\ \E r \in {Det(Goal, store, ct)} :
          /\ store' = r.store /\ ct' = r.ct
          /\ CASE r.res = "unified" -> Continue(Mark(r.store))
               [] r.res = "holds"   -> Continue(call.mark)
               [] r.res = "no"      -> Return(Failed)
               [] r.res = "throw"   -> Return([Failed EXCEPT !.err = <<r.ball>>])
    /\ UNCHANGED <<query, stack, out>>

-----------------------------------------------------------------------------
(* findall, bagof, setof. *)

Collectors == {"findall", "bagof", "setof"}

\* The goal below its V^, and the variables these quantify.
RECURSIVE PeelCaret(_)
PeelCaret(g) ==
    IF Is(g, "^", 2) THEN LET p == PeelCaret(g.args[2]) IN [p EXCEPT !.ex = @ \cup VarsOf(g.args[1])]
    ELSE [inner |-> g, ex |-> {}]

\* The variables of t other than some, in the order they are first seen in.
RECURSIVE VarSeq(_)
VarSeq(t) == CASE t.kind = "var"      -> <<t>>
               [] t.kind = "compound" -> FlattenSeq([i \in DOMAIN t.args |-> VarSeq(t.args[i])])
               [] OTHER               -> <<>>
VarsBut(t, others) ==
    LET vs   == VarSeq(t)
        kept == SelectSeq([i \in DOMAIN vs |-> i],
                          LAMBDA i : vs[i].name \notin others /\ \A j \in 1 .. i - 1 : vs[j] # vs[i])
    IN  [k \in DOMAIN kept |-> vs[kept[k]]]

\* The free variables of a goal, as a list.
Witness_NoCaret(tmpl, p) == List(VarsBut(p.inner, VarsOf(tmpl)), Nil)
Witness(tmpl, p) == List(VarsBut(p.inner, VarsOf(tmpl) \cup p.ex), Nil)

SolveCollect ==
    /\ Solving /\ Goal.kind = "compound" /\ Goal.name \in Collectors /\ Len(Goal.args) = 3
    /\ LET tmpl    == Goal.args[1]
           peeled  == PeelCaret(Goal.args[2])
           plain   == Goal.name = "findall"
           witness == Witness(tmpl, peeled)
       IN  /\ Push([pair    |-> IF plain THEN tmpl ELSE Compound("-", <<witness, tmpl>>),
                    witness |-> witness, list |-> Goal.args[3], base |-> Mark(store), items |-> <<>>]
                   @@ Here(Goal.name))
           /\ Enter(<<IF plain THEN Goal.args[2] ELSE peeled.inner>>, call.mark, Len(stack) + 1)
    /\ UNCHANGED <<query, store, ct, out>>

\* Solutions with the same witness, in the order of the first of each.
Groups(sols) ==
    LET same(i, j) == Compare(sols[i].args[1], sols[j].args[1]) = 0
        all    == [i \in DOMAIN sols |-> i]
        firsts == SelectSeq(all, LAMBDA i : \A j \in 1 .. i - 1 : ~same(j, i))
        group(i) == LET members == SelectSeq(all, LAMBDA j : same(i, j))
                    IN  [w |-> sols[i].args[1], items |-> [k \in DOMAIN members |-> sols[members[k]].args[2]]]
    IN  [k \in DOMAIN firsts |-> group(firsts[k])]

SortedGroups(groups) ==
    LET s == SortSeq(groups, LAMBDA g, h : Compare(g.w, h.w) < 0)
    IN  [k \in DOMAIN s |-> [s[k] EXCEPT !.items = SortDedup(@)]]

Collected == pc = "return" /\ stack # <<>> /\ Top.kind \in Collectors

CollectFails ==
    /\ Collected
    /\ ret.err # <<>> \/ (Top.kind # "findall" /\ Top.items = <<>>)
    /\ store' = UndoTo(store, Top.base)
    /\ Pop
    /\ Return([Failed EXCEPT !.err = ret.err])
    /\ UNCHANGED <<query, ct, out>>

FindallReturns ==
    /\ Collected /\ Top.kind = "findall" /\ ret.err = <<>>
    /\ LET r == Unify(Top.list, List(Top.items, Nil), UndoTo(store, Top.base))
       IN  /\ store' = r.store
           /\ IF r.ok THEN Enter(Top.rest, Mark(r.store), Top.emit) ELSE Return(Failed)
    /\ Pop
    /\ UNCHANGED <<query, ct, out>>

BagofReturns ==
    /\ Collected /\ Top.kind # "findall" /\ Top.items # <<>> /\ ret.err = <<>>
    /\ store' = UndoTo(store, Top.base)
    /\ LET groups == Groups(Top.items)
       IN  SetTop([Top EXCEPT !.kind = "groups",
                              !.items = IF Top.kind = "setof" THEN SortedGroups(groups) ELSE groups])
    /\ Loop
    /\ UNCHANGED <<query, ct, out>>

NextGroup_NoUndo ==
    /\ pc = "try" /\ Top.kind = "groups" /\ Top.items # <<>>
    /\ LET g == Head(Top.items)
           w == Unify(Top.witness, g.w, store)
           r == IF w.ok THEN Unify(Top.list, List(g.items, Nil), w.store) ELSE w
       IN  /\ store' = r.store
           /\ SetTop([Top EXCEPT !.items = Tail(@)])
           /\ IF r.ok THEN Enter(Top.rest, Mark(r.store), Top.emit) ELSE Loop
    /\ UNCHANGED <<query, ct, out>>

NextGroup ==
    /\ pc = "try" /\ Top.kind = "groups" /\ Top.items # <<>>
    /\ LET g == Head(Top.items)
           w == Unify(Top.witness, g.w, UndoTo(store, Top.mark))
           r == IF w.ok THEN Unify(Top.list, List(g.items, Nil), w.store) ELSE w
       IN  /\ store' = r.store
           /\ SetTop([Top EXCEPT !.items = Tail(@)])
           /\ IF r.ok THEN Enter(Top.rest, Mark(r.store), Top.emit) ELSE Loop
    /\ UNCHANGED <<query, ct, out>>

\* The bindings of the last group stay.
NoMoreGroups ==
    /\ pc = "try" /\ Top.kind = "groups" /\ Top.items = <<>>
    /\ Pop
    /\ Return(Failed)
    /\ UNCHANGED <<query, store, ct, out>>

-----------------------------------------------------------------------------
(* Clauses. *)

Known == \/ Goal \in {AtomTerm(a) : a \in {"true", "!", "fail", "false"}}
         \/ Goal.kind = "cut" \/ Is(Goal, ",", 2) \/ IsDet(Goal)
         \/ Goal.kind = "compound" /\ Goal.name \in Collectors /\ Len(Goal.args) = 3

SolveCall ==
    /\ Solving /\ ~Known
    /\ Push([goal |-> Goal, next |-> 1] @@ Here("loop"))
    /\ Loop
    /\ UNCHANGED <<query, store, ct, out>>

\* The next clause whose head unifies with the goal.  Every clause that the loop
\* passes has been renamed.
TryClause ==
    /\ pc = "try" /\ Top.kind = "loop"
    /\ \E clauses \in {Database}, clean \in {UndoTo(store, Top.mark)} :
       LET tried(k)    == ct + k - Top.next + 1
           attempt(k)  == Unify(Top.goal, Rename(clauses[k].head, tried(k)), clean)
           fits        == {k \in Top.next .. Len(clauses) : attempt(k).ok}
           body(k)     == [i \in DOMAIN clauses[k].body |->
                              BindCut(Rename(clauses[k].body[i], tried(k)), Len(stack))]
       IN  \/ /\ fits = {}
              /\ store' = clean
              /\ ct' = tried(Len(clauses))
              /\ Pop
              /\ Return(Failed)
           \/ \E k \in fits :
              /\ \A j \in fits : k <= j
              /\ store' = attempt(k).store
              /\ ct' = tried(k)
              /\ SetTop([Top EXCEPT !.next = k + 1])
              /\ Enter(body(k) \o Top.rest, Mark(store'), Top.emit)
    /\ UNCHANGED <<query, out>>

-----------------------------------------------------------------------------
(* Returning into a suspended activation. *)

Returning == pc = "return" /\ stack # <<>>
Unwinds   == ret.stop \/ ret.commit # 0 \/ ret.err # <<>>

\* An answer too many, a cut or an error: nothing more is tried here...
Unwind ==
    /\ Returning /\ Unwinds
    /\ Top.kind \notin Collectors
    /\ ~(Top.kind = "loop" /\ ret.commit = Len(stack))
    /\ Pop
    /\ Return(ret)
    /\ UNCHANGED <<query, store, ct, out>>

\* ... up to the loop the cut belongs to.
CutTaken ==
    /\ Returning /\ Top.kind = "loop" /\ ret.commit = Len(stack)
    /\ Pop
    /\ Return(Failed)
    /\ UNCHANGED <<query, store, ct, out>>

CutCommits ==
    /\ Returning /\ Top.kind = "cut" /\ ~Unwinds
    /\ Pop
    /\ Return([Failed EXCEPT !.commit = Top.barrier])
    /\ UNCHANGED <<query, store, ct, out>>

NextAlternative ==
    /\ Returning /\ Top.kind \in {"loop", "groups"} /\ ~Unwinds
    /\ Loop
    /\ UNCHANGED <<query, stack, store, ct, out>>

Finish ==
    /\ pc = "return" /\ stack = <<>>
    /\ pc' = "done"
    /\ UNCHANGED <<query, call, ret, stack, store, ct, out>>

Terminated == pc = "done" /\ UNCHANGED vars

Solve == \/ SolveTrue \/ SolveFail \/ SolveAnd \/ SolveCut \/ SolveDet \/ SolveCollect \/ SolveCall
Step  == \/ EmitAnswer \/ EmitCollected \/ Solve
         \/ CollectFails \/ FindallReturns \/ BagofReturns \/ NextGroup \/ NoMoreGroups
         \/ TryClause \/ Unwind \/ CutTaken \/ CutCommits \/ NextAlternative \/ Finish
Next  == Step \/ Terminated

Spec == Init /\ [][Next]_vars

=============================================================================
