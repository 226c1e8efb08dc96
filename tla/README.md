# A TLA+ verification of tln-prolog

tln-prolog is a Prolog engine in Go: a reader, a term representation, a
resolution machine with a trailed substitution, a clause database that programs
may change while they run, tabling under the well-founded semantics, and a
boundary that projects answers to facts. This directory holds TLA+ modules
translated from that code, TLC configurations that check them on small
instances, and theorems about them that TLAPS checks for every instance.

Line numbers below are those of the repository's files.

## The system

| part | state it keeps | operations | what makes it correct |
|---|---|---|---|
| terms and writer (`term.go`) | none | build, print | printed terms read back |
| trail store (`unify.go`) | the map of bindings and the trail | `bind`, `mark`, `undoTo`, `walk`, `Unify` | the trail lists exactly the bound variables; undoing to a handle gives back the substitution the handle stood for |
| resolution machine (`solve.go`) | the Go call stack, the store, the rename counter | `Solve`, `solve` and one case of it per construct, `solveOr`, `solveITE`, `solveCatch`, `firstSol` | answers are those the program means, in order; stops, cuts and errors end exactly where they should; a search that was cut off says so; every search ends |
| clause database (`assert.go`) | `runClauses`, `mutations` | `assert`, `asserta`, `retract`, the clause loop | a loop in progress keeps the view it started with; nothing outlives the run; the audit explains the database |
| tabling (`tabling.go`) | the sets of the alternating fixpoint, the universe, `lastModel` | `computeWFS`, `phi`, `tpStep`, `negHolds`, `answerTabled` | the model is the well-founded one; the query sees that model; grounding ends |
| all-solutions (`meta.go`) | collected items | `findall`, `bagof`, `setof`, the standard order | copies share nothing with the live goal; groups are complete and sorted |
| builtins (`builtins.go`), arithmetic | none | one function each | each computes its relation and binds nothing when it fails |
| prelude (`prelude.go`) | the clauses compiled once | list predicates in Prolog | compiled once, shadowed by user definitions |
| reader (`reader.go`) | the token stream | `Parse`, `ParseTerm` | never loses a clause silently; recovers after an error |
| fact projection, factory (`facts.go`, `factory.go`) | none | `AtomFacts`, `Instantiate`, `Call` | one fact per answer |

How they meet. `Solve` copies the base program into `runClauses`, creates a
store, and if any predicate is tabled runs `computeWFS`, which calls `solve` on
the bodies of the tabled clauses again and again. Then it calls `solve` on the
query. `solve` is recursive in continuation-passing style: a goal's solutions
are not returned but handed to the `emit` closure at the bottom of the
recursion, and what comes back up is a triple (stop, commit, err). All
activations share one mutable store; a `Bindings` value is only a trail length
into it. `assert` and `retract` replace the slice that clause loops further down
the stack are ranging over.

What is hard about it. Nothing here is concurrent (a `Machine` must not be
shared between goroutines), nothing is persisted and no messages are sent. The
difficulty is all in control: stops, cuts and exceptions travel through frames
of every kind, `catch` runs its continuation from *inside* its goal, handles are
valid only while everybody undoes in stack order, cancellation may strike
between any two activations, the database changes under a running loop, and the
fixpoint computation switches the meaning of a goal by fields of the machine.
`PROJECT.json` lists these as hazards, each at its line.

## The modules

### Engine: the resolution machine

`Engine.tla` is one run of `Solve` with the Go call stack made explicit.

* `call` holds the arguments of the `solve` activation about to run, `ret` the
  triple an activation just returned, and `stack` the suspended activations: a
  frame for each place where the code does something *after* a recursive call
  returns (a clause loop, the left branch of a disjunction, a cut marker,
  `firstSol` on behalf of `\+`, `once` or a condition, `collectAll`,
  `solveCatch`, and the closure of `solveCatch` around its continuation). Tail
  calls need no frame.
* An `emit` closure is the index of the frame that created it, 0 for the
  collector in `Solve`; `found`, `items` and `cont` are the variables the
  closures capture.
* A barrier pointer is a number; a clause loop allocates one and `bindCut` puts it
  on every goal of the body in cut-transparent position (`Branch` and `Opaque`
  say which subgoals those are).
* The store is the map, the trail's backing array and the trail's length,
  because `undoTo` with a mark beyond the length does not fail in Go: it
  reslices entries that were undone. `UndoTo` does the same.
* There is one action per case of `solve`'s switch and one per frame kind for
  what happens when control comes back to it.

Data is reduced to what control can tell apart; module `Prover` runs the same
loop on real terms. Here terms are constants, variables and the lists `findall` collects; predicates have one argument; a
unification therefore makes at most one binding, and two lists unify only when
they are equal (in the checked programs no list holds a variable that is
compared with another). A collected copy is a constant or a variable: that no list
is collected into a list is a bound of the model, stated as a guard of
`EmitCollected`. The deterministic builtins are represented by `=/2` and
`\=/2`, which differ as they do in the code: a failed `\=` leaves its bindings
behind. The answer records every variable name instead of those of the query.

`SLD.tla` says what such a program means, without trail, handles, barriers or
stack: substitutions are values, a goal denotes a finite sequence of answers, a
cut or a ball is a flag at its end. It is the reference the answers are compared
with, and is written from the contracts in `solve.go`'s comments. `EngineInv.tla`
states the invariants, `EngineMC.tla` the program families and the comparison.

`Models.tla` is a second reading, weaker than `SLD` and of a kind that can be
reasoned about: a goal under an environment is true or false, with no order and no
control. A model of a set of clauses is any set of such judgements closed under the
clauses, read as implications, and under the meaning of each construct (`Follows`).
`!` only removes answers, so it reads as true; so does `\+`, whose success says that
nothing was found, and `assert`, which changes the program and not the answer. A list
that `findall` collected is read as far as its constants go: each is the template of
some solution. For definite programs (no constructs but conjunction, disjunction, `true`,
`fail`, equations and calls, `DefiniteGoals`) the module also reads the clauses the other
way round: in an interpretation they *support*, what is true follows by some clause from
what is true (`IsSupported`). Every model of the completion of the program is one.

What the invariants say:

* `HandlesExact`: `Bindings` behaves like the immutable substitution
  `unify.go:30-34` promises. When an activation starts, the trail's length is
  exactly its handle; handles never decrease up the stack and never exceed the
  trail, so no `undoTo` reslices. It is relative to `leaked`, a history
  variable that becomes true when the else branch of an if-then-else starts
  with bindings its condition left (see Findings).
* `TrailSound`: the trail lists the bound variables, each once.
* `StopsReachTheirProbe`: between an `emit` closure and every place that may
  call it there are only frames that hand a stop on, so the stop of a probe
  reaches that probe, and what escapes a catch's continuation reaches that
  catch. While it does, no other probe has a solution.
* `CommitsOwned`: every cut that can still run and every commit on its way up
  names exactly one clause loop below it that is not hidden by a catch
  continuation, so a commit is always consumed, and by the right loop.
* `AnswersAgree`: the answers, their order and the final ball are those of `SLD`.
* `DatabaseAudited`: the run's database is the program with the logged mutations
  applied in order, and only dynamic predicates were touched, whatever failed or
  threw afterwards.
* `RenamedApart`: no goal that can still run, binding, collected item or ball on its
  way up mentions an activation that is yet to be numbered, so what `rename` and
  `copyOut` make is new whatever was undone or thrown in between.
* `HandlesKeepTheirBindings`: no step changes the substitution that the handle of a
  waiting frame stands for, unless an else branch leaks.
* `CapEndsTheRun`: a run asked for n answers stops at the nth, and from then on only
  that stop moves.
* `AnswersTrue`: every instance of every answer is true in every model of the clauses
  the run could use (those of the program and those it asserted). This is soundness.
* `SolutionsFound`: the run of a definite program that ends by itself, with neither an
  error nor the cap reached, has emitted an answer for every environment that makes its
  query true in an interpretation the program supports. This is completeness; a query
  that fails is false in all of these, which is what `\+` takes a failure to say.
  `AnswersAgree` adds the other constructs, and the order and number of the answers.
* `HardErrorsSurface`: no construct takes the depth bound or a cancellation for a
  failure, or drops it with the continuation it escaped from.

### Prover: the library and the builtins on real terms

* `Terms.tla` has the term kinds, `Unification.tla` the trail store, `Unify` with its
  occurs check, `rename` and `copyOut` on compound terms. `Builtins.tla` has every
  deterministic builtin as one function from a goal and a store to a verdict and a
  store (a failed builtin may leave bindings, as in the code), and the standard
  order. `Prelude.tla` is the library, clause by clause.
* `Prover.tla` is `solve` again with a goal that is a term: the clause loop with its
  barrier, conjunctions, cuts, `findall`, `bagof` and `setof` with their loop over
  groups. It leaves out the constructs `Engine` has (`;`, `->`, `\+`, `once`, `catch`,
  `assert`, `retract`, the depth bound, cancellation), whose difficulty is in control and
  not in terms. A program of facts that redefines a library predicate stands for the
  user's clauses.
* `ProverMC.tla` says what the predicates mean on *ground* goals only (`Ways`: in how
  many ways a goal is proved), with sets and sequences and without unification. An
  answer stands for its ground instances, so `AnswersAreTheInstances` compares the
  number of answers a ground instance of the query matches with the number of its
  proofs. That covers soundness, completeness and repeated answers at once.
* `StoreSound`: the trail and the map agree, handles are exact, and no chain of
  bindings leads back into itself, so that `walk` and `Resolve` end.
* `CollectsAllSolutions` states `findall`, `bagof` and `setof` over the solutions of
  the inner goal: groups by the values of the free variables, in first-met or
  standard order, with repeated solutions kept or merged; a later goal that fails,
  or a result list that does not unify, costs that group only.
* `CopiesAreFresh`: no collected or copied term shares a variable with the proof that
  goes on, or with another copy.

### Factory: tool calls from text to rows

* `Reader.tla` is the tokenizer, the operator-precedence parser with its one token of
  lookahead and its unread, and `Parse`'s loop with resynchronisation, directives
  and diagnostics; one step is one `clause()`. A text is a sequence of lexemes, with
  layout as a lexeme, so that symbols which run together do so here as well.
* `Grammar.tla` says what a sentence means without parsing: a term is derived from a
  sequence of tokens by some way of splitting it.
* `Writer.tla` prints a term as lexemes with the brackets and quotes the code chooses.
* `Factory.tla` is `Call`: parse the goal, parse the program, take the answers,
  instantiate the goal with each (one step per turn of `walk`'s loop) and project
  to facts. Of `Solve` only what it promises is kept: any resolved substitutions of
  the goal's variables.
* `ReaderFollowsGrammar`: every sentence the reader starts on is read as its one
  meaning, and is an error exactly when it has none. `UnclosedCallCostsOneClause`: a
  sentence that ends where a separator of a call's arguments is due takes no other with
  it, which is what the parser's unread is for. `ReaderAdvances`: recovery moves on.
  The full promise of the repository, `OnlyOffendersAreLost` (the reader starts on every
  well-formed sentence), does not hold: see Findings.
* `BracketsSuffice`: the brackets the writer leaves out are not needed, for terms of
  infix operators and `\+` over calls, variables, integers and floats with a fraction,
  whose names are neither symbolic nor prefix operators, with layout between all
  lexemes. The full promise, `ReadsBack` (what is written is read as the same term, for
  every term), does not hold: see Findings. `RowsAnswer`: each row is the goal
  with all variables replaced at once. `CallReturns`: the call ends unless an answer
  leaves a goal variable free (see Findings).

### Tabling: the alternating fixpoint

`Tabling.tla` is `computeWFS` with the loops made explicit: one step is one
`tpStep` together with what its caller does with the result (`Grow` stays in
`phi`; `OverDone`, `NextRound`, `Converged`, `Classify` are the ends of the three
calls of `phi`). A program is its ground rules: a head and the literals that the
body consults from left to right, once resolution has gone through the
predicates that are not tabled. A literal is `pos` (answered from `posOracle`),
`neg` (`\+` of a ground tabled atom, judged by `negHolds`) or `naf` (`\+` of
anything else that depends on the atom, which `solve` probes over `posOracle`).
Abandoned runs (an error or cancellation inside a body) and repeated runs on one
machine are included, because `lastModel` survives them. `WellFounded` is the
well-founded model defined a second way, without any iteration, to compare with: the least interpretation that holds the consequences of its true and
false atoms and calls false every atom of its greatest unfounded set.

### ClauseStore: assert and retract on slices

`ClauseStore.tla` models the clause database with Go's slices: a heap of
arrays, slices as prefixes of them, `append` in place where there is room.
`LogicalUpdate.tla` is the abstract specification: values only, a loop's view is
a copy. The refinement `LogicalUpdateView` says that no mutation is visible to a
loop in progress, to the base program or to another run.

## What TLC checks

| run | module, bounds | shows |
|---|---|---|
| `control` | `EngineControl.cfg`: every construct with every inner goal of a fixed set, between three prefixes and four suffixes; the two-level family in which the construct surrounds a call whose clause has cuts; clauses that assert and retract while enumerating the same predicate; two queries, one with an outer choice point; all answers or the first two | the types, handles, trail, stops and commits of every run, the answers of programs that do not change themselves, the audit of those that do, that the answers of both follow from the clauses, and that definite programs lose no solution |
| `interrupt` | `EngineInterrupt.cfg`: depth bound 5, cancellation at any step; programs that recurse for ever through each construct | `CutOffIsSignalled`, `HardErrorsSurface`, `Termination` |
| `tabling` | `Tabling.cfg`: all programs over two atoms with one rule of at most two literals each or two rules of at most one, over three atoms with two such rules for one and one for each other, and all games on three positions; two queries on one machine, iteration budget 2 (smaller than the longest chain), abandonment at any round | the bounds of the alternation, that the result is the well-founded model and queries read it, that the model on record is never partial, and that grounding ends |
| `clause_store` | `ClauseStore.cfg`: two runs of up to two mutations, two nested loops, base programs of up to three clauses, one free cell behind every copied array | the refinement, the audit, the caller's kept audit |
| `terms` | `Terms.cfg`: queries in every terminating mode of `=`, `append`, `select`, `sort` and `msort` over small patterns, one or more for every other library predicate and for most builtins, conjunctions of them, some cut off after two answers; collectors and library redefinition over a program of seven facts | the answers, the store, collection and copies |
| `tool_call` | `ToolCall.cfg`: every one-lexeme edit (delete, replace, insert) of five sentences and every text of up to three lexemes, before two more clauses, with layout everywhere or none between symbols; a program of nested brackets; goals with zero to two answers over nine values | reading, recovery, brackets, rows, and that the call returns |
| `else_branch`, `tabling_naf`, `tabling_unseen`, `lost_clause`, `read_back`, `instantiate_hang` | violations | see Findings |

Why the bounds are enough. In `Engine`, programs are two clause activations deep,
which is the smallest depth at which a commit has to pass a loop that is not its
own and a stop has to pass both; two answers of `q` before a construct make it
run again after backtracking; two loops and a construct between them give
every ordered pair of frame kinds. The depth bound of `control` (100) is never
reached. `AnswersTrue` is checked over the atoms of the programs as values and against
the least model, which refutes an answer if any model over these values does; programs
with `findall` need lists as values and are left to the theorem. `SolutionsFound` is
checked against the same interpretation, which a definite program supports. In `Tabling`, three
atoms contain every cycle of odd and even length up
to three, with and without negation; two-literal bodies make the left-to-right
order of consultation matter. A set that grows three times meets the budget of two, so
the model of such a chain is not recorded in the run; the theorems have every budget. In
`ClauseStore`, two nested loops and two
mutations are enough for each mutation to fall between the steps of either loop,
and the spare cell makes every in-place append that Go could do happen.

In `Prover`, the universe that instances are taken from has 36 terms, of every kind and
up to lists of six elements, plus whatever was answered; the patterns put a variable at
the top, inside a compound, twice, and in a list's tail, which is where unification has
cases of its own. Modes with infinitely many answers are capped at two. In `Factory`, one
edit away from a well-formed sentence are the unclosed brackets, missing full stops,
doubled operators and misplaced commas that recovery is about; two clauses after the
edit show both the clause that may be lost and one that may not. Values include the
goal's own variables, other variables, terms over them, and numbers and atoms whose
printed forms need care; two answers show one row's bindings in the next.

Fairness. A run of `Solve` is one goroutine that keeps executing until it
returns; the specifications assume weak fairness of its steps as a whole
(`WF_vars(Step)` in `Engine` and in `Factory`; of the steps of `computeWFS` and of the query's end in
`Tabling`) and nothing of the caller: `Cancel` and `Aborted` need not happen.

`Engine`, `Tabling`, `Prover` and `Factory` end in an explicit `Terminated` stutter, so TLC's deadlock
check says that no activation gets stuck. `ClauseStore` disables it: a machine
whose runs and mutations are used up by the bounds may stop.

## Findings

* **The else branch is not undone** (`else_branch`, `solve.go:495`). `solveITE`
  continues with the handle `s` but, unlike every other alternative, without
  `undoTo(s.mark)`. A builtin that binds and whose continuation fails leaves its
  binding, so `( X = a, fail -> true ; q(X) )` only finds `q(a)`.
  `unify.go:30-34` claims the undo happens "before each alternative".
* **Negation through a predicate that is not tabled** (`tabling_naf`,
  `solve.go:309`). Such a negation is judged against the growing set, and the
  result is not the well-founded model.
* **Negating an atom grounding never met fails** (`tabling_unseen`,
  `tabling.go:175`).
* **An answer with a free variable hangs the tool call** (`instantiate_hang`,
  `facts.go:97`). `Instantiate` binds every query variable to its value; the value of a
  variable that stayed free is the variable itself, and `walk` goes round for ever
  without looking at the context. `p(X)` over the fact `p(_)` is enough.
* **A clause that breaks off takes the next one with it** (`lost_clause`,
  `reader.go:402`). When the offending token is the full stop itself, `primary` has
  consumed it and `resync` skips past the next one: `p :- q(X), . r.` loses `r`, and a stray
  full stop loses the clause after it. Only the separator in `argList` puts it back. A
  list or a bracket left open loses a clause too. `reader.go:57-63`, `reader.go:287-291` and
  `README.md:33` promise that only the offending clause is lost.
* **Different terms are written alike** (`read_back`, `term.go:192`). List elements are
  written without the brackets their priority needs, so `p([(a,b)])` is written as
  `p([a,b])`. The float `1.0` is written `1`; symbolic atoms and names of prefix operators
  are not quoted; symbolic operators next to each other run together. Tables
  (`tabling.go:125`) and facts know atoms by what is written and confuse such terms.
  `term.go:74-77` promises "canonical, read-back-correct notation".

## Observations

What the code does where the repository promises nothing else, or that no run asks about, met
while modelling.

* A cut inside an argument of `\+`, `once`, `findall` or `catch` in a clause body is bound
  to no clause (`solve.go:583-601`) and acts as true, while the comment at `solve.go:286-287`
  knows unbound cuts from the top level only. The reference of `AnswersAgree` has the code's
  meaning.
* The audit names a retracted clause by the text of its renamed copy; the model logs the
  clause as it is stored.
* Every `_` in a clause is one variable. `f()` is read as a compound of arity 0.
  Unknown directives, and lists of declarations that mix `dynamic` and `table`, are
  passed over without a diagnostic. `Call` drops all diagnostics of the program.
* `number_codes(N, [48,49])` gives 1, while `number_codes(1, [48,49])` fails; `atom_chars(X, ['1'])`
  gives an atom; `arg/3` does not enumerate; `functor/3` names its new variables `_G1`,
  `_G2`, ..., which a query may use itself. An unbound goal matches every clause head.
* `bagof` and `setof` look for free variables in the goal as written, before its
  bindings are resolved. Two solutions whose free variables stay open never share a
  group. A user who defines `reverse_/3` or `nth_gen/4` changes the library predicates
  that call them.

## What is proved

Everything below is checked by TLAPS for every value of the constants. The only
assumptions are the named ones of the modules. `Engine`: goals have the fields their
construct uses and their subgoals are goals (`GoalsAssumption`), programs and
queries are made of clauses and goals (`ProgramsAssumption`), the numbers of answers asked for are natural numbers
(`CapsAssumption`; the code treats the others as 0), constants are not
variables (`ConstsAssumption`). `Models`: the goals called definite have definite
subgoals only (`DefiniteAssumption`). `Tabling`: the atoms are finitely many, programs are
sets of rules over them, the bounds are natural numbers. `ClauseStore`: the dynamic
clauses are clauses, the base programs are sequences of them, `append` leaves some
number of free cells, the bound on runs is a natural number.

| theorem | module | run that checks the same | says |
|---|---|---|---|
| `ControlIsLinked` | `EngineProofs` | (part of `control`) | the control state keeps its types, and every closure and continuation leads to a frame on the stack |
| `StopsReachProbes` | `EngineProofs` | `control` | `StopsReachTheirProbe`, for programs and depths of any size |
| `HardErrorsReachTheEnd` | `EngineProofs` | `interrupt` | `HardErrorsSurface`: the action property, for every construct |
| `HandlesAreExact` | `EngineProofs` | `control` | `HandlesExact`: handles behave like immutable substitutions until an else branch leaks |
| `CommitsHaveOwners` | `EngineCommits` | `control` | `CommitsOwned`: every cut and every commit has exactly one loop to end at |
| `DataIsKnown` | `EngineData` | (stronger than `RenamedApart`) | the substitution has no cycle, terms mention numbered activations only, handles lie in the trail's array |
| `TypesHold` | `EngineData` | `control` | `TypeOK` of the whole machine |
| `RenamesApart` | `EngineData` | `control` | `RenamedApart` |
| `TrailListsBindings` | `EngineData` | `control` | `TrailSound`: the trail lists the bound variables, each once, until an else branch leaks |
| `LogAuditsDatabase` | `EngineData` | `control` | `DatabaseAudited`: the log replays to the database |
| `RunsEndAtTheirCap` | `EngineData` | `control` | `CapEndsTheRun`: nothing but a stop moves once the last answer is out |
| `HandlesAreSubstitutions` | `EngineSoundness` | `control` | `HandlesKeepTheirBindings`: the action property, for every construct |
| `AnswersAreConsequences` | `EngineSoundness` | `control` | `AnswersTrue`: every answer of every run is a consequence of its clauses |
| `AllSolutionsAreFound` | `EngineSoundness` | `control` | `SolutionsFound`: a definite program that ends by itself has found every solution |
| `TypeCorrect` | `TablingProofs` | `tabling` | the types of the fixpoint computation |
| `PhiNeverOvershoots` | `TablingProofs` | `tabling` | what `phi` grows stays below the least fixpoint it computes |
| `LowerBoundIsSound` | `TablingProofs` | `tabling` | the lower bound is consistent, grows, and lies below every pre-fixpoint of the double step |
| `ModelIsCorrect` | `TablingProofs` | `tabling` | the model a query reads is the alternating fixpoint |
| `ModelIsTheWellFoundedOne` | `TablingProofs` | `tabling` | `ModelIsWellFounded`: that fixpoint is the well-founded model by unfounded sets |
| `AnswersAreWellFounded` | `TablingProofs` | `tabling` | `AnswersFollowModel`: queries succeed and negate as the well-founded model says |
| `BudgetSuffices` | `TablingProofs` | `tabling` | with at most `tablingIterCap` ground atoms the budget is never met |
| `Typed` | `ClauseStoreProofs` | `clause_store` | `TypeOK`: slices lie in their arrays; between runs nothing of a run is left |
| `KeptAudit` | `ClauseStoreProofs` | `clause_store` | `KeptAuditStays`: an audit the host kept is never rewritten |
| `AuditComplete` | `ClauseStoreProofs` | `clause_store` | `AuditReplays` |
| `LogicalUpdates` | `ClauseStoreProofs` | `clause_store` | `LogicalUpdateView`: the slices implement the value-level specification |

`AnswersAreConsequences` supposes `Consts \cup Lists \subseteq Values`: an environment
may give a variable any ground term, and whatever else the domain of an interpretation
holds. The interpretations are any, not only least models. The theorems of
`TablingProofs`, `TypeCorrect` apart, suppose `PlainPrograms`: no
literal of a tabled body is `naf`. That is where the code is right; the run
`tabling_naf` shows that without it the result is not the well-founded model.

### Control

`StopsReachTheirProbe` is `EmitOK /\ PendingOK`, and
neither conjunct is inductive alone: without `ControlOK` a closure index need
not denote a frame, and without `EmitOK` a stop might meet a frame that absorbs
it. The inductive invariant is `ControlOK /\ EmitOK /\ PendingOK`.
`EngineTypes.tla` proves that every action keeps `ControlOK`, with one lemma per
group of actions. `EngineProofs.tla` restates `EmitOK` and `PendingOK` with the
stack as a parameter (`Links`, `WaitsOK`), so that one lemma serves all actions
that change the stack in the same way: push a frame, pop one, change a field of
one. The one step that is not of this shape is `ContReturn`, which pops a frame
and writes to another: it is where the notion of a *hidden* frame is needed, since
the closure that runs a catch's continuation sits above frames which that
continuation must not be able to address.

`HardErrorsSurface` is about pairs of states; besides `ControlOK` it needs that an
error is never on its way while a call or the next clause is about to run (`RetClear`).

`HandlesExact` is then inductive relative to these: whenever a frame pops and the
trail is cut to its handle, `PendingOK` says that no frame below is waiting with a
saved handle (its stop would be on its way, and a frame that undoes does not hand
stops on), and the order of the handles says that the cut keeps all of them valid.
`CommitsOwned` needs `EmitOK` for the continuation of a catch: what the catch could
cut is still visible from its continuation, because only frames above the catch
become hidden, and what the continuation commits to lies below the catch. Its part
about distinct barriers is what makes "consumed by its own loop" meaningful.

### Data

`Walk` is a recursive function, and a recursive function is only equal to its
defining equation where one exists. A substitution with a cycle has none; so
nothing about data can be proved, not even that `Walk` returns a term, before the
substitution is known to be acyclic. The invariant says it by a witness: a *rank*
for every variable, below a bound, that decreases along each binding (`Ranks`).
`Induction.tla` has induction over the natural numbers in the form this needs; the
library's version takes an operator as a parameter, which the installed provers
cannot instantiate, so it is proved from the pigeonhole principle instead. By
induction on the bound, a ranked substitution has a walk function, it is the one
`Walk` denotes, and a walk ends at a term that is not bound. `Unify` on flat terms
therefore binds a free variable to a walked term, which is exactly the shape of
extension that keeps a substitution ranked.

`DataInv` is the inductive invariant: the store is typed and ranked and mentions
numbered activations only, and so do the call, the frames and the result
(`StoreTo`, `ControlTo`). Both are stated with the counter and the array length as
parameters and are monotone in them, so a step that only raises a counter costs one
lemma. `RenamedApart` and the data half of `TypeOK` follow. `TrailSound` combines
`DataInv` with `HandlesExact`: a bind appends a variable that was free, hence not on
the trail, and an undo deletes the variables of the entries it cuts, which are no
others, since each is listed once and the handle is within the trail.

`DatabaseAudited` replays the log. An `asserta` or `assertz` entry replays by
construction; a `retract` entry names the clause that was taken, while the replay
takes the *first* equal clause, and the code takes the first that *unifies*. They
meet because an equal clause earlier in the database would have unified as well
(`TwinsUnify`), so the first that unifies has no twin before it.

`CapEndsTheRun` is inductive together with what the frames are once the last answer is
out (`Unwinding`): the closure that emitted it is Solve's own, so `EmitOK` says that
every frame hands stops on, and `PendingOK` that no catch had captured anything else.

### Soundness

`AnswersAreConsequences` is proved from the invariant `Sound`, for one interpretation `H`
that is a model. A *valuation* gives every variable of every activation a value, and it
solves a substitution when it respects each binding. `CallIn` says of the activation
about to run: under every valuation that solves the store and makes its goals true, the
goal its collector was created for is true, and for Solve's own collector the query is
(`Duty`). `FrameIn` says the same of a waiting frame, of its goal and the goals after it,
but under the substitution its *handle* stands for: when control comes back to the frame,
the store is cut to just that. A probe's saved solution and the items of a `findall` carry
claims of their own (`FoundIn`, `ItemsIn`).

Three things make it inductive. A step must not change what a waiting handle stands for,
which is `HandlesKeepTheirBindings` (`MoveDenotes` and the lemmas after it), itself a
consequence of `HandlesExact`, of `TrailSound`, and of a bind taking a free variable. A
successful `Unify` has exactly the solutions of the old store under which the two terms are
equal (`UnifySolves`), so a call, read with the clause that was tried, makes the goal true.
And renaming apart says that nobody has spoken yet of the variables of the clause that is
renamed, so a valuation read at that activation is an environment of the clause (`ClauseRule`).
For an answer the argument is run backwards: each of its instances is extended along
the bindings to a valuation that solves the store (`InstanceSolves`), which needs the
rank of `Acyclic` again. There is one lemma per construct, each saying that the reading of
`Models` follows from what the action does. The condition of an if-then-else may have
failed with bindings left; from then on nothing is claimed (`leaked`).

### Completeness

`AllSolutionsAreFound` is about definite programs: a cut, a probe, a catch or an assert
drops or changes alternatives on purpose, and what is then left to find is what `SLD`
says. Its invariant is `Complete`. Take an interpretation `H` the program supports and an
environment `e` that makes the query true in it. As long as the search has neither failed
with an error nor reached its cap, either an answer with `e` as an instance is out
(`Found`), or some valuation that has `e` as the environment of the query solves the
store and makes the goals about to run true (`GoalsReach`), or some waiting frame has
not yet tried a clause or a branch that is true under a valuation which solves the
substitution of its handle (`FrameReaches`). At the end there are no goals and no
frames, so the answer is out.

A step preserves it because what the program supports leaves it no other choice: a true
disjunction has a true branch, which runs now or is left in the frame; a true call has a
clause, which is among those the loop was given. When the loop tries that clause, the
valuation is *patched*: the variables of the new activation take the values the clause
has for them. Renaming apart makes this harmless (`DataInv`: goals and bindings mention
numbered activations only, so they keep their values, `PatchedKeeps`), and unification
cannot fail then, nor exclude the valuation (`UnifyKeeps`). When another clause is tried
first, or another branch, the solution stays with the frame, whose handle denotes the
same substitution afterwards (`HandlesKept`), and undoing to that handle gives back all
of its solutions (`UndoKeeps`). `DefiniteState` says what such a search looks like: clause
loops and disjunctions only, the database the program's, no commits, and no stop before
the cap.

### Clause database

The inductive invariant is `Shape`, where the slices are, and `Owned`, which of them
may share an array. The one array that is ever written after somebody reads it is the audit's, and only behind the
length of the audit; no slice that is still read as a database lies in it. So no
step changes the content of a slice other than those it replaces, and each step of
`ClauseStore` is the step of `LogicalUpdate` of the same name on those contents.

### Tabling

`phi` is monotone in its own set when no literal is
`naf`, so the growing set lies below every set closed under `tpStep` against the
same right-hand side; the alternation then gives bounds that close in, and at the
end of the loop the lower one is a fixpoint of the double step. The interpretation
whose true atoms are that fixpoint `T` and whose false ones are the complement of
`Phi(T)` is saturated: that complement is its greatest unfounded set (`BoundsSaturated`).
It lies below every saturated interpretation, because the true atoms of such a one
are closed under the double step and `T` is the least such set (`BoundsLeast`). So it
is `WellFounded`. The lemmas in `TablingProofs.tla` follow these sentences.

## What is only model-checked

* Liveness (`Termination`, `GroundingEnds`, `CallReturns`) and everything about
  fairness or `ENABLED`: out of the prover's reach.
* That no answer is repeated or out of order, and for programs that are not definite that
  none is missing (`AnswersAgree`; soundness is proved for all, completeness for definite
  programs), and `CutOffIsSignalled`. Both compare with the recursive reference
  `SLD`, which is a set of mutually recursive operators, and a module that reaches a
  `RECURSIVE` operator has no usable backend.
* Everything about `Reader`, `Writer`, `Factory`, `Unification`, `Builtins` and `Prover`, for
  the same reason: terms are trees of any depth there, so their operators are
  recursive, and so is every reference definition they are compared with. Induction
  over the natural numbers is proved in `Induction.tla`, over such trees it is not
  available.

## What is not modelled, and why

* The arithmetic kernel and the fact store of `tln-language`, which are not in the
  repository: `Builtins` has the arithmetic that `is/2` and the comparisons need on small
  numbers. Integer overflow, a negative arity of `functor/3` and texts of numbers
  outside a table are not inputs of the model.
* The context an error term carries; comments, line numbers and the characters of a
  lexeme in the reader; wording of diagnostics.
* `sync.Once` around the prelude's compilation: nothing in a single-threaded run can
  observe it. Two goroutines sharing a `Machine` is excluded by its contract.
* The refusal of other tool names and the registration of the factory with its host.
* Tabling and the resolution machine are composed only through the ground rules:
  a tabled goal inside `Engine` is planned. Tabling assumes that resolution
  grounds a body's literals as they are consulted.
* Go's memory use and garbage.

## Plan

What is left, in this order; the number of runs stays small, one per question.

1. **Theorems**: parts of `Prover` and `Factory` that do not look into terms: the
   handles and the trail of `Prover`'s frames, the rows of `Factory`. They need their
   recursive operators behind constants or as functions over a set of terms first.
2. **Composition**: tabled goals in `Engine` answered from the fields that
   `computeWFS` switches; the same ground programs through both modules.
3. **Arithmetic edges**: integer width in `is/2` and the number texts, once the kernel's
   source is at hand.
