---------------------------- MODULE ClauseStore ----------------------------
(***************************************************************************)
(* The clause database of a machine (assert.go and the parts of solve.go   *)
(* that use it) at the level of Go slices.  A slice is an array of the     *)
(* heap and a length; two slices may share an array, and an append writes  *)
(* in place when the array has room.  What keeps a clause loop's view of   *)
(* the database stable while assert and retract run is that each of them   *)
(* builds a new array.                                                     *)
(***************************************************************************)
EXTENDS Naturals, Sequences

CONSTANTS
    Clause,       \* clauses
    Dynamic,      \* those of predicates declared dynamic
    Bases,        \* the base programs a machine may be built over
    Spares,       \* the room append may leave behind the elements it copies
    MaxRuns,      \* bound: runs of one machine
    MaxMutations, \* bound: mutations of one run
    MaxLoops      \* bound: clause loops on the stack

ASSUME ClausesAssumption == Dynamic \subseteq Clause /\ Bases \subseteq Seq(Clause)
ASSUME SparesAssumption  == Spares \subseteq Nat /\ Spares # {}
ASSUME MaxRunsAssumption == MaxRuns \in Nat

VARIABLES
    heap,   \* the arrays allocated so far
    base,   \* m.clauses
    active, \* a Solve is running
    run,    \* m.runClauses
    loops,  \* the clause loops of suspended solve activations, innermost last
    audit,  \* m.mutations
    kept,   \* the slice the caller last took from Mutations, and what it held
    runs    \* how often Solve was called

vars == <<heap, base, active, run, loops, audit, kept, runs>>

-----------------------------------------------------------------------------
(* Slices. *)

Nil == [arr |-> 0, len |-> 0]

Content(s) == IF s.arr = 0 THEN <<>> ELSE SubSeq(heap[s.arr].cells, 1, s.len)

\* The slice of a new array that holds xs.
New(xs) == [arr |-> Len(heap) + 1, len |-> Len(xs)]

\* Allocate that array, with room for some more.
Allocate(xs) ==
    \E spare \in Spares : heap' = Append(heap, [cells |-> xs, cap |-> Len(xs) + spare])

Room(s) == s.arr # 0 /\ s.len < heap[s.arr].cap

\* Write x behind the elements of s, over whatever an older slice left there.
InPlace(s, x) ==
    [heap EXCEPT ![s.arr].cells = SubSeq(@, 1, s.len) \o <<x>> \o SubSeq(@, s.len + 2, Len(@))]

-----------------------------------------------------------------------------
(* The audit trail shares its array from one append to the next. *)

Entry(op, c) == <<op, c>>

Init ==
    /\ \E p \in Bases : heap = <<[cells |-> p, cap |-> Len(p)]>> /\ base = [arr |-> 1, len |-> Len(p)]
    /\ active = FALSE
    /\ run = Nil /\ loops = <<>> /\ audit = Nil
    /\ kept = [slice |-> Nil, held |-> <<>>]
    /\ runs = 0

\* mutant: the audit of the last run is truncated, and its array written again
Solve_ReuseAudit ==
    /\ ~active /\ runs < MaxRuns
    /\ active' = TRUE /\ runs' = runs + 1
    /\ Allocate(Content(base)) /\ run' = New(Content(base))
    /\ audit' = [audit EXCEPT !.len = 0]
    /\ UNCHANGED <<base, loops, kept>>

\* Solve: the run works on a copy of the base program, with a new audit.
Solve ==
    /\ ~active /\ runs < MaxRuns
    /\ active' = TRUE /\ runs' = runs + 1
    /\ Allocate(Content(base)) /\ run' = New(Content(base))
    /\ audit' = Nil
    /\ UNCHANGED <<base, loops, kept>>

\* Replace the database by a new array with the clauses xs, and append an entry
\* to m.mutations: in place while its array has room, else in a new one.
Mutate(xs, entry) ==
    LET h == IF Room(audit) THEN InPlace(audit, entry) ELSE heap
        grown == Append(Content(audit), entry)
    IN  \E s1, s2 \in Spares :
        /\ active /\ audit.len < MaxMutations
        /\ run' = [arr |-> Len(h) + 1, len |-> Len(xs)]
        /\ IF Room(audit)
           THEN /\ heap' = Append(h, [cells |-> xs, cap |-> Len(xs) + s1])
                /\ audit' = [audit EXCEPT !.len = @ + 1]
           ELSE /\ heap' = h \o <<[cells |-> xs, cap |-> Len(xs) + s1],
                                  [cells |-> grown, cap |-> Len(grown) + s2]>>
                /\ audit' = [arr |-> Len(h) + 2, len |-> Len(grown)]
        /\ UNCHANGED <<base, active, loops, kept, runs>>

\* mutant: asserta is logged as assertz
Asserta_WrongEntry == \E c \in Dynamic : Mutate(<<c>> \o Content(run), Entry("assertz", c))

Asserta == \E c \in Dynamic : Mutate(<<c>> \o Content(run), Entry("asserta", c))
Assertz == \E c \in Dynamic : Mutate(Append(Content(run), c), Entry("assertz", c))

Without(xs, i) == SubSeq(xs, 1, i - 1) \o SubSeq(xs, i + 1, Len(xs))

\* mutant: the clauses behind the retracted one are moved down in place
Retract_InPlace ==
    /\ active
    /\ \E i \in 1 .. run.len :
        LET xs == Content(run) IN
        /\ xs[i] \in Dynamic
        /\ heap' = [heap EXCEPT ![run.arr].cells = Without(xs, i) \o <<xs[Len(xs)]>>]
        /\ run' = [run EXCEPT !.len = @ - 1]
    /\ UNCHANGED <<base, active, loops, audit, kept, runs>>

\* retract removes the first clause that unifies with the pattern.
Retract ==
    \E pattern \in SUBSET Dynamic \ {{}} :
        LET xs   == Content(run)
            hits == {i \in 1 .. Len(xs) : xs[i] \in pattern}
        IN  \E i \in hits : /\ \A k \in hits : i <= k
                            /\ Mutate(Without(xs, i), Entry("retract", xs[i]))

-----------------------------------------------------------------------------
(* The clause loop ranges over the slice it found. *)

Open ==
    /\ active /\ Len(loops) < MaxLoops
    /\ loops' = Append(loops, [slice |-> run, next |-> 1])
    /\ UNCHANGED <<heap, base, active, run, audit, kept, runs>>

Inner == loops[Len(loops)]

Try ==
    /\ loops # <<>> /\ Inner.next <= Inner.slice.len
    /\ loops' = [loops EXCEPT ![Len(loops)].next = @ + 1]
    /\ UNCHANGED <<heap, base, active, run, audit, kept, runs>>

\* The loop is exhausted, cut or left by a stop or an error.
Close ==
    /\ loops # <<>>
    /\ loops' = SubSeq(loops, 1, Len(loops) - 1)
    /\ UNCHANGED <<heap, base, active, run, audit, kept, runs>>

\* mutant: the run's database outlives it
Finish_KeepRun ==
    /\ active
    /\ active' = FALSE /\ loops' = <<>>
    /\ UNCHANGED <<heap, base, run, audit, kept, runs>>

\* Solve returns, and drops the run's database.
Finish ==
    /\ active
    /\ active' = FALSE /\ run' = Nil /\ loops' = <<>>
    /\ UNCHANGED <<heap, base, audit, kept, runs>>

\* The caller takes the audit of the last run.
Mutations ==
    /\ ~active
    /\ kept' = [slice |-> audit, held |-> Content(audit)]
    /\ UNCHANGED <<heap, base, active, run, loops, audit, runs>>

Next == \/ Solve \/ Asserta \/ Assertz \/ Retract \/ Open \/ Try \/ Close \/ Finish \/ Mutations

Spec == Init /\ [][Next]_vars

-----------------------------------------------------------------------------
(* Properties. *)

Slices == [arr : 0 .. Len(heap), len : Nat]

Fits(s) == s \in Slices /\ (s.arr = 0 => s.len = 0) /\ (s.arr # 0 => s.len <= Len(heap[s.arr].cells))

\* Every slice is a prefix of its array, no array outgrows its capacity, and
\* between runs nothing of a run is left (solve.go:205-215).
TypeOK ==
    /\ \A k \in 1 .. Len(heap) : Len(heap[k].cells) <= heap[k].cap
    /\ Fits(base) /\ Fits(run) /\ Fits(audit) /\ Fits(kept.slice)
    /\ \A k \in 1 .. Len(loops) :
         Fits(loops[k].slice) /\ loops[k].next \in 1 .. loops[k].slice.len + 1
    /\ active \in BOOLEAN /\ runs \in 0 .. MaxRuns
    /\ ~active => run = Nil /\ loops = <<>>

\* What a clause loop has still to try.
View(l) == SubSeq(Content(l.slice), l.next, l.slice.len)

\* The database with Go's slices is one with plain values: mutations never
\* reach the base program, another run or a loop already in progress (assert.go:
\* 3-6 and 42-45, solve.go:207-212).
Values == INSTANCE LogicalUpdate WITH
    base <- Content(base), db <- Content(run), log <- Content(audit),
    views <- [k \in 1 .. Len(loops) |-> View(loops[k])]

LogicalUpdateView == Values!Spec

\* What one entry of the audit does to a database.
FirstOf(xs, c) == CHOOSE i \in 1 .. Len(xs) : xs[i] = c /\ \A k \in 1 .. i - 1 : xs[k] # c

Redo(xs, e) ==
    IF e[1] = "asserta" THEN <<e[2]>> \o xs
    ELSE IF e[1] = "assertz" THEN Append(xs, e[2])
    ELSE Without(xs, FirstOf(xs, e[2]))

\* Replaying the audit over the base program gives the run's database: nothing
\* changes it without an entry, and the entries are in order (solve.go:109-113,
\* 190-193).
AuditReplays ==
    active =>
        LET log == Content(audit)
            redo[n \in 0 .. Len(log)] == IF n = 0 THEN Content(base) ELSE Redo(redo[n - 1], log[n])
        IN  Content(run) = redo[Len(log)]

\* An audit the caller took stays what it was while later runs write theirs.
KeptAuditStays == Content(kept.slice) = kept.held
=============================================================================
