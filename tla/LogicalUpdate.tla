--------------------------- MODULE LogicalUpdate ---------------------------
(***************************************************************************)
(* What assert.go and solve.go promise of the clause database: the logical *)
(* update view.  Values only: a clause loop works on the clauses of the    *)
(* moment it started, a run on a copy of the base program, and the audit   *)
(* log is what the run did.  Module ClauseStore implements it with Go's    *)
(* slices.                                                                 *)
(***************************************************************************)
EXTENDS Naturals, Sequences

CONSTANTS Clause, Dynamic   \* the clauses, and those assert/retract may touch

VARIABLES
    base,    \* the base program
    active,  \* a run is in progress
    db,      \* the database of the run
    views,   \* the clauses each clause loop has still to try, innermost last
    log      \* what the run, or the last run, changed

vars == <<base, active, db, views, log>>

Init == base \in Seq(Clause) /\ active = FALSE /\ db = <<>> /\ views = <<>> /\ log = <<>>

Begin == ~active /\ active' = TRUE /\ db' = base /\ views' = <<>> /\ log' = <<>> /\ UNCHANGED base

Insert == \E c \in Dynamic :
    /\ active
    /\ \/ db' = <<c>> \o db /\ log' = Append(log, <<"asserta", c>>)
       \/ db' = Append(db, c) /\ log' = Append(log, <<"assertz", c>>)
    /\ UNCHANGED <<base, active, views>>

Remove == \E i \in DOMAIN db :
    /\ active /\ db[i] \in Dynamic
    /\ db' = SubSeq(db, 1, i - 1) \o SubSeq(db, i + 1, Len(db))
    /\ log' = Append(log, <<"retract", db[i]>>)
    /\ UNCHANGED <<base, active, views>>

Open == active /\ views' = Append(views, db) /\ UNCHANGED <<base, active, db, log>>

Try == /\ views # <<>> /\ views[Len(views)] # <<>>
       /\ views' = [views EXCEPT ![Len(views)] = Tail(@)]
       /\ UNCHANGED <<base, active, db, log>>

Close == /\ views # <<>>
         /\ views' = SubSeq(views, 1, Len(views) - 1)
         /\ UNCHANGED <<base, active, db, log>>

End == active /\ active' = FALSE /\ db' = <<>> /\ views' = <<>> /\ UNCHANGED <<base, log>>

Next == Begin \/ Insert \/ Remove \/ Open \/ Try \/ Close \/ End
Spec == Init /\ [][Next]_vars
=============================================================================
