---------------------------- MODULE EngineProofs ----------------------------
(***************************************************************************)
(* Proofs of what module EngineInv states of the resolution machine, for   *)
(* every program, query and bound: where emit closures and stops lead, and *)
(* how the handles into the trail behave.                                  *)
(* An action keeps the lower part of the call stack and pushes, replaces   *)
(* or pops one frame; the lemmas say what each of these does to the links  *)
(* between frames, and the theorems go through the actions.                *)
(***************************************************************************)
EXTENDS EngineTypes

-----------------------------------------------------------------------------
(* Links between the frames of a stack st: Hidden, EmitterOf and EmitOK of   *)
(* module EngineInv, with the stack as a parameter.                          *)

HiddenIn(st, e, n) ==
    \E k \in 1 .. n : st[k].kind = "cont" /\ st[k].owner <= e /\ e <= k

EmitterIn(st, e, n) ==
    /\ e <= n
    /\ e > 0 => st[e].kind \in Emitters /\ ~HiddenIn(st, e, n)
    /\ \A j \in e + 1 .. n : st[j].kind \in Transparent

\* Frame i of st is linked to the frames below it.
Linked(st, i) ==
    /\ EmitterIn(st, st[i].emit, i - 1)
    /\ st[i].kind = "cont" => /\ st[i].owner \in 1 .. i - 1
                              /\ EmitterIn(st, st[i].owner, i - 1)
                              /\ st[st[i].owner].kind = "catch"

Links(st) == \A i \in 1 .. Len(st) : Linked(st, i)

LEMMA EmitOKIsLinks ==
    /\ EmitOK <=> Links(stack) /\ (pc = "call" => EmitterIn(stack, call.emit, Len(stack)))
    /\ EmitOK' <=> Links(stack') /\ (pc' = "call" => EmitterIn(stack', call'.emit, Len(stack')))
  <1>1. EmitOK <=> Links(stack) /\ (pc = "call" => EmitterIn(stack, call.emit, Len(stack)))
    BY DEF EmitOK, Links, Linked, Levels, EmitterIn, EmitterOf, HiddenIn, Hidden
  <1>2. EmitOK' <=> Links(stack') /\ (pc' = "call" => EmitterIn(stack', call'.emit, Len(stack')))
    BY DEF EmitOK, Links, Linked, Levels, EmitterIn, EmitterOf, HiddenIn, Hidden
  <1> QED
    BY <1>1, <1>2

\* What a frame keeps from the moment it is pushed until it is popped.
SameFrame(f, g) ==
    /\ f.kind = g.kind /\ f.goal = g.goal /\ f.rest = g.rest /\ f.mark = g.mark
    /\ f.base = g.base /\ f.emit = g.emit /\ f.bar = g.bar /\ f.owner = g.owner

\* The lowest n frames of st are those of tt.
SameBelow(st, tt, n) == \A i \in 1 .. n : SameFrame(st[i], tt[i])

\* Links among the lowest frames only depend on them.
LEMMA EmittersKept ==
    ASSUME NEW st, NEW tt, NEW N \in Nat, SameBelow(st, tt, N),
           NEW n \in 0 .. N, NEW e \in Nat, EmitterIn(st, e, n)
    PROVE  EmitterIn(tt, e, n)
  <1>1. \A i \in 1 .. n : st[i].kind = tt[i].kind /\ st[i].owner = tt[i].owner
    BY DEF SameBelow, SameFrame
  <1>2. HiddenIn(tt, e, n) => HiddenIn(st, e, n)
    BY <1>1 DEF HiddenIn
  <1>3. e > 0 => tt[e].kind = st[e].kind
    BY <1>1 DEF EmitterIn
  <1>4. \A j \in e + 1 .. n : tt[j].kind = st[j].kind
    BY <1>1
  <1> QED
    BY <1>2, <1>3, <1>4 DEF EmitterIn

LEMMA LinkedKept ==
    ASSUME NEW st, NEW tt, NEW N \in Nat, SameBelow(st, tt, N), NEW i \in 1 .. N,
           st[i].emit \in Nat, Linked(st, i)
    PROVE  Linked(tt, i)
  <1>1. SameFrame(st[i], tt[i])
    BY DEF SameBelow
  <1>2. EmitterIn(tt, tt[i].emit, i - 1)
    <2>1. st[i].emit \in Nat /\ EmitterIn(st, st[i].emit, i - 1) /\ i - 1 \in 0 .. N
      BY DEF Linked
    <2>2. EmitterIn(tt, st[i].emit, i - 1)
      BY <2>1, EmittersKept
    <2> QED
      BY <1>1, <2>2 DEF SameFrame
  <1>3. ASSUME tt[i].kind = "cont"
        PROVE  /\ tt[i].owner \in 1 .. i - 1
               /\ EmitterIn(tt, tt[i].owner, i - 1)
               /\ tt[tt[i].owner].kind = "catch"
    <2>1. /\ st[i].owner \in 1 .. i - 1 /\ EmitterIn(st, st[i].owner, i - 1)
          /\ st[st[i].owner].kind = "catch" /\ tt[i].owner = st[i].owner
      BY <1>1, <1>3 DEF Linked, SameFrame
    <2>2. EmitterIn(tt, st[i].owner, i - 1)
      BY <2>1, EmittersKept
    <2>3. st[i].owner \in 1 .. N
      BY <2>1
    <2>4. tt[st[i].owner].kind = "catch"
      BY <2>1, <2>3 DEF SameBelow, SameFrame
    <2> QED
      BY <2>1, <2>2, <2>4
  <1> QED
    BY <1>2, <1>3 DEF Linked

\* A stack that is a lower part of a linked one is linked.
LEMMA LinksShrink ==
    ASSUME NEW st \in Seq(Frames), NEW tt, NEW N \in Nat, N <= Len(st), Len(tt) = N,
           SameBelow(st, tt, N), Links(st)
    PROVE  Links(tt)
  <1> SUFFICES ASSUME NEW i \in 1 .. N PROVE Linked(tt, i)
    BY DEF Links
  <1>1. i \in 1 .. Len(st)
    BY LenProperties
  <1>2. Linked(st, i)
    BY <1>1 DEF Links
  <1>3. st[i].emit \in Nat
    BY <1>1, ElementOfSeq, FrameFields
  <1> QED
    BY <1>2, <1>3, LinkedKept

\* ... and one with a linked frame on top of it is.
LEMMA LinksGrow ==
    ASSUME NEW st \in Seq(Frames), NEW tt, Len(tt) = Len(st) + 1,
           SameBelow(st, tt, Len(st)), Links(st), Linked(tt, Len(st) + 1)
    PROVE  Links(tt)
  <1> SUFFICES ASSUME NEW i \in 1 .. Len(st) + 1 PROVE Linked(tt, i)
    BY DEF Links
  <1>0. Len(st) \in Nat
    BY LenProperties
  <1>1. CASE i = Len(st) + 1
    BY <1>1
  <1>2. CASE i # Len(st) + 1
    <2>1. i \in 1 .. Len(st)
      BY <1>0, <1>2
    <2>2. Linked(st, i)
      BY <2>1 DEF Links
    <2>3. st[i].emit \in Nat
      BY <2>1, ElementOfSeq, FrameFields
    <2> QED
      BY <1>0, <2>1, <2>2, <2>3, LinkedKept
  <1> QED
    BY <1>1, <1>2

\* A frame that hands stops on, and hides nothing, is transparent to a closure.
LEMMA EmitterOverFrame ==
    ASSUME NEW st, NEW n \in Nat, NEW e \in Nat, EmitterIn(st, e, n),
           st[n + 1].kind \in {"loop", "or", "cut"}
    PROVE  EmitterIn(st, e, n + 1)
  <1>1. HiddenIn(st, e, n + 1) => HiddenIn(st, e, n)
    BY DEF HiddenIn
  <1>2. \A j \in e + 1 .. n + 1 : j = n + 1 \/ j \in e + 1 .. n
    OBVIOUS
  <1> QED
    BY <1>1, <1>2 DEF EmitterIn, Transparent

\* A closure belongs to the frame on top of which its goal starts.
LEMMA EmitterOnTop ==
    ASSUME NEW st, NEW n \in Nat, st[n + 1].kind \in Emitters
    PROVE  EmitterIn(st, n + 1, n + 1)
  <1>1. st[n + 1].kind # "cont"
    BY DEF Emitters, Probes
  <1>2. ~HiddenIn(st, n + 1, n + 1)
    BY <1>1 DEF HiddenIn
  <1> QED
    BY <1>2 DEF EmitterIn

\* The closure that a catch was given stays reachable from its continuation.
LEMMA EmitterBehindCatch ==
    ASSUME NEW st, NEW n \in Nat, NEW c \in 1 .. n, EmitterIn(st, c, n), st[c].kind = "catch",
           \A k \in 1 .. n : st[k].owner \in Nat,
           NEW e \in Nat, EmitterIn(st, e, c - 1)
    PROVE  EmitterIn(st, e, n)
  <1>1. e < c /\ c \in Nat
    BY DEF EmitterIn
  <1>2. e > 0 => ~HiddenIn(st, e, n)
    <2> SUFFICES ASSUME e > 0, HiddenIn(st, e, n) PROVE FALSE
      OBVIOUS
    <2>1. PICK k \in 1 .. n : st[k].kind = "cont" /\ st[k].owner <= e /\ e <= k
      BY DEF HiddenIn
    <2>2. CASE k < c
      BY <2>1, <2>2 DEF HiddenIn, EmitterIn
    <2>3. CASE k = c
      BY <2>1, <2>3
    <2>4. CASE k > c
      BY <1>1, <2>1, <2>4 DEF EmitterIn, HiddenIn
    <2> QED
      BY <2>2, <2>3, <2>4
  <1>3. ASSUME NEW j \in e + 1 .. n PROVE st[j].kind \in Transparent
    <2>1. CASE j < c
      BY <2>1 DEF EmitterIn
    <2>2. CASE j = c
      BY <2>2 DEF Transparent
    <2>3. CASE j > c
      BY <2>3 DEF EmitterIn
    <2> QED
      BY <2>1, <2>2, <2>3
  <1> QED
    BY <1>1, <1>2, <1>3 DEF EmitterIn

\* The same closure once the continuation's own frame, which hides the catch
\* and all above it, is on top.
LEMMA EmitterOverCont ==
    ASSUME NEW st, NEW n \in Nat, NEW c \in 1 .. n, NEW e \in Nat, e < c, EmitterIn(st, e, n),
           st[n + 1].kind = "cont", st[n + 1].owner = c
    PROVE  EmitterIn(st, e, n + 1)
  <1>1. HiddenIn(st, e, n + 1) => HiddenIn(st, e, n)
    BY DEF HiddenIn
  <1>2. \A j \in e + 1 .. n + 1 : j = n + 1 \/ j \in e + 1 .. n
    OBVIOUS
  <1> QED
    BY <1>1, <1>2 DEF EmitterIn, Transparent

-----------------------------------------------------------------------------
(* The ways in which a step changes the stack. *)

LEMMA SameFrameReflexive ==
    \A f : SameFrame(f, f)
  BY DEF SameFrame

\* A frame is pushed.
LEMMA PushShape ==
    ASSUME stack \in Seq(Frames), NEW f, Push(f)
    PROVE  /\ Len(stack) \in Nat /\ Len(stack') = Len(stack) + 1
           /\ stack'[Len(stack) + 1] = f
           /\ \A i \in 1 .. Len(stack) : stack'[i] = stack[i]
           /\ SameBelow(stack, stack', Len(stack))
  <1>1. stack \in Seq(Frames \cup {f}) /\ f \in Frames \cup {f}
    OBVIOUS
  <1>2. /\ Len(stack) \in Nat /\ Len(stack') = Len(stack) + 1
        /\ stack'[Len(stack) + 1] = f
        /\ \A i \in 1 .. Len(stack) : stack'[i] = stack[i]
    BY <1>1, PushFacts, LenProperties DEF Push
  <1> QED
    BY <1>2, SameFrameReflexive DEF SameBelow

\* The top frame is popped.
LEMMA PopShape ==
    ASSUME ControlOK, stack # <<>>, stack' = Popped
    PROVE  /\ Len(stack) \in Nat /\ Len(stack) >= 1 /\ Len(stack') = Len(stack) - 1
           /\ \A i \in 1 .. Len(stack) - 1 : stack'[i] = stack[i]
           /\ SameBelow(stack, stack', Len(stack) - 1)
           /\ Top = stack[Len(stack)] /\ Top \in Frames /\ Len(stack) \in Levels
  <1>1. /\ Len(stack) \in Nat /\ Len(stack) >= 1 /\ Len(stack') = Len(stack) - 1
        /\ \A i \in 1 .. Len(stack) - 1 : stack'[i] = stack[i]
        /\ Top \in Frames
    BY TopTypes
  <1> QED
    BY <1>1, SameFrameReflexive DEF SameBelow, Top, Levels

\* A field of one frame changes.
LEMMA FieldShape ==
    ASSUME stack \in Seq(Frames), NEW k \in Levels, NEW f, stack' = [stack EXCEPT ![k] = f]
    PROVE  /\ Len(stack) \in Nat /\ Len(stack') = Len(stack) /\ stack'[k] = f
           /\ \A i \in Levels \ {k} : stack'[i] = stack[i]
           /\ SameFrame(stack[k], f) => SameBelow(stack, stack', Len(stack))
  <1>1. stack \in Seq(Frames \cup {f}) /\ f \in Frames \cup {f} /\ k \in 1 .. Len(stack)
    BY DEF Levels
  <1>2. Len(stack) \in Nat /\ Len(stack') = Len(stack) /\ stack'[k] = f
    BY <1>1, ExceptSeq, LenProperties
  <1>3. \A i \in Levels \ {k} : stack'[i] = stack[i]
    BY <1>1, ExceptSeq DEF Levels
  <1> QED
    BY <1>2, <1>3, SameFrameReflexive DEF SameBelow, Levels

\* The clause loop moves on to its next clause.
LEMMA TryShape ==
    ASSUME ControlOK, TryClause
    PROVE  /\ stack # <<>> /\ Top \in Frames /\ Top.kind = "loop" /\ Top = stack[Len(stack)]
           /\ Len(stack) \in Nat /\ Len(stack) >= 1 /\ Len(stack') = Len(stack)
           /\ \A i \in 1 .. Len(stack) - 1 : stack'[i] = stack[i]
           /\ stack'[Len(stack)] = [Top EXCEPT !.clauses = Tail(@)]
           /\ SameBelow(stack, stack', Len(stack))
  <1> DEFINE f == [Top EXCEPT !.clauses = Tail(@)]
  <1>1. stack # <<>> /\ Top.kind = "loop" /\ stack \in Seq(Frames) /\ stack' = Append(Popped, f)
    BY DEF TryClause, Trying, ControlOK
  <1>2. Top \in Frames /\ Len(stack) \in Nat /\ Len(stack) >= 1
    BY <1>1, TopTypes
  <1>3. stack \in Seq(Frames \cup {f}) /\ f \in Frames \cup {f}
    BY <1>1
  <1>4. /\ Len(stack') = Len(stack) /\ stack'[Len(stack)] = f
        /\ \A i \in 1 .. Len(stack) - 1 : stack'[i] = stack[i]
    BY <1>1, <1>3, ReplaceTopFacts DEF Popped
  <1>5. SameFrame(Top, f)
    BY <1>2 DEF SameFrame, Frames, Records
  <1>6. ASSUME NEW i \in 1 .. Len(stack) PROVE SameFrame(stack[i], stack'[i])
    <2>1. CASE i = Len(stack)
      BY <1>4, <1>5, <2>1 DEF Top
    <2>2. CASE i # Len(stack)
      BY <1>2, <1>4, <2>2, SameFrameReflexive
    <2> QED
      BY <2>1, <2>2
  <1> QED
    BY <1>1, <1>2, <1>4, <1>6 DEF SameBelow, Top

\* The outcome of a continuation is kept in the frame of its catch.
LEMMA ContShape ==
    ASSUME ControlOK, EmitOK, ContReturn
    PROVE  /\ Len(stack) \in Levels /\ Len(stack) \in Nat /\ Len(stack') = Len(stack) - 1
           /\ Top = stack[Len(stack)] /\ Top.kind = "cont"
           /\ Top.owner \in 1 .. Len(stack) - 1 /\ stack[Top.owner].kind = "catch"
           /\ \A i \in 1 .. Len(stack) - 1 : i # Top.owner => stack'[i] = stack[i]
           /\ stack'[Top.owner] = [stack[Top.owner] EXCEPT !.cont = Captured(ret)]
           /\ stack[Top.owner] \in Frames
           /\ SameBelow(stack, stack', Len(stack) - 1)
  <1> DEFINE o == Top.owner
             f == [stack[o] EXCEPT !.cont = Captured(ret)]
  <1>1. /\ stack # <<>> /\ Top.kind = "cont" /\ Popped \in Seq(Frames) /\ Len(Popped) = Len(stack) - 1
        /\ Len(stack) \in Nat
        /\ \A i \in 1 .. Len(stack) - 1 : Popped[i] = stack[i]
    BY TopTypes DEF ContReturn, Returned
  <1>2. /\ Len(stack) \in Levels /\ Top = stack[Len(stack)]
        /\ o \in 1 .. Len(stack) - 1 /\ o \in Levels /\ stack[o].kind = "catch"
    BY OwnerFacts DEF ContReturn
  <1>3. stack[o] \in Frames /\ Popped[o] = stack[o]
    BY <1>1, <1>2, StackFrame
  <1>4. stack' = [Popped EXCEPT ![o] = f]
    BY <1>3 DEF ContReturn
  <1>5. Popped \in Seq(Frames \cup {f}) /\ f \in Frames \cup {f} /\ o \in 1 .. Len(Popped)
    BY <1>1, <1>2
  <1>6. /\ Len(stack') = Len(Popped) /\ stack'[o] = f
        /\ \A i \in 1 .. Len(Popped) : i # o => stack'[i] = Popped[i]
    BY <1>4, <1>5, ExceptSeq
  <1>7. SameFrame(stack[o], f)
    BY <1>3 DEF SameFrame, Frames, Records
  <1>8. SameBelow(stack, stack', Len(stack) - 1)
    BY <1>1, <1>6, <1>7, SameFrameReflexive DEF SameBelow
  <1> QED
    BY <1>1, <1>2, <1>3, <1>6, <1>8

-----------------------------------------------------------------------------
(* Emit closures: no step breaks a link. *)

\* A step that keeps the height of the stack.
LEMMA EmitSame ==
    ASSUME ControlOK, EmitOK, Len(stack') = Len(stack), SameBelow(stack, stack', Len(stack)),
           pc' = "call" => call'.emit \in Nat /\ EmitterIn(stack, call'.emit, Len(stack))
    PROVE  EmitOK'
  <1>1. stack \in Seq(Frames) /\ Len(stack) \in Nat /\ Links(stack)
    BY EmitOKIsLinks, LenProperties DEF ControlOK
  <1>2. Links(stack')
    BY <1>1, LinksShrink
  <1>3. pc' = "call" => EmitterIn(stack', call'.emit, Len(stack))
    BY <1>1, EmittersKept
  <1> QED
    BY <1>2, <1>3, EmitOKIsLinks

\* A step that pushes a frame.
LEMMA EmitPush ==
    ASSUME ControlOK, EmitOK, NEW f, Push(f),
           f.emit \in Nat, EmitterIn(stack, f.emit, Len(stack)),
           f.kind = "cont" => /\ f.owner \in 1 .. Len(stack)
                              /\ EmitterIn(stack, f.owner, Len(stack))
                              /\ stack[f.owner].kind = "catch",
           pc' = "call" => EmitterIn(stack', call'.emit, Len(stack) + 1)
    PROVE  EmitOK'
  <1> DEFINE N == Len(stack)
  <1>1. stack \in Seq(Frames) /\ Links(stack)
    BY EmitOKIsLinks DEF ControlOK
  <1>2. /\ N \in Nat /\ Len(stack') = N + 1 /\ stack'[N + 1] = f
        /\ \A i \in 1 .. N : stack'[i] = stack[i]
        /\ SameBelow(stack, stack', N)
    BY <1>1, PushShape
  <1>3. Linked(stack', N + 1)
    <2>1. EmitterIn(stack', f.emit, N)
      BY <1>2, EmittersKept
    <2>2. f.kind = "cont" => EmitterIn(stack', f.owner, N) /\ stack'[f.owner].kind = "catch"
      BY <1>2, EmittersKept
    <2>3. N + 1 - 1 = N
      BY <1>2
    <2> QED
      BY <1>2, <2>1, <2>2, <2>3 DEF Linked
  <1>4. Links(stack')
    BY <1>1, <1>2, <1>3, LinksGrow
  <1> QED
    BY <1>2, <1>4, EmitOKIsLinks

\* A step that pops a frame; what runs next uses the closure of that frame.
LEMMA EmitPop ==
    ASSUME ControlOK, EmitOK, stack # <<>>, Len(stack') = Len(stack) - 1,
           SameBelow(stack, stack', Len(stack) - 1),
           pc' = "call" => call'.emit = Top.emit
    PROVE  EmitOK'
  <1> DEFINE N == Len(stack)
  <1>1. /\ stack \in Seq(Frames) /\ Links(stack) /\ N \in Nat /\ N >= 1
        /\ Top \in Frames /\ Top = stack[N]
    BY EmitOKIsLinks, TopTypes DEF ControlOK, Top
  <1>2. N - 1 \in Nat /\ N - 1 <= Len(stack)
    BY <1>1
  <1>3. Links(stack')
    BY <1>1, <1>2, LinksShrink
  <1>4. Top.emit \in Nat /\ EmitterIn(stack, Top.emit, N - 1)
    BY <1>1, FrameFields DEF Links, Linked
  <1>5. EmitterIn(stack', Top.emit, N - 1)
    BY <1>2, <1>4, EmittersKept
  <1> QED
    BY <1>3, <1>5, EmitOKIsLinks

LEMMA EmitEnter ==
    ASSUME ControlOK, EmitOK, Enter
    PROVE  EmitOK'
  <1> DEFINE e == call.emit
             f == stack[e]
             N == Len(stack)
  <1>0. stack \in Seq(Frames) /\ N \in Nat /\ e \in Nat
    BY LenProperties DEF ControlOK, Calls
  <1>1. CASE Interrupted \/ EmitAnswer \/ DepthExceeded
    <2>1. stack' = stack /\ pc' = "return"
      BY <1>1 DEF Interrupted, EmitAnswer, DepthExceeded, Return
    <2> QED
      BY <1>0, <2>1, EmitSame, SameFrameReflexive DEF SameBelow
  <1>2. CASE EmitFirst \/ EmitCollected
    <2>1. e \in Levels /\ f \in Frames /\ pc' = "return"
      BY <1>2, EmitFrame DEF EmitFirst, EmitCollected, Return
    <2>2. PICK g : stack' = [stack EXCEPT ![e] = g] /\ SameFrame(f, g)
      <3>1. CASE EmitFirst
        <4>1. stack' = [stack EXCEPT ![e] = [f EXCEPT !.found = <<call.mark>>]]
          BY <3>1 DEF EmitFirst
        <4>2. SameFrame(f, [f EXCEPT !.found = <<call.mark>>])
          BY <2>1 DEF SameFrame, Frames, Records
        <4> QED
          BY <4>1, <4>2
      <3>2. CASE EmitCollected
        <4> DEFINE t == CopyOut(Inst(f.goal.g.tmpl, f.goal.act), store, fresh + 1)
        <4>1. stack' = [stack EXCEPT ![e] = [f EXCEPT !.items = Append(@, t)]]
          BY <3>2 DEF EmitCollected
        <4>2. SameFrame(f, [f EXCEPT !.items = Append(@, t)])
          BY <2>1 DEF SameFrame, Frames, Records
        <4> QED
          BY <4>1, <4>2
      <3> QED
        BY <1>2, <3>1, <3>2
    <2>3. Len(stack') = N /\ SameBelow(stack, stack', N)
      BY <1>0, <2>1, <2>2, FieldShape
    <2> QED
      BY <2>1, <2>3, EmitSame
  <1>3. CASE EmitContinuation
    <2> DEFINE g == [f EXCEPT !.kind = "cont", !.owner = e, !.mark = call.mark, !.base = store.len]
    <2>1. /\ e \in 1 .. N /\ f \in Frames /\ f.kind = "catch" /\ f.emit \in Nat
          /\ Push(g) /\ pc' = "call" /\ call'.emit = f.emit
      BY <1>3, EmitFrame, FrameFields DEF EmitContinuation, Levels, Resume
    <2>2. g.kind = "cont" /\ g.owner = e /\ g.emit = f.emit
      BY <2>1 DEF Frames, Records
    <2>3. EmitterIn(stack, e, N) /\ EmitterIn(stack, f.emit, e - 1)
      BY <1>3, <2>1, EmitOKIsLinks DEF EmitContinuation, Emitting, Links, Linked
    <2>4. \A k \in 1 .. N : stack[k].owner \in Nat
      BY <1>0, ElementOfSeq, FrameFields
    <2>5. EmitterIn(stack, f.emit, N)
      BY <1>0, <2>1, <2>3, <2>4, EmitterBehindCatch
    <2>6. /\ stack'[N + 1] = g /\ SameBelow(stack, stack', N)
      BY <1>0, <2>1, PushShape
    <2>7. EmitterIn(stack', f.emit, N)
      BY <1>0, <2>1, <2>5, <2>6, EmittersKept
    <2>8. f.emit < e
      BY <2>1, <2>3 DEF EmitterIn
    <2>9. EmitterIn(stack', f.emit, N + 1)
      BY <1>0, <2>1, <2>2, <2>6, <2>7, <2>8, EmitterOverCont
    <2> QED
      BY <1>0, <2>1, <2>2, <2>3, <2>5, <2>9, EmitPush
  <1> QED
    BY <1>1, <1>2, <1>3 DEF Enter

\* The fields of a frame as it is pushed.
LEMMA NewFrame ==
    ASSUME ControlOK, NEW k
    PROVE  /\ Frame(k).kind = k /\ Frame(k).emit = call.emit
           /\ Frame(k).found = <<>> /\ Frame(k).cont = <<>>
           /\ Frame(k).mark = call.mark /\ Frame(k).base = store.len
           /\ Frame(k).goal = Current /\ Frame(k).rest = Rest
  BY DEF Frame

LEMMA EmitExecute ==
    ASSUME ControlOK, EmitOK, Execute
    PROVE  EmitOK'
  <1> DEFINE N == Len(stack)
  <1>0. /\ stack \in Seq(Frames) /\ N \in Nat /\ call.emit \in Nat
        /\ EmitterIn(stack, call.emit, N)
    <2>1. pc = "call"
      BY DEF Execute, SolveTrue, SolveFail, SolveCut, SolveAnd, SolveOr, SolveIte, SolveInner,
             SolveThrow, SolveEq, SolveNeq, SolveCall, SolveAssert, SolveRetract, Running
    <2> QED
      BY <2>1, EmitOKIsLinks, LenProperties DEF ControlOK, Calls
  <1>1. CASE \/ SolveTrue \/ SolveFail \/ SolveAnd \/ SolveThrow \/ SolveEq \/ SolveNeq
             \/ SolveAssert \/ SolveRetract
    <2>1. stack' = stack
      BY <1>1 DEF SolveTrue, SolveFail, SolveAnd, SolveThrow, SolveEq, SolveNeq, SolveAssert,
                  SolveRetract
    <2>2. pc' = "call" => call'.emit = call.emit
      <3>1. \A m : Continue(m) => call'.emit = call.emit
        BY DEF Continue, Resume
      <3>2. \A r : Return(r) => pc' = "return"
        BY DEF Return
      <3> QED
        <4>1. CASE SolveTrue \/ SolveFail \/ SolveAnd \/ SolveThrow
          BY <3>1, <3>2, <4>1 DEF SolveTrue, SolveFail, SolveAnd, SolveThrow, Resume
        <4>2. CASE SolveEq \/ SolveNeq
          BY <3>1, <3>2, <4>2 DEF SolveEq, SolveNeq
        <4>3. CASE SolveAssert
          BY <3>1, <3>2, <4>3 DEF SolveAssert
        <4>4. CASE SolveRetract
          BY <3>1, <3>2, <4>4 DEF SolveRetract
        <4> QED
          BY <1>1, <4>1, <4>2, <4>3, <4>4
    <2> QED
      BY <1>0, <2>1, <2>2, EmitSame, SameFrameReflexive DEF SameBelow
  <1>2. CASE SolveCut \/ SolveOr \/ SolveCall
    <2>1. PICK f : /\ Push(f) /\ f.kind \in {"cut", "or", "loop"} /\ f.emit = call.emit
                   /\ (pc' = "call" => call'.emit = call.emit)
      <3>1. CASE SolveCut
        <4>1. Push([Frame("cut") EXCEPT !.bar = Current.bar])
          BY <3>1 DEF SolveCut
        <4>2. /\ [Frame("cut") EXCEPT !.bar = Current.bar].kind = "cut"
              /\ [Frame("cut") EXCEPT !.bar = Current.bar].emit = call.emit
          BY DEF Frame
        <4> QED
          BY <3>1, <4>1, <4>2 DEF SolveCut, Continue, Resume
      <3>2. CASE SolveOr
        BY <3>2, NewFrame DEF SolveOr, Resume
      <3>3. CASE SolveCall
        <4>1. Push([Frame("loop") EXCEPT !.clauses = db, !.bar = barriers + 1])
          BY <3>3 DEF SolveCall
        <4>2. /\ [Frame("loop") EXCEPT !.clauses = db, !.bar = barriers + 1].kind = "loop"
              /\ [Frame("loop") EXCEPT !.clauses = db, !.bar = barriers + 1].emit = call.emit
          BY DEF Frame
        <4>3. pc' # "call"
          BY <3>3 DEF SolveCall
        <4> QED
          BY <4>1, <4>2, <4>3
      <3> QED
        BY <1>2, <3>1, <3>2, <3>3
    <2>2. stack'[N + 1] = f /\ SameBelow(stack, stack', N)
      BY <1>0, <2>1, PushShape
    <2>3. EmitterIn(stack', call.emit, N + 1)
      BY <1>0, <2>1, <2>2, EmittersKept, EmitterOverFrame
    <2> QED
      BY <1>0, <2>1, <2>3, EmitPush
  <1>3. CASE SolveIte \/ SolveInner
    <2>1. PICK k \in Emitters : Push(Frame(k)) /\ pc' = "call" /\ call'.emit = N + 1
      BY <1>3 DEF SolveIte, SolveInner, Running, Resume, Emitters, Probes
    <2>2. Frame(k).kind # "cont" /\ Frame(k).emit = call.emit /\ Frame(k).kind = k
      BY NewFrame DEF Emitters, Probes
    <2>3. stack'[N + 1] = Frame(k)
      BY <1>0, <2>1, PushShape
    <2>4. EmitterIn(stack', N + 1, N + 1)
      BY <1>0, <2>2, <2>3, EmitterOnTop
    <2> QED
      BY <1>0, <2>1, <2>2, <2>4, EmitPush
  <1> QED
    BY <1>1, <1>2, <1>3 DEF Execute

\* Every frame that pops returns, or continues with its own closure.
LEMMA PopsContinue ==
    ASSUME \/ LoopExhausted \/ CutReturn \/ OrReturn \/ CondReturn \/ NotReturn \/ OnceReturn
           \/ FindallReturn \/ CatchReturn \/ (LoopReturn /\ pc' # "try")
    PROVE  /\ stack' = Popped
           /\ pc' = "call" => call'.emit = Top.emit
  <1>1. \A r : PopAndReturn(r) => stack' = Popped /\ pc' = "return"
    BY DEF PopAndReturn, Return
  <1>2. \A gs, m : ContinueFrame(Top, gs, m) => call'.emit = Top.emit
    BY DEF ContinueFrame, Resume
  <1>3. CASE LoopExhausted
    BY <1>3 DEF LoopExhausted, Return
  <1>4. CASE CutReturn \/ (LoopReturn /\ pc' # "try")
    BY <1>1, <1>4 DEF CutReturn, LoopReturn
  <1>5. CASE OrReturn
    BY <1>1, <1>2, <1>5 DEF OrReturn
  <1>6. CASE CondReturn
    BY <1>1, <1>2, <1>6 DEF CondReturn
  <1>7. CASE NotReturn \/ OnceReturn
    BY <1>1, <1>2, <1>7 DEF NotReturn, OnceReturn
  <1>8. CASE FindallReturn
    BY <1>1, <1>2, <1>8 DEF FindallReturn
  <1>9. CASE CatchReturn
    BY <1>1, <1>2, <1>9 DEF CatchReturn
  <1> QED
    BY <1>3, <1>4, <1>5, <1>6, <1>7, <1>8, <1>9

LEMMA EmitUnwind ==
    ASSUME ControlOK, EmitOK, Unwind
    PROVE  EmitOK'
  <1> DEFINE N == Len(stack)
  <1>0. stack \in Seq(Frames) /\ N \in Nat
    BY LenProperties DEF ControlOK
  <1>1. CASE TryClause
    <2>1. /\ Len(stack') = N /\ SameBelow(stack, stack', N) /\ N >= 1
          /\ Top \in Frames /\ Top.kind = "loop" /\ Top = stack[N]
      BY <1>1, TryShape
    <2>2. pc' = "call" => call'.emit = Top.emit
      <3>1. pc = "try"
        BY <1>1 DEF TryClause, Trying
      <3>2. [Top EXCEPT !.clauses = Tail(@)].emit = Top.emit
        BY <2>1 DEF Frames, Records
      <3>3. \A gs, m : ContinueFrame([Top EXCEPT !.clauses = Tail(@)], gs, m)
                          => call'.emit = Top.emit
        BY <3>2 DEF ContinueFrame, Resume
      <3>4. pc' = pc \/ \E gs, m : ContinueFrame([Top EXCEPT !.clauses = Tail(@)], gs, m)
        BY <1>1 DEF TryClause
      <3> QED
        BY <3>1, <3>3, <3>4
    <2>3. Top.emit \in Nat /\ EmitterIn(stack, Top.emit, N - 1)
      <3>1. N \in 1 .. Len(stack) /\ Top.emit \in Nat
        BY <1>0, <2>1, FrameFields
      <3>2. Linked(stack, N)
        BY <3>1, EmitOKIsLinks DEF Links
      <3> QED
        BY <2>1, <3>1, <3>2 DEF Linked
    <2>4. N - 1 \in Nat /\ (N - 1) + 1 = N
      BY <1>0, <2>1
    <2>5. EmitterIn(stack, Top.emit, N)
      BY <2>1, <2>3, <2>4, EmitterOverFrame
    <2> QED
      BY <2>1, <2>2, <2>3, <2>5, EmitSame
  <1>2. CASE LoopReturn /\ pc' = "try"
    <2>1. stack' = stack
      BY <1>2 DEF LoopReturn, PopAndReturn, Return
    <2> QED
      BY <1>0, <1>2, <2>1, EmitSame, SameFrameReflexive DEF SameBelow
  <1>3. CASE \/ LoopExhausted \/ CutReturn \/ OrReturn \/ CondReturn \/ NotReturn \/ OnceReturn
             \/ FindallReturn \/ CatchReturn \/ (LoopReturn /\ pc' # "try")
    <2>1. stack # <<>>
      BY <1>3 DEF LoopExhausted, CutReturn, OrReturn, CondReturn, NotReturn, OnceReturn,
         FindallReturn, CatchReturn, LoopReturn, Returned, ControlOK
    <2> QED
      BY <1>3, <2>1, PopsContinue, PopShape, EmitPop
  <1>4. CASE ContReturn
    BY <1>4, ContShape, EmitPop DEF ContReturn, Return, Returned
  <1>5. CASE Finish
    <2>1. stack' = <<>> /\ pc' = "done"
      BY <1>5 DEF Finish
    <2> QED
      BY <2>1, EmitOKIsLinks DEF Links
  <1> QED
    BY <1>1, <1>2, <1>3, <1>4, <1>5 DEF Unwind

\* Every step keeps the links.
LEMMA EmitPreserved ==
    ASSUME ControlOK, EmitOK, [Next]_vars
    PROVE  EmitOK'
  <1>1. CASE Cancel \/ Terminated \/ UNCHANGED vars
    <2>1. UNCHANGED <<pc, call, stack>>
      BY <1>1 DEF Cancel, Terminated, vars, control
    <2> QED
      BY <2>1, EmitOKIsLinks
  <1> QED
    BY <1>1, EmitEnter, EmitExecute, EmitUnwind DEF Next, Step

LEMMA EmitInitially == Init => EmitOK
  <1> SUFFICES ASSUME Init PROVE EmitOK
    OBVIOUS
  <1>1. stack = <<>> /\ call.emit = 0
    BY DEF Init
  <1> QED
    BY <1>1, EmitOKIsLinks DEF Links, EmitterIn

\* The control state of a run always has its types, and every emit closure and
\* every continuation leads to a frame that is still on the stack.
THEOREM ControlIsLinked == Spec => [](ControlOK /\ EmitOK)
  <1>1. Init => ControlOK /\ EmitOK
    BY ControlInitially, EmitInitially
  <1>2. ControlOK /\ EmitOK /\ [Next]_vars => (ControlOK /\ EmitOK)'
    BY ControlPreserved, EmitPreserved
  <1> QED
    BY <1>1, <1>2, PTL DEF Spec

-----------------------------------------------------------------------------
(* Stops: PendingOK of module EngineInv, with its state as parameters.       *)

Waits(f) == f.found # <<>> \/ f.cont # <<>>

WaitsOK(st, p, r) ==
    /\ \A i \in 1 .. Len(st) :
         /\ st[i].found # <<>> => st[i].kind \in Probes
         /\ st[i].cont # <<>> => st[i].kind = "catch" /\ Len(st[i].cont) = 1
         /\ Waits(st[i]) => p = "return" /\ r = Stop
    /\ \A i, j \in 1 .. Len(st) : Waits(st[i]) /\ i < j =>
         /\ st[j].kind \in Transparent
         /\ st[j].cont \in {<<>>, <<Stop>>}
         /\ st[j].kind = "cont" => i < st[j].owner

LEMMA PendingOKIsWaitsOK ==
    /\ PendingOK <=> WaitsOK(stack, pc, ret)
    /\ PendingOK' <=> WaitsOK(stack', pc', ret')
  BY DEF PendingOK, WaitsOK, Levels, Pending, Waits, Stop, Result

\* No frame waits for a stop.
Quiet(st) == \A i \in 1 .. Len(st) : st[i].found = <<>> /\ st[i].cont = <<>>

LEMMA QuietIsOK ==
    ASSUME Quiet(stack')
    PROVE  PendingOK'
  BY PendingOKIsWaitsOK DEF Quiet, WaitsOK, Waits

\* Frames wait only while a stop is on its way.
LEMMA QuietUnlessStopping ==
    ASSUME PendingOK, pc # "return" \/ ret # Stop
    PROVE  Quiet(stack)
  BY PendingOKIsWaitsOK DEF Quiet, WaitsOK, Waits

\* A new frame waits for nothing.
LEMMA QuietPush ==
    ASSUME stack \in Seq(Frames), Quiet(stack), NEW f, Push(f), f.found = <<>>, f.cont = <<>>
    PROVE  PendingOK'
  <1>1. /\ Len(stack) \in Nat /\ Len(stack') = Len(stack) + 1 /\ stack'[Len(stack) + 1] = f
        /\ \A i \in 1 .. Len(stack) : stack'[i] = stack[i]
    BY PushShape
  <1>2. ASSUME NEW i \in 1 .. Len(stack) + 1
        PROVE  stack'[i].found = <<>> /\ stack'[i].cont = <<>>
    <2>1. CASE i = Len(stack) + 1
      BY <1>1, <2>1
    <2>2. CASE i # Len(stack) + 1
      <3>1. i \in 1 .. Len(stack)
        BY <1>1, <2>2
      <3> QED
        BY <1>1, <3>1 DEF Quiet
    <2> QED
      BY <2>1, <2>2
  <1>3. Quiet(stack')
    BY <1>1, <1>2 DEF Quiet
  <1> QED
    BY <1>3, QuietIsOK

LEMMA PendingEnter ==
    ASSUME ControlOK, EmitOK, PendingOK, Enter
    PROVE  PendingOK'
  <1> DEFINE e == call.emit
             f == stack[e]
             N == Len(stack)
  <1>0. /\ stack \in Seq(Frames) /\ N \in Nat /\ e \in Nat /\ Quiet(stack)
    <2>1. pc = "call"
      BY DEF Enter, Interrupted, EmitAnswer, EmitFirst, EmitCollected, EmitContinuation,
             DepthExceeded, Emitting
    <2> QED
      BY <2>1, QuietUnlessStopping, LenProperties DEF ControlOK, Calls
  <1>1. CASE Interrupted \/ EmitAnswer \/ DepthExceeded
    <2>1. stack' = stack
      BY <1>1 DEF Interrupted, EmitAnswer, DepthExceeded
    <2> QED
      BY <1>0, <2>1, QuietIsOK DEF Quiet
  <1>2. CASE EmitFirst
    <2> DEFINE g == [f EXCEPT !.found = <<call.mark>>]
    <2>1. /\ e \in Levels /\ f \in Frames /\ f.kind \in Probes /\ EmitterIn(stack, e, N) /\ e > 0
          /\ stack' = [stack EXCEPT ![e] = g] /\ pc' = "return" /\ ret' = Stop
      BY <1>2, EmitFrame, EmitOKIsLinks DEF EmitFirst, Emitting, Return, Probes
    <2>2. g.found # <<>> /\ g.cont = f.cont /\ g.kind = f.kind /\ g.owner = f.owner
      BY <2>1 DEF Frames, Records
    <2>3. /\ Len(stack') = N /\ stack'[e] = g
          /\ \A i \in Levels \ {e} : stack'[i] = stack[i]
      BY <1>0, <2>1, FieldShape
    <2>4. \A i \in 1 .. N : /\ stack'[i].cont = <<>> /\ (i # e => stack'[i].found = <<>>)
                            /\ stack'[i].kind = stack[i].kind /\ stack'[i].owner = stack[i].owner
      BY <1>0, <2>1, <2>2, <2>3 DEF Quiet, Levels
    <2>5. ASSUME NEW j \in 1 .. N, e < j
          PROVE  stack[j].kind \in Transparent /\ (stack[j].kind = "cont" => e < stack[j].owner)
      <3>1. stack[j].owner \in Nat
        BY <1>0, ElementOfSeq, FrameFields
      <3> QED
        BY <1>0, <2>1, <2>5, <3>1 DEF EmitterIn, HiddenIn
    <2>6. WaitsOK(stack', pc', ret')
      BY <2>1, <2>2, <2>3, <2>4, <2>5 DEF WaitsOK, Waits
    <2> QED
      BY <2>6, PendingOKIsWaitsOK
  <1>3. CASE EmitCollected
    <2> DEFINE t == CopyOut(Inst(f.goal.g.tmpl, f.goal.act), store, fresh + 1)
               g == [f EXCEPT !.items = Append(@, t)]
    <2>1. e \in Levels /\ f \in Frames /\ stack' = [stack EXCEPT ![e] = g]
      BY <1>3, EmitFrame DEF EmitCollected
    <2>2. g.found = f.found /\ g.cont = f.cont
      BY <2>1 DEF Frames, Records
    <2>3. Len(stack') = N /\ stack'[e] = g /\ \A i \in Levels \ {e} : stack'[i] = stack[i]
      BY <1>0, <2>1, FieldShape
    <2> HIDE DEF g
    <2>4. ASSUME NEW i \in 1 .. N
          PROVE  stack'[i].found = <<>> /\ stack'[i].cont = <<>>
      <3>1. stack[i].found = <<>> /\ stack[i].cont = <<>>
        BY <1>0 DEF Quiet
      <3>2. CASE i = e
        BY <2>2, <2>3, <3>1, <3>2
      <3>3. CASE i # e
        BY <2>3, <3>1, <3>3 DEF Levels
      <3> QED
        BY <3>2, <3>3
    <2>5. Quiet(stack')
      BY <2>3, <2>4 DEF Quiet
    <2> QED
      BY <2>5, QuietIsOK
  <1>4. CASE EmitContinuation
    <2> DEFINE g == [f EXCEPT !.kind = "cont", !.owner = e, !.mark = call.mark, !.base = store.len]
    <2>1. e \in Levels /\ f \in Frames /\ Push(g)
      BY <1>4, EmitFrame DEF EmitContinuation
    <2>2. g.found = <<>> /\ g.cont = <<>>
      BY <1>0, <2>1 DEF Frames, Records, Quiet, Levels
    <2> QED
      BY <1>0, <2>1, <2>2, QuietPush
  <1> QED
    BY <1>1, <1>2, <1>3, <1>4 DEF Enter

\* The constructs of solve's switch leave the stack alone or push a frame that
\* waits for nothing.
LEMMA ExecuteShape ==
    ASSUME ControlOK, Execute
    PROVE  /\ pc = "call"
           /\ stack' = stack \/ \E f : Push(f) /\ f.found = <<>> /\ f.cont = <<>>
  <1>1. pc = "call"
    BY DEF Execute, SolveTrue, SolveFail, SolveCut, SolveAnd, SolveOr, SolveIte, SolveInner,
           SolveThrow, SolveEq, SolveNeq, SolveCall, SolveAssert, SolveRetract, Running
  <1>2. CASE SolveCut
    <2> DEFINE f == [Frame("cut") EXCEPT !.bar = Current.bar]
    <2>1. Push(f)
      BY <1>2 DEF SolveCut
    <2>2. f.found = <<>> /\ f.cont = <<>>
      BY DEF Frame
    <2> QED
      BY <1>1, <2>1, <2>2
  <1>3. CASE SolveOr \/ SolveIte \/ SolveInner
    <2>1. \E k : Push(Frame(k))
      BY <1>3 DEF SolveOr, SolveIte, SolveInner
    <2> QED
      BY <1>1, <2>1, NewFrame
  <1>4. CASE SolveCall
    <2> DEFINE f == [Frame("loop") EXCEPT !.clauses = db, !.bar = barriers + 1]
    <2>1. Push(f)
      BY <1>4 DEF SolveCall
    <2>2. f.found = <<>> /\ f.cont = <<>>
      BY DEF Frame
    <2> QED
      BY <1>1, <2>1, <2>2
  <1>5. CASE \/ SolveTrue \/ SolveFail \/ SolveAnd \/ SolveThrow \/ SolveEq \/ SolveNeq
             \/ SolveAssert \/ SolveRetract
    BY <1>1, <1>5 DEF SolveTrue, SolveFail, SolveAnd, SolveThrow, SolveEq, SolveNeq, SolveAssert,
       SolveRetract
  <1> QED
    BY <1>2, <1>3, <1>4, <1>5 DEF Execute

LEMMA PendingExecute ==
    ASSUME ControlOK, PendingOK, Execute
    PROVE  PendingOK'
  <1>1. pc = "call" /\ Quiet(stack) /\ stack \in Seq(Frames)
    BY ExecuteShape, QuietUnlessStopping DEF ControlOK
  <1>2. CASE stack' = stack
    BY <1>1, <1>2, QuietIsOK DEF Quiet
  <1>3. CASE \E f : Push(f) /\ f.found = <<>> /\ f.cont = <<>>
    BY <1>1, <1>3, QuietPush
  <1> QED
    BY <1>2, <1>3, ExecuteShape

\* A frame that hands stops on returns a stop as it is.
LEMMA StopsPass ==
    ASSUME LoopReturn \/ CutReturn \/ OrReturn \/ CatchReturn, ret = Stop,
           Top.cont \in {<<>>, <<Stop>>}
    PROVE  pc' = "return" /\ ret' = Stop
  <1>1. \A r : PopAndReturn(r) => pc' = "return" /\ ret' = r
    BY DEF PopAndReturn, Return
  <1>2. /\ ret.stop = TRUE /\ ret.err = NoErr /\ ret.commit = 0 /\ Escapes(ret)
    BY DEF Stop, Result, Escapes
  <1>3. CASE LoopReturn
    <2>1. LoopResult(Top, ret) = Stop
      BY <1>2 DEF LoopResult
    <2> QED
      BY <1>1, <1>2, <1>3, <2>1 DEF LoopReturn
  <1>4. CASE CutReturn
    BY <1>1, <1>2, <1>4 DEF CutReturn
  <1>5. CASE OrReturn
    BY <1>1, <1>2, <1>5 DEF OrReturn
  <1>6. CASE CatchReturn
    <2>1. ~Catchable(ret.err)
      BY <1>2 DEF Catchable
    <2>2. Top.cont # <<>> => Head(Top.cont) = Stop
      OBVIOUS
    <2> QED
      BY <1>1, <1>6, <2>1, <2>2 DEF CatchReturn
  <1> QED
    BY <1>3, <1>4, <1>5, <1>6

\* A frame that is popped leaves those below it waiting only for a stop that is
\* handed on to them.
LEMMA PendingPop ==
    ASSUME ControlOK, PendingOK, stack # <<>>, stack' = Popped,
           \/ pc' = "return" /\ ret' = Stop
           \/ pc # "return" \/ ret # Stop
           \/ Top.kind \notin Transparent
           \/ Top.cont \notin {<<>>, <<Stop>>}
    PROVE  PendingOK'
  <1> DEFINE N == Len(stack)
  <1>1. /\ N \in Nat /\ N >= 1 /\ Len(stack') = N - 1 /\ Top = stack[N]
        /\ \A i \in 1 .. N - 1 : stack'[i] = stack[i]
    BY PopShape
  <1>2. WaitsOK(stack, pc, ret)
    BY PendingOKIsWaitsOK
  <1>3. CASE pc' = "return" /\ ret' = Stop
    <2>1. \A i \in 1 .. N - 1 : i \in 1 .. N
      BY <1>1
    <2>2. WaitsOK(stack', pc', ret')
      BY <1>1, <1>2, <1>3, <2>1 DEF WaitsOK
    <2> QED
      BY <2>2, PendingOKIsWaitsOK
  <1>4. CASE ~(pc' = "return" /\ ret' = Stop)
    <2>1. \A i \in 1 .. N - 1 : i \in 1 .. N /\ N \in 1 .. N /\ i < N
      BY <1>1
    <2>2. \A i \in 1 .. N - 1 : ~Waits(stack[i])
      BY <1>1, <1>2, <1>4, <2>1 DEF WaitsOK
    <2>3. Quiet(stack')
      BY <1>1, <2>2 DEF Quiet, Waits
    <2> QED
      BY <2>3, QuietIsOK
  <1> QED
    BY <1>3, <1>4

\* What escapes from a continuation is kept in its catch; the stop that carries
\* it there passes only frames that hand it on.
LEMMA PendingCont ==
    ASSUME ControlOK, EmitOK, PendingOK, ContReturn
    PROVE  PendingOK'
  <1> DEFINE N == Len(stack)
             o == Top.owner
  <1>1. /\ N \in Nat /\ Len(stack') = N - 1 /\ N \in 1 .. N /\ o \in 1 .. N - 1
        /\ Top = stack[N] /\ Top.kind = "cont" /\ stack[o].kind = "catch"
        /\ \A i \in 1 .. N - 1 : i # o => stack'[i] = stack[i]
        /\ stack'[o] = [stack[o] EXCEPT !.cont = Captured(ret)]
        /\ stack[o] \in Frames
    BY ContShape DEF Levels
  <1>2. /\ stack'[o].cont = Captured(ret) /\ stack'[o].found = stack[o].found
        /\ stack'[o].kind = "catch" /\ stack'[o].owner = stack[o].owner
    BY <1>1 DEF Frames, Records
  <1>3. WaitsOK(stack, pc, ret)
    BY PendingOKIsWaitsOK
  <1>4. /\ pc' = "return" /\ ret' = Result(Escapes(ret), 0, NoErr)
    BY DEF ContReturn, Return
  <1>5. CASE ~Escapes(ret)
    <2>1. Quiet(stack)
      BY <1>5, QuietUnlessStopping DEF Escapes, Stop, Result
    <2>2. \A i \in 1 .. N - 1 : i \in 1 .. N
      BY <1>1
    <2>3. Captured(ret) = <<>>
      BY <1>5 DEF Captured
    <2>4. ASSUME NEW i \in 1 .. N - 1
          PROVE  stack'[i].found = <<>> /\ stack'[i].cont = <<>>
      <3>1. stack[i].found = <<>> /\ stack[i].cont = <<>>
        BY <2>1, <2>2 DEF Quiet
      <3>2. CASE i = o
        BY <1>2, <2>3, <3>1, <3>2
      <3>3. CASE i # o
        BY <1>1, <3>1, <3>3
      <3> QED
        BY <3>2, <3>3
    <2>5. Quiet(stack')
      BY <1>1, <2>4 DEF Quiet
    <2> QED
      BY <2>5, QuietIsOK
  <1>6. CASE Escapes(ret)
    <2>1. ret' = Stop /\ stack'[o].cont = <<ret>>
      BY <1>2, <1>4, <1>6 DEF Stop, Captured
    <2>2. /\ \A i \in 1 .. N - 1 : i \in 1 .. N /\ i < N
      BY <1>1
    <2>3. \A i \in 1 .. N - 1 : Waits(stack[i]) => ret = Stop /\ i < o
      BY <1>1, <1>3, <2>2 DEF WaitsOK
    <2>4. ASSUME NEW j \in 1 .. N - 1, o < j
          PROVE  /\ stack[j].kind \in Transparent /\ stack[j].cont = <<>>
                 /\ stack[j].kind = "cont" => o < stack[j].owner
      <3>1. Links(stack) /\ stack \in Seq(Frames)
        BY EmitOKIsLinks DEF ControlOK
      <3>2. EmitterIn(stack, o, N - 1)
        BY <1>1, <3>1 DEF Links, Linked
      <3>3. stack[j].owner \in Nat
        BY <1>1, <2>2, <3>1, ElementOfSeq, FrameFields
      <3>4. stack[j].kind \in Transparent
        BY <1>1, <2>4, <3>2 DEF EmitterIn
      <3>5. stack[j].kind = "cont" => o < stack[j].owner
        BY <1>1, <2>4, <3>2, <3>3 DEF EmitterIn, HiddenIn
      <3>6. stack[j].cont = <<>>
        BY <1>1, <2>3, <2>4 DEF Waits
      <3> QED
        BY <3>4, <3>5, <3>6
    <2>5. ASSUME NEW i \in 1 .. N - 1
          PROVE  /\ stack'[i].found # <<>> => stack'[i].kind \in Probes
                 /\ stack'[i].cont # <<>> => stack'[i].kind = "catch" /\ Len(stack'[i].cont) = 1
      <3>1. CASE i = o
        BY <1>1, <1>2, <1>3, <2>1, <2>2, <3>1 DEF WaitsOK
      <3>2. CASE i # o
        BY <1>1, <1>3, <2>2, <3>2 DEF WaitsOK
      <3> QED
        BY <3>1, <3>2
    <2>6. ASSUME NEW i \in 1 .. N - 1, NEW j \in 1 .. N - 1, Waits(stack'[i]), i < j
          PROVE  /\ stack'[j].kind \in Transparent
                 /\ stack'[j].cont \in {<<>>, <<Stop>>}
                 /\ stack'[j].kind = "cont" => i < stack'[j].owner
      <3>1. CASE i = o
        <4>1. o < j /\ j # o /\ stack'[j] = stack[j]
          BY <1>1, <2>6, <3>1
        <4> QED
          BY <2>4, <3>1, <4>1
      <3>2. CASE i # o
        <4>1. Waits(stack[i]) /\ ret = Stop
          BY <1>1, <2>3, <2>6, <3>2
        <4>2. /\ stack[j].kind \in Transparent
              /\ stack[j].cont \in {<<>>, <<Stop>>}
              /\ stack[j].kind = "cont" => i < stack[j].owner
          BY <1>3, <2>2, <2>6, <4>1 DEF WaitsOK
        <4>3. CASE j = o
          BY <1>1, <1>2, <2>1, <4>1, <4>2, <4>3
        <4>4. CASE j # o
          BY <1>1, <4>2, <4>4
        <4> QED
          BY <4>3, <4>4
      <3> QED
        BY <3>1, <3>2
    <2>7. WaitsOK(stack', pc', ret')
      BY <1>1, <1>4, <2>1, <2>5, <2>6 DEF WaitsOK
    <2> QED
      BY <2>7, PendingOKIsWaitsOK
  <1> QED
    BY <1>5, <1>6

LEMMA PendingUnwind ==
    ASSUME ControlOK, EmitOK, PendingOK, Unwind
    PROVE  PendingOK'
  <1>1. CASE TryClause
    <2>1. pc = "try"
      BY <1>1 DEF TryClause, Trying
    <2>2. Quiet(stack)
      BY <2>1, QuietUnlessStopping
    <2>3. /\ Len(stack) \in Nat /\ Len(stack) >= 1 /\ Len(stack') = Len(stack)
          /\ \A i \in 1 .. Len(stack) - 1 : stack'[i] = stack[i]
          /\ stack'[Len(stack)] = [Top EXCEPT !.clauses = Tail(@)]
          /\ Top \in Frames /\ Top = stack[Len(stack)]
      BY <1>1, TryShape
    <2>4. /\ stack'[Len(stack)].found = Top.found /\ stack'[Len(stack)].cont = Top.cont
      BY <2>3 DEF Frames, Records
    <2>5. ASSUME NEW i \in 1 .. Len(stack)
          PROVE  stack'[i].found = <<>> /\ stack'[i].cont = <<>>
      <3>1. stack[i].found = <<>> /\ stack[i].cont = <<>>
        BY <2>2 DEF Quiet
      <3>2. CASE i = Len(stack)
        BY <2>3, <2>4, <3>1, <3>2
      <3>3. CASE i # Len(stack)
        <4>1. i \in 1 .. Len(stack) - 1
          BY <2>3, <3>3
        <4> QED
          BY <2>3, <3>1, <4>1
      <3> QED
        BY <3>2, <3>3
    <2>6. Quiet(stack')
      BY <2>3, <2>5 DEF Quiet
    <2> QED
      BY <2>6, QuietIsOK
  <1>2. CASE LoopReturn /\ pc' = "try"
    <2>1. stack' = stack /\ ~Escapes(ret)
      BY <1>2 DEF LoopReturn, PopAndReturn, Return
    <2>2. Quiet(stack)
      BY <2>1, QuietUnlessStopping DEF Escapes, Stop, Result
    <2> QED
      BY <2>1, <2>2, QuietIsOK DEF Quiet
  <1>3. CASE LoopExhausted
    <2>1. pc = "try" /\ stack # <<>> /\ stack' = Popped
      BY <1>3 DEF LoopExhausted, ControlOK
    <2> QED
      BY <2>1, PendingPop
  <1>4. CASE \/ CutReturn \/ OrReturn \/ CatchReturn \/ (LoopReturn /\ pc' # "try")
    <2>1. stack # <<>> /\ stack' = Popped
      BY <1>4, PopsContinue DEF LoopReturn, CutReturn, OrReturn, CatchReturn, Returned
    <2> QED
      BY <1>4, <2>1, StopsPass, PendingPop
  <1>5. CASE CondReturn \/ NotReturn \/ OnceReturn \/ FindallReturn
    <2>1. stack # <<>> /\ stack' = Popped
      BY <1>5, PopsContinue DEF CondReturn, NotReturn, OnceReturn, FindallReturn, Returned
    <2>2. Top.kind \notin Transparent
      BY <1>5 DEF CondReturn, NotReturn, OnceReturn, FindallReturn, Returned, Transparent
    <2> QED
      BY <2>1, <2>2, PendingPop
  <1>6. CASE ContReturn
    BY <1>6, PendingCont
  <1>7. CASE Finish
    <2>1. stack' = <<>>
      BY <1>7 DEF Finish
    <2> QED
      BY <2>1, QuietIsOK DEF Quiet
  <1> QED
    BY <1>1, <1>2, <1>3, <1>4, <1>5, <1>6, <1>7 DEF Unwind

LEMMA PendingPreserved ==
    ASSUME ControlOK, EmitOK, PendingOK, [Next]_vars
    PROVE  PendingOK'
  <1>1. CASE Cancel \/ Terminated \/ UNCHANGED vars
    <2>1. UNCHANGED <<pc, ret, stack>>
      BY <1>1 DEF Cancel, Terminated, vars, control
    <2> QED
      BY <2>1, PendingOKIsWaitsOK
  <1> QED
    BY <1>1, PendingEnter, PendingExecute, PendingUnwind DEF Next, Step

\* A probe that found its solution, and a catch whose continuation escaped,
\* wait only while that stop is unwinding the frames between them and the top,
\* and no frame on that way absorbs it (solve.go:251, 520-524, 559-563).
THEOREM StopsReachProbes == Spec => []StopsReachTheirProbe
  <1>1. Init => PendingOK
    BY PendingOKIsWaitsOK DEF Init, WaitsOK
  <1>2. ControlOK /\ EmitOK /\ PendingOK /\ [Next]_vars => PendingOK'
    BY PendingPreserved
  <1>3. EmitOK /\ PendingOK => StopsReachTheirProbe
    BY DEF StopsReachTheirProbe
  <1> QED
    BY <1>1, <1>2, <1>3, ControlIsLinked, PTL DEF Spec

-----------------------------------------------------------------------------
(* Hard errors: the depth bound and cancellation reach the end of the run.  *)

\* No error waits while an activation starts or a clause loop goes on.
RetClear == pc \in {"call", "try"} => ret.err = NoErr

LEMMA RetClearPreserved ==
    ASSUME RetClear, [Next]_vars
    PROVE  RetClear'
  <1>1. /\ \A gs, m, d, e : Resume(gs, m, d, e) => pc' = "call" /\ ret' = Fail
        /\ \A r : Return(r) => pc' = "return"
        /\ \A r : PopAndReturn(r) => pc' = "return"
        /\ \A m : Continue(m) => pc' = "call" /\ ret' = Fail
        /\ \A f, gs, m : ContinueFrame(f, gs, m) => pc' = "call" /\ ret' = Fail
    BY DEF Resume, Return, PopAndReturn, Continue, ContinueFrame
  <1>2. Fail.err = NoErr
    BY DEF Fail, Result
  <1>3. CASE pc' = "return" \/ pc' = "done"
    BY <1>3 DEF RetClear
  <1>4. CASE ret' = Fail
    BY <1>2, <1>4 DEF RetClear
  <1>5. CASE UNCHANGED <<pc, ret>>
    BY <1>5 DEF RetClear
  <1>6. CASE Enter
    <2>1. pc' = "return" \/ ret' = Fail
      BY <1>1, <1>6 DEF Enter, Interrupted, EmitAnswer, EmitFirst, EmitCollected, EmitContinuation,
         DepthExceeded
    <2> QED
      BY <1>3, <1>4, <2>1
  <1>7. CASE Execute
    <2>1. CASE SolveAssert \/ SolveRetract
      <3>1. CASE Current.g.pred \notin Dynamic
        BY <1>1, <1>3, <2>1, <3>1 DEF SolveAssert, SolveRetract
      <3>2. CASE Current.g.pred \in Dynamic
        BY <1>1, <1>3, <1>4, <2>1, <3>2 DEF SolveAssert, SolveRetract
      <3> QED
        BY <3>1, <3>2
    <2>2. CASE ~(SolveAssert \/ SolveRetract)
      <3>1. pc' = "return" \/ ret' = Fail
        BY <1>1, <1>7, <2>2 DEF Execute, SolveTrue, SolveFail, SolveCut, SolveAnd, SolveOr, SolveIte,
           SolveInner, SolveThrow, SolveEq, SolveNeq, SolveCall
      <3> QED
        BY <1>3, <1>4, <3>1
    <2> QED
      BY <2>1, <2>2
  <1>8. CASE Unwind
    <2>1. CASE LoopReturn /\ pc' = "try"
      <3>1. ret' = ret /\ ret.err = NoErr
        BY <2>1 DEF LoopReturn, PopAndReturn, Return, Escapes
      <3> QED
        BY <3>1 DEF RetClear
    <2>2. CASE TryClause
      <3>1. ret' = Fail \/ UNCHANGED <<pc, ret>>
        BY <1>1, <2>2 DEF TryClause
      <3> QED
        BY <1>4, <1>5, <3>1
    <2>3. CASE OrReturn \/ CondReturn \/ NotReturn \/ OnceReturn
      <3>1. pc' = "return" \/ ret' = Fail
        BY <1>1, <2>3 DEF OrReturn, CondReturn, NotReturn, OnceReturn
      <3> QED
        BY <1>3, <1>4, <3>1
    <2>4. CASE FindallReturn \/ CatchReturn
      <3>1. pc' = "return" \/ ret' = Fail
        BY <1>1, <2>4 DEF FindallReturn, CatchReturn
      <3> QED
        BY <1>3, <1>4, <3>1
    <2>5. CASE LoopExhausted \/ CutReturn \/ ContReturn \/ Finish \/ (LoopReturn /\ pc' # "try")
      <3>1. pc' = "return" \/ pc' = "done"
        BY <1>1, <2>5 DEF LoopExhausted, CutReturn, ContReturn, Finish, LoopReturn
      <3> QED
        BY <1>3, <3>1
    <2> QED
      BY <1>8, <2>1, <2>2, <2>3, <2>4, <2>5 DEF Unwind
  <1>9. CASE Cancel \/ Terminated \/ UNCHANGED vars
    <2>1. UNCHANGED <<pc, ret>>
      BY <1>9 DEF Cancel, Terminated, vars, control
    <2> QED
      BY <1>5, <2>1
  <1> QED
    BY <1>6, <1>7, <1>8, <1>9 DEF Next, Step

\* An error is all that its result says.
LEMMA ErrorAlone ==
    ASSUME NEW r \in Results, r.err # NoErr
    PROVE  r = Error(r.err)
  BY DEF Results, Error, Result

\* Neither hard error is an exception.
LEMMA HardIsNotCaught ==
    ASSUME NEW e \in {Depth, Interrupt}
    PROVE  e # NoErr /\ ~Catchable(e)
  BY DEF Depth, Interrupt, NoErr, Catchable

\* A hard error that is being returned is handed on by every frame.
LEMMA HardReturned ==
    ASSUME ControlOK, EmitOK, PendingOK, Unwind, NEW e \in {Depth, Interrupt}, pc = "return",
           ret.err = e
    PROVE  ret'.err = e \/ \E i \in DOMAIN stack' : stack'[i].cont = <<Error(e)>>
  <1>1. e # NoErr /\ ~Catchable(ret.err) /\ Escapes(ret) /\ ret = Error(e) /\ ret # Stop
    <2>1. e # NoErr /\ ~Catchable(e)
      BY HardIsNotCaught
    <2>2. ret = Error(e)
      BY <2>1, ErrorAlone DEF ControlOK
    <2>3. ret # Stop
      BY <2>1 DEF Stop, Result
    <2> QED
      BY <2>1, <2>2, <2>3 DEF Escapes
  <1>2. Error(e).err = e
    BY DEF Error, Result
  <1>3. \A r : PopAndReturn(r) => ret' = r
    BY DEF PopAndReturn, Return
  <1>4. CASE LoopReturn
    <2>1. LoopResult(Top, ret) = Error(e)
      BY <1>1 DEF LoopResult
    <2> QED
      BY <1>1, <1>2, <1>3, <1>4, <2>1 DEF LoopReturn
  <1>5. CASE CutReturn \/ OrReturn
    BY <1>1, <1>2, <1>3, <1>5 DEF CutReturn, OrReturn
  <1>6. CASE CondReturn \/ NotReturn \/ OnceReturn
    BY <1>1, <1>2, <1>3, <1>6 DEF CondReturn, NotReturn, OnceReturn
  <1>7. CASE FindallReturn
    BY <1>1, <1>2, <1>3, <1>7 DEF FindallReturn
  <1>8. CASE CatchReturn
    <2>1. Top.cont = <<>>
      <3>1. stack # <<>> /\ Len(stack) \in 1 .. Len(stack) /\ Top = stack[Len(stack)]
        BY <1>8, TopTypes DEF CatchReturn, Returned, Top
      <3>2. Quiet(stack)
        BY <1>1, QuietUnlessStopping
      <3> QED
        BY <3>1, <3>2 DEF Quiet
    <2> QED
      BY <1>1, <1>2, <1>3, <1>8, <2>1 DEF CatchReturn
  <1>9. CASE ContReturn
    <2> DEFINE o == Top.owner
    <2>1. /\ o \in 1 .. Len(stack) - 1 /\ Len(stack') = Len(stack) - 1
          /\ stack'[o] = [stack[o] EXCEPT !.cont = Captured(ret)] /\ stack[o] \in Frames
      BY <1>9, ContShape
    <2>2. stack'[o].cont = Captured(ret)
      BY <2>1 DEF Frames, Records
    <2>3. Captured(ret) = <<Error(e)>>
      BY <1>1 DEF Captured
    <2>4. stack' \in Seq(Frames)
      BY <1>9, ContTypes DEF ControlOK
    <2>5. o \in DOMAIN stack'
      BY <2>1, <2>4
    <2> QED
      BY <2>2, <2>3, <2>5
  <1>10. CASE Finish
    BY <1>10 DEF Finish
  <1>11. CASE TryClause \/ LoopExhausted
    BY <1>11 DEF TryClause, Trying, LoopExhausted
  <1> QED
    BY <1>4, <1>5, <1>6, <1>7, <1>8, <1>9, <1>10, <1>11 DEF Unwind

\* A hard error that a catch keeps stays there until that catch returns it.
LEMMA HardKept ==
    ASSUME ControlOK, EmitOK, PendingOK, Unwind, NEW e \in {Depth, Interrupt}, pc = "return",
           NEW i \in Levels, stack[i].cont = <<Error(e)>>
    PROVE  ret'.err = e \/ \E k \in DOMAIN stack' : stack'[k].cont = <<Error(e)>>
  <1> DEFINE N == Len(stack)
  <1>1. N \in Nat /\ i \in 1 .. N /\ Top = stack[N] /\ stack # <<>> /\ N \in 1 .. N
    BY LenProperties DEF ControlOK, Levels, Top
  <1>2. WaitsOK(stack, pc, ret)
    BY PendingOKIsWaitsOK
  <1>3. ret = Stop /\ stack[i].kind = "catch"
    <2>1. stack[i].cont # <<>> /\ Waits(stack[i])
      BY DEF Waits
    <2> QED
      BY <1>1, <1>2, <2>1 DEF WaitsOK
  <1>4. Error(e).err = e /\ ret.err = NoErr /\ ret.stop = TRUE
    BY <1>3 DEF Error, Result, Stop
  <1>5. CASE i = N
    <2>1. CatchReturn
      <3>1. Top.kind = "catch"
        BY <1>1, <1>3, <1>5
      <3> QED
        BY <1>1, <3>1 DEF Unwind, TryClause, Trying, LoopExhausted, LoopReturn, CutReturn, OrReturn,
           CondReturn, NotReturn, OnceReturn, FindallReturn, ContReturn, Finish, Returned
    <2>2. Top.cont # <<>> /\ Head(Top.cont) = Error(e)
      BY <1>1, <1>5
    <2> QED
      BY <1>4, <2>1, <2>2 DEF CatchReturn, PopAndReturn, Return
  <1>6. CASE i # N
    <2>1. i \in 1 .. N - 1 /\ i < N
      BY <1>1, <1>6
    <2>2. /\ Top.kind \in Transparent /\ (Top.kind = "cont" => i < Top.owner)
      <3>1. Waits(stack[i])
        BY DEF Waits
      <3> QED
        BY <1>1, <1>2, <2>1, <3>1 DEF WaitsOK
    <2>3. CASE ContReturn
      <3>1. /\ Len(stack') = N - 1 /\ Top.owner \in 1 .. N - 1 /\ Top.kind = "cont"
            /\ \A k \in 1 .. N - 1 : k # Top.owner => stack'[k] = stack[k]
        BY <2>3, ContShape
      <3>2. stack'[i] = stack[i]
        BY <2>1, <2>2, <3>1
      <3>3. stack' \in Seq(Frames)
        BY <2>3, ContTypes DEF ControlOK
      <3>4. i \in DOMAIN stack'
        BY <2>1, <3>1, <3>3
      <3> QED
        BY <3>2, <3>4
    <2>4. CASE LoopReturn \/ CutReturn \/ OrReturn \/ CatchReturn
      <3>1. \A r : PopAndReturn(r) => stack' = Popped
        BY DEF PopAndReturn
      <3>2. Escapes(ret)
        BY <1>4 DEF Escapes
      <3>3. stack' = Popped
        <4>1. CASE LoopReturn \/ CutReturn \/ OrReturn
          BY <3>1, <3>2, <4>1 DEF LoopReturn, CutReturn, OrReturn
        <4>2. CASE CatchReturn
          BY <3>1, <3>2, <4>2 DEF CatchReturn
        <4> QED
          BY <2>4, <4>1, <4>2
      <3>4. stack' \in Seq(Frames) /\ Len(stack') = N - 1 /\ stack'[i] = stack[i]
        BY <1>1, <2>1, <3>3, TopTypes
      <3>5. i \in DOMAIN stack'
        BY <2>1, <3>4
      <3> QED
        BY <3>4, <3>5
    <2>5. ContReturn \/ LoopReturn \/ CutReturn \/ OrReturn \/ CatchReturn
      <3>1. Top.kind \notin {"cond", "not", "once", "findall"}
        BY <2>2 DEF Transparent
      <3> QED
        BY <1>1, <3>1 DEF Unwind, TryClause, Trying, LoopExhausted, CondReturn, NotReturn,
           OnceReturn, FindallReturn, Finish, Returned
    <2> QED
      BY <2>3, <2>4, <2>5
  <1> QED
    BY <1>5, <1>6

\* Hard errors are on their way only while activations return.
LEMMA HardStep ==
    ASSUME ControlOK, EmitOK, PendingOK, RetClear, [Next]_vars
    PROVE  HardErrors \subseteq HardErrors'
  <1> SUFFICES ASSUME NEW e \in {Depth, Interrupt},
                      ret.err = e \/ \E i \in DOMAIN stack : stack[i].cont = <<Error(e)>>
               PROVE  ret'.err = e \/ \E i \in DOMAIN stack' : stack'[i].cont = <<Error(e)>>
    BY DEF HardErrors
  <1>1. DOMAIN stack = Levels
    BY DEF ControlOK, Levels
  <1>2. CASE UNCHANGED <<ret, stack>>
    BY <1>2
  <1>3. CASE Cancel \/ Terminated \/ UNCHANGED vars
    <2>1. UNCHANGED <<ret, stack>>
      BY <1>3 DEF Cancel, Terminated, vars, control
    <2> QED
      BY <1>2, <2>1
  <1>4. pc \notin {"call", "try"}
    <2>1. CASE ret.err = e
      BY <2>1, HardIsNotCaught DEF RetClear
    <2>2. CASE \E i \in DOMAIN stack : stack[i].cont = <<Error(e)>>
      <3>1. PICK i \in Levels : stack[i].cont # <<>>
        BY <1>1, <2>2
      <3> QED
        BY <3>1 DEF PendingOK, Pending
    <2> QED
      BY <2>1, <2>2
  <1>5. CASE Step
    <2>1. Unwind /\ pc = "return"
      <3>1. Enter \/ Execute => pc = "call"
        BY ExecuteShape DEF Enter, Interrupted, EmitAnswer, EmitFirst, EmitCollected,
           EmitContinuation, DepthExceeded, Emitting
      <3>2. Unwind => pc \in {"try", "return"}
        BY DEF Unwind, TryClause, Trying, LoopExhausted, LoopReturn, CutReturn, OrReturn, CondReturn,
           NotReturn, OnceReturn, FindallReturn, CatchReturn, ContReturn, Finish, Returned
      <3> QED
        BY <1>4, <1>5, <3>1, <3>2 DEF Step
    <2>2. CASE ret.err = e
      BY <2>1, <2>2, HardReturned
    <2>3. CASE \E i \in DOMAIN stack : stack[i].cont = <<Error(e)>>
      BY <1>1, <2>1, <2>3, HardKept
    <2> QED
      BY <2>2, <2>3
  <1> QED
    BY <1>3, <1>5 DEF Next

\* No construct intercepts the depth bound or a cancellation: neither \+ nor
\* once, findall, catch or a clause loop takes one for a failure or drops it
\* with the continuation it escaped from (solve.go:510-511, 526-541).
THEOREM HardErrorsReachTheEnd == Spec => HardErrorsSurface
  <1>1. Init => RetClear
    BY DEF Init, RetClear, Fail, Result
  <1>2. RetClear /\ [Next]_vars => RetClear'
    BY RetClearPreserved
  <1>3. ControlOK /\ EmitOK /\ PendingOK /\ RetClear /\ [Next]_vars
          => [HardErrors \subseteq HardErrors']_vars
    BY HardStep
  <1>4. StopsReachTheirProbe <=> EmitOK /\ PendingOK
    BY DEF StopsReachTheirProbe
  <1> QED
    BY <1>1, <1>2, <1>3, <1>4, ControlIsLinked, StopsReachProbes, PTL DEF Spec, HardErrorsSurface

-----------------------------------------------------------------------------
(* The handles into the trail behave like the substitutions they stand for   *)
(* (HandlesExact), until an else branch starts over leftover bindings.  The  *)
(* trail's length is at least every handle on the call stack, and handles    *)
(* never decrease up the stack, so undoing to the handle of the top frame    *)
(* keeps all of them valid.  A probe's saved handle is the length at its     *)
(* solution; nothing undoes while the stop it raised is on its way, because  *)
(* only frames that hand it on are above the probe.                          *)

\* The frames of stack st fit a trail of length n.
HandlesIn(st, n) ==
    /\ \A i \in 1 .. Len(st) : /\ st[i].base = st[i].mark
                               /\ st[i].mark <= n
                               /\ st[i].found # <<>> => st[i].found = <<n>>
    /\ \A i, j \in 1 .. Len(st) : i <= j => st[i].mark <= st[j].mark

LEMMA HandlesExactIsHandlesIn ==
    /\ HandlesExact <=> (~leaked => /\ pc = "call" => call.mark = store.len
                                    /\ HandlesIn(stack, store.len))
    /\ HandlesExact' <=> (~leaked' => /\ pc' = "call" => call'.mark = store'.len
                                      /\ HandlesIn(stack', store'.len))
  BY DEF HandlesExact, HandlesIn, Levels

-----------------------------------------------------------------------------
(* The ways in which a step changes the stack and the trail. *)

\* The trail grows under frames of which none waits.
LEMMA HandlesGrow ==
    ASSUME stack \in Seq(Frames), NEW n \in Nat, NEW m \in Nat, n <= m, HandlesIn(stack, n),
           n = m \/ Quiet(stack)
    PROVE  HandlesIn(stack, m)
  <1>1. \A i \in 1 .. Len(stack) : stack[i].mark \in Nat
    BY ElementOfSeq, FrameFields
  <1> QED
    BY <1>1 DEF HandlesIn, Quiet

\* A frame is pushed with the trail's length as its handle.
LEMMA HandlesPush ==
    ASSUME stack \in Seq(Frames), NEW n \in Nat, HandlesIn(stack, n), NEW f, Push(f),
           f.mark = n, f.base = n, f.found = <<>>
    PROVE  HandlesIn(stack', n)
  <1> DEFINE N == Len(stack)
  <1>1. /\ N \in Nat /\ Len(stack') = N + 1 /\ stack'[N + 1] = f
        /\ \A i \in 1 .. N : stack'[i] = stack[i]
    BY PushShape
  <1>2. ASSUME NEW i \in 1 .. N + 1
        PROVE  /\ stack'[i].base = stack'[i].mark /\ stack'[i].mark <= n
               /\ stack'[i].found # <<>> => stack'[i].found = <<n>>
    <2>1. CASE i = N + 1
      BY <1>1, <2>1
    <2>2. CASE i # N + 1
      <3>1. i \in 1 .. N
        BY <1>1, <2>2
      <3> QED
        BY <1>1, <3>1 DEF HandlesIn
    <2> QED
      BY <2>1, <2>2
  <1>3. ASSUME NEW i \in 1 .. N + 1, NEW j \in 1 .. N + 1, i <= j
        PROVE  stack'[i].mark <= stack'[j].mark
    <2>1. CASE j = N + 1
      BY <1>1, <1>2, <2>1
    <2>2. CASE j # N + 1
      <3>1. i \in 1 .. N /\ j \in 1 .. N
        BY <1>1, <1>3, <2>2
      <3> QED
        BY <1>1, <1>3, <3>1 DEF HandlesIn
    <2> QED
      BY <2>1, <2>2
  <1> QED
    BY <1>1, <1>2, <1>3 DEF HandlesIn

\* The top frame is popped; the trail stays, or is cut to that frame's handle
\* or beyond while none of the frames below waits.
LEMMA HandlesPop ==
    ASSUME ControlOK, PendingOK, stack # <<>>, stack' = Popped, HandlesIn(stack, store.len),
           NEW m \in Nat, Top.mark <= m,
           \/ m = store.len
           \/ pc # "return" \/ ret # Stop
           \/ Top.kind \notin Transparent
    PROVE  HandlesIn(stack', m)
  <1> DEFINE N == Len(stack)
  <1>1. /\ N \in Nat /\ N >= 1 /\ Len(stack') = N - 1 /\ Top = stack[N] /\ Top \in Frames
        /\ \A i \in 1 .. N - 1 : stack'[i] = stack[i]
    BY PopShape
  <1>2. \A i \in 1 .. N - 1 : i \in 1 .. N /\ N \in 1 .. N /\ i < N /\ i <= N
    BY <1>1
  <1>3. \A i \in 1 .. N - 1 : stack[i].mark \in Nat /\ Top.mark \in Nat
    BY <1>1, <1>2, ElementOfSeq, FrameFields DEF ControlOK
  <1>4. \A i \in 1 .. N - 1 : stack[i].mark <= m /\ stack[i].base = stack[i].mark
    BY <1>1, <1>2, <1>3 DEF HandlesIn
  <1>5. \A i \in 1 .. N - 1 : stack[i].found # <<>> => stack[i].found = <<m>>
    <2>1. CASE m = store.len
      BY <1>2, <2>1 DEF HandlesIn
    <2>2. CASE m # store.len
      <3>1. WaitsOK(stack, pc, ret)
        BY PendingOKIsWaitsOK
      <3>2. \A i \in 1 .. N - 1 : ~Waits(stack[i])
        BY <1>1, <1>2, <2>2, <3>1 DEF WaitsOK
      <3> QED
        BY <3>2 DEF Waits
    <2> QED
      BY <2>1, <2>2
  <1>6. ASSUME NEW i \in 1 .. N - 1, NEW j \in 1 .. N - 1, i <= j
        PROVE  stack[i].mark <= stack[j].mark
    <2>1. i \in 1 .. N /\ j \in 1 .. N
      BY <1>2
    <2> QED
      BY <1>6, <2>1 DEF HandlesIn
  <1>7. \A i \in 1 .. Len(stack') : /\ stack'[i].base = stack'[i].mark
                                    /\ stack'[i].mark <= m
                                    /\ stack'[i].found # <<>> => stack'[i].found = <<m>>
    BY <1>1, <1>4, <1>5
  <1>8. \A i, j \in 1 .. Len(stack') : i <= j => stack'[i].mark <= stack'[j].mark
    <2> SUFFICES ASSUME NEW i \in 1 .. N - 1, NEW j \in 1 .. N - 1, i <= j
                 PROVE  stack'[i].mark <= stack'[j].mark
      BY <1>1
    <2> QED
      BY <1>1, <1>6
  <1> QED
    BY <1>7, <1>8 DEF HandlesIn

\* One frame's captured variables change.
LEMMA HandlesField ==
    ASSUME stack \in Seq(Frames), NEW k \in Levels, NEW f, stack' = [stack EXCEPT ![k] = f],
           NEW n \in Nat, HandlesIn(stack, n), f.mark = stack[k].mark, f.base = stack[k].base,
           f.found # <<>> => f.found = <<n>>
    PROVE  HandlesIn(stack', n)
  <1>1. /\ Len(stack') = Len(stack) /\ stack'[k] = f
        /\ \A i \in Levels \ {k} : stack'[i] = stack[i]
    BY FieldShape
  <1>2. \A i \in 1 .. Len(stack) : /\ stack'[i].mark = stack[i].mark /\ stack'[i].base = stack[i].base
                                   /\ stack'[i].found # <<>> => stack'[i].found = <<n>>
    <2> SUFFICES ASSUME NEW i \in 1 .. Len(stack)
                 PROVE  /\ stack'[i].mark = stack[i].mark /\ stack'[i].base = stack[i].base
                        /\ stack'[i].found # <<>> => stack'[i].found = <<n>>
      OBVIOUS
    <2>1. CASE i = k
      BY <1>1, <2>1
    <2>2. CASE i # k
      BY <1>1, <2>2 DEF HandlesIn, Levels
    <2> QED
      BY <2>1, <2>2
  <1> QED
    BY <1>1, <1>2 DEF HandlesIn

\* What the next activation is given, and what a return leaves.
LEMMA NextMark ==
    /\ \A m : Continue(m) => pc' = "call" /\ call'.mark = m
    /\ \A f, gs, m : ContinueFrame(f, gs, m) => pc' = "call" /\ call'.mark = m
    /\ \A r : Return(r) => pc' = "return" /\ ret' = r
    /\ \A r : PopAndReturn(r) => stack' = Popped /\ pc' = "return" /\ ret' = r
  BY DEF Continue, ContinueFrame, Resume, Return, PopAndReturn

-----------------------------------------------------------------------------
(* No step breaks a handle. *)

LEMMA HandlesEnter ==
    ASSUME ControlOK, EmitOK, PendingOK, HandlesExact, Enter
    PROVE  HandlesExact'
  <1> DEFINE e == call.emit
             f == stack[e]
  <1>1. /\ pc = "call" /\ leaked' = leaked /\ store' = store
    BY DEF Enter, Interrupted, EmitAnswer, EmitFirst, EmitCollected, EmitContinuation,
           DepthExceeded, Emitting
  <1>2. stack \in Seq(Frames) /\ store.len \in Nat
    BY DEF ControlOK
  <1> SUFFICES ASSUME ~leaked
               PROVE  /\ pc' = "call" => call'.mark = store.len
                      /\ HandlesIn(stack', store.len)
    BY <1>1, HandlesExactIsHandlesIn
  <1>3. HandlesIn(stack, store.len) /\ call.mark = store.len
    BY <1>1, HandlesExactIsHandlesIn
  <1>4. CASE Interrupted \/ EmitAnswer \/ DepthExceeded
    <2>1. stack' = stack /\ pc' = "return"
      BY <1>4, NextMark DEF Interrupted, EmitAnswer, DepthExceeded
    <2> QED
      BY <1>3, <2>1
  <1>5. CASE EmitFirst
    <2> DEFINE g == [f EXCEPT !.found = <<call.mark>>]
    <2>1. e \in Levels /\ f \in Frames /\ stack' = [stack EXCEPT ![e] = g] /\ pc' = "return"
      BY <1>5, EmitFrame, NextMark DEF EmitFirst
    <2>2. g.mark = f.mark /\ g.base = f.base /\ g.found = <<store.len>>
      BY <1>3, <2>1 DEF Frames, Records
    <2> QED
      BY <1>2, <1>3, <2>1, <2>2, HandlesField
  <1>6. CASE EmitCollected
    <2> DEFINE t == CopyOut(Inst(f.goal.g.tmpl, f.goal.act), store, fresh + 1)
               g == [f EXCEPT !.items = Append(@, t)]
    <2>1. e \in Levels /\ f \in Frames /\ stack' = [stack EXCEPT ![e] = g] /\ pc' = "return"
      BY <1>6, EmitFrame, NextMark DEF EmitCollected
    <2>2. g.mark = f.mark /\ g.base = f.base /\ g.found = f.found
      BY <2>1 DEF Frames, Records
    <2>3. g.found # <<>> => g.found = <<store.len>>
      BY <1>3, <2>1, <2>2 DEF HandlesIn, Levels
    <2> QED
      BY <1>2, <1>3, <2>1, <2>2, <2>3, HandlesField
  <1>7. CASE EmitContinuation
    <2> DEFINE g == [f EXCEPT !.kind = "cont", !.owner = e, !.mark = call.mark, !.base = store.len]
    <2>1. e \in Levels /\ f \in Frames /\ Push(g) /\ call'.mark = call.mark
      BY <1>7, EmitFrame DEF EmitContinuation, Resume
    <2>2. f.found = <<>>
      BY <1>1, <2>1, QuietUnlessStopping DEF Quiet, Levels
    <2>3. g.mark = store.len /\ g.base = store.len /\ g.found = <<>>
      BY <1>3, <2>1, <2>2 DEF Frames, Records
    <2> QED
      BY <1>2, <1>3, <2>1, <2>3, HandlesPush
  <1> QED
    BY <1>4, <1>5, <1>6, <1>7 DEF Enter

\* The constructs that push a frame leave the trail alone.
LEMMA HandlesExecutePush ==
    ASSUME ControlOK, HandlesIn(stack, store.len), pc = "call", call.mark = store.len,
           SolveCut \/ SolveOr \/ SolveIte \/ SolveInner \/ SolveCall
    PROVE  /\ pc' = "call" => call'.mark = store'.len
           /\ HandlesIn(stack', store'.len)
  <1>1. stack \in Seq(Frames) /\ store.len \in Nat
    BY DEF ControlOK
  <1>2. PICK f : Push(f) /\ f.mark = store.len /\ f.base = store.len /\ f.found = <<>>
    <2>1. CASE SolveCut
      <3> DEFINE f == [Frame("cut") EXCEPT !.bar = Current.bar]
      <3>1. f.mark = call.mark /\ f.base = store.len /\ f.found = <<>>
        BY DEF Frame
      <3> QED
        BY <2>1, <3>1 DEF SolveCut
    <2>2. CASE SolveCall
      <3> DEFINE f == [Frame("loop") EXCEPT !.clauses = db, !.bar = barriers + 1]
      <3>1. f.mark = call.mark /\ f.base = store.len /\ f.found = <<>>
        BY DEF Frame
      <3> QED
        BY <2>2, <3>1 DEF SolveCall
    <2>3. CASE SolveOr \/ SolveIte \/ SolveInner
      <3>1. \E k : Push(Frame(k))
        BY <2>3 DEF SolveOr, SolveIte, SolveInner
      <3> QED
        BY <3>1, NewFrame
    <2> QED
      BY <2>1, <2>2, <2>3
  <1>3. store' = store
    BY DEF SolveCut, SolveOr, SolveIte, SolveInner, SolveCall
  <1>4. pc' = "call" => call'.mark = call.mark
    BY NextMark DEF SolveCut, SolveOr, SolveIte, SolveInner, SolveCall, Resume
  <1> QED
    BY <1>1, <1>2, <1>3, <1>4, HandlesPush

\* The others leave the stack alone; the trail may grow, and then the next
\* activation is given its new length.
LEMMA HandlesExecuteGrow ==
    ASSUME ControlOK, call.mark = store.len,
           \/ SolveTrue \/ SolveFail \/ SolveAnd \/ SolveThrow \/ SolveEq \/ SolveNeq
           \/ SolveAssert \/ SolveRetract
    PROVE  /\ stack' = stack
           /\ store'.len \in Nat /\ store.len <= store'.len
           /\ pc' = "call" => call'.mark = store'.len
  <1>1. store.len \in Nat
    BY DEF ControlOK
  <1>2. CASE SolveTrue \/ SolveFail \/ SolveAnd \/ SolveThrow
    BY <1>1, <1>2, NextMark DEF SolveTrue, SolveFail, SolveAnd, SolveThrow, Resume
  <1>3. CASE SolveEq
    <2> DEFINE u == Unify(Arg(Current), Inst(Current.g.arg2, Current.act), store)
    <2>1. u.st.len \in Nat /\ store.len <= u.st.len
      BY <1>1, UnifyLength
    <2>2. stack' = stack /\ store' = u.st /\ (pc' = "call" => call'.mark = u.st.len)
      BY <1>3, NextMark DEF SolveEq
    <2> QED
      BY <2>1, <2>2
  <1>4. CASE SolveNeq
    <2> DEFINE u == Unify(Arg(Current), Inst(Current.g.arg2, Current.act), store)
    <2>1. u.st.len \in Nat /\ store.len <= u.st.len /\ (~u.ok => u.st = store)
      BY <1>1, UnifyLength
    <2>2. /\ stack' = stack /\ store' = u.st
          /\ pc' = "call" => ~u.ok /\ call'.mark = call.mark
      BY <1>4, NextMark DEF SolveNeq
    <2> QED
      BY <2>1, <2>2
  <1>5. CASE SolveAssert
    <2>1. stack' = stack /\ store' = store
      BY <1>5 DEF SolveAssert
    <2>2. pc' = "call" => call'.mark = call.mark
      BY <1>5, NextMark DEF SolveAssert
    <2> QED
      BY <1>1, <2>1, <2>2
  <1>6. CASE SolveRetract
    <2> DEFINE base   == IF db = <<>> THEN store ELSE UndoTo(store, call.mark)
               try(i) == Unify(Arg(Current), Inst(db[i].arg, fresh + i), base)
               try_   == [i \in 1 .. Len(db) |-> try(i)]
    <2>1. base.len = store.len
      BY UndoToLength
    <2>2. \A i \in 1 .. Len(db) : try(i).st.len \in Nat /\ store.len <= try(i).st.len
      BY <1>1, <2>1, UnifyLength
    <2>3. stack' = stack
      BY <1>6 DEF SolveRetract
    <2>4. \/ (store' = store \/ store' = base) /\ pc' = "return"
          \/ \E i \in 1 .. Len(db) : store' = try_[i].st /\ pc' = "call" /\ call'.mark = store'.len
      <3> HIDE DEF base
      <3>1. CASE Current.g.pred \notin Dynamic
        BY <1>6, <3>1, NextMark DEF SolveRetract, base
      <3>2. CASE Current.g.pred \in Dynamic
        BY <1>6, <3>2, NextMark DEF SolveRetract, base
      <3> QED
        BY <3>1, <3>2
    <2> QED
      BY <1>1, <2>1, <2>2, <2>3, <2>4
  <1> QED
    BY <1>2, <1>3, <1>4, <1>5, <1>6

LEMMA HandlesExecute ==
    ASSUME ControlOK, PendingOK, HandlesExact, Execute
    PROVE  HandlesExact'
  <1>1. pc = "call" /\ Quiet(stack) /\ stack \in Seq(Frames) /\ store.len \in Nat
    BY ExecuteShape, QuietUnlessStopping DEF ControlOK
  <1>2. leaked' = leaked
    BY DEF Execute, SolveTrue, SolveFail, SolveCut, SolveAnd, SolveOr, SolveIte, SolveInner,
           SolveThrow, SolveEq, SolveNeq, SolveCall, SolveAssert, SolveRetract
  <1> SUFFICES ASSUME ~leaked
               PROVE  /\ pc' = "call" => call'.mark = store'.len
                      /\ HandlesIn(stack', store'.len)
    BY <1>2, HandlesExactIsHandlesIn
  <1>3. HandlesIn(stack, store.len) /\ call.mark = store.len
    BY <1>1, HandlesExactIsHandlesIn
  <1>4. CASE SolveCut \/ SolveOr \/ SolveIte \/ SolveInner \/ SolveCall
    BY <1>1, <1>3, <1>4, HandlesExecutePush
  <1>5. CASE \/ SolveTrue \/ SolveFail \/ SolveAnd \/ SolveThrow \/ SolveEq \/ SolveNeq
             \/ SolveAssert \/ SolveRetract
    <2>1. /\ stack' = stack /\ store'.len \in Nat /\ store.len <= store'.len
          /\ pc' = "call" => call'.mark = store'.len
      BY <1>3, <1>5, HandlesExecuteGrow
    <2> QED
      BY <1>1, <1>3, <2>1, HandlesGrow
  <1> QED
    BY <1>4, <1>5 DEF Execute

\* The clause loop cuts the trail to its handle before it tries a clause.
LEMMA HandlesTry ==
    ASSUME ControlOK, PendingOK, HandlesIn(stack, store.len), TryClause
    PROVE  /\ pc' = "call" => call'.mark = store'.len
           /\ HandlesIn(stack', store'.len)
  <1> DEFINE N == Len(stack)
             g == [Top EXCEPT !.clauses = Tail(@)]
             base == UndoTo(store, Top.mark)
             u == Unify(Arg(Top.goal), Inst(Head(Top.clauses).arg, fresh'), base)
  <1>1. /\ N \in Nat /\ N >= 1 /\ Len(stack') = N /\ Top \in Frames /\ Top = stack[N]
        /\ \A i \in 1 .. N - 1 : stack'[i] = stack[i]
        /\ stack'[N] = g
    BY TryShape
  <1>2. g.mark = Top.mark /\ g.base = Top.base /\ g.found = Top.found /\ Top.mark \in Nat
    BY <1>1 DEF Frames, Records
  <1>3. Quiet(stack)
    BY QuietUnlessStopping DEF TryClause, Trying
  <1>4. \A i \in 1 .. N : /\ stack'[i].mark = stack[i].mark /\ stack'[i].base = stack[i].base
                          /\ stack'[i].found = <<>>
    <2> SUFFICES ASSUME NEW i \in 1 .. N
                 PROVE  /\ stack'[i].mark = stack[i].mark /\ stack'[i].base = stack[i].base
                        /\ stack'[i].found = <<>>
      OBVIOUS
    <2>1. stack[i].found = <<>>
      BY <1>3 DEF Quiet
    <2>2. CASE i = N
      BY <1>1, <1>2, <2>1, <2>2
    <2>3. CASE i # N
      <3>1. i \in 1 .. N - 1
        BY <1>1, <2>3
      <3> QED
        BY <1>1, <2>1, <3>1
    <2> QED
      BY <2>2, <2>3
  <1>5. /\ store'.len \in Nat /\ Top.mark <= store'.len
        /\ pc' = "call" => call'.mark = store'.len
    <2>1. base.len = Top.mark
      BY UndoToLength
    <2>2. u.st.len \in Nat /\ Top.mark <= u.st.len
      BY <1>2, <2>1, UnifyLength
    <2>3. \/ store' = u.st /\ pc' = "call" /\ call'.mark = u.st.len
          \/ store' = base /\ pc' = pc
      BY NextMark DEF TryClause
    <2>4. pc # "call"
      BY DEF TryClause, Trying
    <2> QED
      BY <1>2, <2>1, <2>2, <2>3, <2>4
  <1>6. \A i \in 1 .. N : stack[i].mark \in Nat /\ stack[i].mark <= Top.mark
    BY <1>1, ElementOfSeq, FrameFields DEF ControlOK, HandlesIn
  <1>7. \A i \in 1 .. N : stack'[i].mark <= store'.len
    BY <1>2, <1>4, <1>5, <1>6
  <1> QED
    BY <1>1, <1>4, <1>5, <1>7 DEF HandlesIn

\* What a frame that pops does to the trail, and the handle it goes on with.
LEMMA PopTrail ==
    ASSUME ControlOK, PendingOK, stack # <<>>, HandlesIn(stack, store.len), ~leaked',
           \/ LoopExhausted \/ CutReturn \/ OrReturn \/ CondReturn \/ NotReturn \/ OnceReturn
           \/ FindallReturn \/ CatchReturn \/ (LoopReturn /\ pc' # "try")
    PROVE  /\ store'.len \in Nat /\ Top.mark <= store'.len
           /\ pc' = "call" => call'.mark = store'.len
           /\ \/ store'.len = store.len
              \/ pc # "return" \/ ret # Stop
              \/ Top.kind \notin Transparent
  <1> DEFINE N == Len(stack)
  <1>1. /\ N \in Nat /\ N >= 1 /\ Top = stack[N] /\ Top \in Frames /\ N \in 1 .. N
        /\ store.len \in Nat
    <2>1. N \in Nat /\ N >= 1 /\ Top \in Frames /\ store.len \in Nat
      BY TopTypes DEF ControlOK
    <2> QED
      BY <2>1 DEF Top
  <1>2. Top.mark \in Nat /\ Top.mark <= store.len /\ Top.base = Top.mark
    BY <1>1, FrameFields DEF HandlesIn
  <1>3. Top.found # <<>> => Head(Top.found) = store.len
    BY <1>1 DEF HandlesIn
  <1>4. CASE LoopExhausted
    <2>1. pc = "try" /\ store'.len = Top.mark /\ pc' = "return"
      BY <1>4, UndoToLength, NextMark DEF LoopExhausted
    <2> QED
      BY <1>2, <2>1
  <1>5. CASE CutReturn \/ (LoopReturn /\ pc' # "try")
    <2>1. store' = store /\ pc' = "return"
      BY <1>5, NextMark DEF CutReturn, LoopReturn
    <2> QED
      BY <1>1, <1>2, <2>1
  <1>6. CASE OrReturn
    <2>1. CASE Escapes(ret)
      <3>1. store' = store /\ pc' = "return"
        BY <1>6, <2>1, NextMark DEF OrReturn
      <3> QED
        BY <1>1, <1>2, <3>1
    <2>2. CASE ~Escapes(ret)
      <3>1. store' = UndoTo(store, Top.mark) /\ pc' = "call" /\ call'.mark = Top.mark
        BY <1>6, <2>2, NextMark DEF OrReturn
      <3>2. ret # Stop
        BY <2>2 DEF Escapes, Stop, Result
      <3> QED
        BY <1>2, <3>1, <3>2, UndoToLength
    <2> QED
      BY <2>1, <2>2
  <1>7. CASE CondReturn
    <2>1. store' = store
      BY <1>7 DEF CondReturn
    <2>2. \/ pc' = "return"
          \/ Top.found # <<>> /\ call'.mark = Head(Top.found)
          \/ call'.mark = Top.mark /\ ~(store.len > Top.mark)
      <3>1. CASE ret.err # NoErr \/ Top.found # <<>> \/ Top.goal.g.op = "then"
        BY <1>7, <3>1, NextMark DEF CondReturn
      <3>2. CASE ret.err = NoErr /\ Top.found = <<>> /\ Top.goal.g.op # "then"
        BY <1>7, <3>2, NextMark DEF CondReturn
      <3> QED
        BY <3>1, <3>2
    <2> QED
      BY <1>1, <1>2, <1>3, <2>1, <2>2
  <1>8. CASE NotReturn
    <2>1. /\ store' = UndoTo(store, Top.base) /\ Top.kind \notin Transparent
          /\ pc' = "call" => call'.mark = Top.mark
      BY <1>8, NextMark DEF NotReturn, Returned, Transparent
    <2> QED
      BY <1>2, <2>1, UndoToLength
  <1>9. CASE OnceReturn
    <2>1. /\ store' = store
          /\ pc' = "call" => Top.found # <<>> /\ call'.mark = Head(Top.found)
      BY <1>9, NextMark DEF OnceReturn
    <2> QED
      BY <1>1, <1>2, <1>3, <2>1
  <1>10. CASE FindallReturn
    <2> DEFINE base == UndoTo(store, Top.base)
               u    == Unify(Arg(Top.goal), [list |-> Top.items], base)
    <2>1. base.len = Top.mark /\ u.st.len \in Nat /\ Top.mark <= u.st.len
      BY <1>2, UndoToLength, UnifyLength
    <2>2. /\ Top.kind \notin Transparent
          /\ \/ store' = base /\ pc' = "return"
             \/ store' = u.st /\ (pc' = "call" => call'.mark = u.st.len)
      BY <1>10, NextMark DEF FindallReturn, Returned, Transparent
    <2> QED
      BY <1>2, <2>1, <2>2
  <1>11. CASE CatchReturn
    <2> DEFINE base == UndoTo(store, Top.mark)
               u    == Unify(Arg(Top.goal), Ball(ret.err), base)
    <2>1. base.len = Top.mark /\ u.st.len \in Nat /\ Top.mark <= u.st.len
      BY <1>2, UndoToLength, UnifyLength
    <2>2. \/ store' = store /\ pc' = "return"
          \/ Catchable(ret.err) /\ store' = u.st /\ (pc' = "call" => call'.mark = u.st.len)
      BY <1>11, NextMark DEF CatchReturn
    <2>3. Catchable(ret.err) => ret # Stop
      BY DEF Catchable, Stop, Result
    <2> QED
      BY <1>1, <1>2, <2>1, <2>2, <2>3
  <1> QED
    BY <1>4, <1>5, <1>6, <1>7, <1>8, <1>9, <1>10, <1>11

LEMMA HandlesUnwind ==
    ASSUME ControlOK, EmitOK, PendingOK, HandlesExact, Unwind
    PROVE  HandlesExact'
  <1>1. leaked => leaked'
    <2>1. CASE CondReturn
      BY <2>1 DEF CondReturn
    <2> QED
      BY <2>1 DEF Unwind, TryClause, LoopExhausted, LoopReturn, CutReturn, OrReturn, NotReturn,
         OnceReturn, FindallReturn, CatchReturn, ContReturn, Finish
  <1> SUFFICES ASSUME ~leaked'
               PROVE  /\ pc' = "call" => call'.mark = store'.len
                      /\ HandlesIn(stack', store'.len)
    BY HandlesExactIsHandlesIn
  <1>2. HandlesIn(stack, store.len) /\ store.len \in Nat
    BY <1>1, HandlesExactIsHandlesIn DEF ControlOK
  <1>3. CASE TryClause
    BY <1>2, <1>3, HandlesTry
  <1>4. CASE LoopReturn /\ pc' = "try"
    <2>1. stack' = stack /\ store' = store
      BY <1>4 DEF LoopReturn, PopAndReturn, Return
    <2> QED
      BY <1>2, <1>4, <2>1
  <1>5. CASE \/ LoopExhausted \/ CutReturn \/ OrReturn \/ CondReturn \/ NotReturn \/ OnceReturn
             \/ FindallReturn \/ CatchReturn \/ (LoopReturn /\ pc' # "try")
    <2>1. stack # <<>>
      BY <1>5 DEF LoopExhausted, CutReturn, OrReturn, CondReturn, NotReturn, OnceReturn,
         FindallReturn, CatchReturn, LoopReturn, Returned, ControlOK
    <2>2. stack' = Popped
      BY <1>5, PopsContinue
    <2>3. /\ store'.len \in Nat /\ Top.mark <= store'.len
          /\ pc' = "call" => call'.mark = store'.len
          /\ \/ store'.len = store.len
             \/ pc # "return" \/ ret # Stop
             \/ Top.kind \notin Transparent
      BY <1>2, <1>5, <2>1, PopTrail
    <2> QED
      BY <1>2, <2>1, <2>2, <2>3, HandlesPop
  <1>6. CASE ContReturn
    <2> DEFINE N == Len(stack)
               o == Top.owner
    <2>1. /\ N \in Nat /\ Len(stack') = N - 1 /\ o \in 1 .. N - 1
          /\ \A i \in 1 .. N - 1 : i # o => stack'[i] = stack[i]
          /\ stack'[o] = [stack[o] EXCEPT !.cont = Captured(ret)]
          /\ stack[o] \in Frames
      BY <1>6, ContShape
    <2>2. store' = store /\ pc' = "return"
      BY <1>6, NextMark DEF ContReturn
    <2>3. \A i \in 1 .. N - 1 : /\ stack'[i].mark = stack[i].mark /\ stack'[i].base = stack[i].base
                                /\ stack'[i].found = stack[i].found
      <3> SUFFICES ASSUME NEW i \in 1 .. N - 1
                   PROVE  /\ stack'[i].mark = stack[i].mark /\ stack'[i].base = stack[i].base
                          /\ stack'[i].found = stack[i].found
        OBVIOUS
      <3>1. CASE i = o
        BY <2>1, <3>1 DEF Frames, Records
      <3>2. CASE i # o
        BY <2>1, <3>2
      <3> QED
        BY <3>1, <3>2
    <2>4. \A i \in 1 .. N - 1 : i \in 1 .. N
      BY <2>1
    <2> QED
      BY <1>2, <2>1, <2>2, <2>3, <2>4 DEF HandlesIn
  <1>7. CASE Finish
    <2>1. stack' = <<>> /\ pc' = "done"
      BY <1>7 DEF Finish
    <2> QED
      BY <2>1 DEF HandlesIn
  <1> QED
    BY <1>3, <1>4, <1>5, <1>6, <1>7 DEF Unwind

LEMMA HandlesPreserved ==
    ASSUME ControlOK, EmitOK, PendingOK, HandlesExact, [Next]_vars
    PROVE  HandlesExact'
  <1>1. CASE Cancel \/ Terminated \/ UNCHANGED vars
    <2>1. UNCHANGED <<pc, call, store, stack, leaked>>
      BY <1>1 DEF Cancel, Terminated, vars, control
    <2> QED
      BY <2>1, HandlesExactIsHandlesIn
  <1> QED
    BY <1>1, HandlesEnter, HandlesExecute, HandlesUnwind DEF Next, Step

\* Until an else branch starts over bindings of its condition, a handle stands
\* for the substitution it was taken at: an activation starts with the trail
\* exactly at its handle, and every undoTo shortens the trail (unify.go:30-34).
THEOREM HandlesAreExact == Spec => []HandlesExact
  <1>1. Init => HandlesExact
    BY HandlesExactIsHandlesIn DEF Init, HandlesIn, EmptyStore
  <1>2. ControlOK /\ EmitOK /\ PendingOK /\ HandlesExact /\ [Next]_vars => HandlesExact'
    BY HandlesPreserved
  <1>3. StopsReachTheirProbe <=> EmitOK /\ PendingOK
    BY DEF StopsReachTheirProbe
  <1> QED
    BY <1>1, <1>2, <1>3, ControlIsLinked, StopsReachProbes, PTL DEF Spec
=============================================================================
