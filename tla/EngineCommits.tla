---------------------------- MODULE EngineCommits ----------------------------
(***************************************************************************)
(* Proof that every cut names a clause loop that is still on the stack     *)
(* below it and that no continuation of a catch hides, and that loops have *)
(* barriers of their own (CommitsOwned of module EngineInv): a commit is   *)
(* consumed by the loop it belongs to, and by no other.                    *)
(***************************************************************************)
EXTENDS EngineProofs

-----------------------------------------------------------------------------
(* CommitsOwned with the stack as a parameter. *)

OwnedIn(st, b, n) == \E i \in 1 .. n : st[i].kind = "loop" /\ st[i].bar = b /\ ~HiddenIn(st, i, n)

\* Each barrier in goals gs can be cut above level n.
GoalsOwned(st, gs, n) == \A k \in DOMAIN gs : gs[k].bar # 0 => OwnedIn(st, gs[k].bar, n)

ResultOwned(st, r, n) == r.commit # 0 => OwnedIn(st, r.commit, n)

FrameOwned(st, i) ==
    /\ st[i].goal.bar # 0 => OwnedIn(st, st[i].goal.bar, i - 1)
    /\ GoalsOwned(st, st[i].rest, i - 1)
    /\ st[i].kind = "cut" => OwnedIn(st, st[i].bar, i - 1)
    /\ st[i].cont # <<>> => ResultOwned(st, Head(st[i].cont), i - 1)

Loops(st, b) ==
    /\ \A i, j \in 1 .. Len(st) :
         st[i].kind = "loop" /\ st[j].kind = "loop" /\ i # j => st[i].bar # st[j].bar
    /\ \A i \in 1 .. Len(st) : st[i].kind = "loop" => st[i].bar \in 1 .. b

FramesOwned(st) == \A i \in 1 .. Len(st) : FrameOwned(st, i)

LEMMA CommitsOwnedSplits ==
    /\ CommitsOwned <=> /\ pc = "call" => GoalsOwned(stack, call.goals, Len(stack))
                        /\ pc = "return" => ResultOwned(stack, ret, Len(stack))
                        /\ FramesOwned(stack) /\ Loops(stack, barriers)
    /\ CommitsOwned' <=> /\ pc' = "call" => GoalsOwned(stack', call'.goals, Len(stack'))
                         /\ pc' = "return" => ResultOwned(stack', ret', Len(stack'))
                         /\ FramesOwned(stack') /\ Loops(stack', barriers')
  <1>1. CommitsOwned <=> /\ pc = "call" => GoalsOwned(stack, call.goals, Len(stack))
                         /\ pc = "return" => ResultOwned(stack, ret, Len(stack))
                         /\ FramesOwned(stack) /\ Loops(stack, barriers)
    BY DEF CommitsOwned, OwnedGoals, Owned, Hidden, Levels, GoalsOwned, ResultOwned, FramesOwned,
           FrameOwned, Loops, OwnedIn, HiddenIn
  <1>2. CommitsOwned' <=> /\ pc' = "call" => GoalsOwned(stack', call'.goals, Len(stack'))
                          /\ pc' = "return" => ResultOwned(stack', ret', Len(stack'))
                          /\ FramesOwned(stack') /\ Loops(stack', barriers')
    BY DEF CommitsOwned, OwnedGoals, Owned, Hidden, Levels, GoalsOwned, ResultOwned, FramesOwned,
           FrameOwned, Loops, OwnedIn, HiddenIn
  <1> QED
    BY <1>1, <1>2

\* A barrier that can be cut can still be cut when the frames below are kept...
LEMMA OwnedKept ==
    ASSUME NEW st, NEW tt, NEW N \in Nat, SameBelow(st, tt, N), NEW n \in 0 .. N,
           NEW b, OwnedIn(st, b, n)
    PROVE  OwnedIn(tt, b, n)
  <1>1. \A i \in 1 .. n : /\ st[i].kind = tt[i].kind /\ st[i].owner = tt[i].owner
                          /\ st[i].bar = tt[i].bar
    BY DEF SameBelow, SameFrame
  <1>2. \A i \in 1 .. n : HiddenIn(tt, i, n) => HiddenIn(st, i, n)
    BY <1>1 DEF HiddenIn
  <1> QED
    BY <1>1, <1>2 DEF OwnedIn

\* ... from above one more frame that hides nothing ...
LEMMA OwnedOver ==
    ASSUME NEW st, NEW n \in Nat, NEW b, OwnedIn(st, b, n), st[n + 1].kind # "cont"
    PROVE  OwnedIn(st, b, n + 1)
  <1>1. PICK i \in 1 .. n : st[i].kind = "loop" /\ st[i].bar = b /\ ~HiddenIn(st, i, n)
    BY DEF OwnedIn
  <1>2. ~HiddenIn(st, i, n + 1)
    <2> SUFFICES ASSUME HiddenIn(st, i, n + 1) PROVE FALSE
      OBVIOUS
    <2>1. PICK k \in 1 .. n + 1 : st[k].kind = "cont" /\ st[k].owner <= i /\ i <= k
      BY DEF HiddenIn
    <2>2. k \in 1 .. n
      BY <2>1
    <2> QED
      BY <1>1, <2>1, <2>2 DEF HiddenIn
  <1>3. i \in 1 .. n + 1
    OBVIOUS
  <1> QED
    BY <1>1, <1>2, <1>3 DEF OwnedIn

\* ... and from below a frame that is not its loop.
LEMMA OwnedUnder ==
    ASSUME NEW st, NEW n \in Nat, n >= 1, NEW b, OwnedIn(st, b, n),
           st[n].kind # "loop" \/ st[n].bar # b
    PROVE  OwnedIn(st, b, n - 1)
  <1>1. PICK i \in 1 .. n : st[i].kind = "loop" /\ st[i].bar = b /\ ~HiddenIn(st, i, n)
    BY DEF OwnedIn
  <1>2. i \in 1 .. n - 1
    BY <1>1
  <1>3. ~HiddenIn(st, i, n - 1)
    BY <1>1 DEF HiddenIn
  <1> QED
    BY <1>1, <1>2, <1>3 DEF OwnedIn

\* Barrier b belongs to a clause loop below frame c that nothing up to n hides.
OwnedPast(st, b, c, n) ==
    \E i \in 1 .. c - 1 : st[i].kind = "loop" /\ st[i].bar = b /\ ~HiddenIn(st, i, n)

\* The continuation of catch c can cut what the catch could.
LEMMA OwnedBehindCatch ==
    ASSUME NEW st, NEW n \in Nat, NEW c \in 1 .. n, EmitterIn(st, c, n), st[c].kind = "catch",
           \A k \in 1 .. n : st[k].owner \in Nat, NEW b, OwnedIn(st, b, c - 1)
    PROVE  OwnedPast(st, b, c, n)
  <1>1. PICK i \in 1 .. c - 1 : st[i].kind = "loop" /\ st[i].bar = b /\ ~HiddenIn(st, i, c - 1)
    BY DEF OwnedIn
  <1>2. ~HiddenIn(st, i, n)
    <2> SUFFICES ASSUME HiddenIn(st, i, n) PROVE FALSE
      OBVIOUS
    <2>1. PICK k \in 1 .. n : st[k].kind = "cont" /\ st[k].owner <= i /\ i <= k
      BY DEF HiddenIn
    <2>2. CASE k < c
      BY <1>1, <2>1, <2>2 DEF HiddenIn
    <2>3. CASE k = c
      BY <2>1, <2>3
    <2>4. CASE k > c
      BY <2>1, <2>4 DEF EmitterIn, HiddenIn
    <2> QED
      BY <2>2, <2>3, <2>4
  <1> QED
    BY <1>1, <1>2 DEF OwnedPast

LEMMA GoalsKept ==
    ASSUME NEW st, NEW tt, NEW N \in Nat, SameBelow(st, tt, N), NEW n \in 0 .. N,
           NEW gs, GoalsOwned(st, gs, n)
    PROVE  GoalsOwned(tt, gs, n)
  BY OwnedKept DEF GoalsOwned

LEMMA GoalsOver ==
    ASSUME NEW st, NEW n \in Nat, NEW gs, GoalsOwned(st, gs, n), st[n + 1].kind # "cont"
    PROVE  GoalsOwned(st, gs, n + 1)
  BY OwnedOver DEF GoalsOwned

\* Goals before other goals.
LEMMA GoalsConcat ==
    ASSUME NEW st, NEW n, NEW gs \in Seq(Instances), NEW hs \in Seq(Instances),
           GoalsOwned(st, gs, n), GoalsOwned(st, hs, n)
    PROVE  GoalsOwned(st, gs \o hs, n)
  <1>1. /\ Len(gs) \in Nat /\ Len(hs) \in Nat /\ DOMAIN gs = 1 .. Len(gs) /\ DOMAIN hs = 1 .. Len(hs)
    BY LenProperties
  <1>2. /\ gs \o hs \in Seq(Instances) /\ Len(gs \o hs) = Len(gs) + Len(hs)
        /\ \A i \in 1 .. Len(gs) + Len(hs) :
             (gs \o hs)[i] = IF i <= Len(gs) THEN gs[i] ELSE hs[i - Len(gs)]
    BY ConcatProperties
  <1>3. DOMAIN (gs \o hs) = 1 .. Len(gs) + Len(hs)
    BY <1>1, <1>2, LenProperties
  <1>4. ASSUME NEW k \in 1 .. Len(gs) + Len(hs), (gs \o hs)[k].bar # 0
        PROVE  OwnedIn(st, (gs \o hs)[k].bar, n)
    <2>1. CASE k <= Len(gs)
      <3>1. k \in DOMAIN gs /\ (gs \o hs)[k] = gs[k]
        BY <1>1, <1>2, <2>1
      <3> QED
        BY <1>4, <3>1 DEF GoalsOwned
    <2>2. CASE ~(k <= Len(gs))
      <3>1. k - Len(gs) \in DOMAIN hs /\ (gs \o hs)[k] = hs[k - Len(gs)]
        BY <1>1, <1>2, <2>2
      <3> QED
        BY <1>4, <3>1 DEF GoalsOwned
    <2> QED
      BY <2>1, <2>2
  <1> QED
    BY <1>3, <1>4 DEF GoalsOwned

\* The current goal and the rest of a conjunction.
LEMMA GoalsSplit ==
    ASSUME NEW st, NEW n, NEW gs \in Seq(Instances), gs # <<>>, GoalsOwned(st, gs, n)
    PROVE  /\ Head(gs).bar # 0 => OwnedIn(st, Head(gs).bar, n)
           /\ GoalsOwned(st, Tail(gs), n)
  <1>1. Len(gs) \in Nat /\ Len(gs) >= 1 /\ DOMAIN gs = 1 .. Len(gs) /\ Head(gs) = gs[1]
    BY NonEmptyFacts, LenProperties
  <1>2. /\ Tail(gs) \in Seq(Instances) /\ Len(Tail(gs)) = Len(gs) - 1
        /\ \A i \in 1 .. Len(Tail(gs)) : Tail(gs)[i] = gs[i + 1]
    BY HeadTailProperties
  <1>3. DOMAIN Tail(gs) = 1 .. Len(gs) - 1
    BY <1>2, LenProperties
  <1>4. \A k \in DOMAIN Tail(gs) : k + 1 \in DOMAIN gs /\ Tail(gs)[k] = gs[k + 1]
    BY <1>1, <1>2, <1>3
  <1> QED
    BY <1>1, <1>4 DEF GoalsOwned

\* One goal.
LEMMA GoalsOne ==
    ASSUME NEW st, NEW n, NEW g, g.bar # 0 => OwnedIn(st, g.bar, n)
    PROVE  GoalsOwned(st, <<g>>, n)
  BY DEF GoalsOwned

-----------------------------------------------------------------------------
(* The ways in which a step changes the stack. *)

\* The lowest N frames are kept, but for what a catch has captured.
LEMMA FramesKept ==
    ASSUME NEW st \in Seq(Frames), NEW tt, NEW N \in Nat, N <= Len(st), SameBelow(st, tt, N),
           \A i \in 1 .. N : \/ tt[i].cont = st[i].cont
                             \/ tt[i].cont # <<>> => ResultOwned(tt, Head(tt[i].cont), i - 1),
           FramesOwned(st), NEW i \in 1 .. N
    PROVE  FrameOwned(tt, i)
  <1>1. i \in 1 .. Len(st) /\ i - 1 \in 0 .. N
    BY LenProperties
  <1>2. SameFrame(st[i], tt[i]) /\ FrameOwned(st, i)
    BY <1>1 DEF SameBelow, FramesOwned
  <1>3. tt[i].goal.bar # 0 => OwnedIn(tt, tt[i].goal.bar, i - 1)
    BY <1>1, <1>2, OwnedKept DEF FrameOwned, SameFrame
  <1>4. GoalsOwned(tt, tt[i].rest, i - 1)
    BY <1>1, <1>2, GoalsKept DEF FrameOwned, SameFrame
  <1>5. tt[i].kind = "cut" => OwnedIn(tt, tt[i].bar, i - 1)
    BY <1>1, <1>2, OwnedKept DEF FrameOwned, SameFrame
  <1>6. ASSUME tt[i].cont = st[i].cont, tt[i].cont # <<>>
        PROVE  ResultOwned(tt, Head(tt[i].cont), i - 1)
    <2>1. ResultOwned(st, Head(st[i].cont), i - 1)
      BY <1>2, <1>6 DEF FrameOwned
    <2> QED
      BY <1>1, <1>6, <2>1, OwnedKept DEF ResultOwned
  <1> QED
    BY <1>3, <1>4, <1>5, <1>6 DEF FrameOwned

LEMMA FramesShrink ==
    ASSUME NEW st \in Seq(Frames), NEW tt, NEW N \in Nat, N <= Len(st), Len(tt) = N,
           SameBelow(st, tt, N),
           \A i \in 1 .. N : \/ tt[i].cont = st[i].cont
                             \/ tt[i].cont # <<>> => ResultOwned(tt, Head(tt[i].cont), i - 1),
           FramesOwned(st), NEW b, Loops(st, b)
    PROVE  FramesOwned(tt) /\ Loops(tt, b)
  <1>1. FramesOwned(tt)
    BY FramesKept DEF FramesOwned
  <1>2. \A i \in 1 .. N : i \in 1 .. Len(st) /\ tt[i].kind = st[i].kind /\ tt[i].bar = st[i].bar
    BY LenProperties DEF SameBelow, SameFrame
  <1>3. Loops(tt, b)
    BY <1>2 DEF Loops
  <1> QED
    BY <1>1, <1>3

LEMMA FramesGrow ==
    ASSUME NEW st \in Seq(Frames), NEW tt, Len(tt) = Len(st) + 1, SameBelow(st, tt, Len(st)),
           \A i \in 1 .. Len(st) : tt[i].cont = st[i].cont,
           FrameOwned(tt, Len(st) + 1),
           FramesOwned(st), NEW b \in Nat, NEW c \in Nat, b <= c, Loops(st, b),
           tt[Len(st) + 1].kind = "loop" => tt[Len(st) + 1].bar \in b + 1 .. c
    PROVE  FramesOwned(tt) /\ Loops(tt, c)
  <1> DEFINE N == Len(st)
  <1>0. N \in Nat /\ \A i \in 1 .. N + 1 : i = N + 1 \/ i \in 1 .. N
    BY LenProperties
  <1>1. \A i \in 1 .. N : FrameOwned(tt, i)
    BY <1>0, FramesKept
  <1>2. FramesOwned(tt)
    BY <1>0, <1>1 DEF FramesOwned
  <1>3. \A i \in 1 .. N : tt[i].kind = st[i].kind /\ tt[i].bar = st[i].bar
    BY DEF SameBelow, SameFrame
  <1>4. \A i \in 1 .. N : tt[i].kind = "loop" => tt[i].bar \in 1 .. b
    BY <1>3 DEF Loops
  <1>5. \A i \in 1 .. N + 1 : tt[i].kind = "loop" => tt[i].bar \in 1 .. c
    <2> SUFFICES ASSUME NEW i \in 1 .. N + 1, tt[i].kind = "loop" PROVE tt[i].bar \in 1 .. c
      OBVIOUS
    <2>1. CASE i = N + 1
      BY <2>1
    <2>2. CASE i \in 1 .. N
      BY <1>4, <2>2
    <2> QED
      BY <1>0, <2>1, <2>2
  <1>6. ASSUME NEW i \in 1 .. N + 1, NEW j \in 1 .. N + 1, i # j,
               tt[i].kind = "loop", tt[j].kind = "loop"
        PROVE  tt[i].bar # tt[j].bar
    <2>1. CASE i = N + 1
      <3>1. tt[i].bar \in b + 1 .. c
        BY <1>6, <2>1
      <3>2. tt[j].bar \in 1 .. b
        BY <1>0, <1>4, <1>6, <2>1
      <3> QED
        BY <3>1, <3>2
    <2>2. CASE j = N + 1
      <3>1. tt[j].bar \in b + 1 .. c
        BY <1>6, <2>2
      <3>2. tt[i].bar \in 1 .. b
        BY <1>0, <1>4, <1>6, <2>2
      <3> QED
        BY <3>1, <3>2
    <2>3. CASE i \in 1 .. N /\ j \in 1 .. N
      BY <1>3, <1>6, <2>3 DEF Loops
    <2> QED
      BY <1>0, <2>1, <2>2, <2>3
  <1>7. Loops(tt, c)
    BY <1>5, <1>6 DEF Loops
  <1> QED
    BY <1>2, <1>7

\* A step that keeps the stack but for what a frame has captured.
LEMMA CommitsSame ==
    ASSUME ControlOK, CommitsOwned, Len(stack') = Len(stack),
           SameBelow(stack, stack', Len(stack)),
           \A i \in Levels : stack'[i].cont = stack[i].cont,
           pc' = "call" => GoalsOwned(stack', call'.goals, Len(stack)),
           pc' = "return" => ret'.commit = 0 \/ (pc = "return" /\ ret' = ret),
           barriers' = barriers
    PROVE  CommitsOwned'
  <1>1. stack \in Seq(Frames) /\ Len(stack) \in Nat
    BY LenProperties DEF ControlOK
  <1>2. FramesOwned(stack') /\ Loops(stack', barriers')
    BY <1>1, CommitsOwnedSplits, FramesShrink DEF Levels
  <1>3. pc' = "return" => ResultOwned(stack', ret', Len(stack))
    BY <1>1, CommitsOwnedSplits, OwnedKept DEF ResultOwned
  <1> QED
    BY <1>2, <1>3, CommitsOwnedSplits

\* A step that pushes a frame.
LEMMA CommitsPush ==
    ASSUME ControlOK, CommitsOwned, NEW f, Push(f), f.cont = <<>>,
           f.goal.bar # 0 => OwnedIn(stack, f.goal.bar, Len(stack)),
           GoalsOwned(stack, f.rest, Len(stack)),
           f.kind = "cut" => OwnedIn(stack, f.bar, Len(stack)),
           pc' # "return", pc' = "call" => GoalsOwned(stack', call'.goals, Len(stack) + 1),
           barriers' \in Nat, barriers <= barriers',
           f.kind = "loop" => f.bar \in barriers + 1 .. barriers'
    PROVE  CommitsOwned'
  <1> DEFINE N == Len(stack)
  <1>1. stack \in Seq(Frames) /\ barriers \in Nat
    BY DEF ControlOK
  <1>2. /\ N \in Nat /\ Len(stack') = N + 1 /\ stack'[N + 1] = f
        /\ \A i \in 1 .. N : stack'[i] = stack[i]
        /\ SameBelow(stack, stack', N)
    BY <1>1, PushShape
  <1>3. FrameOwned(stack', N + 1)
    <2>1. N + 1 - 1 = N /\ N \in 0 .. N
      BY <1>2
    <2>2. f.goal.bar # 0 => OwnedIn(stack', f.goal.bar, N)
      BY <1>2, <2>1, OwnedKept
    <2>3. GoalsOwned(stack', f.rest, N)
      BY <1>2, <2>1, GoalsKept
    <2>4. f.kind = "cut" => OwnedIn(stack', f.bar, N)
      BY <1>2, <2>1, OwnedKept
    <2> QED
      BY <1>2, <2>1, <2>2, <2>3, <2>4 DEF FrameOwned
  <1>4. FramesOwned(stack') /\ Loops(stack', barriers')
    BY <1>1, <1>2, <1>3, CommitsOwnedSplits, FramesGrow
  <1> QED
    BY <1>2, <1>4, CommitsOwnedSplits

\* A step that pops a frame.
LEMMA CommitsPop ==
    ASSUME ControlOK, CommitsOwned, stack # <<>>, stack' = Popped,
           pc' = "call" => GoalsOwned(stack, call'.goals, Len(stack) - 1),
           pc' = "return" => ResultOwned(stack, ret', Len(stack) - 1),
           barriers' = barriers
    PROVE  CommitsOwned'
  <1> DEFINE N == Len(stack)
  <1>1. /\ N \in Nat /\ N >= 1 /\ Len(stack') = N - 1
        /\ \A i \in 1 .. N - 1 : stack'[i] = stack[i]
        /\ SameBelow(stack, stack', N - 1)
    BY PopShape
  <1>2. stack \in Seq(Frames) /\ N - 1 \in Nat /\ N - 1 <= N /\ N - 1 \in 0 .. N - 1
    BY <1>1 DEF ControlOK
  <1>3. FramesOwned(stack') /\ Loops(stack', barriers')
    BY <1>1, <1>2, CommitsOwnedSplits, FramesShrink
  <1>4. pc' = "call" => GoalsOwned(stack', call'.goals, N - 1)
    BY <1>1, <1>2, GoalsKept
  <1>5. pc' = "return" => ResultOwned(stack', ret', N - 1)
    BY <1>1, <1>2, OwnedKept DEF ResultOwned
  <1> QED
    BY <1>1, <1>3, <1>4, <1>5, CommitsOwnedSplits

-----------------------------------------------------------------------------
(* No step loses the loop of a cut. *)

LEMMA NextGoals ==
    /\ \A m : Continue(m) => pc' = "call" /\ call'.goals = Rest
    /\ \A f, gs, m : ContinueFrame(f, gs, m) => pc' = "call" /\ call'.goals = gs \o f.rest
    /\ \A gs, m, d, e : Resume(gs, m, d, e) => pc' = "call" /\ call'.goals = gs
    /\ \A r : Return(r) => pc' = "return" /\ ret' = r
    /\ \A r : PopAndReturn(r) => stack' = Popped /\ pc' = "return" /\ ret' = r
    /\ Fail.commit = 0 /\ Stop.commit = 0 /\ \A e : Error(e).commit = 0
    /\ \A s, e : Result(s, 0, e).commit = 0
  BY DEF Continue, ContinueFrame, Resume, Return, PopAndReturn, Fail, Stop, Error, Result

LEMMA CommitsEnter ==
    ASSUME ControlOK, EmitOK, PendingOK, CommitsOwned, Enter
    PROVE  CommitsOwned'
  <1> DEFINE e == call.emit
             f == stack[e]
             N == Len(stack)
  <1>1. /\ pc = "call" /\ barriers' = barriers /\ barriers \in Nat
        /\ stack \in Seq(Frames) /\ N \in Nat /\ e \in Nat
    BY LenProperties DEF ControlOK, Calls, Enter, Interrupted, EmitAnswer, EmitFirst,
       EmitCollected, EmitContinuation, DepthExceeded, Emitting
  <1>2. CASE Interrupted \/ EmitAnswer \/ DepthExceeded
    <2>1. stack' = stack /\ pc' = "return" /\ ret'.commit = 0
      BY <1>2, NextGoals DEF Interrupted, EmitAnswer, DepthExceeded
    <2> QED
      BY <1>1, <2>1, CommitsSame, SameFrameReflexive DEF SameBelow
  <1>3. CASE EmitFirst \/ EmitCollected
    <2>1. /\ e \in Levels /\ f \in Frames /\ pc' = "return" /\ ret'.commit = 0
      BY <1>3, EmitFrame, NextGoals DEF EmitFirst, EmitCollected
    <2>2. PICK g : stack' = [stack EXCEPT ![e] = g] /\ SameFrame(f, g) /\ g.cont = f.cont
      <3>1. CASE EmitFirst
        <4>1. stack' = [stack EXCEPT ![e] = [f EXCEPT !.found = <<call.mark>>]]
          BY <3>1 DEF EmitFirst
        <4>2. /\ SameFrame(f, [f EXCEPT !.found = <<call.mark>>])
              /\ [f EXCEPT !.found = <<call.mark>>].cont = f.cont
          BY <2>1 DEF SameFrame, Frames, Records
        <4> QED
          BY <4>1, <4>2
      <3>2. CASE EmitCollected
        <4> DEFINE t == CopyOut(Inst(f.goal.g.tmpl, f.goal.act), store, fresh + 1)
        <4>1. stack' = [stack EXCEPT ![e] = [f EXCEPT !.items = Append(@, t)]]
          BY <3>2 DEF EmitCollected
        <4>2. /\ SameFrame(f, [f EXCEPT !.items = Append(@, t)])
              /\ [f EXCEPT !.items = Append(@, t)].cont = f.cont
          BY <2>1 DEF SameFrame, Frames, Records
        <4> QED
          BY <4>1, <4>2
      <3> QED
        BY <1>3, <3>1, <3>2
    <2>3. /\ Len(stack') = N /\ SameBelow(stack, stack', N) /\ stack'[e] = g
          /\ \A i \in Levels \ {e} : stack'[i] = stack[i]
      BY <1>1, <2>1, <2>2, FieldShape
    <2>4. \A i \in Levels : stack'[i].cont = stack[i].cont
      BY <2>2, <2>3
    <2> QED
      BY <1>1, <2>1, <2>3, <2>4, CommitsSame
  <1>4. CASE EmitContinuation
    <2> DEFINE g == [f EXCEPT !.kind = "cont", !.owner = e, !.mark = call.mark, !.base = store.len]
    <2>1. /\ e \in 1 .. N /\ f \in Frames /\ f.kind = "catch" /\ Push(g)
          /\ pc' = "call" /\ call'.goals = f.rest
      BY <1>4, EmitFrame, NextGoals DEF EmitContinuation, Levels
    <2>2. /\ g.kind = "cont" /\ g.owner = e /\ g.goal = f.goal /\ g.rest = f.rest /\ g.cont = f.cont
      BY <2>1 DEF Frames, Records
    <2>3. /\ EmitterIn(stack, e, N) /\ \A k \in 1 .. N : stack[k].owner \in Nat
      BY <1>1, <1>4, EmitOKIsLinks, ElementOfSeq, FrameFields DEF EmitContinuation, Emitting
    <2>4. FrameOwned(stack, e)
      BY <2>1, CommitsOwnedSplits DEF FramesOwned
    <2>5. ASSUME NEW b, OwnedIn(stack, b, e - 1)
          PROVE  OwnedPast(stack, b, e, N)
      BY <1>1, <2>1, <2>3, <2>5, OwnedBehindCatch
    <2>6. \A b : OwnedIn(stack, b, e - 1) => OwnedIn(stack, b, N)
      <3>1. \A i \in 1 .. e - 1 : i \in 1 .. N
        BY <1>1, <2>1
      <3> QED
        BY <2>5, <3>1 DEF OwnedIn, OwnedPast
    <2>7. /\ Len(stack') = N + 1 /\ stack'[N + 1] = g
          /\ \A i \in 1 .. N : stack'[i] = stack[i]
      BY <1>1, <2>1, PushShape
    <2> HIDE DEF g
    <2>8. ASSUME NEW b, OwnedIn(stack, b, e - 1)
          PROVE  OwnedIn(stack', b, N + 1)
      <3>1. PICK i \in 1 .. e - 1 : stack[i].kind = "loop" /\ stack[i].bar = b /\ ~HiddenIn(stack, i, N)
        BY <2>5, <2>8 DEF OwnedPast
      <3>2. i \in 1 .. N /\ i \in 1 .. N + 1 /\ i < e
        BY <1>1, <2>1
      <3>3. ~HiddenIn(stack', i, N + 1)
        <4> SUFFICES ASSUME HiddenIn(stack', i, N + 1) PROVE FALSE
          OBVIOUS
        <4>1. PICK k \in 1 .. N + 1 : stack'[k].kind = "cont" /\ stack'[k].owner <= i /\ i <= k
          BY DEF HiddenIn
        <4>2. CASE k = N + 1
          BY <1>1, <2>1, <2>2, <2>7, <3>2, <4>1, <4>2
        <4>3. CASE k # N + 1
          <5>1. k \in 1 .. N
            BY <1>1, <4>3
          <5> QED
            BY <2>7, <3>1, <4>1, <5>1 DEF HiddenIn
        <4> QED
          BY <4>2, <4>3
      <3> QED
        BY <2>7, <3>1, <3>2, <3>3 DEF OwnedIn
    <2>9. g.cont = <<>>
      BY <1>1, <2>1, <2>2, QuietUnlessStopping DEF Quiet
    <2>10. GoalsOwned(stack, g.rest, N) /\ (g.goal.bar # 0 => OwnedIn(stack, g.goal.bar, N))
      BY <2>2, <2>4, <2>6 DEF FrameOwned, GoalsOwned
    <2>11. GoalsOwned(stack', call'.goals, N + 1)
      BY <2>1, <2>4, <2>8 DEF FrameOwned, GoalsOwned
    <2> QED
      BY <1>1, <2>1, <2>2, <2>9, <2>10, <2>11, CommitsPush
  <1> QED
    BY <1>2, <1>3, <1>4 DEF Enter

\* A construct runs goals of its own, in place of the current one.
LEMMA CommitsExecute ==
    ASSUME ControlOK, CommitsOwned, Execute
    PROVE  CommitsOwned'
  <1> DEFINE N == Len(stack)
  <1>0. pc = "call" /\ call.goals # <<>>
    BY DEF Execute, SolveTrue, SolveFail, SolveCut, SolveAnd, SolveOr, SolveIte, SolveInner,
           SolveThrow, SolveEq, SolveNeq, SolveCall, SolveAssert, SolveRetract, Running
  <1>1. /\ stack \in Seq(Frames) /\ N \in Nat /\ barriers \in Nat
        /\ Current \in Instances /\ Rest \in Seq(Instances)
    BY <1>0, CallTypes, LenProperties DEF ControlOK
  <1>2. /\ Current.bar # 0 => OwnedIn(stack, Current.bar, N)
        /\ GoalsOwned(stack, Rest, N)
    BY <1>0, CommitsOwnedSplits, GoalsSplit DEF ControlOK, Calls, Current, Rest
  <1>3. ASSUME NEW f, Push(f), f.kind # "cont"
        PROVE  /\ GoalsOwned(stack', Rest, N + 1)
               /\ Current.bar # 0 => OwnedIn(stack', Current.bar, N + 1)
    <2>1. stack'[N + 1] = f /\ SameBelow(stack, stack', N) /\ N \in 0 .. N
      BY <1>1, <1>3, PushShape
    <2> QED
      BY <1>1, <1>2, <1>3, <2>1, GoalsKept, GoalsOver, OwnedKept, OwnedOver
  <1>4. ASSUME NEW st, NEW n, NEW gi \in Instances, GoalsOwned(st, Rest, n), NEW g \in Goals,
               gi.bar # 0 => OwnedIn(st, gi.bar, n)
        PROVE  GoalsOwned(st, <<Branch(gi, g)>> \o Rest, n) /\ GoalsOwned(st, <<Branch(gi, g)>>, n)
    <2>1. Branch(gi, g) \in Instances /\ Branch(gi, g).bar = gi.bar
      BY <1>4, BranchTypes
    <2>2. <<Branch(gi, g)>> \in Seq(Instances)
      BY <2>1, ShortSequences
    <2>3. GoalsOwned(st, <<Branch(gi, g)>>, n)
      BY <1>4, <2>1, GoalsOne
    <2> QED
      BY <1>1, <1>4, <2>2, <2>3, GoalsConcat
  <1>5. CASE \/ SolveTrue \/ SolveFail \/ SolveThrow \/ SolveEq \/ SolveNeq
             \/ SolveAssert \/ SolveRetract
    <2>1. stack' = stack /\ barriers' = barriers
      BY <1>5 DEF SolveTrue, SolveFail, SolveThrow, SolveEq, SolveNeq, SolveAssert, SolveRetract
    <2>2. \/ pc' = "call" /\ call'.goals = Rest
          \/ pc' = "return" /\ ret'.commit = 0
      <3>1. CASE SolveTrue \/ SolveFail \/ SolveThrow
        BY <3>1, NextGoals DEF SolveTrue, SolveFail, SolveThrow
      <3>2. CASE SolveEq \/ SolveNeq
        BY <3>2, NextGoals DEF SolveEq, SolveNeq
      <3>3. CASE SolveAssert
        BY <3>3, NextGoals DEF SolveAssert
      <3>4. CASE SolveRetract
        BY <3>4, NextGoals DEF SolveRetract
      <3> QED
        BY <1>5, <3>1, <3>2, <3>3, <3>4
    <2> QED
      BY <1>1, <1>2, <2>1, <2>2, CommitsSame, SameFrameReflexive DEF SameBelow
  <1>6. CASE SolveAnd
    <2> DEFINE l == Branch(Current, Current.g.left)
               r == Branch(Current, Current.g.right)
    <2>1. /\ stack' = stack /\ barriers' = barriers /\ pc' = "call"
          /\ call'.goals = <<l, r>> \o Rest /\ Current.g.op = "and"
      BY <1>6, NextGoals DEF SolveAnd, Running
    <2>2. Current.g.left \in Goals /\ Current.g.right \in Goals
      BY <1>1, <2>1, SubgoalTypes
    <2>3. /\ l \in Instances /\ r \in Instances /\ l.bar = Current.bar /\ r.bar = Current.bar
      BY <1>1, <2>2, BranchTypes
    <2> HIDE DEF l, r
    <2>4. <<l, r>> \in Seq(Instances) /\ GoalsOwned(stack, <<l, r>>, N)
      BY <1>2, <2>3 DEF GoalsOwned
    <2>5. GoalsOwned(stack, <<l, r>> \o Rest, N)
      BY <1>1, <1>2, <2>4, GoalsConcat
    <2> QED
      BY <1>1, <2>1, <2>5, CommitsSame, SameFrameReflexive DEF SameBelow
  <1>7. CASE SolveCut
    <2> DEFINE f == [Frame("cut") EXCEPT !.bar = Current.bar]
    <2>1. /\ Push(f) /\ barriers' = barriers /\ pc' = "call" /\ call'.goals = Rest
          /\ Current.bar # 0
      BY <1>7, NextGoals DEF SolveCut
    <2>2. /\ f.kind = "cut" /\ f.cont = <<>> /\ f.goal = Current /\ f.rest = Rest
          /\ f.bar = Current.bar
      BY DEF Frame
    <2> HIDE DEF f
    <2>3. GoalsOwned(stack', Rest, N + 1)
      BY <1>3, <2>1, <2>2
    <2> QED
      BY <1>1, <1>2, <2>1, <2>2, <2>3, CommitsPush
  <1>8. CASE SolveCall
    <2> DEFINE f == [Frame("loop") EXCEPT !.clauses = db, !.bar = barriers + 1]
    <2>1. Push(f) /\ barriers' = barriers + 1 /\ pc' = "try"
      BY <1>8 DEF SolveCall
    <2>2. /\ f.kind = "loop" /\ f.cont = <<>> /\ f.goal = Current /\ f.rest = Rest
          /\ f.bar = barriers + 1
      BY DEF Frame
    <2> HIDE DEF f
    <2> QED
      BY <1>1, <1>2, <2>1, <2>2, CommitsPush
  <1>9. CASE SolveOr
    <2>1. /\ Push(Frame("or")) /\ barriers' = barriers /\ pc' = "call" /\ Current.g.op = "or"
          /\ call'.goals = <<Branch(Current, Current.g.left)>> \o Rest
      BY <1>9, NextGoals DEF SolveOr, Running
    <2>2. Current.g.left \in Goals
      BY <1>1, <2>1, SubgoalTypes
    <2>3. /\ GoalsOwned(stack', Rest, N + 1)
          /\ Current.bar # 0 => OwnedIn(stack', Current.bar, N + 1)
      BY <1>3, <2>1, NewFrame
    <2>4. GoalsOwned(stack', call'.goals, N + 1)
      BY <1>1, <1>4, <2>1, <2>2, <2>3
    <2> QED
      BY <1>1, <1>2, <2>1, <2>4, NewFrame, CommitsPush
  <1>10. CASE SolveIte
    <2>1. /\ Push(Frame("cond")) /\ barriers' = barriers /\ pc' = "call"
          /\ call'.goals = <<Branch(Current, Cond(Current.g))>>
          /\ Current.g.op = "then" \/ IsIte(Current.g)
      BY <1>10, NextGoals DEF SolveIte, Running
    <2>2. Cond(Current.g) \in Goals
      BY <1>1, <2>1, SubgoalTypes, IteTypes
    <2>3. /\ GoalsOwned(stack', Rest, N + 1)
          /\ Current.bar # 0 => OwnedIn(stack', Current.bar, N + 1)
      BY <1>3, <2>1, NewFrame
    <2>4. GoalsOwned(stack', call'.goals, N + 1)
      BY <1>1, <1>4, <2>1, <2>2, <2>3
    <2> QED
      BY <1>1, <1>2, <2>1, <2>4, NewFrame, CommitsPush
  <1>11. CASE SolveInner
    <2>1. PICK k \in {"not", "once", "findall", "catch"} :
            /\ Push(Frame(k)) /\ barriers' = barriers /\ pc' = "call"
            /\ Current.g.op = k
            /\ call'.goals = <<Opaque(Current, Current.g.left)>>
      BY <1>11, NextGoals DEF SolveInner, Running
    <2>2. Opaque(Current, Current.g.left).bar = 0
      BY <1>1, <2>1, SubgoalTypes, BranchTypes
    <2>3. GoalsOwned(stack', call'.goals, N + 1)
      BY <2>1, <2>2, GoalsOne
    <2> QED
      BY <1>1, <1>2, <2>1, <2>3, NewFrame, CommitsPush
  <1> QED
    BY <1>5, <1>6, <1>7, <1>8, <1>9, <1>10, <1>11 DEF Execute

\* The clause loop hands its own barrier to the cuts of a body.
LEMMA CommitsTry ==
    ASSUME ControlOK, CommitsOwned, TryClause
    PROVE  CommitsOwned'
  <1> DEFINE N == Len(stack)
             f == [Top EXCEPT !.clauses = Tail(@)]
             c == Head(Top.clauses)
  <1>1. /\ stack # <<>> /\ Top \in Frames /\ Top.kind = "loop" /\ Top = stack[N]
        /\ N \in Nat /\ N >= 1 /\ Len(stack') = N
        /\ \A i \in 1 .. N - 1 : stack'[i] = stack[i]
        /\ stack'[N] = f
        /\ SameBelow(stack, stack', N)
    BY TryShape
  <1>2. f.cont = Top.cont /\ f.bar = Top.bar /\ f.rest = Top.rest /\ f.kind = "loop"
    BY <1>1 DEF Frames, Records
  <1>20. stack'[N].kind = "loop" /\ stack'[N].bar = Top.bar /\ stack'[N].cont = Top.cont
    BY <1>1, <1>2
  <1> HIDE DEF f
  <1>3. \A i \in Levels : stack'[i].cont = stack[i].cont
    <2> SUFFICES ASSUME NEW i \in 1 .. N PROVE stack'[i].cont = stack[i].cont
      BY DEF Levels
    <2>1. CASE i = N
      BY <1>1, <1>20, <2>1
    <2>2. CASE i # N
      <3>1. i \in 1 .. N - 1
        BY <1>1, <2>2
      <3> QED
        BY <1>1, <3>1
    <2> QED
      BY <2>1, <2>2
  <1>4. pc = "try" /\ barriers' = barriers /\ fresh' = fresh + 1
    BY DEF TryClause, Trying
  <1>5. \/ pc' = "call" /\ call'.goals = Body(c, fresh', f.bar) \o f.rest
        \/ pc' = "try"
    BY <1>4, NextGoals DEF TryClause, f
  <1>6. ASSUME pc' = "call"
        PROVE  GoalsOwned(stack', call'.goals, N)
    <2>1. /\ Body(c, fresh', Top.bar) \in Seq(Instances)
          /\ \A k \in DOMAIN Body(c, fresh', Top.bar) : Body(c, fresh', Top.bar)[k].bar = Top.bar
      <3>1. Top.clauses \in Seq(Clauses) /\ Top.clauses # <<>> /\ fresh' \in Nat /\ Top.bar \in Nat
        BY <1>1, <1>4, FrameFields DEF ControlOK, TryClause, Trying
      <3>2. c \in Clauses
        BY <3>1, NonEmptyFacts
      <3> QED
        BY <3>1, <3>2, BodyType
    <2>2. OwnedIn(stack', Top.bar, N)
      <3>1. ~HiddenIn(stack', N, N)
        BY <1>1, <1>20 DEF HiddenIn
      <3>2. N \in 1 .. N
        BY <1>1
      <3> QED
        BY <1>20, <3>1, <3>2 DEF OwnedIn
    <2>3. GoalsOwned(stack', Body(c, fresh', Top.bar), N)
      BY <2>1, <2>2 DEF GoalsOwned
    <2>4. GoalsOwned(stack, Top.rest, N - 1)
      BY <1>1, CommitsOwnedSplits DEF FramesOwned, FrameOwned
    <2>5. N - 1 \in Nat /\ N - 1 \in 0 .. N /\ (N - 1) + 1 = N
      BY <1>1
    <2>6. GoalsOwned(stack', Top.rest, N - 1)
      BY <1>1, <2>4, <2>5, GoalsKept
    <2>7. GoalsOwned(stack', Top.rest, N)
      <3>1. stack'[N - 1 + 1].kind # "cont"
        BY <1>20, <2>5
      <3>2. GoalsOwned(stack', Top.rest, N - 1 + 1)
        BY <2>5, <2>6, <3>1, GoalsOver
      <3> QED
        BY <2>5, <3>2
    <2>8. call'.goals = Body(c, fresh', Top.bar) \o Top.rest
      BY <1>2, <1>5, <1>6
    <2>9. Top.rest \in Seq(Instances)
      BY <1>1, FrameFields
    <2> HIDE DEF c
    <2> QED
      BY <2>1, <2>3, <2>7, <2>8, <2>9, GoalsConcat
  <1>7. pc' # "return"
    BY <1>5
  <1> QED
    BY <1>1, <1>3, <1>4, <1>6, <1>7, CommitsSame

\* What a frame that pops hands on, or goes on with.
LEMMA PopGoals ==
    ASSUME ControlOK, CommitsOwned, stack # <<>>,
           \/ LoopExhausted \/ CutReturn \/ OrReturn \/ CondReturn \/ NotReturn \/ OnceReturn
           \/ FindallReturn \/ CatchReturn \/ (LoopReturn /\ pc' # "try")
    PROVE  /\ barriers' = barriers
           /\ pc' = "call" => GoalsOwned(stack, call'.goals, Len(stack) - 1)
           /\ pc' = "return" => ResultOwned(stack, ret', Len(stack) - 1)
  <1> DEFINE N == Len(stack)
             f == Top
             g == f.goal.g
  <1>1. /\ N \in Nat /\ N >= 1 /\ f = stack[N] /\ f \in Frames
        /\ f.goal \in Instances /\ f.rest \in Seq(Instances) /\ FitsGoal(f)
    BY TopTypes, FrameFields DEF Top
  <1>2. FrameOwned(stack, N)
    BY <1>1, CommitsOwnedSplits DEF FramesOwned
  <1>3. /\ f.goal.bar # 0 => OwnedIn(stack, f.goal.bar, N - 1)
        /\ GoalsOwned(stack, f.rest, N - 1)
        /\ f.kind = "cut" => OwnedIn(stack, f.bar, N - 1)
        /\ f.cont # <<>> => ResultOwned(stack, Head(f.cont), N - 1)
    BY <1>1, <1>2 DEF FrameOwned
  <1>4. ASSUME pc = "return", f.kind # "loop" \/ f.bar # ret.commit
        PROVE  ResultOwned(stack, ret, N - 1)
    BY <1>1, <1>4, CommitsOwnedSplits, OwnedUnder DEF ResultOwned
  <1>5. ASSUME NEW h \in Goals
        PROVE  /\ GoalsOwned(stack, <<Branch(f.goal, h)>> \o f.rest, N - 1)
               /\ GoalsOwned(stack, <<Opaque(f.goal, h)>> \o f.rest, N - 1)
    <2> DEFINE x == Branch(f.goal, h)
               y == Opaque(f.goal, h)
    <2>1. x \in Instances /\ y \in Instances /\ x.bar = f.goal.bar /\ y.bar = 0
      BY <1>1, BranchTypes
    <2> HIDE DEF x, y
    <2>2. <<x>> \in Seq(Instances) /\ <<y>> \in Seq(Instances)
      BY <2>1, ShortSequences
    <2>3. GoalsOwned(stack, <<x>>, N - 1) /\ GoalsOwned(stack, <<y>>, N - 1)
      BY <1>3, <2>1, GoalsOne
    <2> QED
      BY <1>1, <1>3, <2>2, <2>3, GoalsConcat DEF x, y
  <1>6. GoalsOwned(stack, <<>> \o f.rest, N - 1)
    <2>1. <<>> \in Seq(Instances) /\ GoalsOwned(stack, <<>>, N - 1)
      BY DEF GoalsOwned
    <2> QED
      BY <1>1, <1>3, <2>1, GoalsConcat
  <1>7. barriers' = barriers
    BY DEF LoopExhausted, CutReturn, OrReturn, CondReturn, NotReturn, OnceReturn, FindallReturn,
       CatchReturn, LoopReturn
  <1>8. \A r : r.commit = 0 => ResultOwned(stack, r, N - 1)
    BY DEF ResultOwned
  <1>9. CASE LoopExhausted
    BY <1>7, <1>8, <1>9, NextGoals DEF LoopExhausted
  <1>10. CASE LoopReturn /\ pc' # "try"
    <2>1. pc' = "return" /\ ret' = LoopResult(f, ret) /\ pc = "return"
      BY <1>10, NextGoals DEF LoopReturn, Returned
    <2>2. \/ LoopResult(f, ret).commit = 0
          \/ f.bar # ret.commit /\ LoopResult(f, ret).commit = ret.commit
      BY DEF LoopResult, Error, Stop, Fail, Commit, Result
    <2> QED
      BY <1>4, <1>7, <1>8, <2>1, <2>2 DEF ResultOwned
  <1>11. CASE CutReturn
    <2>1. /\ pc' = "return" /\ ret' = (IF Escapes(ret) THEN ret ELSE Commit(f.bar))
          /\ pc = "return" /\ f.kind = "cut"
      BY <1>11, NextGoals DEF CutReturn, Returned
    <2>2. ResultOwned(stack, Commit(f.bar), N - 1)
      BY <1>3, <2>1 DEF ResultOwned, Commit, Result
    <2> QED
      BY <1>4, <1>7, <2>1, <2>2
  <1>12. CASE OrReturn
    <2>1. pc = "return" /\ f.kind = "or"
      BY <1>12 DEF OrReturn, Returned
    <2>2. g.right \in Goals
      BY <1>1, <2>1, SubgoalTypes DEF FitsGoal
    <2>3. \/ pc' = "return" /\ ret' = ret
          \/ pc' = "call" /\ call'.goals = <<Branch(f.goal, g.right)>> \o f.rest
      BY <1>12, NextGoals DEF OrReturn
    <2> QED
      BY <1>4, <1>5, <1>7, <2>1, <2>2, <2>3
  <1>13. CASE CondReturn
    <2>1. f.kind = "cond" /\ g \in Goals /\ (g.op = "then" \/ IsIte(g))
      BY <1>1, <1>13, SubgoalTypes DEF CondReturn, Returned, FitsGoal
    <2>2. Then(g) \in Goals /\ (g.op # "then" => g.right \in Goals)
      BY <2>1, IteTypes
    <2>3. \/ pc' = "return" /\ ret'.commit = 0
          \/ pc' = "call" /\ call'.goals = <<Branch(f.goal, Then(g))>> \o f.rest
          \/ g.op # "then" /\ pc' = "call" /\ call'.goals = <<Branch(f.goal, g.right)>> \o f.rest
      BY <1>13, NextGoals DEF CondReturn
    <2> QED
      BY <1>5, <1>7, <1>8, <2>2, <2>3
  <1>14. CASE NotReturn \/ OnceReturn
    <2>1. \/ pc' = "return" /\ ret'.commit = 0
          \/ pc' = "call" /\ call'.goals = <<>> \o f.rest
      BY <1>14, NextGoals DEF NotReturn, OnceReturn
    <2> QED
      BY <1>6, <1>7, <1>8, <2>1
  <1>15. CASE FindallReturn
    <2>1. \/ pc' = "return" /\ ret'.commit = 0
          \/ pc' = "call" /\ call'.goals = <<>> \o f.rest
      BY <1>15, NextGoals DEF FindallReturn
    <2> QED
      BY <1>6, <1>7, <1>8, <2>1
  <1>16. CASE CatchReturn
    <2>1. pc = "return" /\ f.kind = "catch"
      BY <1>16 DEF CatchReturn, Returned
    <2>2. g.right \in Goals
      BY <1>1, <2>1, SubgoalTypes DEF FitsGoal
    <2>3. \/ f.cont # <<>> /\ pc' = "return" /\ ret' = Head(f.cont)
          \/ pc' = "return" /\ ret' = ret
          \/ pc' = "call" /\ call'.goals = <<Opaque(f.goal, g.right)>> \o f.rest
      BY <1>16, NextGoals DEF CatchReturn
    <2> QED
      BY <1>3, <1>4, <1>5, <1>7, <2>1, <2>2, <2>3
  <1> QED
    BY <1>9, <1>10, <1>11, <1>12, <1>13, <1>14, <1>15, <1>16

\* What a continuation commits to lies below its catch.
LEMMA CommitsCont ==
    ASSUME ControlOK, EmitOK, CommitsOwned, ContReturn
    PROVE  CommitsOwned'
  <1> DEFINE N == Len(stack)
             o == Top.owner
  <1>1. /\ N \in Nat /\ N \in 1 .. N /\ Len(stack') = N - 1 /\ Top = stack[N] /\ Top.kind = "cont"
        /\ o \in 1 .. N - 1
        /\ \A i \in 1 .. N - 1 : i # o => stack'[i] = stack[i]
        /\ stack'[o] = [stack[o] EXCEPT !.cont = Captured(ret)]
        /\ stack[o] \in Frames
        /\ SameBelow(stack, stack', N - 1)
    BY ContShape DEF Levels
  <1>2. /\ pc = "return" /\ pc' = "return" /\ ret'.commit = 0 /\ barriers' = barriers
        /\ stack \in Seq(Frames)
    BY NextGoals DEF ContReturn, Returned, ControlOK
  <1>3. ASSUME Escapes(ret)
        PROVE  ResultOwned(stack', ret, o - 1)
    <2> SUFFICES ASSUME ret.commit # 0 PROVE OwnedIn(stack', ret.commit, o - 1)
      BY DEF ResultOwned
    <2>1. OwnedIn(stack, ret.commit, N)
      BY <1>2, CommitsOwnedSplits DEF ResultOwned
    <2>2. PICK i \in 1 .. N : /\ stack[i].kind = "loop" /\ stack[i].bar = ret.commit
                              /\ ~HiddenIn(stack, i, N)
      BY <2>1 DEF OwnedIn
    <2>3. i < o
      BY <1>1, <2>2 DEF HiddenIn
    <2>4. i \in 1 .. o - 1 /\ o - 1 \in 0 .. N - 1
      BY <1>1, <2>3
    <2>5. ~HiddenIn(stack, i, o - 1)
      BY <1>1, <2>2 DEF HiddenIn
    <2>6. OwnedIn(stack, ret.commit, o - 1)
      BY <2>2, <2>4, <2>5 DEF OwnedIn
    <2> QED
      BY <1>1, <2>4, <2>6, OwnedKept
  <1>4. stack'[o].cont = Captured(ret)
    BY <1>1 DEF Frames, Records
  <1>5. stack'[o].cont # <<>> => ResultOwned(stack', Head(stack'[o].cont), o - 1)
    BY <1>3, <1>4 DEF Captured
  <1>6. \A i \in 1 .. N - 1 : \/ stack'[i].cont = stack[i].cont
                              \/ stack'[i].cont # <<>> => ResultOwned(stack', Head(stack'[i].cont), i - 1)
    BY <1>1, <1>5
  <1>7. N - 1 \in Nat /\ N - 1 <= N
    BY <1>1
  <1>8. FramesOwned(stack') /\ Loops(stack', barriers')
    BY <1>1, <1>2, <1>6, <1>7, CommitsOwnedSplits, FramesShrink
  <1> QED
    BY <1>2, <1>8, CommitsOwnedSplits DEF ResultOwned

LEMMA CommitsUnwind ==
    ASSUME ControlOK, EmitOK, CommitsOwned, Unwind
    PROVE  CommitsOwned'
  <1>1. CASE TryClause
    BY <1>1, CommitsTry
  <1>2. CASE LoopReturn /\ pc' = "try"
    <2>1. stack' = stack /\ barriers' = barriers
      BY <1>2 DEF LoopReturn, PopAndReturn, Return
    <2> QED
      BY <1>2, <2>1, CommitsSame, SameFrameReflexive DEF SameBelow
  <1>3. CASE \/ LoopExhausted \/ CutReturn \/ OrReturn \/ CondReturn \/ NotReturn \/ OnceReturn
             \/ FindallReturn \/ CatchReturn \/ (LoopReturn /\ pc' # "try")
    <2>1. stack # <<>>
      BY <1>3 DEF LoopExhausted, CutReturn, OrReturn, CondReturn, NotReturn, OnceReturn,
         FindallReturn, CatchReturn, LoopReturn, Returned, ControlOK
    <2>2. stack' = Popped
      BY <1>3, PopsContinue
    <2>3. /\ barriers' = barriers
          /\ pc' = "call" => GoalsOwned(stack, call'.goals, Len(stack) - 1)
          /\ pc' = "return" => ResultOwned(stack, ret', Len(stack) - 1)
      BY <1>3, <2>1, PopGoals
    <2> QED
      BY <2>1, <2>2, <2>3, CommitsPop
  <1>4. CASE ContReturn
    BY <1>4, CommitsCont
  <1>5. CASE Finish
    <2>1. stack' = <<>> /\ pc' = "done"
      BY <1>5 DEF Finish
    <2> QED
      BY <2>1, CommitsOwnedSplits DEF FramesOwned, Loops
  <1> QED
    BY <1>1, <1>2, <1>3, <1>4, <1>5 DEF Unwind

LEMMA CommitsPreserved ==
    ASSUME ControlOK, EmitOK, PendingOK, CommitsOwned, [Next]_vars
    PROVE  CommitsOwned'
  <1>1. CASE Cancel \/ Terminated \/ UNCHANGED vars
    <2>1. UNCHANGED <<pc, call, ret, stack, barriers>>
      BY <1>1 DEF Cancel, Terminated, vars, control
    <2> QED
      BY <2>1, CommitsOwnedSplits
  <1> QED
    BY <1>1, CommitsEnter, CommitsExecute, CommitsUnwind DEF Next, Step

LEMMA CommitsInitially == Init => CommitsOwned
  <1> SUFFICES ASSUME Init PROVE CommitsOwned
    OBVIOUS
  <1>1. /\ stack = <<>> /\ pc = "call"
        /\ call.goals = [i \in 1 .. Len(query) |-> Goal(query[i], 0, 0)]
    BY DEF Init
  <1>2. GoalsOwned(stack, call.goals, Len(stack))
    BY <1>1 DEF GoalsOwned, Goal
  <1> QED
    BY <1>1, <1>2, CommitsOwnedSplits DEF FramesOwned, Loops

\* A cut that can still run, and a commit on its way up, always have exactly one
\* loop to end at, below the catch whose continuation they come from, if any
\* (solve.go:250-254, 448-462, 565-601).
THEOREM CommitsHaveOwners == Spec => []CommitsOwned
  <1>1. ControlOK /\ EmitOK /\ PendingOK /\ CommitsOwned /\ [Next]_vars => CommitsOwned'
    BY CommitsPreserved
  <1>2. StopsReachTheirProbe <=> EmitOK /\ PendingOK
    BY DEF StopsReachTheirProbe
  <1> QED
    BY <1>1, <1>2, CommitsInitially, ControlIsLinked, StopsReachProbes, PTL DEF Spec
=============================================================================
