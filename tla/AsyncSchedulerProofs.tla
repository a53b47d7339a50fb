------------------------ MODULE AsyncSchedulerProofs ------------------------
(***************************************************************************)
(* Proofs about AsyncScheduler, for every forest of tasks: any number of   *)
(* tasks, nested and emitted in any way the assumption on the constants    *)
(* allows, with any timeouts, losses and cancellations.                    *)
(***************************************************************************)
EXTENDS AsyncScheduler, WellFoundedInduction, TLAPS

-----------------------------------------------------------------------------
(***************************************************************************)
(* A non-empty set of tasks has a first and an earliest one: ranks and     *)
(* creation times are natural numbers, and those are well-ordered.         *)
(***************************************************************************)
Below == {s \in Nat \X Nat : s[1] < s[2]}

LEMMA LeastNat ==
  ASSUME NEW S, S \subseteq Nat, S # {}
  PROVE  \E x \in S : \A y \in S : x <= y
<1>1. IsWellFoundedOn(Below, Nat)  BY NatLessThanWellFounded DEF OpToRel, Below
<1>2. PICK x \in S : \A y \in S : ~(<<y, x>> \in Below)  BY <1>1, WFMin
<1>3. ASSUME NEW y \in S PROVE x <= y
  <2>1. ~(<<y, x>> \in Below)  BY <1>2
  <2> QED  BY <2>1 DEF Below
<1> QED  BY <1>3

LEMMA LeastTask ==
  ASSUME NEW S, S \subseteq Tasks, S # {}, NEW key \in [Tasks -> Nat]
  PROVE  \E t \in S : \A u \in S : key[t] <= key[u]
<1> DEFINE K == {key[t] : t \in S}
<1>1. K \subseteq Nat /\ K # {}  OBVIOUS
<1>2. PICK x \in K : \A y \in K : x <= y
  <2> HIDE DEF K
  <2> QED  BY <1>1, LeastNat
<1>3. PICK t \in S : x = key[t]  BY <1>2
<1> QED  BY <1>2, <1>3

LEMMA FirstIsLeast ==
  ASSUME NEW S, S \subseteq Tasks, S # {}
  PROVE  First(S) \in S /\ \A u \in S : Rank[First(S)] <= Rank[u]
<1>1. \E t \in S : \A u \in S : Rank[t] <= Rank[u]  BY LeastTask, TreeAssumption
<1> QED  BY <1>1 DEF First

LEMMA EarliestIsMember ==
  ASSUME NEW S, S \subseteq Tasks, S # {}
  PROVE  Earliest(S) \in S
<1>1. \E t \in S : \A u \in S : Created[t] <= Created[u]  BY LeastTask, TreeAssumption
<1> QED  BY <1>1 DEF Earliest

-----------------------------------------------------------------------------
(***************************************************************************)
(* The stack.                                                              *)
(***************************************************************************)
LEMMA FrameType ==
  ASSUME NEW op \in {"call", "first", "each", "done", "child_done", "if_empty", "erase"},
         NEW t \in Tasks, NEW todo \in SUBSET Tasks
  PROVE  /\ Frame(op, t, todo) \in Frames
         /\ Frame(op, t, todo).op = op /\ Frame(op, t, todo).task = t
         /\ Frame(op, t, todo).todo = todo
BY DEF Frame, Frames

LEMMA TwoFrames ==
  ASSUME NEW f \in Frames, NEW g \in Frames
  PROVE  /\ <<f>> \o <<g>> = <<f, g>> /\ <<>> \o <<g>> = <<g>>
         /\ <<f>> \o <<>> \o <<g>> = <<f, g>> /\ <<>> \o <<f>> \o <<g>> = <<f, g>>
         /\ <<>> \o <<>> \o <<g>> = <<g>>
<1>1. <<f>> \in Seq(Frames) /\ <<g>> \in Seq(Frames) /\ <<f, g>> \in Seq(Frames)
      /\ <<>> \in Seq(Frames)
  OBVIOUS
<1>2. <<f>> \o <<g>> = <<f, g>>
  <2> DEFINE s == <<f>> \o <<g>>
             u == <<f, g>>
  <2>1. s \in Seq(Frames) /\ Len(s) = 2 /\ s[1] = f /\ s[2] = g  BY <1>1
  <2>2. u \in Seq(Frames) /\ Len(u) = 2 /\ u[1] = f /\ u[2] = g  BY <1>1
  <2> HIDE DEF s, u
  <2>3. DOMAIN s = {1, 2} /\ DOMAIN u = {1, 2}  BY <2>1, <2>2
  <2>4. s = [i \in DOMAIN s |-> s[i]] /\ u = [i \in DOMAIN u |-> u[i]]  BY <2>1, <2>2
  <2>5. s = u  BY <2>1, <2>2, <2>3, <2>4
  <2> QED  BY <2>5 DEF s, u
<1>3. <<>> \o <<g>> = <<g>>  OBVIOUS
<1>4. <<f>> \o <<>> = <<f>> /\ <<>> \o <<f>> = <<f>> /\ <<>> \o <<>> = <<>>  OBVIOUS
<1> QED  BY <1>2, <1>3, <1>4

LEMMA TopFrame ==
  ASSUME TypeOK, NEW op, Top(op)
  PROVE  /\ Len(stack) \in Nat \ {0} /\ DOMAIN stack = 1 .. Len(stack)
         /\ stack[1] \in Frames /\ stack[1].op = op /\ Head(stack) = stack[1]
         /\ stack[1].task = Task /\ Task \in Tasks
         /\ stack[1].todo \subseteq Tasks
<1>1. stack \in Seq(Frames) /\ stack # <<>> /\ Head(stack).op = op  BY DEF TypeOK, Top
<1>2. Len(stack) \in Nat \ {0} /\ DOMAIN stack = 1 .. Len(stack)  BY <1>1
<1>3. Head(stack) = stack[1] /\ stack[1] \in Frames  BY <1>1, <1>2
<1> QED  BY <1>1, <1>2, <1>3 DEF Frames, Task

(***************************************************************************)
(* Goes(fs) leaves the frames below the top one where they are, with fs on *)
(* top of them.                                                            *)
(***************************************************************************)
LEMMA GoesOn ==
  ASSUME TypeOK, stack # <<>>, NEW fs \in Seq(Frames), Goes(fs)
  PROVE  /\ stack' \in Seq(Frames) /\ DOMAIN stack' = 1 .. Len(stack')
         /\ Len(fs) \in Nat /\ Len(stack) \in Nat \ {0} /\ DOMAIN stack = 1 .. Len(stack)
         /\ DOMAIN fs = 1 .. Len(fs)
         /\ Len(stack') = Len(fs) + Len(stack) - 1
         /\ \A k \in 1 .. Len(fs) : stack'[k] = fs[k]
         /\ \A k \in 1 .. Len(stack') : k > Len(fs) =>
              /\ k - Len(fs) + 1 \in DOMAIN stack \ {1}
              /\ stack'[k] = stack[k - Len(fs) + 1]
         /\ \A j \in DOMAIN stack \ {1} :
              /\ j + Len(fs) - 1 \in DOMAIN stack'
              /\ stack'[j + Len(fs) - 1] = stack[j]
<1>1. stack \in Seq(Frames) /\ stack # <<>>  BY DEF TypeOK
<1>2. Tail(stack) \in Seq(Frames) /\ Len(Tail(stack)) = Len(stack) - 1  BY <1>1
<1>3. Len(stack) \in Nat \ {0} /\ DOMAIN stack = 1 .. Len(stack)  BY <1>1
<1>4. \A i \in 1 .. Len(stack) - 1 : Tail(stack)[i] = stack[i + 1]  BY <1>1
<1>5. stack' = fs \o Tail(stack)  BY DEF Goes
<1>6. Len(fs) \in Nat /\ DOMAIN fs = 1 .. Len(fs)  OBVIOUS
<1>7. /\ stack' \in Seq(Frames) /\ DOMAIN stack' = 1 .. Len(stack')
      /\ Len(stack') = Len(fs) + Len(stack) - 1
  BY <1>2, <1>3, <1>5, <1>6
<1>8. \A k \in 1 .. Len(fs) : stack'[k] = fs[k]  BY <1>2, <1>3, <1>5, <1>6
<1>9. \A k \in 1 .. Len(stack') : k > Len(fs) => stack'[k] = Tail(stack)[k - Len(fs)]
  BY <1>2, <1>3, <1>5, <1>6, <1>7
<1>10. ASSUME NEW k \in 1 .. Len(stack'), k > Len(fs)
       PROVE  /\ k - Len(fs) + 1 \in DOMAIN stack \ {1}
              /\ stack'[k] = stack[k - Len(fs) + 1]
  <2>1. k - Len(fs) \in 1 .. Len(stack) - 1  BY <1>3, <1>6, <1>7, <1>10
  <2> QED  BY <1>3, <1>4, <1>6, <1>9, <1>10, <2>1
<1>11. ASSUME NEW j \in DOMAIN stack \ {1}
       PROVE  /\ j + Len(fs) - 1 \in DOMAIN stack'
              /\ stack'[j + Len(fs) - 1] = stack[j]
  <2>1. j + Len(fs) - 1 \in 1 .. Len(stack') /\ j + Len(fs) - 1 > Len(fs)
    BY <1>3, <1>6, <1>7, <1>11
  <2>2. (j + Len(fs) - 1) - Len(fs) + 1 = j  BY <1>3, <1>6, <1>11
  <2> QED  BY <1>7, <1>10, <2>1, <2>2
<1> QED  BY <1>3, <1>6, <1>7, <1>8, <1>10, <1>11

-----------------------------------------------------------------------------
(***************************************************************************)
(* What no step undoes: a tree stays emitted, what happened to a task      *)
(* stays counted, and a tree that is emitted only forgets children.        *)
(***************************************************************************)
Grows ==
    /\ emitted \subseteq emitted' /\ cancelled \subseteq cancelled'
    /\ \A t \in Tasks :
         /\ ncall[t] > 0 => ncall'[t] > 0
         /\ ndone[t] > 0 => ndone'[t] > 0
         /\ Root[t] \in emitted => children_'[t] \subseteq children_[t]

\* Finished and FrameOK after the step, of a task and a frame given now.
FinishedThen(t) ==
    /\ Kind[t] \in {"serial", "parallel"} =>
         t \in cancelled' \/ \A c \in Children(t) : ndone'[c] > 0
    /\ \A r \in Tasks : Emitter[r] = t => ndone'[r] > 0

FrameThen(f) ==
    /\ Root[f.task] \in emitted'
    /\ f.op = "call" => ncall'[f.task] = 0
    /\ f.op # "call" => ncall'[f.task] > 0
    /\ f.op = "first" => /\ Kind[f.task] = "serial"
                         /\ \A t \in Children(f.task) : ~Begun(t)'
    /\ f.op = "each" => /\ Kind[f.task] = "parallel"
                        /\ f.todo \subseteq Children(f.task)
                        /\ \A t \in f.todo : ~Begun(t)'
    /\ f.op = "done" => /\ FinishedThen(f.task)
                        /\ Kind[f.task] = "leaf" =>
                             ntimeout'[f.task] = 0 /\ f.task \notin withdrawn'
    /\ f.op = "child_done" => parent_[f.task] # NoTask /\ ndone'[f.task] > 0
    /\ f.op = "if_empty" => Kind[f.task] \in {"serial", "parallel"}

LeafDone(f) == f.op = "done" /\ Kind[f.task] = "leaf"

LEMMA FramesThen ==
  ASSUME \A k \in DOMAIN stack' : FrameThen(stack'[k]) /\ (LeafDone(stack'[k]) => k = 1)
  PROVE  FramesOK'
<1>1. ASSUME NEW k \in DOMAIN stack' PROVE FrameOK(stack[k])'
  <2>1. FrameThen(stack'[k])  OBVIOUS
  <2> QED
    BY <2>1 DEF FrameOK, FrameThen, Finished, FinishedThen, Begun, OnStack, Children
<1>2. \A k \in DOMAIN stack' : stack'[k].op = "done" /\ Kind[stack'[k].task] = "leaf" => k = 1
  BY DEF LeafDone
<1> QED  BY <1>1, <1>2 DEF FramesOK

LEMMA FinishedKept ==
  ASSUME Grows, NEW t \in Tasks, Finished(t)
  PROVE  FinishedThen(t)
BY DEF Grows, Finished, FinishedThen, Children

LEMMA FrameKept ==
  ASSUME Grows, NEW f \in Frames, FrameOK(f),
         f.op = "call" => ncall'[f.task] = 0,
         f.op = "first" => \A t \in Children(f.task) : ~Begun(t)',
         f.op = "each" => \A t \in f.todo : ~Begun(t)',
         LeafDone(f) => ntimeout'[f.task] = 0 /\ f.task \notin withdrawn'
  PROVE  FrameThen(f)
<1>1. f.task \in Tasks  BY DEF Frames
<1>2. f.op = "done" => FinishedThen(f.task)  BY <1>1, FinishedKept DEF FrameOK
<1> QED  BY <1>1, <1>2 DEF FrameOK, FrameThen, Grows, LeafDone

LEMMA ParentIsTask ==
  ASSUME NEW u \in Tasks, parent_[u] # NoTask
  PROVE  parent_[u] \in Tasks /\ Root[parent_[u]] = Root[u] /\ u \in Children(parent_[u])
BY TreeAssumption DEF Children

LEMMA ChildOf ==
  ASSUME NEW p \in Tasks, NEW u \in Children(p)
  PROVE  u \in Tasks /\ parent_[u] = p /\ parent_[u] # NoTask /\ Root[u] = Root[p]
BY TreeAssumption DEF Children

LEMMA InOrderKept ==
  ASSUME Grows, NEW u \in Tasks, InOrder(u)
  PROVE  InOrder(u)'
<1>1. Root[u] \in emitted'  BY DEF Grows, InOrder
<1>2. ASSUME parent_[u] # NoTask
      PROVE  /\ ncall'[parent_[u]] > 0
             /\ Kind[parent_[u]] = "serial" =>
                  /\ u \in children_'[parent_[u]] =>
                       \A v \in children_'[parent_[u]] : Rank[u] <= Rank[v]
                  /\ \A t \in Children(parent_[u]) : Rank[t] < Rank[u] => ndone'[t] > 0
  <2>1. parent_[u] \in Tasks /\ Root[parent_[u]] \in emitted
    BY <1>2, ParentIsTask DEF InOrder
  <2>2. children_'[parent_[u]] \subseteq children_[parent_[u]]  BY <2>1 DEF Grows
  <2>3. Children(parent_[u]) \subseteq Tasks  BY DEF Children
  <2> QED  BY <1>2, <2>1, <2>2, <2>3 DEF Grows, InOrder
<1> QED  BY <1>1, <1>2 DEF InOrder, Children

LEMMA ChildrenKept ==
  ASSUME TypeOK, ChildrenOK, Grows, emitted' = emitted, cancelled' = cancelled,
         \A p \in Tasks : ndone'[p] > 0 /\ ~(ndone[p] > 0) => FinishedThen(p),
         \A p \in Tasks : children_'[p] \subseteq children_[p],
         \A p \in Tasks : \A t \in children_[p] \ children_'[p] : ndone'[t] > 0
  PROVE  ChildrenOK'
<1> SUFFICES ASSUME NEW p \in Tasks PROVE TreeOK(p)'
  BY DEF ChildrenOK
<1>1. TreeOK(p)  BY DEF ChildrenOK
<1>2. children_'[p] \subseteq Children(p)  BY <1>1 DEF TreeOK
<1>3. ASSUME Root[p] \in emitted' /\ p \notin cancelled', NEW t \in Children(p) \ children_'[p]
      PROVE  ndone'[t] > 0
  <2>1. t \in Tasks  BY DEF Children
  <2> QED  BY <1>1, <1>3, <2>1 DEF TreeOK, Grows
<1>4. p \in cancelled' => children_'[p] = {} /\ Root[p] \in emitted'  BY <1>1 DEF TreeOK
<1>5. p \in emitted' /\ Emitter[p] # NoTask => ncall'[Emitter[p]] > 0
  BY <1>1, TreeAssumption DEF TreeOK, Grows
<1>6. ndone'[p] > 0 => FinishedThen(p)  BY <1>1, FinishedKept DEF TreeOK
<1> QED  BY <1>2, <1>3, <1>4, <1>5, <1>6 DEF TreeOK, Finished, FinishedThen, Children

-----------------------------------------------------------------------------
(***************************************************************************)
(* A step of a frame: the conditions under which what concerns the stack   *)
(* is kept.  A new call frame is of a task that is not begun, that no      *)
(* other frame has still to call, and whose turn it is.                    *)
(***************************************************************************)
NewCall(fs, u) == \E k \in DOMAIN fs : fs[k].op = "call" /\ fs[k].task = u

LEMMA BegunStep ==
  ASSUME TypeOK, stack # <<>>, NEW fs \in Seq(Frames), Goes(fs),
         \A t \in Tasks : ncall'[t] > 0 => Begun(t),
         NEW u \in Tasks, Begun(u)'
  PROVE  Begun(u) \/ NewCall(fs, u)
<1>1. CASE ncall'[u] > 0  BY <1>1
<1>2. CASE \E k \in DOMAIN stack' : stack'[k].op = "call" /\ stack'[k].task = u
  <2>1. PICK k \in DOMAIN stack' : stack'[k].op = "call" /\ stack'[k].task = u  BY <1>2
  <2>2. CASE k \in 1 .. Len(fs)
    <3>1. k \in DOMAIN fs /\ stack'[k] = fs[k]  BY <2>2, GoesOn
    <3> QED  BY <2>1, <3>1 DEF NewCall
  <2>3. CASE k \notin 1 .. Len(fs)
    <3>1. k \in 1 .. Len(stack') /\ k > Len(fs)  BY <2>3, GoesOn
    <3>2. k - Len(fs) + 1 \in DOMAIN stack /\ stack'[k] = stack[k - Len(fs) + 1]
      BY <3>1, GoesOn
    <3> QED  BY <2>1, <3>2 DEF Begun, OnStack
  <2> QED  BY <2>2, <2>3
<1> QED  BY <1>1, <1>2 DEF Begun, OnStack

StackThen(fs) ==
    /\ \A u \in Tasks : NewCall(fs, u) =>
         /\ ~Begun(u) /\ parent_[u] # NoTask /\ InOrder(u)'
         /\ \A j \in DOMAIN stack \ {1} :
              /\ stack[j].op = "each" => u \notin stack[j].todo
              /\ stack[j].op = "first" => parent_[u] # stack[j].task
    /\ \A k \in DOMAIN fs :
         /\ FrameThen(fs[k]) /\ ~LeafDone(fs[k])
         /\ fs[k].op \in {"first", "each"} => \A j \in DOMAIN stack \ {1} :
              ~(stack[j].op = fs[k].op /\ stack[j].task = fs[k].task)
    /\ \A k, l \in DOMAIN fs : fs[k].op = fs[l].op => k = l

CallsThen ==
    /\ \A t \in Tasks : ncall'[t] > 0 => Begun(t)
    /\ \A t \in Tasks : ncall'[t] <= 1
    /\ \A j \in DOMAIN stack \ {1} : stack[j].op = "call" =>
         ncall'[stack[j].task] = ncall[stack[j].task]

LEMMA StackStep ==
  ASSUME IInv, TypeOK', NEW op, Top(op), NEW fs \in Seq(Frames), Goes(fs),
         Grows, withdrawn' = withdrawn, ntimeout' = ntimeout, CallsThen, StackThen(fs)
  PROVE  /\ Begins' /\ FramedOnce' /\ FramesOK'
         /\ \A t \in Tasks : Begun(t)' /\ parent_[t] = NoTask => Begun(t)
<1>1. TypeOK /\ stack # <<>>  BY DEF IInv, Top
<1>2. \A u \in Tasks : Begun(u)' => Begun(u) \/ NewCall(fs, u)
  BY <1>1, BegunStep DEF CallsThen
<1>3. Begins'
  <2> SUFFICES ASSUME NEW u \in Tasks, Begun(u)' PROVE InOrder(u)'
    BY DEF Begins
  <2>1. CASE Begun(u)
    <3>1. InOrder(u)  BY <2>1 DEF IInv, Begins
    <3> QED  BY <3>1, InOrderKept
  <2>2. CASE NewCall(fs, u)  BY <2>2 DEF StackThen
  <2> QED  BY <1>2, <2>1, <2>2
<1>4. \A j \in DOMAIN stack : stack[j] \in Frames /\ FrameOK(stack[j])
  BY <1>1 DEF IInv, FramesOK, TypeOK
<1>5. ASSUME NEW j \in DOMAIN stack \ {1} PROVE FrameThen(stack[j]) /\ ~LeafDone(stack[j])
  <2>1. stack[j] \in Frames /\ FrameOK(stack[j]) /\ stack[j].task \in Tasks
        /\ stack[j].todo \subseteq Tasks
    BY <1>4 DEF Frames
  <2>2. stack[j].op = "call" => ncall'[stack[j].task] = 0
    BY <2>1 DEF CallsThen, FrameOK
  <2>3. ASSUME stack[j].op = "each", NEW t \in stack[j].todo
        PROVE  ~Begun(t)'
    <3>1. ~Begun(t) /\ t \in Tasks  BY <2>1, <2>3 DEF FrameOK
    <3>2. ~NewCall(fs, t)  BY <2>3, <3>1 DEF StackThen
    <3> QED  BY <1>2, <3>1, <3>2
  <2>4. ASSUME stack[j].op = "first", NEW t \in Children(stack[j].task)
        PROVE  ~Begun(t)'
    <3>1. ~Begun(t) /\ t \in Tasks /\ parent_[t] = stack[j].task
      BY <2>1, <2>4 DEF FrameOK, Children
    <3>2. ~NewCall(fs, t)  BY <2>4, <3>1 DEF StackThen
    <3> QED  BY <1>2, <3>1, <3>2
  <2> DEFINE f == stack[j]
  <2>5. f \in Frames /\ FrameOK(f)  BY <2>1
  <2>6. f.op = "call" => ncall'[f.task] = 0  BY <2>2
  <2>7. f.op = "each" => \A t \in f.todo : ~Begun(t)'  BY <2>3
  <2>8. f.op = "first" => \A t \in Children(f.task) : ~Begun(t)'  BY <2>4
  <2>9. ~LeafDone(f)  BY DEF IInv, FramesOK, LeafDone
  <2> HIDE DEF f
  <2>10. FrameThen(f)  BY <2>5, <2>6, <2>7, <2>8, <2>9, FrameKept
  <2> QED  BY <2>9, <2>10 DEF f
<1>6. \A k \in DOMAIN stack' :
         \/ k \in DOMAIN fs /\ k \in 1 .. Len(fs) /\ stack'[k] = fs[k]
         \/ k > Len(fs) /\ k - Len(fs) + 1 \in DOMAIN stack \ {1}
            /\ stack'[k] = stack[k - Len(fs) + 1]
  <2> SUFFICES ASSUME NEW k \in DOMAIN stack'
               PROVE  \/ k \in DOMAIN fs /\ k \in 1 .. Len(fs) /\ stack'[k] = fs[k]
                      \/ k > Len(fs) /\ k - Len(fs) + 1 \in DOMAIN stack \ {1}
                         /\ stack'[k] = stack[k - Len(fs) + 1]
    OBVIOUS
  <2>1. k \in 1 .. Len(stack') /\ Len(fs) \in Nat /\ DOMAIN fs = 1 .. Len(fs)
    BY <1>1, GoesOn
  <2>2. CASE k \in 1 .. Len(fs)  BY <1>1, <2>1, <2>2, GoesOn
  <2>3. CASE k \notin 1 .. Len(fs)
    <3>1. k > Len(fs)  BY <2>1, <2>3
    <3> QED  BY <1>1, <2>1, <3>1, GoesOn
  <2> QED  BY <2>2, <2>3
<1>7. FramesOK'
  <2>1. \A k \in DOMAIN stack' : FrameThen(stack'[k]) /\ (LeafDone(stack'[k]) => k = 1)
    <3> SUFFICES ASSUME NEW k \in DOMAIN stack'
                 PROVE  FrameThen(stack'[k]) /\ ~LeafDone(stack'[k])
      OBVIOUS
    <3>1. CASE k \in DOMAIN fs /\ stack'[k] = fs[k]  BY <3>1 DEF StackThen
    <3>2. CASE k - Len(fs) + 1 \in DOMAIN stack \ {1} /\ stack'[k] = stack[k - Len(fs) + 1]
      BY <1>5, <3>2
    <3> QED  BY <1>6, <3>1, <3>2
  <2>2. \A k \in DOMAIN stack' : FrameThen(stack'[k]) /\ (LeafDone(stack'[k]) => k = 1)
    BY <2>1
  <2> QED  BY <2>2, FramesThen
<1>11. FramedOnce'
  <2>1. ASSUME NEW i \in DOMAIN stack', NEW j \in DOMAIN stack',
               stack'[i].op = stack'[j].op, stack'[i].task = stack'[j].task,
               stack'[i].op \in {"call", "first", "each"}
        PROVE  i = j
    <3>1. i \in Int /\ j \in Int /\ Len(fs) \in Int  BY <1>1, GoesOn
    <3>2. ASSUME NEW a \in DOMAIN fs, NEW b \in DOMAIN stack \ {1},
                 fs[a].op = stack[b].op, fs[a].task = stack[b].task,
                 fs[a].op \in {"call", "first", "each"}
          PROVE  FALSE
      <4>1. CASE fs[a].op \in {"first", "each"}  BY <3>2, <4>1 DEF StackThen
      <4>2. CASE fs[a].op = "call"
        <5>1. stack[b].task \in Tasks  BY <1>4 DEF Frames
        <5>2. NewCall(fs, stack[b].task)  BY <3>2, <4>2 DEF NewCall
        <5>3. Begun(stack[b].task)  BY <3>2, <4>2 DEF Begun, OnStack
        <5> QED  BY <5>1, <5>2, <5>3 DEF StackThen
      <4> QED  BY <3>2, <4>1, <4>2
    <3>3. CASE i \in DOMAIN fs /\ stack'[i] = fs[i] /\ j \in DOMAIN fs /\ stack'[j] = fs[j]
      BY <2>1, <3>3 DEF StackThen
    <3>4. CASE /\ i \in DOMAIN fs /\ stack'[i] = fs[i]
               /\ j - Len(fs) + 1 \in DOMAIN stack \ {1}
               /\ stack'[j] = stack[j - Len(fs) + 1]
      BY <2>1, <3>2, <3>4
    <3>5. CASE /\ j \in DOMAIN fs /\ stack'[j] = fs[j]
               /\ i - Len(fs) + 1 \in DOMAIN stack \ {1}
               /\ stack'[i] = stack[i - Len(fs) + 1]
      BY <2>1, <3>2, <3>5
    <3>6. CASE /\ i - Len(fs) + 1 \in DOMAIN stack \ {1}
               /\ stack'[i] = stack[i - Len(fs) + 1]
               /\ j - Len(fs) + 1 \in DOMAIN stack \ {1}
               /\ stack'[j] = stack[j - Len(fs) + 1]
      <4>1. i - Len(fs) + 1 = j - Len(fs) + 1  BY <2>1, <3>6 DEF IInv, FramedOnce
      <4> QED  BY <3>1, <4>1
    <3> QED  BY <1>6, <3>3, <3>4, <3>5, <3>6
  <2>2. \A t \in Tasks : ncall'[t] <= 1  BY DEF CallsThen
  <2> QED  BY <2>1, <2>2 DEF FramedOnce
<1>12. \A t \in Tasks : Begun(t)' /\ parent_[t] = NoTask => Begun(t)
  BY <1>2 DEF StackThen
<1> QED  BY <1>3, <1>7, <1>11, <1>12

LEMMA CallsSame ==
  ASSUME IInv, ncall' = ncall
  PROVE  CallsThen
BY DEF IInv, FramedOnce, CallsThen, Begun

LEMMA QueuedKept ==
  ASSUME TypeOK, QueuedOnce, queue_ready_' = queue_ready_, batch' = batch,
         emitted \subseteq emitted',
         \A t \in Tasks : Begun(t)' /\ parent_[t] = NoTask => Begun(t)
  PROVE  QueuedOnce'
<1>1. \A s \in {queue_ready_, batch} : \A i \in DOMAIN s :
        s[i] \in Tasks /\ parent_[s[i]] = NoTask /\ s[i] \in emitted /\ ~Begun(s[i])
  BY DEF TypeOK, QueuedOnce
<1>2. \A s \in {queue_ready_, batch} : \A i \in DOMAIN s :
        parent_[s[i]] = NoTask /\ s[i] \in emitted' /\ ~Begun(s[i])'
  <2> SUFFICES ASSUME NEW s \in {queue_ready_, batch}, NEW i \in DOMAIN s
               PROVE  parent_[s[i]] = NoTask /\ s[i] \in emitted' /\ ~Begun(s[i])'
    BY DEF QueuedOnce
  <2>1. s[i] \in Tasks /\ parent_[s[i]] = NoTask /\ s[i] \in emitted /\ ~Begun(s[i])  BY <1>1
  <2> QED  BY <2>1
<1> QED  BY <1>2 DEF QueuedOnce, Sole, Begun, OnStack

LEMMA WaitsKept ==
  ASSUME Waits, stack # <<>>, phase' = phase, ncall' = ncall, ntimeout' = ntimeout,
         withdrawn' = withdrawn, requests' = requests, wait_by_time_' = wait_by_time_,
         scan' = scan, queue_wait_' \subseteq queue_wait_
  PROVE  Waits'
BY DEF Waits

-----------------------------------------------------------------------------
(***************************************************************************)
(* The frames, one lemma for each.                                         *)
(***************************************************************************)
LEMMA EraseWaitKeeps == IInv /\ EraseWait => IInv'
<1> SUFFICES ASSUME IInv, EraseWait PROVE IInv'
  OBVIOUS
<1> DEFINE fs == <<>>
<1>1. TypeOK /\ Top("erase") /\ stack # <<>> /\ Goes(fs)  BY DEF IInv, EraseWait, Top
<1>2. fs \in Seq(Frames)  OBVIOUS
<1>3. stack' \in Seq(Frames)  BY <1>1, <1>2, GoesOn
<1>4. TypeOK'  BY <1>1, <1>3 DEF TypeOK, EraseWait, clock, loopvars, counts, cancels
<1>5. Grows  BY DEF EraseWait, Grows, counts, cancels
<1>6. CallsThen  BY CallsSame DEF EraseWait, counts, cancels
<1>7. StackThen(fs)  BY DEF StackThen, NewCall, LeafDone
<1>8. cancelled' = cancelled /\ withdrawn' = withdrawn /\ ntimeout' = ntimeout  BY DEF EraseWait, counts, cancels
<1> HIDE DEF fs
<1>9. /\ Begins' /\ FramedOnce' /\ FramesOK'
      /\ \A t \in Tasks : Begun(t)' /\ parent_[t] = NoTask => Begun(t)
  BY <1>1, <1>2, <1>4, <1>5, <1>6, <1>7, <1>8, StackStep
<1>10. QueuedOnce'
  BY <1>1, <1>9, QueuedKept DEF IInv, EraseWait, loopvars
<1>11. ChildrenOK'  BY <1>1, <1>5, ChildrenKept DEF IInv, EraseWait, counts, cancels
<1>12. Waits'  BY <1>1, WaitsKept DEF IInv, EraseWait, counts, cancels, loopvars
<1> QED  BY <1>4, <1>9, <1>10, <1>11, <1>12 DEF IInv

LEMMA DoneIfEmptyKeeps == IInv /\ DoneIfEmpty => IInv'
<1> SUFFICES ASSUME IInv, DoneIfEmpty PROVE IInv'
  OBVIOUS
<1> DEFINE f == Frame("done", Task, {})
           fs == If(children_[Task] = {}, f)
<1>1. TypeOK /\ Top("if_empty") /\ stack # <<>> /\ Goes(fs)  BY DEF IInv, DoneIfEmpty, Top
<1>2. Task \in Tasks /\ stack[1].op = "if_empty" /\ stack[1].task = Task /\ 1 \in DOMAIN stack
  BY <1>1, TopFrame
<1>3. f \in Frames /\ f.op = "done" /\ f.task = Task  BY <1>2, FrameType
<1> HIDE DEF f
<1>4. fs = <<>> \/ (fs = <<f>> /\ children_[Task] = {})  BY DEF If
<1> HIDE DEF fs
<1>5. fs \in Seq(Frames)
  <2>1. <<f>> \in Seq(Frames) /\ <<>> \in Seq(Frames)  BY <1>3
  <2> QED  BY <1>4, <2>1
<1>6. stack' \in Seq(Frames)  BY <1>1, <1>5, GoesOn
<1>7. TypeOK'  BY <1>1, <1>6 DEF TypeOK, DoneIfEmpty, queues, clock, loopvars, counts, cancels
<1>8. Grows  BY DEF DoneIfEmpty, Grows, counts, cancels
<1>9. CallsThen  BY CallsSame DEF DoneIfEmpty, counts, cancels
<1>10. cancelled' = cancelled /\ withdrawn' = withdrawn /\ ntimeout' = ntimeout  BY DEF DoneIfEmpty, counts, cancels
<1>11. FrameOK(stack[1])  BY <1>2 DEF IInv, FramesOK
<1>12. /\ Root[Task] \in emitted /\ ncall[Task] > 0
       /\ Kind[Task] \in {"serial", "parallel"}
  BY <1>2, <1>11 DEF FrameOK
<1>13. children_[Task] = {} => FrameThen(f)
  <2> SUFFICES ASSUME children_[Task] = {} PROVE FrameThen(f)
    OBVIOUS
  <2>1. TreeOK(Task)  BY <1>2 DEF IInv, ChildrenOK
  <2>3. Task \in cancelled \/ \A c \in Children(Task) : ndone[c] > 0
    BY <1>12, <2>1 DEF TreeOK
  <2>4. \A r \in Tasks : Emitter[r] # Task  BY <1>2, <1>12, TreeAssumption
  <2>5. Finished(Task)  BY <2>3, <2>4 DEF Finished
  <2>6. FinishedThen(Task)  BY <1>2, <1>8, <2>5, FinishedKept
  <2>7. Root[Task] \in emitted' /\ ncall'[Task] > 0  BY <1>2, <1>8, <1>12 DEF Grows
  <2> QED  BY <1>3, <1>12, <2>6, <2>7 DEF FrameThen
<1>14. StackThen(fs)
  <2>1. CASE fs = <<>>  BY <2>1 DEF StackThen, NewCall, LeafDone
  <2>2. CASE fs = <<f>> /\ children_[Task] = {}
    <3>1. DOMAIN fs = {1} /\ fs[1] = f  BY <2>2
    <3> QED  BY <1>3, <1>12, <1>13, <2>2, <3>1 DEF StackThen, NewCall, LeafDone
  <2> QED  BY <1>4, <2>1, <2>2
<1>15. /\ Begins' /\ FramedOnce' /\ FramesOK'
       /\ \A t \in Tasks : Begun(t)' /\ parent_[t] = NoTask => Begun(t)
  BY <1>1, <1>5, <1>7, <1>8, <1>9, <1>10, <1>14, StackStep
<1>16. QueuedOnce'
  BY <1>1, <1>15, QueuedKept DEF IInv, DoneIfEmpty, queues, loopvars
<1>17. ChildrenOK'  BY <1>1, <1>8, ChildrenKept DEF IInv, DoneIfEmpty, counts, cancels
<1>18. Waits'  BY <1>1, WaitsKept DEF IInv, DoneIfEmpty, queues, counts, cancels, loopvars
<1> QED  BY <1>7, <1>15, <1>16, <1>17, <1>18 DEF IInv

LEMMA CallEachKeeps == IInv /\ CallEach => IInv'
<1> SUFFICES ASSUME IInv, CallEach PROVE IInv'
  OBVIOUS
<1> DEFINE todo == Head(stack).todo
           c == First(todo)
           f == Frame("call", c, {})
           g == Frame("each", Task, todo \ {c})
           fs == IF todo = {} THEN <<>> ELSE <<f, g>>
<1>1. TypeOK /\ Top("each") /\ stack # <<>> /\ Goes(fs)  BY DEF IInv, CallEach, Top
<1>2. /\ Task \in Tasks /\ stack[1].op = "each" /\ stack[1].task = Task /\ 1 \in DOMAIN stack
      /\ todo \subseteq Tasks /\ todo = stack[1].todo
  BY <1>1, TopFrame
<1>3. FrameOK(stack[1])  BY <1>2 DEF IInv, FramesOK
<1>4. /\ Root[Task] \in emitted /\ ncall[Task] > 0 /\ Kind[Task] = "parallel"
      /\ \A t \in todo : ~Begun(t)
      /\ todo \subseteq Children(Task)
  BY <1>2, <1>3 DEF FrameOK
<1> HIDE DEF todo
<1>5. todo # {} => c \in todo  BY <1>2, FirstIsLeast
<1> HIDE DEF c
<1>6. todo # {} => /\ f \in Frames /\ f.op = "call" /\ f.task = c
                   /\ g \in Frames /\ g.op = "each" /\ g.task = Task /\ g.todo = todo \ {c}
  <2> SUFFICES ASSUME todo # {}
               PROVE  /\ f \in Frames /\ f.op = "call" /\ f.task = c
                      /\ g \in Frames /\ g.op = "each" /\ g.task = Task /\ g.todo = todo \ {c}
    OBVIOUS
  <2>1. c \in Tasks /\ todo \ {c} \in SUBSET Tasks  BY <1>2, <1>5
  <2> QED  BY <1>2, <2>1, FrameType
<1> HIDE DEF f, g
<1>7. (fs = <<>> /\ todo = {}) \/ (fs = <<f, g>> /\ todo # {})  OBVIOUS
<1>8. fs \in Seq(Frames)  BY <1>6, <1>7
<1> HIDE DEF fs
<1>9. stack' \in Seq(Frames)  BY <1>1, <1>8, GoesOn
<1>10. TypeOK'  BY <1>1, <1>9 DEF TypeOK, CallEach, queues, clock, loopvars, counts, cancels
<1>11. Grows  BY DEF CallEach, Grows, counts, cancels
<1>12. CallsThen  BY CallsSame DEF CallEach, counts, cancels
<1>13. UNCHANGED <<emitted, children_, ncall, ndone, cancelled, withdrawn, ntimeout>>  BY DEF CallEach, counts, cancels
<1>14. \A u \in Tasks : Begun(u)' => Begun(u) \/ NewCall(fs, u)
  BY <1>1, <1>8, <1>12, BegunStep DEF CallsThen
<1>15. StackThen(fs)
  <2>1. CASE fs = <<>>  BY <2>1 DEF StackThen, NewCall, LeafDone
  <2>2. CASE fs = <<f, g>> /\ todo # {}
    <3>1. DOMAIN fs = {1, 2} /\ fs[1] = f /\ fs[2] = g  BY <2>2
    <3>2. \A u \in Tasks : NewCall(fs, u) => u = c  BY <1>6, <2>2, <3>1 DEF NewCall
    <3>3. /\ c \in Tasks /\ ~Begun(c) /\ parent_[c] = Task
          /\ parent_[c] # NoTask /\ Root[c] = Root[Task]
      BY <1>2, <1>4, <1>5, <2>2, ChildOf
    <3>4. ASSUME NEW u \in Tasks, u = c PROVE InOrder(u)'
      BY <1>4, <1>13, <3>3, <3>4 DEF InOrder
    <3>5. ASSUME NEW j \in DOMAIN stack \ {1}, stack[j].op = "each"
          PROVE  stack[j].task # Task /\ c \notin stack[j].todo
      <4>1. stack[j].task # Task  BY <1>2, <3>5 DEF IInv, FramedOnce
      <4>2. FrameOK(stack[j])  BY DEF IInv, FramesOK
      <4>3. stack[j].todo \subseteq Children(stack[j].task)  BY <3>5, <4>2 DEF FrameOK
      <4> QED  BY <3>3, <4>1, <4>3 DEF Children
    <3>5a. ASSUME NEW j \in DOMAIN stack \ {1}, stack[j].op = "first"
           PROVE  Task # stack[j].task
      <4>1. FrameOK(stack[j])  BY DEF IInv, FramesOK
      <4> QED  BY <1>4, <3>5a, <4>1 DEF FrameOK
    <3>6. FrameThen(f)
      <4>1. ncall[c] \in Nat  BY <1>1, <3>3 DEF TypeOK
      <4>2. ncall[c] = 0  BY <3>3, <4>1 DEF Begun
      <4> QED  BY <1>4, <1>6, <1>13, <2>2, <3>3, <4>2 DEF FrameThen
    <3>7. FrameThen(g)
      <4>1. ASSUME NEW t \in todo \ {c} PROVE ~Begun(t)'
        BY <1>2, <1>4, <1>13, <1>14, <3>2
      <4> QED  BY <1>4, <1>6, <1>13, <2>2, <4>1 DEF FrameThen
    <3> QED  BY <1>6, <2>2, <3>1, <3>2, <3>3, <3>4, <3>5, <3>5a, <3>6, <3>7
         DEF StackThen, LeafDone
  <2> QED  BY <1>7, <2>1, <2>2
<1>16. /\ Begins' /\ FramedOnce' /\ FramesOK'
       /\ \A t \in Tasks : Begun(t)' /\ parent_[t] = NoTask => Begun(t)
  BY <1>1, <1>8, <1>10, <1>11, <1>12, <1>13, <1>15, StackStep
<1>17. QueuedOnce'
  BY <1>1, <1>16, QueuedKept DEF IInv, CallEach, queues, loopvars
<1>18. ChildrenOK'  BY <1>1, <1>11, ChildrenKept DEF IInv, CallEach, counts, cancels
<1>19. Waits'  BY <1>1, WaitsKept DEF IInv, CallEach, queues, counts, cancels, loopvars
<1> QED  BY <1>10, <1>16, <1>17, <1>18, <1>19 DEF IInv

LEMMA CallFirstKeeps == IInv /\ CallFirst => IInv'
<1> SUFFICES ASSUME IInv, CallFirst PROVE IInv'
  OBVIOUS
<1> DEFINE c == First(children_[Task])
           f == Frame("call", c, {})
           fs == IF children_[Task] = {} THEN <<>> ELSE <<f>>
<1>1. TypeOK /\ Top("first") /\ stack # <<>> /\ Goes(fs)  BY DEF IInv, CallFirst, Top
<1>2. Task \in Tasks /\ stack[1].op = "first" /\ stack[1].task = Task /\ 1 \in DOMAIN stack
  BY <1>1, TopFrame
<1>3. FrameOK(stack[1])  BY <1>2 DEF IInv, FramesOK
<1>4. /\ Root[Task] \in emitted /\ ncall[Task] > 0 /\ Kind[Task] = "serial"
      /\ \A t \in Children(Task) : ~Begun(t)
  BY <1>2, <1>3 DEF FrameOK
<1>5. TreeOK(Task)  BY <1>2 DEF IInv, ChildrenOK
<1>6. children_[Task] \subseteq Children(Task) /\ children_[Task] \subseteq Tasks
  BY <1>5 DEF TreeOK, Children
<1>7. children_[Task] # {} =>
        c \in children_[Task] /\ \A v \in children_[Task] : Rank[c] <= Rank[v]
  BY <1>6, FirstIsLeast
<1> HIDE DEF c
<1>8. children_[Task] # {} =>
        /\ c \in Tasks /\ parent_[c] = Task /\ Root[c] = Root[Task] /\ parent_[c] # NoTask
        /\ ~Begun(c) /\ ncall[c] = 0
  <2> SUFFICES ASSUME children_[Task] # {}
               PROVE  /\ c \in Tasks /\ parent_[c] = Task /\ Root[c] = Root[Task]
                      /\ parent_[c] # NoTask /\ ~Begun(c) /\ ncall[c] = 0
    OBVIOUS
  <2>1. c \in Children(Task) /\ ~Begun(c)  BY <1>4, <1>6, <1>7
  <2>2. c \in Tasks /\ parent_[c] = Task /\ Root[c] = Root[Task] /\ parent_[c] # NoTask
    BY <1>2, <2>1, ChildOf
  <2>3. ncall[c] \in Nat  BY <1>1, <2>2 DEF TypeOK
  <2> QED  BY <2>1, <2>2, <2>3 DEF Begun
<1>9. children_[Task] # {} => f \in Frames /\ f.op = "call" /\ f.task = c
  BY <1>8, FrameType
<1> HIDE DEF f
<1>10. (fs = <<>> /\ children_[Task] = {}) \/ (fs = <<f>> /\ children_[Task] # {})  OBVIOUS
<1>11. fs \in Seq(Frames)  BY <1>9, <1>10
<1> HIDE DEF fs
<1>12. stack' \in Seq(Frames)  BY <1>1, <1>11, GoesOn
<1>13. TypeOK'
  BY <1>1, <1>12 DEF TypeOK, CallFirst, queues, clock, loopvars, counts, cancels
<1>14. Grows  BY DEF CallFirst, Grows, counts, cancels
<1>15. CallsThen  BY CallsSame DEF CallFirst, counts, cancels
<1>16. UNCHANGED <<emitted, children_, ncall, ndone, cancelled, withdrawn, ntimeout>>
  BY DEF CallFirst, counts, cancels
<1>17. StackThen(fs)
  <2>1. CASE fs = <<>>  BY <2>1 DEF StackThen, NewCall
  <2>2. CASE fs = <<f>> /\ children_[Task] # {}
    <3>1. DOMAIN fs = {1} /\ fs[1] = f  BY <2>2
    <3>2. \A u \in Tasks : NewCall(fs, u) => u = c  BY <1>9, <2>2, <3>1 DEF NewCall
    <3>3. FrameThen(f)  BY <1>4, <1>8, <1>9, <1>16, <2>2 DEF FrameThen
    <3>4. ASSUME NEW u \in Tasks, u = c PROVE InOrder(u)'
      <4>1. parent_[u] = Task /\ Root[u] \in emitted' /\ ncall'[Task] > 0
        BY <1>4, <1>8, <1>16, <2>2, <3>4
      <4>2. \A v \in children_'[Task] : Rank[u] <= Rank[v]  BY <1>7, <1>16, <2>2, <3>4
      <4>3. ASSUME NEW t \in Children(Task), Rank[t] < Rank[u] PROVE ndone'[t] > 0
        <5>1. t \in Tasks  BY DEF Children
        <5>2. Rank[t] \in Nat /\ Rank[u] \in Nat  BY <5>1, TreeAssumption
        <5>3. t \notin children_[Task]  BY <1>7, <2>2, <3>4, <4>3, <5>2
        <5>4. Task \notin cancelled  BY <1>5, <2>2 DEF TreeOK
        <5> QED  BY <1>4, <1>5, <1>16, <5>3, <5>4 DEF TreeOK
      <4>4. ASSUME NEW q, q = Task
            PROVE  /\ ncall'[q] > 0
                   /\ \A v \in children_'[q] : Rank[u] <= Rank[v]
                   /\ \A t \in Children(q) : Rank[t] < Rank[u] => ndone'[t] > 0
        BY <4>1, <4>2, <4>3, <4>4
      <4> QED  BY <4>1, <4>4 DEF InOrder, Children
    <3>5. ASSUME NEW j \in DOMAIN stack \ {1}, stack[j].op = "each"
          PROVE  c \notin stack[j].todo
      <4>1. FrameOK(stack[j])  BY DEF IInv, FramesOK
      <4>2. stack[j].todo \subseteq Children(stack[j].task) /\ Kind[stack[j].task] = "parallel"
        BY <3>5, <4>1 DEF FrameOK
      <4> QED  BY <1>4, <1>8, <2>2, <4>2 DEF Children
    <3>6. ASSUME NEW j \in DOMAIN stack \ {1}, stack[j].op = "first"
          PROVE  Task # stack[j].task
      BY <1>2, <3>6 DEF IInv, FramedOnce
    <3> QED
      BY <1>8, <1>9, <2>2, <3>1, <3>2, <3>3, <3>4, <3>5, <3>6 DEF StackThen, LeafDone
  <2> QED  BY <1>10, <2>1, <2>2
<1>18. /\ Begins' /\ FramedOnce' /\ FramesOK'
       /\ \A t \in Tasks : Begun(t)' /\ parent_[t] = NoTask => Begun(t)
  BY <1>1, <1>11, <1>13, <1>14, <1>15, <1>16, <1>17, StackStep
<1>19. QueuedOnce'
  BY <1>1, <1>18, QueuedKept DEF IInv, CallFirst, queues, loopvars
<1>20. ChildrenOK'  BY <1>1, <1>14, <1>16, ChildrenKept DEF IInv
<1>21. Waits'
  BY <1>1, WaitsKept DEF IInv, CallFirst, queues, counts, cancels, loopvars
<1> QED  BY <1>13, <1>18, <1>19, <1>20, <1>21 DEF IInv

LEMMA TriggerDoneKeeps == IInv /\ TriggerDone => IInv'
<1> SUFFICES ASSUME IInv, TriggerDone PROVE IInv'
  OBVIOUS
<1> DEFINE e == Emitter[Task]
           f == Frame("done", e, {})
           g == Frame("child_done", Task, {})
           h == Frame("erase", Task, {})
           fs == If(e # NoTask, f) \o If(parent_[Task] # NoTask, g) \o <<h>>
<1>1. TypeOK /\ Top("done") /\ stack # <<>> /\ Goes(fs)  BY DEF IInv, TriggerDone, Top
<1>2. Task \in Tasks /\ stack[1].op = "done" /\ stack[1].task = Task /\ 1 \in DOMAIN stack
  BY <1>1, TopFrame
<1>3. FrameOK(stack[1])  BY <1>2 DEF IInv, FramesOK
<1>4. Root[Task] \in emitted /\ ncall[Task] > 0 /\ Finished(Task)
  BY <1>2, <1>3 DEF FrameOK
<1>5. e # NoTask => /\ e \in Tasks /\ Kind[e] = "emitting" /\ parent_[Task] = NoTask
                    /\ Root[Task] = Task
  BY <1>2, TreeAssumption
<1>6. e # NoTask => f \in Frames /\ f.op = "done" /\ f.task = e
  BY <1>5, FrameType
<1>7. g \in Frames /\ g.op = "child_done" /\ g.task = Task  BY <1>2, FrameType
<1>8. h \in Frames /\ h.op = "erase" /\ h.task = Task  BY <1>2, FrameType
<1> HIDE DEF f, g, h
<1>9. \/ fs = <<h>>
      \/ e # NoTask /\ fs = <<f, h>>
      \/ parent_[Task] # NoTask /\ fs = <<g, h>>
  <2>1. CASE e # NoTask
    <3>1. fs = <<f>> \o <<>> \o <<h>>  BY <1>5, <2>1 DEF If
    <3> HIDE DEF fs
    <3> QED  BY <1>6, <1>8, <2>1, <3>1, TwoFrames
  <2>2. CASE e = NoTask /\ parent_[Task] # NoTask
    <3>1. fs = <<>> \o <<g>> \o <<h>>  BY <2>2 DEF If
    <3> HIDE DEF fs
    <3> QED  BY <1>7, <1>8, <2>2, <3>1, TwoFrames
  <2>3. CASE e = NoTask /\ parent_[Task] = NoTask
    <3>1. fs = <<>> \o <<>> \o <<h>>  BY <2>3 DEF If
    <3> QED  BY <3>1
  <2> QED  BY <2>1, <2>2, <2>3
<1> HIDE DEF fs
<1>10. fs \in Seq(Frames)
  <2>1. <<h>> \in Seq(Frames)  BY <1>8
  <2>2. <<g, h>> \in Seq(Frames)  BY <1>7, <1>8
  <2>3. e # NoTask => <<f, h>> \in Seq(Frames)  BY <1>6, <1>8
  <2> QED  BY <1>9, <2>1, <2>2, <2>3
<1>11. stack' \in Seq(Frames)  BY <1>1, <1>10, GoesOn
<1>12. /\ UNCHANGED <<emitted, children_, ncall, cancelled, withdrawn, ntimeout>>
       /\ ndone' = [ndone EXCEPT ![Task] = @ + 1]
  BY DEF TriggerDone, cancels
<1>13. ndone' \in [Tasks -> Nat] /\ ndone'[Task] > 0
       /\ \A t \in Tasks : t # Task => ndone'[t] = ndone[t]
  BY <1>1, <1>2, <1>12 DEF TypeOK
<1>14. TypeOK'  BY <1>1, <1>11, <1>13 DEF TypeOK, TriggerDone, queues, clock, loopvars, cancels
<1>15. Grows  BY <1>12, <1>13 DEF Grows
<1>16. CallsThen  BY <1>12, CallsSame
<1>17. e # NoTask => FrameThen(f)
  <2> SUFFICES ASSUME e # NoTask PROVE FrameThen(f)
    OBVIOUS
  <2>1. TreeOK(Task)  BY <1>2 DEF IInv, ChildrenOK
  <2>2. ncall[e] > 0  BY <1>4, <1>5, <2>1 DEF TreeOK
  <2>3. Root[e] \in emitted  BY <1>5, <2>2 DEF IInv, Begins, Begun, InOrder
  <2>4. \A r \in Tasks : Emitter[r] = e => r = Task  BY <1>2, TreeAssumption
  <2>5. FinishedThen(e)  BY <1>5, <1>13, <2>4 DEF FinishedThen
  <2> QED  BY <1>5, <1>6, <1>12, <2>2, <2>3, <2>5 DEF FrameThen
<1>18. parent_[Task] # NoTask => FrameThen(g)
  BY <1>4, <1>7, <1>12, <1>13 DEF FrameThen
<1>19. FrameThen(h)  BY <1>4, <1>8, <1>12 DEF FrameThen
<1>20. StackThen(fs)
  <2>1. CASE fs = <<h>>
    <3>1. DOMAIN fs = {1} /\ fs[1] = h  BY <2>1
    <3> QED  BY <1>8, <1>19, <3>1 DEF StackThen, NewCall, LeafDone
  <2>2. CASE e # NoTask /\ fs = <<f, h>>
    <3>1. DOMAIN fs = {1, 2} /\ fs[1] = f /\ fs[2] = h  BY <2>2
    <3> QED  BY <1>5, <1>6, <1>8, <1>17, <1>19, <2>2, <3>1 DEF StackThen, NewCall, LeafDone
  <2>3. CASE parent_[Task] # NoTask /\ fs = <<g, h>>
    <3>1. DOMAIN fs = {1, 2} /\ fs[1] = g /\ fs[2] = h  BY <2>3
    <3> QED  BY <1>7, <1>8, <1>18, <1>19, <2>3, <3>1 DEF StackThen, NewCall, LeafDone
  <2> QED  BY <1>9, <2>1, <2>2, <2>3
<1>21. /\ Begins' /\ FramedOnce' /\ FramesOK'
       /\ \A t \in Tasks : Begun(t)' /\ parent_[t] = NoTask => Begun(t)
  BY <1>1, <1>10, <1>12, <1>14, <1>15, <1>16, <1>20, StackStep
<1>22. QueuedOnce'
  BY <1>1, <1>21, QueuedKept DEF IInv, TriggerDone, queues, loopvars
<1>23. ChildrenOK'
  <2>1. FinishedThen(Task)  BY <1>2, <1>4, <1>15, FinishedKept
  <2>2. \A p \in Tasks : ndone'[p] > 0 /\ ~(ndone[p] > 0) => FinishedThen(p)
    BY <1>13, <2>1
  <2> QED  BY <1>1, <1>12, <1>15, <2>2, ChildrenKept DEF IInv
<1>24. Waits'  BY <1>1, <1>12, WaitsKept DEF IInv, TriggerDone, queues, loopvars
<1> QED  BY <1>14, <1>21, <1>22, <1>23, <1>24 DEF IInv

LEMMA ChildDoneKeeps == IInv /\ ChildDone => IInv'
<1> SUFFICES ASSUME IInv, ChildDone PROVE IInv'
  OBVIOUS
<1> DEFINE p == parent_[Task]
           strike == IF Kind[p] = "parallel" THEN TRUE
                     ELSE children_[p] # {} /\ First(children_[p]) = Task
           left == IF strike THEN children_[p] \ {Task} ELSE children_[p]
           c == First(left)
           goes == Kind[p] = "serial" /\ strike /\ left # {}
           f == Frame("call", c, {})
           g == Frame("if_empty", p, {})
           fs == If(goes, f) \o <<g>>
<1>1. TypeOK /\ Top("child_done") /\ stack # <<>> /\ Goes(fs)
      /\ children_' = [children_ EXCEPT ![p] = left]
      /\ UNCHANGED <<emitted, ncall, ndone, cancelled, withdrawn, ntimeout>>
  BY DEF IInv, ChildDone, Top, counts, cancels
<1>2. Task \in Tasks /\ stack[1].op = "child_done" /\ stack[1].task = Task /\ 1 \in DOMAIN stack
  BY <1>1, TopFrame
<1>3. FrameOK(stack[1])  BY <1>2 DEF IInv, FramesOK
<1>4. Root[Task] \in emitted /\ ncall[Task] > 0 /\ ndone[Task] > 0 /\ p # NoTask
  BY <1>2, <1>3 DEF FrameOK
<1>5. /\ p \in Tasks /\ Root[p] = Root[Task] /\ Task \in Children(p)
      /\ Kind[p] \in {"serial", "parallel"}
  BY <1>2, <1>4, ParentIsTask, TreeAssumption
<1>6. ncall[p] > 0  BY <1>2, <1>4 DEF IInv, Begins, Begun, InOrder
<1>7. TreeOK(p)  BY <1>5 DEF IInv, ChildrenOK
<1>8. children_[p] \subseteq Children(p) /\ Children(p) \subseteq Tasks
  BY <1>7 DEF TreeOK, Children
<1>9. left \subseteq children_[p] /\ children_[p] \ left \subseteq {Task}  OBVIOUS
<1>10. goes => /\ children_[p] # {} /\ First(children_[p]) = Task /\ left = children_[p] \ {Task}
               /\ Kind[p] = "serial" /\ left # {}
  OBVIOUS
<1> HIDE DEF strike, left
<1>11. ASSUME goes
       PROVE  /\ c \in left /\ c \in Children(p) /\ c \in Tasks /\ c # Task
              /\ \A v \in left : Rank[c] <= Rank[v]
              /\ Task \in children_[p] /\ Rank[Task] < Rank[c]
              /\ p \notin cancelled
  <2>1. left \subseteq Tasks /\ left # {}  BY <1>8, <1>9, <1>10, <1>11
  <2>2. c \in left /\ \A v \in left : Rank[c] <= Rank[v]  BY <2>1, FirstIsLeast
  <2>3. Task \in children_[p] /\ \A v \in children_[p] : Rank[Task] <= Rank[v]
    BY <1>8, <1>10, <1>11, FirstIsLeast
  <2>4. c \in children_[p] /\ c # Task /\ c \in Tasks  BY <1>8, <1>10, <1>11, <2>2
  <2>5. Rank[Task] <= Rank[c] /\ Rank[Task] # Rank[c] /\ Rank[Task] \in Nat /\ Rank[c] \in Nat
    BY <1>2, <2>3, <2>4, TreeAssumption
  <2>6. Rank[Task] < Rank[c]  BY <2>5
  <2>8. p \notin cancelled  BY <1>7, <2>3 DEF TreeOK
  <2> QED  BY <1>8, <2>2, <2>3, <2>4, <2>6, <2>8
<1>12. g \in Frames /\ g.op = "if_empty" /\ g.task = p  BY <1>5, FrameType
<1>13. goes => f \in Frames /\ f.op = "call" /\ f.task = c  BY <1>11, FrameType
<1> HIDE DEF p, c, goes, f, g
<1>14. fs = <<g>> \/ (goes /\ fs = <<f, g>>)
  <2>1. CASE goes
    <3>1. fs = <<f>> \o <<g>>  BY <2>1 DEF If
    <3> HIDE DEF fs
    <3> QED  BY <1>12, <1>13, <2>1, <3>1, TwoFrames
  <2>2. CASE ~goes
    <3>1. fs = <<>> \o <<g>>  BY <2>2 DEF If
    <3> QED  BY <3>1
  <2> QED  BY <2>1, <2>2
<1> HIDE DEF fs
<1>15. fs \in Seq(Frames)
  <2>1. <<g>> \in Seq(Frames) /\ (goes => <<f, g>> \in Seq(Frames))  BY <1>12, <1>13
  <2> QED  BY <1>14, <2>1
<1>16. stack' \in Seq(Frames)  BY <1>1, <1>15, GoesOn
<1>17. /\ children_' \in [Tasks -> SUBSET Tasks] /\ children_'[p] = left
       /\ \A q \in Tasks : q # p => children_'[q] = children_[q]
  BY <1>1, <1>5, <1>8, <1>9 DEF TypeOK
<1>18. TypeOK'
  BY <1>1, <1>16, <1>17 DEF TypeOK, ChildDone, queues, clock, loopvars, counts, cancels
<1>19. \A q \in Tasks : children_'[q] \subseteq children_[q]  BY <1>9, <1>17
<1>20. Grows  BY <1>1, <1>19 DEF Grows
<1>21. CallsThen  BY <1>1, CallsSame
<1>22. FrameThen(g)
  BY <1>1, <1>4, <1>5, <1>6, <1>12 DEF FrameThen
<1>24. ASSUME goes
       PROVE  /\ ~Begun(c) /\ ncall[c] = 0 /\ parent_[c] = p
              /\ Root[c] = Root[p]
  <2>1. parent_[c] = p /\ Root[c] = Root[p] /\ p # NoTask  BY <1>5, <1>11, <1>24, ChildOf
  <2>2. ~Begun(c)
    <3> SUFFICES ASSUME Begun(c) PROVE FALSE
      OBVIOUS
    <3>1. InOrder(c)  BY <1>11, <1>24 DEF IInv, Begins
    <3>2. c \in children_[p]  BY <1>9, <1>11, <1>24
    <3>3. Rank[c] <= Rank[Task]  BY <1>10, <1>11, <1>24, <2>1, <3>1, <3>2 DEF InOrder
    <3>4. Rank[c] \in Nat /\ Rank[Task] \in Nat  BY <1>2, <1>11, <1>24, TreeAssumption
    <3> QED  BY <1>11, <1>24, <3>3, <3>4
  <2>3. ncall[c] \in Nat  BY <1>1, <1>11, <1>24 DEF TypeOK
  <2>4. ncall[c] = 0  BY <2>2, <2>3 DEF Begun
  <2> QED  BY <2>1, <2>2, <2>4
<1>25. StackThen(fs)
  <2>1. CASE fs = <<g>>
    <3>1. DOMAIN fs = {1} /\ fs[1] = g  BY <2>1
    <3> QED  BY <1>12, <1>22, <3>1 DEF StackThen, NewCall, LeafDone
  <2>2. CASE goes /\ fs = <<f, g>>
    <3>1. DOMAIN fs = {1, 2} /\ fs[1] = f /\ fs[2] = g  BY <2>2
    <3>2. \A u \in Tasks : NewCall(fs, u) => u = c
      BY <1>12, <1>13, <2>2, <3>1 DEF NewCall
    <3>3. FrameThen(f)
      BY <1>1, <1>4, <1>5, <1>13, <1>24, <2>2 DEF FrameThen
    <3>4. ASSUME NEW j \in DOMAIN stack \ {1}, stack[j].op = "each"
          PROVE  c \notin stack[j].todo
      <4>1. FrameOK(stack[j])  BY DEF IInv, FramesOK
      <4>2. stack[j].todo \subseteq Children(stack[j].task) /\ Kind[stack[j].task] = "parallel"
        BY <3>4, <4>1 DEF FrameOK
      <4> QED  BY <1>10, <1>24, <2>2, <4>2 DEF Children
    <3>4a. ASSUME NEW j \in DOMAIN stack \ {1}, stack[j].op = "first"
           PROVE  p # stack[j].task
      <4>1. FrameOK(stack[j])  BY DEF IInv, FramesOK
      <4> QED  BY <1>4, <1>5, <3>4a, <4>1 DEF FrameOK, Begun
    <3>5. ASSUME NEW u \in Tasks, u = c PROVE InOrder(u)'
      <4>1. parent_[u] = p /\ Root[u] \in emitted'  BY <1>1, <1>4, <1>5, <1>24, <2>2, <3>5
      <4>2. ncall'[p] > 0  BY <1>1, <1>6
      <4>3. \A v \in children_'[p] : Rank[u] <= Rank[v]  BY <1>11, <1>17, <2>2, <3>5
      <4>4. ASSUME NEW t \in Children(p), Rank[t] < Rank[u] PROVE ndone'[t] > 0
        <5>1. t \notin left
          <6>1. t \in Tasks  BY <1>8
          <6>2. Rank[t] \in Nat /\ Rank[u] \in Nat  BY <6>1, TreeAssumption
          <6> QED  BY <1>11, <2>2, <3>5, <4>4, <6>2
        <5>2. CASE t = Task  BY <1>1, <1>4, <5>2
        <5>3. CASE t \notin children_[p]
          BY <1>1, <1>4, <1>5, <1>7, <1>11, <2>2, <5>3 DEF TreeOK
        <5> QED  BY <1>9, <5>1, <5>2, <5>3
      <4>5. ASSUME NEW q, q = p
            PROVE  /\ ncall'[q] > 0
                   /\ \A v \in children_'[q] : Rank[u] <= Rank[v]
                   /\ \A t \in Children(q) : Rank[t] < Rank[u] => ndone'[t] > 0
        BY <4>2, <4>3, <4>4, <4>5
      <4> QED  BY <4>1, <4>5 DEF InOrder, Children
    <3> QED
      BY <1>5, <1>4, <1>12, <1>13, <1>22, <1>24, <2>2, <3>1, <3>2, <3>3, <3>4, <3>4a, <3>5
         DEF StackThen, LeafDone
  <2> QED  BY <1>14, <2>1, <2>2
<1>26. /\ Begins' /\ FramedOnce' /\ FramesOK'
       /\ \A t \in Tasks : Begun(t)' /\ parent_[t] = NoTask => Begun(t)
  BY <1>1, <1>15, <1>18, <1>20, <1>21, <1>25, StackStep
<1>27. QueuedOnce'
  BY <1>1, <1>26, QueuedKept DEF IInv, ChildDone, queues, loopvars
<1>28. ChildrenOK'
  <2>1. \A q \in Tasks : \A t \in children_[q] \ children_'[q] : ndone'[t] > 0
    BY <1>1, <1>4, <1>9, <1>17
  <2> QED  BY <1>1, <1>19, <1>20, <2>1, ChildrenKept DEF IInv
<1>29. Waits'  BY <1>1, WaitsKept DEF IInv, ChildDone, queues, loopvars
<1> QED  BY <1>18, <1>26, <1>27, <1>28, <1>29 DEF IInv

-----------------------------------------------------------------------------
(***************************************************************************)
(* Emitting a tree: nothing of it is begun, so filling its children_ maps  *)
(* disturbs nothing.                                                       *)
(***************************************************************************)
Emits(r) == r \in Tasks \ emitted /\ parent_[r] = NoTask /\ emit(r)

LEMMA EmitGrows ==
  ASSUME NEW r \in Tasks, Emits(r), ndone' = ndone, cancelled' = cancelled /\ withdrawn' = withdrawn,
         \A t \in Tasks : ncall[t] > 0 => ncall'[t] > 0
  PROVE  Grows
BY DEF Emits, emit, on_emit, Grows

LEMMA EmitTypes ==
  ASSUME TypeOK, NEW r \in Tasks, Emits(r)
  PROVE  /\ emitted' \subseteq Tasks /\ queue_ready_' \in Seq(Tasks)
         /\ children_' \in [Tasks -> SUBSET Tasks]
<1>1. queue_ready_ \in Seq(Tasks) /\ emitted \subseteq Tasks /\ children_ \in [Tasks -> SUBSET Tasks]
  BY DEF TypeOK
<1>2. queue_ready_' \in Seq(Tasks)  BY <1>1 DEF Emits, emit
<1>3. \A t \in Tasks : Children(t) \in SUBSET Tasks  BY DEF Children
<1>4. children_' \in [Tasks -> SUBSET Tasks]  BY <1>1, <1>3 DEF Emits, emit, on_emit
<1> QED  BY <1>1, <1>2, <1>4 DEF Emits, emit

LEMMA EmitChildren ==
  ASSUME IInv, NEW r \in Tasks, Emits(r), Grows, ndone' = ndone, cancelled' = cancelled /\ withdrawn' = withdrawn,
         Emitter[r] # NoTask => ncall'[Emitter[r]] > 0
  PROVE  ChildrenOK'
<1> SUFFICES ASSUME NEW p \in Tasks PROVE TreeOK(p)'
  BY DEF ChildrenOK
<1>1. TreeOK(p)   BY DEF IInv, ChildrenOK
<1>2. emitted' = emitted \cup {r} /\ r \notin emitted  BY DEF Emits, emit
<1>3. children_'[p] = IF Root[p] = r THEN Children(p) ELSE children_[p]
  BY DEF Emits, emit, on_emit
<1>4. p \in emitted' /\ Emitter[p] # NoTask => ncall'[Emitter[p]] > 0
  <2>1. Emitter[p] # NoTask => Emitter[p] \in Tasks  BY TreeAssumption
  <2> QED  BY <1>1, <1>2, <2>1 DEF TreeOK, Grows
<1>5. ndone'[p] > 0 => FinishedThen(p)  BY <1>1, FinishedKept DEF TreeOK
<1>6. CASE Root[p] = r
  <2>1. p \notin cancelled'  BY <1>1, <1>2, <1>6 DEF TreeOK
  <2> QED
    BY <1>2, <1>3, <1>4, <1>5, <1>6, <2>1 DEF TreeOK, Finished, FinishedThen, Children
<1>7. CASE Root[p] # r
  BY <1>1, <1>2, <1>3, <1>4, <1>5, <1>7 DEF TreeOK, Finished, FinishedThen, Children
<1> QED  BY <1>6, <1>7

LEMMA EmitQueued ==
  ASSUME IInv, NEW r \in Tasks, Emits(r), batch' = batch,
         \A t \in Tasks : Begun(t)' /\ parent_[t] = NoTask => Begun(t)
  PROVE  QueuedOnce'
<1>1. /\ queue_ready_ \in Seq(Tasks) /\ batch \in Seq(Tasks) /\ r \notin emitted
      /\ parent_[r] = NoTask /\ emitted' = emitted \cup {r}
      /\ queue_ready_' = Append(queue_ready_, r)
  BY DEF IInv, TypeOK, Emits, emit
<1>2. \A s \in {queue_ready_, batch} : \A i \in DOMAIN s :
        s[i] \in Tasks /\ parent_[s[i]] = NoTask /\ s[i] \in emitted /\ ~Begun(s[i])
  BY <1>1 DEF IInv, QueuedOnce
<1>3. ~Begun(r)  BY <1>1, TreeAssumption DEF IInv, Begins, InOrder
<1>4. /\ Len(queue_ready_) \in Nat /\ DOMAIN queue_ready_ = 1 .. Len(queue_ready_)
      /\ DOMAIN queue_ready_' = 1 .. Len(queue_ready_) + 1
      /\ queue_ready_'[Len(queue_ready_) + 1] = r
      /\ \A i \in 1 .. Len(queue_ready_) : queue_ready_'[i] = queue_ready_[i]
  BY <1>1
<1>5. \A i \in DOMAIN queue_ready_' :
        \/ i \in DOMAIN queue_ready_ /\ queue_ready_'[i] = queue_ready_[i]
        \/ i = Len(queue_ready_) + 1 /\ queue_ready_'[i] = r
  BY <1>4
<1>6. \A i \in DOMAIN queue_ready_ : queue_ready_[i] # r  BY <1>1, <1>2
<1>7. \A i \in DOMAIN batch : batch[i] # r  BY <1>1, <1>2
<1>8. ASSUME NEW i \in DOMAIN queue_ready_', NEW j \in DOMAIN queue_ready_',
             queue_ready_'[i] = queue_ready_'[j]
      PROVE  i = j
  BY <1>5, <1>6, <1>8 DEF IInv, QueuedOnce, Sole
<1>9. \A i \in DOMAIN queue_ready_', j \in DOMAIN batch' : queue_ready_'[i] # batch'[j]
  BY <1>5, <1>7 DEF IInv, QueuedOnce
<1>10. ASSUME NEW t \in Tasks, t \in emitted \cup {r}, parent_[t] = NoTask, ~Begun(t)
       PROVE  parent_[t] = NoTask /\ t \in emitted' /\ ~Begun(t)'
  BY <1>1, <1>10
<1>11. \A i \in DOMAIN queue_ready_' : /\ parent_[queue_ready_'[i]] = NoTask
                                       /\ queue_ready_'[i] \in emitted'
                                       /\ \A t \in Tasks : t = queue_ready_'[i] => ~Begun(t)'
  BY <1>1, <1>2, <1>3, <1>5, <1>10
<1>12. \A i \in DOMAIN batch' : /\ parent_[batch'[i]] = NoTask /\ batch'[i] \in emitted'
                                /\ \A t \in Tasks : t = batch'[i] => ~Begun(t)'
  BY <1>2, <1>10
<1>13. \A i \in DOMAIN queue_ready_' : queue_ready_'[i] \in Tasks  BY <1>2, <1>5
<1>14. \A i \in DOMAIN batch' : batch'[i] \in Tasks  BY <1>2
<1>15. Sole(queue_ready_)' /\ Sole(batch)'  BY <1>8 DEF IInv, QueuedOnce, Sole
<1>16. \A s \in {queue_ready_', batch'} : \A i \in DOMAIN s :
         parent_[s[i]] = NoTask /\ s[i] \in emitted'
         /\ ~(ncall'[s[i]] > 0 \/ \E k \in DOMAIN stack' :
                stack'[k].op = "call" /\ stack'[k].task = s[i])
  BY <1>11, <1>12, <1>13, <1>14 DEF Begun, OnStack
<1> QED  BY <1>9, <1>15, <1>16 DEF QueuedOnce, Begun, OnStack

LEMMA EmitKeeps == ASSUME IInv, NEW r \in Tasks, Emit(r) PROVE IInv'
<1>1. Emits(r) /\ UNCHANGED <<queue_wait_, wait_by_time_, clock, requests, loopvars, stack, counts, cancels>>
      /\ Emitter[r] = NoTask
  BY DEF Emit, Emits
<1>2. TypeOK  BY DEF IInv
<1>3. TypeOK'  BY <1>1, <1>2, EmitTypes DEF TypeOK, clock, loopvars, counts, cancels
<1>4. Grows  BY <1>1, EmitGrows DEF counts, cancels
<1>5. ChildrenOK'  BY <1>1, <1>4, EmitChildren DEF counts, cancels
<1>6. \A t \in Tasks : Begun(t)' <=> Begun(t)  BY <1>1 DEF Begun, OnStack, counts, cancels
<1>7. QueuedOnce'  BY <1>1, <1>6, EmitQueued DEF loopvars
<1>8. Begins'
  <2> SUFFICES ASSUME NEW u \in Tasks, Begun(u) PROVE InOrder(u)'
    BY <1>6 DEF Begins
  <2>1. InOrder(u)  BY DEF IInv, Begins
  <2> QED  BY <1>4, <2>1, InOrderKept
<1>9. FramedOnce' /\ Waits'
  BY <1>1 DEF IInv, FramedOnce, Waits, counts, cancels, loopvars
<1>10. FramesOK'
  <2>1. ASSUME NEW f \in Frames, FrameOK(f) PROVE FrameThen(f)
    <3>1. f.todo \subseteq Tasks  BY DEF Frames
    <3>2. /\ f.op = "call" => ncall'[f.task] = 0
          /\ f.op = "first" => \A t \in Children(f.task) : ~Begun(t)'
          /\ f.op = "each" => \A t \in f.todo : ~Begun(t)'
          /\ LeafDone(f) => ntimeout'[f.task] = 0 /\ f.task \notin withdrawn'
      BY <1>1, <1>6, <2>1, <3>1 DEF FrameOK, Children, LeafDone, counts, cancels
    <3> QED  BY <1>4, <2>1, <3>2, FrameKept
  <2>2. \A k \in DOMAIN stack : stack[k] \in Frames /\ FrameOK(stack[k])
    BY <1>2 DEF IInv, FramesOK, TypeOK
  <2>3. \A k \in DOMAIN stack' : FrameThen(stack'[k]) /\ (LeafDone(stack'[k]) => k = 1)
    BY <1>1, <2>1, <2>2 DEF IInv, FramesOK, LeafDone
  <2> QED  BY <2>3, FramesThen
<1> QED  BY <1>3, <1>5, <1>7, <1>8, <1>9, <1>10 DEF IInv

-----------------------------------------------------------------------------
(***************************************************************************)
(* triggerCall.  Its task was not called before, so none of its children   *)
(* is begun; each kind of task then puts its own frames on the stack.      *)
(***************************************************************************)
LEMMA CalledTask ==
  ASSUME IInv, TriggerCall
  PROVE  /\ TypeOK /\ Top("call") /\ stack # <<>> /\ Task \in Tasks
         /\ Root[Task] \in emitted /\ ncall[Task] = 0 /\ ntimeout[Task] = 0
         /\ Task \notin withdrawn /\ Begun(Task) /\ CallsThen
         /\ ncall' \in [Tasks -> Nat] /\ ncall'[Task] = 1
         /\ \A t \in Tasks : ncall[t] > 0 => ncall'[t] > 0
         /\ \A c \in Children(Task) :
              /\ c \in Tasks /\ parent_[c] = Task /\ Root[c] = Root[Task] /\ parent_[c] # NoTask
              /\ ~Begun(c) /\ ncall'[c] = 0
<1>1. TypeOK /\ Top("call") /\ stack # <<>>  BY DEF IInv, TriggerCall, Top
<1>2. Task \in Tasks /\ stack[1].op = "call" /\ stack[1].task = Task /\ 1 \in DOMAIN stack
  BY <1>1, TopFrame
<1>3. FrameOK(stack[1])  BY <1>2 DEF IInv, FramesOK
<1>4. Root[Task] \in emitted /\ ncall[Task] = 0
  BY <1>2, <1>3 DEF FrameOK
<1>5. Begun(Task)  BY <1>2 DEF Begun, OnStack
<1>6. ntimeout[Task] = 0
  <2>1. ntimeout[Task] \in Nat /\ ~(ncall[Task] > 0)  BY <1>1, <1>2, <1>4 DEF TypeOK
  <2>2. ~(ntimeout[Task] > 0)  BY <1>2, <2>1 DEF IInv, Waits
  <2> QED  BY <2>1, <2>2
<1>6a. Task \notin withdrawn  BY <1>4 DEF IInv, Waits
<1>7. ncall' = [ncall EXCEPT ![Task] = @ + 1]  BY DEF TriggerCall
<1>8. /\ ncall' \in [Tasks -> Nat] /\ ncall'[Task] = 1
      /\ \A t \in Tasks : t # Task => ncall'[t] = ncall[t]
  BY <1>1, <1>2, <1>4, <1>7 DEF TypeOK
<1>9. CallsThen
  <2>1. \A t \in Tasks : ncall'[t] > 0 => Begun(t)  BY <1>5, <1>8 DEF Begun
  <2>2. \A t \in Tasks : ncall'[t] <= 1  BY <1>8 DEF IInv, FramedOnce
  <2>3. ASSUME NEW j \in DOMAIN stack \ {1}, stack[j].op = "call"
        PROVE  ncall'[stack[j].task] = ncall[stack[j].task]
    <3>1. stack[j] \in Frames  BY <1>1 DEF TypeOK
    <3>2. stack[j].task \in Tasks  BY <3>1 DEF Frames
    <3>3. stack[j].task # Task  BY <1>2, <2>3 DEF IInv, FramedOnce
    <3> QED  BY <1>8, <3>2, <3>3
  <2> QED  BY <2>1, <2>2, <2>3 DEF CallsThen
<1>11. ASSUME NEW c \in Children(Task)
       PROVE  /\ c \in Tasks /\ parent_[c] = Task /\ Root[c] = Root[Task] /\ parent_[c] # NoTask
              /\ ~Begun(c) /\ ncall'[c] = 0
  <2>1. c \in Tasks /\ parent_[c] = Task /\ Root[c] = Root[Task] /\ parent_[c] # NoTask
    BY <1>2, ChildOf
  <2>2. ~Begun(c)  BY <1>4, <2>1 DEF IInv, Begins, InOrder
  <2>3. ncall[c] \in Nat  BY <1>1, <2>1 DEF TypeOK
  <2>4. ncall[c] = 0  BY <2>2, <2>3 DEF Begun
  <2>6. c # Task  BY <1>5, <2>2
  <2> QED  BY <1>8, <2>1, <2>2, <2>3, <2>4, <2>6
<1> QED  BY <1>1, <1>2, <1>4, <1>5, <1>6, <1>6a, <1>8, <1>9, <1>11

LEMMA CallWaits ==
  ASSUME IInv, TriggerCall, requests' = requests \/ (Kind[Task] = "leaf" /\ requests' = requests \cup {Task})
  PROVE  Waits'
<1>1. /\ Task \in Tasks /\ stack # <<>> /\ ntimeout[Task] = 0
      /\ Task \notin withdrawn /\ ncall'[Task] = 1 /\ TypeOK
      /\ \A t \in Tasks : ncall[t] > 0 => ncall'[t] > 0
  BY CalledTask
<1>2. /\ queue_wait_' = queue_wait_ \cup {Task} /\ wait_by_time_' \subseteq wait_by_time_ \cup {Task}
      /\ UNCHANGED <<phase, scan, ntimeout, cancelled, withdrawn>>
  BY DEF TriggerCall, loopvars, cancels
<1>3. queue_wait_ \subseteq Tasks /\ wait_by_time_ \subseteq Tasks /\ scan \subseteq Tasks
      /\ requests \subseteq Tasks /\ withdrawn \subseteq Tasks
  BY <1>1 DEF TypeOK
<1>4. /\ \A t \in queue_wait_' : ncall'[t] > 0 /\ ntimeout'[t] = 0 /\ t \notin withdrawn'
      /\ \A t \in withdrawn' : ncall'[t] > 0
  BY <1>1, <1>2, <1>3 DEF IInv, Waits
<1>5. \A t \in requests' : Kind[t] = "leaf" /\ ncall'[t] > 0
  BY <1>1, <1>3 DEF IInv, Waits
<1>6. \A t \in wait_by_time_' \cup scan' : ncall'[t] > 0
  BY <1>1, <1>2, <1>3 DEF IInv, Waits
<1>7. \A t \in Tasks : ntimeout'[t] > 0 => ncall'[t] > 0  BY <1>1, <1>2 DEF IInv, Waits
<1>8. phase' # "timeouts"  BY <1>1, <1>2 DEF IInv, Waits
<1> QED  BY <1>4, <1>5, <1>6, <1>7, <1>8 DEF Waits

LEMMA CallTypes ==
  ASSUME IInv, TriggerCall, stack' \in Seq(Frames), requests' \subseteq requests \cup {Task},
         emitted' \subseteq Tasks, queue_ready_' \in Seq(Tasks),
         children_' \in [Tasks -> SUBSET Tasks]
  PROVE  TypeOK'
<1>1. TypeOK /\ Task \in Tasks /\ ncall' \in [Tasks -> Nat]  BY CalledTask
<1>2. /\ queue_wait_' \subseteq queue_wait_ \cup {Task}
      /\ wait_by_time_' \subseteq wait_by_time_ \cup {Task}
      /\ UNCHANGED <<clock, loopvars, ndone, ntimeout, cancelled, withdrawn>>
  BY DEF TriggerCall, cancels
<1> QED  BY <1>1, <1>2 DEF TypeOK, clock, loopvars

(***************************************************************************)
(* All kinds but the emitting one leave the queue and the trees alone.     *)
(***************************************************************************)
LEMMA CallStep ==
  ASSUME IInv, TriggerCall, UNCHANGED <<emitted, queue_ready_, children_>>,
         requests' = requests \/ (Kind[Task] = "leaf" /\ requests' = requests \cup {Task}),
         NEW fs \in Seq(Frames), Goes(fs), Grows => StackThen(fs)
  PROVE  IInv'
<1>1. TypeOK /\ Top("call") /\ stack # <<>> /\ CallsThen
      /\ \A t \in Tasks : ncall[t] > 0 => ncall'[t] > 0
  BY CalledTask
<1>2. UNCHANGED <<ndone, ntimeout, cancelled, withdrawn, batch>>  BY DEF TriggerCall, loopvars, cancels
<1>3. Grows  BY <1>1, <1>2 DEF Grows
<1>4. stack' \in Seq(Frames)  BY <1>1, GoesOn
<1>5. TypeOK'  BY <1>1, <1>4, CallTypes DEF TypeOK
<1>6. /\ Begins' /\ FramedOnce' /\ FramesOK'
      /\ \A t \in Tasks : Begun(t)' /\ parent_[t] = NoTask => Begun(t)
  BY <1>1, <1>2, <1>3, <1>5, StackStep
<1>7. QueuedOnce'  BY <1>1, <1>2, <1>6, QueuedKept DEF IInv
<1>8. ChildrenOK'  BY <1>1, <1>2, <1>3, ChildrenKept DEF IInv
<1>9. Waits'  BY CallWaits
<1> QED  BY <1>5, <1>6, <1>7, <1>8, <1>9 DEF IInv

LEMMA TriggerCallKeeps == IInv /\ TriggerCall => IInv'
<1> SUFFICES ASSUME IInv, TriggerCall PROVE IInv'
  OBVIOUS
<1>1. /\ TypeOK /\ Top("call") /\ stack # <<>> /\ Task \in Tasks
      /\ Root[Task] \in emitted /\ ncall[Task] = 0
      /\ Begun(Task) /\ CallsThen /\ ncall' \in [Tasks -> Nat] /\ ncall'[Task] = 1
      /\ \A t \in Tasks : ncall[t] > 0 => ncall'[t] > 0
      /\ \A c \in Children(Task) :
              /\ c \in Tasks /\ parent_[c] = Task /\ Root[c] = Root[Task] /\ parent_[c] # NoTask
              /\ ~Begun(c) /\ ncall'[c] = 0
  BY CalledTask
<1>2. Kind[Task] \in Kinds  BY <1>1, TreeAssumption
<1>3. <<>> \in Seq(Frames) /\ StackThen(<<>>)  BY DEF StackThen, NewCall, LeafDone
<1>4. UNCHANGED <<ndone, ntimeout, cancelled, withdrawn, batch>>  BY DEF TriggerCall, loopvars, cancels
<1>5. CASE Kind[Task] = "leaf"
  <2>1. /\ requests' = requests \cup {Task} /\ Goes(<<>>)
        /\ UNCHANGED <<emitted, queue_ready_, children_>>
    BY <1>5 DEF TriggerCall
  <2> QED  BY <1>3, <1>5, <2>1, CallStep
<1>6. CASE Kind[Task] = "instant"
  <2> DEFINE f == Frame("done", Task, {})
             fs == <<f>>
  <2>1. Goes(fs) /\ UNCHANGED <<emitted, queue_ready_, children_, requests>>
    BY <1>6 DEF TriggerCall
  <2>2. f \in Frames /\ f.op = "done" /\ f.task = Task  BY <1>1, FrameType
  <2> HIDE DEF f
  <2>3. fs \in Seq(Frames) /\ DOMAIN fs = {1} /\ fs[1] = f  BY <2>2
  <2> HIDE DEF fs
  <2>4. \A r \in Tasks : Emitter[r] # Task  BY <1>1, <1>6, TreeAssumption
  <2>5. FinishedThen(Task)  BY <1>6, <2>4 DEF FinishedThen
  <2>6. FrameThen(f)  BY <1>1, <1>6, <2>1, <2>2, <2>5 DEF FrameThen
  <2>7. StackThen(fs)  BY <1>6, <2>2, <2>3, <2>6 DEF StackThen, NewCall, LeafDone
  <2> QED  BY <2>1, <2>3, <2>7, CallStep
<1>7. CASE Kind[Task] = "serial"
  <2> DEFINE f == Frame("first", Task, {})
             fs == <<f>>
  <2>1. Goes(fs) /\ UNCHANGED <<emitted, queue_ready_, children_, requests>>
    BY <1>7 DEF TriggerCall
  <2>2. f \in Frames /\ f.op = "first" /\ f.task = Task  BY <1>1, FrameType
  <2> HIDE DEF f
  <2>3. fs \in Seq(Frames) /\ DOMAIN fs = {1} /\ fs[1] = f  BY <2>2
  <2> HIDE DEF fs
  <2>4. \A u : ~NewCall(fs, u)  BY <2>2, <2>3 DEF NewCall
  <2>5. ASSUME NEW t \in Children(Task) PROVE ~Begun(t)'
    <3>1. t \in Tasks /\ ~Begun(t)  BY <1>1
    <3> QED  BY <1>1, <2>1, <2>3, <2>4, <3>1, BegunStep DEF CallsThen
  <2>6. FrameThen(f)  BY <1>1, <1>7, <2>1, <2>2, <2>5 DEF FrameThen
  <2>7. ASSUME NEW j \in DOMAIN stack \ {1}, stack[j].op = "first" PROVE stack[j].task # Task
    <3>1. FrameOK(stack[j])  BY DEF IInv, FramesOK
    <3> QED  BY <1>1, <2>7, <3>1 DEF FrameOK
  <2>8. StackThen(fs)  BY <2>2, <2>3, <2>4, <2>6, <2>7 DEF StackThen, LeafDone
  <2> QED  BY <2>1, <2>3, <2>8, CallStep
<1>8. CASE Kind[Task] = "parallel"
  <2> DEFINE f == Frame("each", Task, Children(Task))
             fs == <<f>>
  <2>1. Goes(fs) /\ UNCHANGED <<emitted, queue_ready_, children_, requests>>
    BY <1>8 DEF TriggerCall
  <2>2. Children(Task) \in SUBSET Tasks  BY DEF Children
  <2>3. f \in Frames /\ f.op = "each" /\ f.task = Task /\ f.todo = Children(Task)
    BY <1>1, <2>2, FrameType
  <2> HIDE DEF f
  <2>4. fs \in Seq(Frames) /\ DOMAIN fs = {1} /\ fs[1] = f  BY <2>3
  <2> HIDE DEF fs
  <2>5. \A u : ~NewCall(fs, u)  BY <2>3, <2>4 DEF NewCall
  <2>6. ASSUME NEW t \in Children(Task) PROVE ~Begun(t)'
    <3>1. t \in Tasks /\ ~Begun(t)   BY <1>1
    <3>2. ~Begun(t)'  BY <1>1, <2>1, <2>4, <2>5, <3>1, BegunStep DEF CallsThen
    <3> QED  BY <1>4, <3>1, <3>2
  <2>7. FrameThen(f)  BY <1>1, <1>8, <2>1, <2>3, <2>6 DEF FrameThen
  <2>8. ASSUME NEW j \in DOMAIN stack \ {1}, stack[j].op = "each" PROVE stack[j].task # Task
    <3>1. FrameOK(stack[j])  BY DEF IInv, FramesOK
    <3> QED  BY <1>1, <2>8, <3>1 DEF FrameOK
  <2>9. StackThen(fs)  BY <2>3, <2>4, <2>5, <2>7, <2>8 DEF StackThen, LeafDone
  <2> QED  BY <2>1, <2>4, <2>9, CallStep
<1>9. CASE Kind[Task] = "emitting"
  <2>1. Goes(<<>>) /\ requests' = requests  BY <1>9 DEF TriggerCall
  <2>2. PICK r \in Tasks : Emitter[r] = Task /\ emit(r)  BY <1>9 DEF TriggerCall
  <2>3. Emitter[r] # NoTask /\ parent_[r] = NoTask  BY <1>1, <2>2, TreeAssumption
  <2>4. r \notin emitted  BY <1>1, <2>2, <2>3 DEF IInv, ChildrenOK, TreeOK
  <2>5. Emits(r)  BY <2>2, <2>3, <2>4 DEF Emits
  <2>6. Grows  BY <1>1, <1>4, <2>5, EmitGrows
  <2>7. stack' \in Seq(Frames)  BY <1>1, <1>3, <2>1, GoesOn
  <2>8. TypeOK'  BY <1>1, <2>1, <2>5, <2>7, EmitTypes, CallTypes
  <2>9. /\ Begins' /\ FramedOnce' /\ FramesOK'
        /\ \A t \in Tasks : Begun(t)' /\ parent_[t] = NoTask => Begun(t)
    BY <1>1, <1>3, <1>4, <2>1, <2>6, <2>8, StackStep
  <2>10. QueuedOnce'  BY <1>4, <2>5, <2>9, EmitQueued
  <2>11. ChildrenOK'  BY <1>1, <1>4, <2>2, <2>5, <2>6, EmitChildren
  <2>12. Waits'  BY <2>1, CallWaits
  <2> QED  BY <2>8, <2>9, <2>10, <2>11, <2>12 DEF IInv
<1> QED  BY <1>2, <1>5, <1>6, <1>7, <1>8, <1>9 DEF Kinds

-----------------------------------------------------------------------------
(***************************************************************************)
(* The event loop: with an empty stack it starts a call, or changes what   *)
(* the frames do not look at.                                              *)
(***************************************************************************)
LEMMA NothingOnStack ==
  ASSUME stack = <<>>
  PROVE  /\ \A op, t : ~OnStack(op, t)
         /\ DOMAIN stack = {}
BY DEF OnStack

LEMMA StartStep ==
  ASSUME IInv, stack = <<>>, NEW f \in Frames, stack' = <<f>>,
         UNCHANGED <<emitted, children_, counts, cancels>>, FrameThen(f),
         f.op = "call" => InOrder(f.task) /\ parent_[f.task] = NoTask
  PROVE  /\ Begins' /\ FramedOnce' /\ FramesOK' /\ ChildrenOK'
         /\ \A t \in Tasks : Begun(t)' => Begun(t) \/ (f.op = "call" /\ t = f.task)
<1>1. /\ DOMAIN stack' = {1} /\ stack'[1] = f /\ Len(stack') = 1 /\ f.task \in Tasks
  BY DEF Frames
<1>2. UNCHANGED <<emitted, children_, ncall, ndone, ntimeout, cancelled, withdrawn>>  BY DEF counts, cancels
<1>3. Grows  BY <1>2 DEF Grows
<1>4. \A t \in Tasks : Begun(t)' => Begun(t) \/ (f.op = "call" /\ t = f.task)
  BY <1>1, <1>2 DEF Begun, OnStack
<1>5. Begins'
  <2> SUFFICES ASSUME NEW u \in Tasks, Begun(u)' PROVE InOrder(u)'
    BY DEF Begins
  <2>1. InOrder(u)  BY <1>4 DEF IInv, Begins
  <2> QED  BY <1>3, <2>1, InOrderKept
<1>6. FramedOnce'  BY <1>1, <1>2 DEF IInv, FramedOnce
<1>7. FramesOK'  BY <1>1, FramesThen
<1>8. ChildrenOK'  BY <1>2, <1>3, ChildrenKept DEF IInv
<1> QED  BY <1>4, <1>5, <1>6, <1>7, <1>8

LEMMA ReplyKeeps == ASSUME IInv, NEW t \in Tasks, Reply(t) PROVE IInv'
<1>1. /\ TypeOK /\ phase = "idle" /\ stack = <<>> /\ t \in requests
      /\ requests' = requests \ {t}
      /\ UNCHANGED <<emitted, queues, children_, clock, loopvars, counts, cancels>>
  BY DEF IInv, Reply
<1>2. UNCHANGED <<emitted, children_, ncall, ndone, ntimeout, cancelled, withdrawn, queue_ready_,
                  queue_wait_, wait_by_time_, phase, scan, batch, expired, zeroed>>
  BY <1>1 DEF queues, loopvars, clock, counts, cancels
<1>3. CASE t \notin queue_wait_
  <2>1. stack' = stack  BY <1>1, <1>3 DEF Reply
  <2>2. TypeOK'  BY <1>1, <1>2, <2>1 DEF TypeOK
  <2>3. Begins' /\ QueuedOnce' /\ FramedOnce'
    BY <1>2, <2>1 DEF IInv, Begins, InOrder, Begun, OnStack, QueuedOnce, Sole, FramedOnce, Children
  <2>4. FramesOK'  BY <1>1, <2>1 DEF FramesOK
  <2>5. ChildrenOK'  BY <1>2 DEF IInv, ChildrenOK, TreeOK, Finished, Children
  <2>6. Waits'  BY <1>1, <1>2, <2>1 DEF IInv, Waits
  <2> QED  BY <2>2, <2>3, <2>4, <2>5, <2>6 DEF IInv
<1>4. CASE t \in queue_wait_
  <2> DEFINE f == Frame("done", t, {})
  <2>1. stack' = <<f>>  BY <1>4 DEF Reply
  <2>2. f \in Frames /\ f.op = "done" /\ f.task = t  BY FrameType
  <2> HIDE DEF f
  <2>3. Kind[t] = "leaf" /\ ncall[t] > 0 /\ ntimeout[t] = 0 /\ t \notin withdrawn
    BY <1>1, <1>4 DEF IInv, Waits
  <2>4. Root[t] \in emitted  BY <2>3 DEF IInv, Begins, Begun, InOrder
  <2>5. \A r \in Tasks : Emitter[r] # t  BY <2>3, TreeAssumption
  <2>6. FrameThen(f)  BY <1>2, <2>2, <2>3, <2>4, <2>5 DEF FrameThen, FinishedThen
  <2>7. /\ Begins' /\ FramedOnce' /\ FramesOK' /\ ChildrenOK'
        /\ \A u \in Tasks : Begun(u)' => Begun(u)
    BY <1>1, <2>1, <2>2, <2>6, StartStep
  <2>8. <<f>> \in Seq(Frames)  BY <2>2
  <2>9. TypeOK'  BY <1>1, <1>2, <2>1, <2>8 DEF TypeOK
  <2>10. QueuedOnce'  BY <1>1, <1>2, <2>7, QueuedKept DEF IInv
  <2>11. Waits'  BY <1>1, <1>2 DEF IInv, Waits
  <2> QED  BY <2>7, <2>9, <2>10, <2>11 DEF IInv
<1> QED  BY <1>3, <1>4

(***************************************************************************)
(* triggerCancel only takes away: it empties children_ maps of one tree    *)
(* and takes tasks out of queue_wait_, none of them a leaf whose done() is *)
(* about to begin.                                                         *)
(***************************************************************************)
LEMMA ReachedTasks ==
  ASSUME NEW t \in Tasks, NEW u \in Reached(t)
  PROVE  u \in Tasks /\ Root[u] = Root[t]
<1> DEFINE D == {x \in Tasks : Root[x] = Root[t]}
<1>1. u \in Under[t]  BY DEF Reached
<1>2. u \in Tasks /\ \A E \in Trees : t \in E => u \in E  BY <1>1 DEF Under
<1>3. D \in Trees  BY TreeAssumption DEF Trees
<1>4. t \in D  OBVIOUS
<1> HIDE DEF D
<1>5. u \in D  BY <1>2, <1>3, <1>4
<1> QED  BY <1>2, <1>5 DEF D

LEMMA CancelKeeps == ASSUME IInv, NEW t \in Tasks, Cancel(t) PROVE IInv'
<1> DEFINE R == Reached(t)
<1>1. /\ TypeOK /\ InCallback /\ Root[t] \in emitted
      /\ children_' = [u \in Tasks |-> IF u \in R THEN {} ELSE children_[u]]
      /\ queue_wait_' = queue_wait_ \ R
      /\ cancelled' = cancelled \cup R
      /\ withdrawn' = withdrawn \cup (queue_wait_ \cap R)
      /\ UNCHANGED <<emitted, queue_ready_, requests, stack, ncall, ndone, ntimeout,
                     wait_by_time_, phase, scan, batch, expired, zeroed>>
  BY DEF IInv, Cancel, loopvars, clock, counts
<1>2. \A u \in R : u \in Tasks /\ Root[u] \in emitted  BY <1>1, ReachedTasks
<1> HIDE DEF R
<1>3. TypeOK'
  <2>1. children_' \in [Tasks -> SUBSET Tasks]  BY <1>1 DEF TypeOK
  <2> QED  BY <1>1, <1>2, <2>1 DEF TypeOK
<1>4. Grows  BY <1>1 DEF Grows
<1>5. \A u \in Tasks : Begun(u)' <=> Begun(u)  BY <1>1 DEF Begun, OnStack
<1>6. Begins'
  <2> SUFFICES ASSUME NEW u \in Tasks, Begun(u) PROVE InOrder(u)'
    BY <1>5 DEF Begins
  <2>1. InOrder(u)  BY DEF IInv, Begins
  <2> QED  BY <1>4, <2>1, InOrderKept
<1>7. QueuedOnce'  BY <1>1, <1>5, QueuedKept DEF IInv
<1>8. FramedOnce'  BY <1>1 DEF IInv, FramedOnce
<1>9. FramesOK'
  <2>1. ASSUME NEW k \in DOMAIN stack PROVE ~LeafDone(stack[k])
    <3>1. SUFFICES ASSUME LeafDone(stack[k]) PROVE FALSE
      OBVIOUS
    <3>2. k = 1  BY <3>1 DEF IInv, FramesOK, LeafDone
    <3>3. stack # <<>> /\ Head(stack) = stack[k]  BY <1>1, <3>2 DEF TypeOK
    <3> QED  BY <1>1, <3>1, <3>3 DEF LeafDone, InCallback, Task
  <2>2. ASSUME NEW f \in Frames, FrameOK(f), ~LeafDone(f) PROVE FrameThen(f)
    <3>1. f.todo \subseteq Tasks  BY DEF Frames
    <3>2. /\ f.op = "call" => ncall'[f.task] = 0
          /\ f.op = "first" => \A c \in Children(f.task) : ~Begun(c)'
          /\ f.op = "each" => \A c \in f.todo : ~Begun(c)'
      BY <1>1, <1>5, <2>2, <3>1 DEF FrameOK, Children
    <3> QED  BY <1>4, <2>2, <3>2, FrameKept
  <2>3. \A k \in DOMAIN stack : stack[k] \in Frames /\ FrameOK(stack[k])
    BY <1>1 DEF IInv, FramesOK, TypeOK
  <2>4. \A k \in DOMAIN stack' : FrameThen(stack'[k]) /\ (LeafDone(stack'[k]) => k = 1)
    BY <1>1, <2>1, <2>2, <2>3
  <2> QED  BY <2>4, FramesThen
<1>10. ChildrenOK'
  <2> SUFFICES ASSUME NEW p \in Tasks PROVE TreeOK(p)'
    BY DEF ChildrenOK
  <2>1. TreeOK(p)  BY DEF IInv, ChildrenOK
  <2>2. ndone'[p] > 0 => FinishedThen(p)  BY <1>1, <1>4, <2>1, FinishedKept DEF TreeOK
  <2>3. children_'[p] = IF p \in R THEN {} ELSE children_[p]  BY <1>1
  <2>4. p \in cancelled' <=> p \in cancelled \/ p \in R  BY <1>1
  <2> QED
    BY <1>1, <1>2, <2>1, <2>2, <2>3, <2>4 DEF TreeOK, Finished, FinishedThen, Children
<1>11. Waits'  BY <1>1 DEF IInv, Waits
<1> QED  BY <1>3, <1>6, <1>7, <1>8, <1>9, <1>10, <1>11 DEF IInv

LEMMA CallReadyKeeps == IInv /\ CallReady => IInv'
<1> SUFFICES ASSUME IInv, CallReady PROVE IInv'
  OBVIOUS
<1> DEFINE h == Head(batch)
           f == Frame("call", h, {})
<1>1. /\ TypeOK /\ phase = "calls" /\ stack = <<>> /\ batch # <<>> /\ stack' = <<f>>
      /\ batch' = Tail(batch)
      /\ UNCHANGED <<emitted, queues, children_, clock, requests, phase, scan, counts, cancels>>
  BY DEF IInv, CallReady
<1>2. UNCHANGED <<emitted, children_, ncall, ndone, ntimeout, cancelled, withdrawn, queue_ready_, requests,
                  queue_wait_, wait_by_time_, phase, scan, expired, zeroed>>
  BY <1>1 DEF queues, clock, counts, cancels
<1>3. batch \in Seq(Tasks) /\ queue_ready_ \in Seq(Tasks)  BY <1>1 DEF TypeOK
<1>4. /\ 1 \in DOMAIN batch /\ h = batch[1] /\ h \in Tasks
      /\ batch' \in Seq(Tasks) /\ DOMAIN batch' = 1 .. Len(batch) - 1
      /\ Len(batch) \in Nat \ {0} /\ DOMAIN batch = 1 .. Len(batch)
      /\ \A i \in 1 .. Len(batch) - 1 : batch'[i] = batch[i + 1]
  BY <1>1, <1>3
<1>5. parent_[h] = NoTask /\ h \in emitted /\ ~Begun(h)
  <2>1. \A i \in DOMAIN batch :
          parent_[batch[i]] = NoTask /\ batch[i] \in emitted /\ ~Begun(batch[i])
    BY DEF IInv, QueuedOnce
  <2> QED  BY <1>4, <2>1
<1>6. ncall[h] = 0
  <2>1. ncall[h] \in Nat  BY <1>1, <1>4 DEF TypeOK
  <2>2. ncall[h] = 0  BY <1>5, <2>1 DEF Begun
  <2> QED  BY <2>2
<1>7. Root[h] = h  BY <1>4, <1>5, TreeAssumption
<1> HIDE DEF h
<1>8. f \in Frames /\ f.op = "call" /\ f.task = h  BY <1>4, FrameType
<1> HIDE DEF f
<1>9. InOrder(h)  BY <1>5, <1>7 DEF InOrder
<1>10. FrameThen(f)  BY <1>2, <1>5, <1>6, <1>7, <1>8 DEF FrameThen
<1>11. /\ Begins' /\ FramedOnce' /\ FramesOK' /\ ChildrenOK'
       /\ \A u \in Tasks : Begun(u)' => Begun(u) \/ u = h
  <2>1. \E k \in Frames : k = f  BY <1>8
  <2>2. PICK k \in Frames : k = f  BY <2>1
  <2>3. /\ stack' = <<k>> /\ FrameThen(k) /\ k.op = "call" /\ k.task = h /\ InOrder(k.task)
        /\ parent_[k.task] = NoTask
    BY <1>1, <1>5, <1>8, <1>9, <1>10, <2>2
  <2>4. /\ Begins' /\ FramedOnce' /\ FramesOK' /\ ChildrenOK'
        /\ \A u \in Tasks : Begun(u)' => Begun(u) \/ (k.op = "call" /\ u = k.task)
    BY <1>1, <2>3, StartStep
  <2> QED  BY <2>3, <2>4
<1>12. <<f>> \in Seq(Frames)  BY <1>8
<1>13. TypeOK'  BY <1>1, <1>2, <1>4, <1>12 DEF TypeOK
<1>14. Waits'  BY <1>1, <1>2 DEF IInv, Waits
<1>15. QueuedOnce'
  <2>1. \A i \in DOMAIN batch' : i + 1 \in DOMAIN batch /\ i + 1 # 1 /\ batch'[i] = batch[i + 1]
    BY <1>4
  <2>2. \A i \in DOMAIN batch' : batch'[i] # h
    BY <1>4, <2>1 DEF IInv, QueuedOnce, Sole
  <2>3. \A i \in DOMAIN queue_ready_ : queue_ready_[i] # h  BY <1>4 DEF IInv, QueuedOnce
  <2>4. ASSUME NEW i \in DOMAIN batch', NEW j \in DOMAIN batch', batch'[i] = batch'[j]
        PROVE  i = j
    <3>1. i + 1 = j + 1  BY <2>1, <2>4 DEF IInv, QueuedOnce, Sole
    <3>2. i \in Int /\ j \in Int  BY <1>4
    <3> QED  BY <3>1, <3>2
  <2>5. Sole(batch)' /\ Sole(queue_ready_)'  BY <1>2, <2>4 DEF IInv, QueuedOnce, Sole
  <2>6. \A i \in DOMAIN queue_ready_', j \in DOMAIN batch' : queue_ready_'[i] # batch'[j]
    BY <1>2, <2>1 DEF IInv, QueuedOnce
  <2>7. ASSUME NEW t \in Tasks, t # h, ~Begun(t) PROVE ~Begun(t)'  BY <1>11, <2>7
  <2>8. ASSUME NEW i \in DOMAIN batch'
        PROVE  /\ parent_[batch'[i]] = NoTask /\ batch'[i] \in emitted'
               /\ \A t \in Tasks : t = batch'[i] => ~Begun(t)'
    <3>1. /\ parent_[batch[i + 1]] = NoTask /\ batch[i + 1] \in emitted
          /\ ~Begun(batch[i + 1])
      BY <2>1 DEF IInv, QueuedOnce
    <3> QED  BY <1>2, <2>1, <2>2, <2>7, <3>1
  <2>9. ASSUME NEW i \in DOMAIN queue_ready_'
        PROVE  /\ parent_[queue_ready_'[i]] = NoTask /\ queue_ready_'[i] \in emitted'
               /\ \A t \in Tasks : t = queue_ready_'[i] => ~Begun(t)'
    <3>1. /\ parent_[queue_ready_[i]] = NoTask /\ queue_ready_[i] \in emitted
          /\ ~Begun(queue_ready_[i])
      BY <1>2 DEF IInv, QueuedOnce
    <3> QED  BY <1>2, <2>3, <2>7, <3>1
  <2>10. \A i \in DOMAIN batch' : batch'[i] \in Tasks  BY <1>4
  <2>11. \A i \in DOMAIN queue_ready_' : queue_ready_'[i] \in Tasks  BY <1>2, <1>3
  <2>12. \A s \in {queue_ready_', batch'} : \A i \in DOMAIN s :
           parent_[s[i]] = NoTask /\ s[i] \in emitted'
           /\ ~(ncall'[s[i]] > 0 \/ \E k \in DOMAIN stack' :
                  stack'[k].op = "call" /\ stack'[k].task = s[i])
    BY <2>8, <2>9, <2>10, <2>11 DEF Begun, OnStack
  <2> QED  BY <2>5, <2>6, <2>12 DEF QueuedOnce, Begun, OnStack
<1> QED  BY <1>11, <1>13, <1>14, <1>15 DEF IInv

LEMMA QuietStep ==
  ASSUME IInv, UNCHANGED <<stack, emitted, children_, ncall, ndone, cancelled, withdrawn>>,
         ntimeout' = ntimeout \/ stack = <<>>
  PROVE  Begins' /\ FramedOnce' /\ FramesOK' /\ ChildrenOK'
         /\ \A t \in Tasks : Begun(t)' <=> Begun(t)
<1>1. \A t \in Tasks : Begun(t)' <=> Begun(t)  BY DEF Begun, OnStack
<1>2. Begins'
  BY DEF IInv, Begins, InOrder, Begun, OnStack, Children
<1>3. FramedOnce'  BY DEF IInv, FramedOnce
<1>4. ChildrenOK'  BY DEF IInv, ChildrenOK, TreeOK, Finished, Children
<1>5. FramesOK'
  <2>1. CASE stack = <<>>  BY <2>1 DEF FramesOK
  <2>2. CASE ntimeout' = ntimeout
    <3>1. \A k \in DOMAIN stack' : FrameThen(stack'[k])
      BY <2>2 DEF IInv, FramesOK, FrameOK, FrameThen, Finished, FinishedThen, Begun, OnStack,
         Children
    <3>2. \A k \in DOMAIN stack' : LeafDone(stack'[k]) => k = 1
      BY DEF IInv, FramesOK, LeafDone
    <3> QED  BY <3>1, <3>2, FramesThen
  <2> QED  BY <2>1, <2>2
<1> QED  BY <1>1, <1>2, <1>3, <1>4, <1>5

LEMMA ElapseKeeps == ASSUME IInv, NEW t \in Tasks, Elapse(t) PROVE IInv'
<1>1. /\ UNCHANGED <<stack, emitted, children_, ncall, ndone, cancelled, withdrawn, ntimeout, queue_ready_,
                     queue_wait_, wait_by_time_, requests, zeroed, phase, scan, batch>>
      /\ expired' = expired \cup {t}
  BY DEF Elapse, queues, loopvars, counts, cancels
<1>2. TypeOK'  BY <1>1 DEF IInv, TypeOK
<1>3. Begins' /\ FramedOnce' /\ FramesOK' /\ ChildrenOK'
      /\ \A u \in Tasks : Begun(u)' <=> Begun(u)
  BY <1>1, QuietStep
<1>4. QueuedOnce'  BY <1>1, <1>3, QueuedKept DEF IInv
<1>5. Waits'  BY <1>1 DEF IInv, Waits
<1> QED  BY <1>2, <1>3, <1>4, <1>5 DEF IInv

LEMMA LoseReplyKeeps == ASSUME IInv, NEW t \in Tasks, LoseReply(t) PROVE IInv'
<1>1. /\ UNCHANGED <<stack, emitted, children_, ncall, ndone, cancelled, withdrawn, ntimeout, queue_ready_,
                     queue_wait_, wait_by_time_, expired, zeroed, phase, scan, batch>>
      /\ requests' = requests \ {t}
  BY DEF LoseReply, queues, clock, loopvars, counts, cancels
<1>2. TypeOK'  BY <1>1 DEF IInv, TypeOK
<1>3. Begins' /\ FramedOnce' /\ FramesOK' /\ ChildrenOK'
      /\ \A u \in Tasks : Begun(u)' <=> Begun(u)
  BY <1>1, QuietStep
<1>4. QueuedOnce'  BY <1>1, <1>3, QueuedKept DEF IInv
<1>5. Waits'  BY <1>1 DEF IInv, Waits
<1> QED  BY <1>2, <1>3, <1>4, <1>5 DEF IInv

LEMMA RunKeeps == IInv /\ (RunBegin \/ RunEnd) => IInv'
<1> SUFFICES ASSUME IInv, RunBegin \/ RunEnd PROVE IInv'
  OBVIOUS
<1>1. /\ UNCHANGED <<stack, emitted, children_, ncall, ndone, cancelled, withdrawn, ntimeout, queue_ready_,
                     queue_wait_, wait_by_time_, requests, expired, zeroed, batch>>
      /\ stack = <<>>
      /\ \/ phase' = "timeouts" /\ scan' = wait_by_time_
         \/ phase' = "idle" /\ scan' = scan
  BY DEF RunBegin, RunEnd, queues, clock, counts, cancels
<1>2. TypeOK'  BY <1>1 DEF IInv, TypeOK
<1>3. Begins' /\ FramedOnce' /\ FramesOK' /\ ChildrenOK'
      /\ \A u \in Tasks : Begun(u)' <=> Begun(u)
  BY <1>1, QuietStep
<1>4. QueuedOnce'  BY <1>1, <1>3, QueuedKept DEF IInv
<1>5. Waits'  BY <1>1 DEF IInv, Waits
<1> QED  BY <1>2, <1>3, <1>4, <1>5 DEF IInv

LEMMA TakeReadyKeeps == IInv /\ TakeReady => IInv'
<1> SUFFICES ASSUME IInv, TakeReady PROVE IInv'
  OBVIOUS
<1>1. /\ UNCHANGED <<stack, emitted, children_, ncall, ndone, cancelled, withdrawn, ntimeout, queue_wait_,
                     wait_by_time_, requests, expired, zeroed, scan>>
      /\ phase' = "calls" /\ batch' = queue_ready_ /\ queue_ready_' = <<>>
  BY DEF TakeReady, clock, counts, cancels
<1>2. TypeOK'  BY <1>1 DEF IInv, TypeOK
<1>3. Begins' /\ FramedOnce' /\ FramesOK' /\ ChildrenOK'
      /\ \A u \in Tasks : Begun(u)' <=> Begun(u)
  BY <1>1, QuietStep
<1>4. QueuedOnce'
  BY <1>1 DEF IInv, QueuedOnce, Sole, Begun, OnStack
<1>5. Waits'  BY <1>1 DEF IInv, Waits
<1> QED  BY <1>2, <1>3, <1>4, <1>5 DEF IInv

LEMMA CheckTimeoutKeeps == IInv /\ CheckTimeout => IInv'
<1> SUFFICES ASSUME IInv, CheckTimeout PROVE IInv'
  OBVIOUS
<1> DEFINE t == Earliest(scan)
<1>1. /\ UNCHANGED <<stack, emitted, children_, ncall, ndone, cancelled, withdrawn, queue_ready_, requests,
                     expired, phase, batch>>
      /\ phase = "timeouts" /\ scan # {} /\ scan' = scan \ {t} /\ TypeOK
  BY DEF IInv, CheckTimeout, cancels
<1>2. stack = <<>>  BY <1>1 DEF IInv, Waits
<1>3. t \in scan /\ t \in Tasks  BY <1>1, EarliestIsMember DEF TypeOK
<1>4. \/ UNCHANGED <<ntimeout, zeroed, queue_wait_, wait_by_time_>>
      \/ triggerTimeout(t) /\ wait_by_time_' = wait_by_time_ \ {t}
  BY DEF CheckTimeout
<1> HIDE DEF t
<1>5. /\ ntimeout' \in [Tasks -> Nat]
      /\ zeroed' \subseteq Tasks
      /\ wait_by_time_' \subseteq wait_by_time_ /\ queue_wait_' \subseteq queue_wait_
      /\ \A u \in Tasks : u # t => ntimeout'[u] = ntimeout[u]
      /\ t \in queue_wait_' => ntimeout'[t] = ntimeout[t]
  <2>1. CASE UNCHANGED <<ntimeout, zeroed, queue_wait_, wait_by_time_>>
    BY <1>1, <2>1 DEF TypeOK
  <2>2. CASE triggerTimeout(t) /\ wait_by_time_' = wait_by_time_ \ {t}
    <3>1. /\ ntimeout' = [ntimeout EXCEPT ![t] = @ + 1] /\ queue_wait_' = queue_wait_ \ {t}
          /\ zeroed' = zeroed \/ (parent_[t] # NoTask /\ zeroed' = zeroed \cup {parent_[t]})
      BY <2>2 DEF triggerTimeout, child_timeout
    <3>2. zeroed' \subseteq Tasks  BY <1>1, <1>3, <3>1, ParentIsTask DEF TypeOK
    <3>3. ntimeout' \in [Tasks -> Nat] /\ \A u \in Tasks : u # t => ntimeout'[u] = ntimeout[u]
      BY <1>1, <1>3, <3>1 DEF TypeOK
    <3> QED  BY <2>2, <3>1, <3>2, <3>3
  <2> QED  BY <1>4, <2>1, <2>2
<1>6. TypeOK'  BY <1>1, <1>5 DEF TypeOK
<1>7. Begins' /\ FramedOnce' /\ FramesOK' /\ ChildrenOK'
      /\ \A u \in Tasks : Begun(u)' <=> Begun(u)
  BY <1>1, <1>2, QuietStep
<1>8. QueuedOnce'  BY <1>1, <1>7, QueuedKept DEF IInv
<1>9. Waits'
  <2>1. \A u \in queue_wait_' : u \in Tasks /\ ncall'[u] > 0 /\ ntimeout'[u] = 0
                                  /\ u \notin withdrawn'
    BY <1>1, <1>5 DEF IInv, Waits, TypeOK
  <2>2. \A u \in wait_by_time_' \cup scan' : ncall'[u] > 0  BY <1>1, <1>5 DEF IInv, Waits
  <2>3. \A u \in Tasks : ntimeout'[u] > 0 => ncall'[u] > 0
    BY <1>1, <1>3, <1>5 DEF IInv, Waits
  <2> QED  BY <1>1, <1>2, <2>1, <2>2, <2>3 DEF IInv, Waits
<1> QED  BY <1>6, <1>7, <1>8, <1>9 DEF IInv

LEMMA StutterKeeps == IInv /\ UNCHANGED vars => IInv'
<1> SUFFICES ASSUME IInv, UNCHANGED vars PROVE IInv'
  OBVIOUS
<1>1. UNCHANGED <<stack, emitted, children_, ncall, ndone, cancelled, withdrawn, ntimeout, queue_ready_,
                  queue_wait_, wait_by_time_, requests, expired, zeroed, phase, scan, batch>>
  BY DEF vars
<1>2. TypeOK'  BY <1>1 DEF IInv, TypeOK
<1>3. Begins' /\ FramedOnce' /\ FramesOK' /\ ChildrenOK'
      /\ \A u \in Tasks : Begun(u)' <=> Begun(u)
  BY <1>1, QuietStep
<1>4. QueuedOnce'  BY <1>1, <1>3, QueuedKept DEF IInv
<1>5. Waits'  BY <1>1 DEF IInv, Waits
<1> QED  BY <1>2, <1>3, <1>4, <1>5 DEF IInv

-----------------------------------------------------------------------------
(***************************************************************************)
(* The inductive invariant, and what follows from it.                      *)
(***************************************************************************)
LEMMA InitIInv == Init => IInv
<1> SUFFICES ASSUME Init PROVE IInv
  OBVIOUS
<1>1. TypeOK  BY DEF Init, TypeOK
<1>2. DOMAIN stack = {} /\ DOMAIN queue_ready_ = {} /\ DOMAIN batch = {}  BY DEF Init
<1>3. \A t \in Tasks : /\ ncall[t] = 0 /\ ndone[t] = 0 /\ ntimeout[t] = 0
                       /\ children_[t] = {}
  BY DEF Init
<1>4. emitted = {} /\ queue_wait_ = {} /\ requests = {} /\ wait_by_time_ = {} /\ scan = {}
      /\ phase = "idle" /\ cancelled = {} /\ withdrawn = {}
  BY DEF Init
<1>5. \A t \in Tasks : ~Begun(t)  BY <1>2, <1>3 DEF Begun, OnStack
<1>6. Begins  BY <1>5 DEF Begins
<1>7. QueuedOnce  BY <1>2 DEF QueuedOnce, Sole
<1>8. FramedOnce /\ FramesOK  BY <1>2, <1>3 DEF FramedOnce, FramesOK
<1>9. ChildrenOK  BY <1>3, <1>4 DEF ChildrenOK, TreeOK
<1>10. Waits  BY <1>2, <1>3, <1>4 DEF Waits
<1> QED  BY <1>1, <1>6, <1>7, <1>8, <1>9, <1>10 DEF IInv

LEMMA NextIInv == IInv /\ [Next]_vars => IInv'
<1> SUFFICES ASSUME IInv, [Next]_vars PROVE IInv'
  OBVIOUS
<1>1. ASSUME NEW t \in Tasks, Emit(t) PROVE IInv'  BY <1>1, EmitKeeps
<1>2. ASSUME NEW t \in Tasks, Elapse(t) PROVE IInv'  BY <1>2, ElapseKeeps
<1>3. ASSUME NEW t \in Tasks, Reply(t) PROVE IInv'  BY <1>3, ReplyKeeps
<1>4. ASSUME NEW t \in Tasks, LoseReply(t) PROVE IInv'  BY <1>4, LoseReplyKeeps
<1>5. ASSUME NEW t \in Tasks, Cancel(t) PROVE IInv'  BY <1>5, CancelKeeps
<1>6. ASSUME Run PROVE IInv'
  BY <1>6, RunKeeps, CheckTimeoutKeeps, TakeReadyKeeps, CallReadyKeeps DEF Run
<1>7. ASSUME Step PROVE IInv'
  BY <1>7, TriggerCallKeeps, CallEachKeeps, TriggerDoneKeeps, ChildDoneKeeps,
     DoneIfEmptyKeeps, EraseWaitKeeps, CallFirstKeeps DEF Step
<1>8. ASSUME UNCHANGED vars PROVE IInv'  BY <1>8, StutterKeeps
<1> QED  BY <1>1, <1>2, <1>3, <1>4, <1>5, <1>6, <1>7, <1>8 DEF Next

(***************************************************************************)
(* The inductive invariant holds of every behaviour of the scheduler.      *)
(***************************************************************************)
THEOREM Invariance == Spec => []IInv
BY InitIInv, NextIInv, PTL DEF Spec

(***************************************************************************)
(* The queues, the trees and the call stack always hold tasks, whatever    *)
(* the forest.                                                             *)
(***************************************************************************)
THEOREM TypeCorrect == Spec => []TypeOK
<1>1. IInv => TypeOK  BY DEF IInv
<1> QED  BY <1>1, Invariance, PTL

(***************************************************************************)
(* triggerCall reaches no task a second time: neither the ready queue, nor *)
(* a series going on to its next task, nor a parallel task's loop calls    *)
(* what another one calls, whatever was cancelled or is not steady.        *)
(***************************************************************************)
THEOREM CalledOnce == Spec => [](\A t \in Tasks : ncall[t] <= 1)
<1>1. IInv => \A t \in Tasks : ncall[t] <= 1  BY DEF IInv, FramedOnce
<1> QED  BY <1>1, Invariance, PTL

(***************************************************************************)
(* SerialsTask calls its tasks one by one, and no composite or emitting    *)
(* task is done before its parts are, in every forest.                     *)
(***************************************************************************)
THEOREM OneByOne == Spec => []PartsInOrder
<1>1. IInv => PartsInOrder
  <2> SUFFICES ASSUME IInv PROVE PartsInOrder
    OBVIOUS
  <2>1. ASSUME NEW t \in Tasks, NEW u \in Tasks,
               parent_[t] = parent_[u], parent_[t] # NoTask,
               Kind[parent_[t]] = "serial", Rank[t] < Rank[u], ncall[u] > 0
        PROVE  ndone[t] > 0
    BY <2>1 DEF IInv, Begins, Begun, InOrder, Children
  <2>2. ASSUME NEW t \in Tasks, parent_[t] # NoTask, ndone[parent_[t]] > 0,
               parent_[t] \notin cancelled
        PROVE  ndone[t] > 0
    <3>1. parent_[t] \in Tasks /\ t \in Children(parent_[t])  BY <2>2, ParentIsTask
    <3>2. Kind[parent_[t]] \in {"serial", "parallel"}  BY <2>2, TreeAssumption
    <3>3. Finished(parent_[t])  BY <2>2, <3>1 DEF IInv, ChildrenOK, TreeOK
    <3> QED  BY <2>2, <3>1, <3>2, <3>3 DEF Finished
  <2>3. ASSUME NEW t \in Tasks, Emitter[t] # NoTask, ndone[Emitter[t]] > 0
        PROVE  ndone[t] > 0
    <3>1. Emitter[t] \in Tasks  BY <2>3, TreeAssumption
    <3>2. Finished(Emitter[t])  BY <2>3, <3>1 DEF IInv, ChildrenOK, TreeOK
    <3> QED  BY <3>2 DEF Finished
  <2> QED  BY <2>1, <2>2, <2>3 DEF PartsInOrder
<1> QED  BY <1>1, Invariance, PTL

(***************************************************************************)
(* Only triggerDone's done() changes ndone, and it runs for a leaf only    *)
(* while queue_wait_ still has it, so never after its timeout or           *)
(* cancellation: a late reply is dropped.                                  *)
(***************************************************************************)
LEMMA LateStep ==
  ASSUME IInv, [Next]_vars, NEW t \in Tasks, Kind[t] = "leaf", (ntimeout[t] > 0 \/ t \in withdrawn)
  PROVE  ndone'[t] = ndone[t]
<1>1. CASE TriggerDone
  <2>1. TypeOK /\ Top("done")  BY <1>1 DEF IInv, TriggerDone
  <2>2. Task \in Tasks /\ stack[1].op = "done" /\ stack[1].task = Task /\ 1 \in DOMAIN stack
    BY <2>1, TopFrame
  <2>3. FrameOK(stack[1])  BY <2>2 DEF IInv, FramesOK
  <2>4. Kind[Task] = "leaf" => ntimeout[Task] = 0 /\ Task \notin withdrawn
    BY <2>2, <2>3 DEF FrameOK
  <2>5. t # Task  BY <2>4
  <2>6. ndone' = [ndone EXCEPT ![Task] = @ + 1] /\ ndone \in [Tasks -> Nat]
    BY <1>1, <2>1 DEF TriggerDone, TypeOK
  <2> QED  BY <2>5, <2>6
<1>2. CASE \E u \in Tasks : Emit(u) \/ Elapse(u) \/ Reply(u) \/ LoseReply(u) \/ Cancel(u)
  BY <1>2 DEF Emit, Elapse, Reply, LoseReply, Cancel, counts, cancels
<1>3. CASE Run
  BY <1>3 DEF Run, RunBegin, CheckTimeout, TakeReady, CallReady, RunEnd, counts, cancels
<1>4. CASE TriggerCall \/ CallEach \/ ChildDone \/ DoneIfEmpty \/ EraseWait \/ CallFirst
  BY <1>4 DEF TriggerCall, CallEach, ChildDone, DoneIfEmpty, EraseWait, CallFirst, counts, cancels
<1>5. CASE UNCHANGED vars  BY <1>5 DEF vars
<1> QED  BY <1>1, <1>2, <1>3, <1>4, <1>5 DEF Next, Step

(***************************************************************************)
(* A reply that comes after the timeout or the cancellation of its leaf is *)
(* dropped, in every forest: the action property LateReplyDropped.         *)
(***************************************************************************)
THEOREM LateRepliesAreDropped == Spec => LateReplyDropped
<1>1. IInv /\ [Next]_vars =>
        [\A t \in Tasks : Kind[t] = "leaf" /\ (ntimeout[t] > 0 \/ t \in withdrawn)
            => ndone'[t] = ndone[t]]_vars
  BY LateStep
<1> QED  BY <1>1, Invariance, PTL DEF Spec, LateReplyDropped
-----------------------------------------------------------------------------
(***************************************************************************)
(* A steady task completes once, as long as none of its parts is           *)
(* cancelled.                                                              *)
(*                                                                         *)
(* What the definitions by smallest sets give: Sudden has the tasks its    *)
(* rules name, and PartsOf[t] is closed under the two ways a task can take *)
(* part in the completion of another.                                      *)
(***************************************************************************)
LEMMA SuddenTask ==
  ASSUME NEW t \in Tasks,
         \/ Kind[t] = "instant"
         \/ Children(t) # {} /\ Children(t) \subseteq Sudden
  PROVE  t \in Sudden
<1> SUFFICES ASSUME NEW D \in SUBSET Tasks,
                    \A u \in Tasks : (\/ Kind[u] = "instant"
                                      \/ Children(u) # {} /\ Children(u) \subseteq D) => u \in D
             PROVE  t \in D
  BY DEF Sudden
<1>1. CASE Kind[t] = "instant"  BY <1>1
<1>2. CASE Children(t) # {} /\ Children(t) \subseteq Sudden
  <2>1. Children(t) \subseteq D  BY <1>2 DEF Sudden
  <2> QED  BY <1>2, <2>1
<1> QED  BY <1>1, <1>2

\* A set of tasks with all their parts, and with steady series only.
Whole(D) ==
    /\ D \subseteq Tasks
    /\ \A c \in Tasks : parent_[c] \in D => c \in D
    /\ \A r \in Tasks : Emitter[r] \in D => r \in D
    /\ \A p \in D : Kind[p] = "serial" => SteadySeries(p)

LEMMA SteadyIsWhole ==
  ASSUME NEW t \in Steady
  PROVE  t \in Tasks /\ t \in PartsOf[t] /\ Whole(PartsOf[t])
<1>1. t \in Tasks /\ \A p \in PartsOf[t] : Kind[p] = "serial" => SteadySeries(p)
  BY DEF Steady
<1>2. PartsOf[t] = {u \in Tasks : \A D \in Wholes : t \in D => u \in D}
  BY <1>1 DEF PartsOf
<1>3. ASSUME NEW c \in Tasks, parent_[c] \in PartsOf[t] PROVE c \in PartsOf[t]
  BY <1>2, <1>3 DEF Wholes, Trees
<1>4. ASSUME NEW r \in Tasks, Emitter[r] \in PartsOf[t] PROVE r \in PartsOf[t]
  BY <1>2, <1>4 DEF Wholes
<1> QED  BY <1>1, <1>2, <1>3, <1>4 DEF Whole

(***************************************************************************)
(* The four parts of OnceIn(D), which hold until a task of D is cancelled. *)
(***************************************************************************)
Kept(D) == Sessions(D) /\ DoneOnce(D) /\ PartsWaitedFor(D) /\ KeptWhileOpen(D)

OnceKeeps(D) == Whole(D) /\ OnceInv(D)

LEMMA OnceThen ==
  ASSUME NEW D, OnceInv(D), IInv', OnTop', cancelled \subseteq cancelled',
         D \cap cancelled' = {} /\ Kept(D) => Kept(D)'
  PROVE  OnceInv(D)'
BY DEF OnceInv, OnceIn, Kept

-----------------------------------------------------------------------------
(***************************************************************************)
(* What a step of a frame that leaves fs does to the stack.                *)
(***************************************************************************)
TopOps == {"call", "first", "done", "child_done"}

Below1(fs) == \A k \in DOMAIN fs : fs[k].op \in TopOps => k = 1

StackMoves(fs) ==
    /\ \A i \in DOMAIN stack' :
         \/ i \in DOMAIN fs /\ stack'[i] = fs[i]
         \/ i > Len(fs) /\ \E j \in DOMAIN stack \ {1} : stack'[i] = stack[j] /\ i = j + Len(fs) - 1
    /\ \A j \in DOMAIN stack \ {1} : \E i \in DOMAIN stack' : stack'[i] = stack[j]
    /\ \A i \in DOMAIN fs : i \in DOMAIN stack' /\ stack'[i] = fs[i]

LEMMA Moves ==
  ASSUME TypeOK, stack # <<>>, NEW fs \in Seq(Frames), Goes(fs)
  PROVE  StackMoves(fs)
<1>1. /\ DOMAIN stack' = 1 .. Len(stack') /\ DOMAIN fs = 1 .. Len(fs)
      /\ Len(fs) \in Nat /\ Len(stack) \in Nat \ {0} /\ Len(stack') = Len(fs) + Len(stack) - 1
  BY GoesOn
<1>2. ASSUME NEW i \in DOMAIN stack'
      PROVE  \/ i \in DOMAIN fs /\ stack'[i] = fs[i]
             \/ i > Len(fs)
                /\ \E j \in DOMAIN stack \ {1} : stack'[i] = stack[j] /\ i = j + Len(fs) - 1
  <2>1. CASE i \in 1 .. Len(fs)  BY <1>1, <2>1, GoesOn
  <2>2. CASE i \notin 1 .. Len(fs)
    <3>1. i \in 1 .. Len(stack') /\ i > Len(fs)  BY <1>1, <2>2
    <3>2. i - Len(fs) + 1 \in DOMAIN stack \ {1} /\ stack'[i] = stack[i - Len(fs) + 1]
      BY <3>1, GoesOn
    <3>3. i = (i - Len(fs) + 1) + Len(fs) - 1  BY <1>1, <3>1
    <3> QED  BY <3>1, <3>2, <3>3
  <2> QED  BY <2>1, <2>2
<1>3. ASSUME NEW j \in DOMAIN stack \ {1}
      PROVE  \E i \in DOMAIN stack' : stack'[i] = stack[j]
  BY GoesOn
<1>4. ASSUME NEW i \in DOMAIN fs PROVE i \in DOMAIN stack' /\ stack'[i] = fs[i]
  BY <1>1, GoesOn
<1> QED  BY <1>2, <1>3, <1>4 DEF StackMoves

LEMMA FramesTyped ==
  ASSUME TypeOK, NEW j \in DOMAIN stack
  PROVE  stack[j] \in Frames /\ stack[j].task \in Tasks /\ j \in Nat /\ j # 0 /\ (j # 1 => j > 1)
<1>1. stack \in Seq(Frames)  BY DEF TypeOK
<1>2. stack[j] \in Frames /\ j \in 1 .. Len(stack)  BY <1>1
<1> QED  BY <1>2 DEF Frames

LEMMA TopIs ==
  ASSUME TypeOK, NEW op, NEW t
  PROVE  IsTop(op, t) <=> 1 \in DOMAIN stack /\ stack[1].op = op /\ stack[1].task = t
<1>1. stack \in Seq(Frames)  BY DEF TypeOK
<1>2. stack # <<>> <=> 1 \in DOMAIN stack  BY <1>1
<1>3. stack # <<>> => Head(stack) = stack[1]  BY <1>1
<1> QED  BY <1>2, <1>3 DEF IsTop, Top, Task

LEMMA TopMoves ==
  ASSUME TypeOK, TypeOK', OnTop, stack # <<>>, NEW fs \in Seq(Frames), Goes(fs), Below1(fs)
  PROVE  /\ OnTop'
         /\ \A op, t : IsTop(op, t)' =>
              \/ 1 \in DOMAIN fs /\ fs[1].op = op /\ fs[1].task = t
              \/ /\ fs = <<>> /\ op \notin TopOps
                 /\ 2 \in DOMAIN stack /\ stack[2].op = op /\ stack[2].task = t
<1>1. StackMoves(fs)  BY Moves
<1>2. Len(fs) \in Nat /\ DOMAIN fs = 1 .. Len(fs) /\ (Len(fs) = 0 => fs = <<>>)  OBVIOUS
<1>3. DOMAIN stack \subseteq Int /\ DOMAIN stack' \subseteq Int  BY DEF TypeOK
<1>4. OnTop'
  <2> SUFFICES ASSUME NEW i \in DOMAIN stack',
                      stack'[i].op \in TopOps
               PROVE  i = 1
    BY DEF OnTop, TopOps
  <2>1. CASE i \in DOMAIN fs /\ stack'[i] = fs[i]  BY <2>1 DEF Below1
  <2>2. CASE \E j \in DOMAIN stack \ {1} : stack'[i] = stack[j]  BY <2>2 DEF OnTop, TopOps
  <2> QED  BY <1>1, <2>1, <2>2 DEF StackMoves
<1>5. ASSUME NEW op, NEW t, IsTop(op, t)'
      PROVE  \/ 1 \in DOMAIN fs /\ fs[1].op = op /\ fs[1].task = t
             \/ /\ fs = <<>> /\ op \notin TopOps
                /\ 2 \in DOMAIN stack /\ stack[2].op = op /\ stack[2].task = t
  <2>1. 1 \in DOMAIN stack' /\ stack'[1].op = op /\ stack'[1].task = t
    <3>1. stack' \in Seq(Frames)  BY DEF TypeOK
    <3>2. stack' # <<>> => 1 \in DOMAIN stack' /\ Head(stack') = stack'[1]  BY <3>1
    <3> QED  BY <1>5, <3>2 DEF IsTop, Top, Task
  <2>2. CASE 1 \in DOMAIN fs /\ stack'[1] = fs[1]  BY <2>1, <2>2
  <2>3. CASE 1 > Len(fs) /\ \E j \in DOMAIN stack \ {1} :
                 stack'[1] = stack[j] /\ 1 = j + Len(fs) - 1
    <3>1. Len(fs) = 0  BY <1>2, <2>3
    <3>2. PICK j \in DOMAIN stack \ {1} : stack'[1] = stack[j] /\ 1 = j + Len(fs) - 1
      BY <2>3
    <3>3. j = 2  BY <1>3, <3>1, <3>2
    <3>4. stack[2].op \notin TopOps  BY <3>2, <3>3 DEF OnTop, TopOps
    <3> QED  BY <1>2, <2>1, <3>1, <3>2, <3>3, <3>4
  <2> QED  BY <1>1, <2>1, <2>2, <2>3 DEF StackMoves
<1> QED  BY <1>4, <1>5

-----------------------------------------------------------------------------
(***************************************************************************)
(* A step of a frame that does not cancel, and what it leaves alone.       *)
(***************************************************************************)
(***************************************************************************)
(* A step of a frame, and what it leaves alone.                            *)
(***************************************************************************)
StepBy(op, fs) ==
    /\ IInv /\ IInv' /\ OnTop /\ Top(op)
    /\ fs \in Seq(Frames) /\ Goes(fs) /\ Below1(fs)

LEMMA StepMoves ==
  ASSUME NEW op, NEW fs, StepBy(op, fs)
  PROVE  /\ TypeOK /\ TypeOK' /\ stack # <<>> /\ StackMoves(fs) /\ OnTop'
         /\ Task \in Tasks /\ 1 \in DOMAIN stack /\ stack[1].op = op /\ stack[1].task = Task
         /\ FrameOK(stack[1]) /\ IsTop(op, Task)
         /\ \A o, t : IsTop(o, t)' =>
              \/ 1 \in DOMAIN fs /\ fs[1].op = o /\ fs[1].task = t
              \/ /\ fs = <<>> /\ o \notin TopOps
                 /\ 2 \in DOMAIN stack /\ stack[2].op = o /\ stack[2].task = t
<1>1. TypeOK /\ TypeOK' /\ stack # <<>> /\ fs \in Seq(Frames) /\ Goes(fs) /\ Top(op)
      /\ OnTop /\ Below1(fs)
  BY DEF StepBy, IInv, Top
<1>2. StackMoves(fs)  BY <1>1, Moves
<1>3. Task \in Tasks /\ 1 \in DOMAIN stack /\ stack[1].op = op /\ stack[1].task = Task
  BY <1>1, TopFrame
<1>4. FrameOK(stack[1])  BY <1>3 DEF StepBy, IInv, FramesOK
<1>5. IsTop(op, Task)  BY <1>1, <1>3, TopIs
<1>6. /\ OnTop'
      /\ \A o, t : IsTop(o, t)' =>
              \/ 1 \in DOMAIN fs /\ fs[1].op = o /\ fs[1].task = t
              \/ /\ fs = <<>> /\ o \notin TopOps
                 /\ 2 \in DOMAIN stack /\ stack[2].op = o /\ stack[2].task = t
  BY <1>1, TopMoves
<1> QED  BY <1>1, <1>2, <1>3, <1>4, <1>5, <1>6

(***************************************************************************)
(* A series that is completing its parts further down the stack is not     *)
(* over.                                                                   *)
(***************************************************************************)
LEMMA Surfaced ==
  ASSUME IInv, NEW D, Sessions(D), PartsWaitedFor(D),
         NEW j \in DOMAIN stack, j > 1, stack[j].op = "if_empty", stack[j].task \in D
  PROVE  ndone[stack[j].task] = 0
<1> DEFINE p == stack[j].task
<1>1. PICK called \in SUBSET D : Session(D, called)  BY DEF Sessions
<1>2. children_[p] # {}  BY <1>1 DEF Session
<1> QED  BY <1>2 DEF PartsWaitedFor

LEMMA SessionKept ==
  ASSUME NEW D, Whole(D), NEW op, NEW fs, StepBy(op, fs), NEW called \in SUBSET D,
         Session(D, called), ncall' = ncall,
         \A t \in called : ndone'[t] > 0 => ndone[t] > 0 \/ t \in Sudden,
         \A k \in DOMAIN fs : fs[k].op = "done" /\ fs[k].task \in called =>
             fs[k].task \in Sudden,
         \A k \in DOMAIN fs : fs[k].op = "call" => parent_[fs[k].task] # NoTask,
         \A k \in DOMAIN fs : fs[k].op = "if_empty" /\ fs[k].task \in D /\ k > 1 =>
             \E c \in children_'[fs[k].task] \ Sudden : ncall[c] > 0 => c \in called,
         \A p \in D : \A c \in children_[p] \ Sudden :
             (ncall[c] > 0 => c \in called) => c \in children_'[p]
  PROVE  Session(D, called)'
<1>1. /\ TypeOK /\ TypeOK' /\ stack # <<>> /\ StackMoves(fs)
      /\ \A o, t : IsTop(o, t)' =>
              \/ 1 \in DOMAIN fs /\ fs[1].op = o /\ fs[1].task = t
              \/ fs = <<>> /\ o \notin TopOps
  BY StepMoves
<1>2. ASSUME NEW t \in called
      PROVE  /\ ncall'[t] > 0
             /\ ndone'[t] > 0 \/ IsTop("done", t)' => t \in Sudden
             /\ \A c \in Children(t) : ncall'[c] > 0 => c \in called
  <2>1. ncall'[t] > 0 /\ \A c \in Children(t) : ncall'[c] > 0 => c \in called
    BY DEF Session
  <2>2. ndone'[t] > 0 => t \in Sudden  BY DEF Session
  <2>3. IsTop("done", t)' => t \in Sudden  BY <1>1 DEF TopOps
  <2> QED  BY <2>1, <2>2, <2>3
<1>3. ASSUME NEW t \in called, NEW r \in Tasks, Emitter[r] = t PROVE ~Begun(r)'
  <2>1. ~Begun(r)  BY <1>3 DEF Session
  <2>2. parent_[r] = NoTask  BY <1>3, TreeAssumption DEF Whole
  <2>3. ASSUME NEW i \in DOMAIN stack', stack'[i].op = "call", stack'[i].task = r PROVE FALSE
    <3>1. CASE i \in DOMAIN fs /\ stack'[i] = fs[i]  BY <2>2, <2>3, <3>1
    <3>2. CASE \E j \in DOMAIN stack \ {1} : stack'[i] = stack[j]
      BY <2>1, <2>3, <3>2 DEF Begun, OnStack
    <3> QED  BY <1>1, <3>1, <3>2 DEF StackMoves
  <2> QED  BY <2>1, <2>3 DEF Begun, OnStack
<1>4. ASSUME NEW i \in DOMAIN stack', stack'[i].op = "if_empty", stack'[i].task \in D, i > 1
      PROVE  \E c \in children_'[stack'[i].task] \ Sudden : ncall'[c] > 0 => c \in called
  <2>1. CASE i \in DOMAIN fs /\ stack'[i] = fs[i]  BY <1>4, <2>1
  <2>2. CASE \E j \in DOMAIN stack \ {1} : stack'[i] = stack[j]
    <3>1. PICK j \in DOMAIN stack \ {1} : stack'[i] = stack[j]  BY <2>2
    <3>2. stack[j].task \in D /\ j > 1  BY <1>1, <1>4, <3>1, FramesTyped
    <3>3. \E c \in children_[stack[j].task] \ Sudden : ncall[c] > 0 => c \in called
      BY <1>4, <3>1, <3>2 DEF Session
    <3> QED  BY <3>1, <3>2, <3>3
  <2> QED  BY <1>1, <2>1, <2>2 DEF StackMoves
<1> QED  BY <1>1, <1>2, <1>3, <1>4 DEF Session, Children

LEMMA OpenKept ==
  ASSUME NEW D, Whole(D), NEW op, NEW fs, StepBy(op, fs), op # "erase", KeptWhileOpen(D),
         queue_wait_ \subseteq queue_wait_', ntimeout' = ntimeout,
         \A t \in D \cap queue_wait_' : ndone'[t] > 0 =>
             (t \in queue_wait_ /\ ndone[t] > 0) \/ OnStack("erase", t)',
         \A t \in D : ncall'[t] > 0 /\ ndone'[t] = 0 =>
             (ncall[t] > 0 /\ ndone[t] = 0) \/ t \in queue_wait_'
  PROVE  KeptWhileOpen(D)'
<1>1. StackMoves(fs) /\ stack[1].op # "erase"  BY StepMoves
<1>2. ASSUME NEW t \in D \cap queue_wait_', ndone'[t] > 0 PROVE OnStack("erase", t)'
  <2>1. CASE t \in queue_wait_ /\ ndone[t] > 0
    <3>1. PICK j \in DOMAIN stack : stack[j].op = "erase" /\ stack[j].task = t
      BY <2>1 DEF KeptWhileOpen, OnStack
    <3>2. \E i \in DOMAIN stack' : stack'[i] = stack[j]  BY <1>1, <3>1 DEF StackMoves
    <3> QED  BY <3>1, <3>2 DEF OnStack
  <2> QED  BY <1>2, <2>1
<1>3. ASSUME NEW t \in D, ncall'[t] > 0, ndone'[t] = 0
      PROVE  t \in queue_wait_' \/ ntimeout'[t] > 0
  BY <1>3 DEF KeptWhileOpen
<1> QED  BY <1>2, <1>3 DEF KeptWhileOpen

(***************************************************************************)
(* A frame that only goes on to others: nothing is done, no part is struck *)
(* off.  A composite with nothing left goes on to done().                  *)
(***************************************************************************)
PlainFrames(op, fs) ==
    \A k \in DOMAIN fs :
        \/ fs[k].op \in {"call", "first", "each"}
        \/ k = 1 /\ fs[k].op = "done" /\ fs[k].task = Task /\ op = "if_empty" /\ children_[Task] = {}

LEMMA PlainStep ==
  ASSUME NEW D, Whole(D), NEW op, NEW fs, StepBy(op, fs), op \notin {"done", "child_done"},
         PlainFrames(op, fs),
         UNCHANGED <<ncall, ndone, ntimeout, children_, requests>>,
         Sessions(D), DoneOnce(D), PartsWaitedFor(D)
  PROVE  DoneOnce(D)' /\ PartsWaitedFor(D)'
<1>1. /\ TypeOK /\ TypeOK' /\ IInv /\ StackMoves(fs) /\ IsTop(op, Task) /\ Task \in Tasks
      /\ FrameOK(stack[1]) /\ stack[1].op = op /\ stack[1].task = Task
      /\ \A o, t : IsTop(o, t)' =>
              \/ 1 \in DOMAIN fs /\ fs[1].op = o /\ fs[1].task = t
              \/ /\ fs = <<>> /\ o \notin TopOps
                 /\ 2 \in DOMAIN stack /\ stack[2].op = o /\ stack[2].task = t
  BY StepMoves DEF StepBy
<1>2. ASSUME NEW t, IsTop("done", t)'
      PROVE  t = Task /\ IsTop("if_empty", t) /\ children_[t] = {} /\ t \in Tasks
  BY <1>1, <1>2 DEF PlainFrames, TopOps
<1>3. ASSUME NEW t, IsTop("child_done", t)' PROVE FALSE
  BY <1>1, <1>3 DEF PlainFrames, TopOps
<1>4. ASSUME NEW t \in D, IsTop("if_empty", t)' PROVE ndone[t] = 0
  <2>1. 2 \in DOMAIN stack /\ stack[2].op = "if_empty" /\ stack[2].task = t
    BY <1>1, <1>4 DEF PlainFrames
  <2> QED  BY <1>1, <2>1, Surfaced
<1>5. ASSUME NEW t, IsTop("child_done", t) PROVE FALSE
  BY <1>1, <1>5, TopIs
<1>6. DoneOnce(D)'
  <2>1. \A t \in D : ndone'[t] <= 1 /\ (ndone'[t] > 0 => ncall'[t] > 0)  BY DEF DoneOnce
  <2>2. \A t \in D : IsTop("done", t)' \/ IsTop("if_empty", t)' => ndone'[t] = 0
    BY <1>2, <1>4 DEF DoneOnce
  <2>3. ASSUME NEW t \in D \cap requests' PROVE ndone'[t] = 0 /\ ~IsTop("done", t)'
    <3>1. t \in requests /\ t \in Tasks /\ Kind[t] = "leaf"
      BY <1>1 DEF IInv, Waits, TypeOK
    <3>2. IsTop("done", t)' => Kind[t] \in {"serial", "parallel"}
      BY <1>1, <1>2, TopIs DEF FrameOK
    <3> QED  BY <3>1, <3>2 DEF DoneOnce
  <2>4. ASSUME NEW i \in DOMAIN stack', stack'[i].task \in D
        PROVE  /\ stack'[i].op = "if_empty" => Children(stack'[i].task) # {}
               /\ stack'[i].op = "erase" => ndone'[stack'[i].task] > 0
    <3>1. CASE i \in DOMAIN fs /\ stack'[i] = fs[i]  BY <3>1 DEF PlainFrames
    <3>2. CASE \E j \in DOMAIN stack \ {1} : stack'[i] = stack[j]
      BY <2>4, <3>2 DEF DoneOnce
    <3> QED  BY <1>1, <3>1, <3>2 DEF StackMoves
  <2> QED  BY <1>3, <2>1, <2>2, <2>3, <2>4 DEF DoneOnce, Children
<1>7. PartsWaitedFor(D)'
  BY <1>2, <1>5 DEF PartsWaitedFor, Children
<1> QED  BY <1>6, <1>7

LEMMA EraseWaitOnce == ASSUME NEW D, OnceKeeps(D), EraseWait PROVE OnceInv(D)'
<1> DEFINE fs == <<>>
<1>1. Whole(D) /\ IInv /\ IInv' /\ OnTop
  BY EraseWaitKeeps DEF OnceKeeps, OnceInv
<1>2. fs \in Seq(Frames) /\ Goes(fs) /\ Top("erase") /\ DOMAIN fs = {}
      /\ UNCHANGED <<ncall, ndone, ntimeout, children_, requests, cancelled>>
      /\ queue_wait_' = queue_wait_ \ {Task}
  BY DEF EraseWait, counts, cancels
<1> HIDE DEF fs
<1>3. StepBy("erase", fs)  BY <1>1, <1>2 DEF StepBy, Below1
<1>4. PlainFrames("erase", fs)  BY <1>2 DEF PlainFrames
<1>5. /\ OnTop' /\ StackMoves(fs) /\ Task \in Tasks /\ 1 \in DOMAIN stack
      /\ stack[1].op = "erase" /\ stack[1].task = Task /\ TypeOK
  BY <1>3, StepMoves
<1> SUFFICES ASSUME Kept(D) PROVE Kept(D)'
  BY <1>1, <1>2, <1>5, OnceThen DEF OnceKeeps
<1>6. DoneOnce(D)' /\ PartsWaitedFor(D)'  BY <1>1, <1>2, <1>3, <1>4, PlainStep DEF Kept
<1>7. PICK called \in SUBSET D : Session(D, called)  BY DEF Kept, Sessions
<1>8. Session(D, called)'  BY <1>1, <1>2, <1>3, <1>7, SessionKept
<1>9. KeptWhileOpen(D)'
  <2>1. ASSUME NEW t \in D \cap queue_wait_', ndone'[t] > 0 PROVE OnStack("erase", t)'
    <3>1. t \in queue_wait_ /\ t # Task /\ ndone[t] > 0  BY <1>2, <2>1
    <3>2. PICK j \in DOMAIN stack : stack[j].op = "erase" /\ stack[j].task = t
      BY <3>1 DEF Kept, KeptWhileOpen, OnStack
    <3>3. \E i \in DOMAIN stack' : stack'[i] = stack[j]  BY <1>5, <3>1, <3>2 DEF StackMoves
    <3> QED  BY <3>2, <3>3 DEF OnStack
  <2>2. ASSUME NEW t \in D, ncall'[t] > 0, ndone'[t] = 0
        PROVE  t \in queue_wait_' \/ ntimeout'[t] > 0
    <3>1. t # Task  BY <1>2, <1>5, <2>2 DEF Kept, DoneOnce
    <3> QED  BY <1>2, <2>2, <3>1 DEF Kept, KeptWhileOpen
  <2> QED  BY <2>1, <2>2 DEF KeptWhileOpen
<1> QED  BY <1>6, <1>8, <1>9 DEF Kept, Sessions

LEMMA DoneIfEmptyOnce == ASSUME NEW D, OnceKeeps(D), DoneIfEmpty PROVE OnceInv(D)'
<1> DEFINE f == Frame("done", Task, {})
           fs == If(children_[Task] = {}, f)
<1>1. Whole(D) /\ IInv /\ IInv' /\ OnTop /\ TypeOK
  BY DoneIfEmptyKeeps DEF OnceKeeps, OnceInv, IInv
<1>2. Goes(fs) /\ Top("if_empty") /\ queue_wait_' = queue_wait_
      /\ UNCHANGED <<ncall, ndone, ntimeout, children_, requests, cancelled>>
  BY DEF DoneIfEmpty, counts, cancels, queues
<1>3. Task \in Tasks /\ 1 \in DOMAIN stack /\ stack[1].op = "if_empty" /\ stack[1].task = Task
  BY <1>1, <1>2, TopFrame
<1>4. f \in Frames /\ f.op = "done" /\ f.task = Task  BY <1>3, FrameType
<1> HIDE DEF f
<1>5. fs = <<>> \/ (fs = <<f>> /\ children_[Task] = {})  BY DEF If
<1> HIDE DEF fs
<1>6. /\ fs \in Seq(Frames)
      /\ \A k \in DOMAIN fs : k = 1 /\ fs[k] = f /\ children_[Task] = {}
  <2>1. CASE fs = <<>>
    <3>1. DOMAIN fs = {}  BY <2>1
    <3> QED  BY <2>1, <3>1
  <2>2. CASE fs = <<f>> /\ children_[Task] = {}
    <3>1. DOMAIN fs = {1} /\ fs[1] = f /\ fs \in Seq(Frames)  BY <1>4, <2>2
    <3> QED  BY <2>2, <3>1
  <2> QED  BY <1>5, <2>1, <2>2
<1>7. StepBy("if_empty", fs)  BY <1>1, <1>2, <1>4, <1>6 DEF StepBy, Below1
<1>8. PlainFrames("if_empty", fs)  BY <1>4, <1>6 DEF PlainFrames
<1>9. OnTop' /\ FrameOK(stack[1])  BY <1>7, StepMoves
<1> SUFFICES ASSUME D \cap cancelled' = {}, Kept(D) PROVE Kept(D)'
  BY <1>1, <1>2, <1>9, OnceThen DEF OnceKeeps
<1>10. DoneOnce(D)' /\ PartsWaitedFor(D)'  BY <1>1, <1>2, <1>7, <1>8, PlainStep DEF Kept
<1>11. PICK called \in SUBSET D : Session(D, called)  BY DEF Kept, Sessions
<1>12. children_[Task] = {} /\ Task \in called => Task \in Sudden
  <2> SUFFICES ASSUME children_[Task] = {}, Task \in called PROVE Task \in Sudden
    OBVIOUS
  <2>1. TreeOK(Task) /\ Task \notin cancelled /\ Root[Task] \in emitted
    BY <1>1, <1>2, <1>3, <1>9 DEF IInv, ChildrenOK, FrameOK
  <2>2. \A c \in Children(Task) : c \in Tasks /\ ndone[c] > 0  BY <2>1 DEF TreeOK, Children
  <2>3. \A c \in Children(Task) : c \in called
    <3>1. \A c \in Children(Task) : c \in D  BY <1>1, ChildOf DEF Whole
    <3> QED  BY <1>11, <2>2, <3>1 DEF Kept, DoneOnce, Session
  <2>4. Children(Task) \subseteq Sudden  BY <1>11, <2>2, <2>3 DEF Session
  <2>5. Children(Task) # {}  BY <1>3 DEF Kept, DoneOnce
  <2> QED  BY <1>3, <2>4, <2>5, SuddenTask
<1>13. Session(D, called)'
  BY <1>1, <1>2, <1>4, <1>6, <1>7, <1>11, <1>12, SessionKept
<1>14. KeptWhileOpen(D)'  BY <1>1, <1>2, <1>7, OpenKept DEF Kept
<1> QED  BY <1>10, <1>13, <1>14 DEF Kept, Sessions

LEMMA CallFirstOnce == ASSUME NEW D, OnceKeeps(D), CallFirst PROVE OnceInv(D)'
<1> DEFINE c == First(children_[Task])
           f == Frame("call", c, {})
           fs == IF children_[Task] = {} THEN <<>> ELSE <<f>>
<1>1. Whole(D) /\ IInv /\ IInv' /\ OnTop /\ TypeOK
  BY CallFirstKeeps DEF OnceKeeps, OnceInv, IInv
<1>2. Goes(fs) /\ Top("first") /\ queue_wait_' = queue_wait_
      /\ UNCHANGED <<ncall, ndone, ntimeout, children_, requests, cancelled>>
  BY DEF CallFirst, counts, cancels, queues
<1>3. Task \in Tasks  BY <1>1, <1>2, TopFrame
<1>4. children_[Task] \subseteq Children(Task) /\ children_[Task] \subseteq Tasks
  BY <1>1, <1>3 DEF IInv, ChildrenOK, TreeOK, Children
<1>5. children_[Task] # {} => c \in Children(Task) /\ c \in Tasks
  BY <1>4, FirstIsLeast
<1> HIDE DEF c
<1>6. children_[Task] # {} =>
        f \in Frames /\ f.op = "call" /\ f.task = c /\ parent_[c] # NoTask
  BY <1>3, <1>5, FrameType, ChildOf
<1> HIDE DEF f
<1>7. fs = <<>> \/ (fs = <<f>> /\ children_[Task] # {})  OBVIOUS
<1> HIDE DEF fs
<1>8. /\ fs \in Seq(Frames)
      /\ \A k \in DOMAIN fs : k = 1 /\ fs[k] = f /\ children_[Task] # {}
  <2>1. CASE fs = <<>>
    <3>1. DOMAIN fs = {}  BY <2>1
    <3> QED  BY <2>1, <3>1
  <2>2. CASE fs = <<f>> /\ children_[Task] # {}
    <3>1. DOMAIN fs = {1} /\ fs[1] = f /\ fs \in Seq(Frames)  BY <1>6, <2>2
    <3> QED  BY <2>2, <3>1
  <2> QED  BY <1>7, <2>1, <2>2
<1>9. StepBy("first", fs)  BY <1>1, <1>2, <1>8 DEF StepBy, Below1
<1>10. PlainFrames("first", fs)  BY <1>6, <1>8 DEF PlainFrames
<1>11. OnTop'  BY <1>9, StepMoves
<1> SUFFICES ASSUME Kept(D) PROVE Kept(D)'
  BY <1>1, <1>2, <1>11, OnceThen DEF OnceKeeps
<1>12. DoneOnce(D)' /\ PartsWaitedFor(D)'
  BY <1>1, <1>2, <1>9, <1>10, PlainStep DEF Kept
<1>13. PICK called \in SUBSET D : Session(D, called)  BY DEF Kept, Sessions
<1>14. Session(D, called)'  BY <1>1, <1>2, <1>6, <1>8, <1>9, <1>13, SessionKept
<1>15. KeptWhileOpen(D)'  BY <1>1, <1>2, <1>9, OpenKept DEF Kept
<1> QED  BY <1>12, <1>14, <1>15 DEF Kept, Sessions

LEMMA CallEachOnce == ASSUME NEW D, OnceKeeps(D), CallEach PROVE OnceInv(D)'
<1> DEFINE todo == Head(stack).todo
           c == First(todo)
           f == Frame("call", c, {})
           g == Frame("each", Task, todo \ {c})
           fs == IF todo = {} THEN <<>> ELSE <<f, g>>
<1>1. Whole(D) /\ IInv /\ IInv' /\ OnTop /\ TypeOK
  BY CallEachKeeps DEF OnceKeeps, OnceInv, IInv
<1>2. Goes(fs) /\ Top("each") /\ queue_wait_' = queue_wait_
      /\ UNCHANGED <<ncall, ndone, ntimeout, children_, requests, cancelled>>
  BY DEF CallEach, counts, cancels, queues
<1>3. /\ Task \in Tasks /\ 1 \in DOMAIN stack /\ stack[1].op = "each" /\ stack[1].task = Task
      /\ todo \subseteq Tasks /\ todo = stack[1].todo
  BY <1>1, <1>2, TopFrame
<1>4. todo \subseteq Children(Task)  BY <1>1, <1>3 DEF IInv, FramesOK, FrameOK
<1> HIDE DEF todo
<1>5. todo # {} => c \in todo  BY <1>3, FirstIsLeast
<1> HIDE DEF c
<1>6. todo # {} => /\ f \in Frames /\ f.op = "call" /\ f.task = c
                   /\ g \in Frames /\ g.op = "each" /\ parent_[c] # NoTask
  <2> SUFFICES ASSUME todo # {}
               PROVE  /\ f \in Frames /\ f.op = "call" /\ f.task = c
                      /\ g \in Frames /\ g.op = "each" /\ parent_[c] # NoTask
    OBVIOUS
  <2>1. c \in Tasks /\ todo \ {c} \in SUBSET Tasks  BY <1>3, <1>5
  <2>2. parent_[c] # NoTask  BY <1>3, <1>4, <1>5, ChildOf
  <2> QED  BY <1>3, <2>1, <2>2, FrameType
<1> HIDE DEF f, g
<1>7. (fs = <<>> /\ todo = {}) \/ (fs = <<f, g>> /\ todo # {})  OBVIOUS
<1> HIDE DEF fs
<1>8. /\ fs \in Seq(Frames)
      /\ \A k \in DOMAIN fs : ((k = 1 /\ fs[k] = f) \/ (k = 2 /\ fs[k] = g)) /\ todo # {}
  <2>1. CASE fs = <<>> /\ todo = {}
    <3>1. DOMAIN fs = {}  BY <2>1
    <3> QED  BY <2>1, <3>1
  <2>2. CASE fs = <<f, g>> /\ todo # {}
    <3>1. DOMAIN fs = {1, 2} /\ fs[1] = f /\ fs[2] = g /\ fs \in Seq(Frames)
      BY <1>6, <2>2, TwoFrames
    <3>2. todo # {}  BY <2>2
    <3>3. ASSUME NEW k \in DOMAIN fs
          PROVE  ((k = 1 /\ fs[k] = f) \/ (k = 2 /\ fs[k] = g)) /\ todo # {}
      <4>1. k = 1 \/ k = 2  BY <3>1
      <4> QED  BY <3>1, <3>2, <4>1
    <3>4. fs \in Seq(Frames)  BY <3>1
    <3> QED  BY <3>3, <3>4
  <2> QED  BY <1>7, <2>1, <2>2
<1>9. StepBy("each", fs)  BY <1>1, <1>2, <1>6, <1>8 DEF StepBy, Below1, TopOps
<1>10. PlainFrames("each", fs)  BY <1>6, <1>8 DEF PlainFrames
<1>11. OnTop'  BY <1>9, StepMoves
<1> SUFFICES ASSUME Kept(D) PROVE Kept(D)'
  BY <1>1, <1>2, <1>11, OnceThen DEF OnceKeeps
<1>12. DoneOnce(D)' /\ PartsWaitedFor(D)'
  BY <1>1, <1>2, <1>9, <1>10, PlainStep DEF Kept
<1>13. PICK called \in SUBSET D : Session(D, called)  BY DEF Kept, Sessions
<1>14. Session(D, called)'
  <2>1. \A k \in DOMAIN fs : /\ fs[k].op # "done" /\ fs[k].op # "if_empty"
                             /\ fs[k].op = "call" => parent_[fs[k].task] # NoTask
    BY <1>6, <1>8
  <2> QED  BY <1>1, <1>2, <1>9, <1>13, <2>1, SessionKept
<1>15. KeptWhileOpen(D)'  BY <1>1, <1>2, <1>9, OpenKept DEF Kept
<1> QED  BY <1>12, <1>14, <1>15 DEF Kept, Sessions

-----------------------------------------------------------------------------
(***************************************************************************)
(* done(): the emitting task or the parent is next, then the task stops    *)
(* waiting.                                                                *)
(***************************************************************************)
AfterDone(fs) ==
    /\ \A k \in DOMAIN fs :
         \/ k = 1 /\ fs[k].op = "done" /\ fs[k].task = Emitter[Task] /\ Emitter[Task] # NoTask
         \/ k = 1 /\ fs[k].op = "child_done" /\ fs[k].task = Task /\ parent_[Task] # NoTask
         \/ fs[k].op = "erase" /\ fs[k].task = Task
    /\ \E k \in DOMAIN fs : fs[k].op = "erase" /\ fs[k].task = Task
    /\ 1 \in DOMAIN fs
    /\ parent_[Task] # NoTask => fs[1].op = "child_done" /\ fs[1].task = Task

LEMMA DoneFrames ==
  ASSUME IInv, TriggerDone
  PROVE  \E fs \in Seq(Frames) : Goes(fs) /\ AfterDone(fs)
<1> DEFINE e == Emitter[Task]
           f == Frame("done", e, {})
           g == Frame("child_done", Task, {})
           h == Frame("erase", Task, {})
           fs == If(e # NoTask, f) \o If(parent_[Task] # NoTask, g) \o <<h>>
<1>1. TypeOK /\ Top("done") /\ Goes(fs) /\ Task \in Tasks
  BY TopFrame DEF IInv, TriggerDone
<1>2. e # NoTask => e \in Tasks /\ parent_[Task] = NoTask
  BY <1>1, TreeAssumption
<1>3. e # NoTask => f \in Frames /\ f.op = "done" /\ f.task = e
  BY <1>2, FrameType
<1>4. /\ g \in Frames /\ g.op = "child_done" /\ g.task = Task
      /\ h \in Frames /\ h.op = "erase" /\ h.task = Task
  BY <1>1, FrameType
<1> HIDE DEF f, g, h
<1>5. CASE e # NoTask
  <2>1. fs = <<f>> \o <<>> \o <<h>>  BY <1>2, <1>5 DEF If
  <2> HIDE DEF fs
  <2>2. fs = <<f, h>> /\ fs \in Seq(Frames)  BY <1>3, <1>4, <1>5, <2>1, TwoFrames
  <2>3. DOMAIN fs = {1, 2} /\ fs[1] = f /\ fs[2] = h  BY <2>2
  <2>4. AfterDone(fs)  BY <1>2, <1>3, <1>4, <1>5, <2>3 DEF AfterDone
  <2> QED  BY <1>1, <2>2, <2>4
<1>6. CASE e = NoTask /\ parent_[Task] # NoTask
  <2>1. fs = <<>> \o <<g>> \o <<h>>  BY <1>6 DEF If
  <2> HIDE DEF fs
  <2>2. fs = <<g, h>>  BY <1>4, <2>1, TwoFrames
  <2>5. fs \in Seq(Frames)  BY <1>4, <2>2
  <2>3. DOMAIN fs = {1, 2} /\ fs[1] = g /\ fs[2] = h  BY <2>2
  <2>4. AfterDone(fs)  BY <1>4, <1>6, <2>3 DEF AfterDone
  <2> QED  BY <1>1, <2>4, <2>5
<1>7. CASE e = NoTask /\ parent_[Task] = NoTask
  <2>1. fs = <<>> \o <<>> \o <<h>>  BY <1>7 DEF If
  <2> HIDE DEF fs
  <2>2. fs = <<h>> /\ fs \in Seq(Frames)  BY <1>4, <2>1
  <2>3. DOMAIN fs = {1} /\ fs[1] = h  BY <2>2
  <2>4. AfterDone(fs)  BY <1>4, <1>7, <2>3 DEF AfterDone
  <2> QED  BY <1>1, <2>2, <2>4
<1> QED  BY <1>5, <1>6, <1>7

LEMMA TriggerDoneOnce == ASSUME NEW D, OnceKeeps(D), TriggerDone PROVE OnceInv(D)'
<1>1. Whole(D) /\ IInv /\ IInv' /\ OnTop /\ TypeOK /\ TypeOK'
  BY TriggerDoneKeeps DEF OnceKeeps, OnceInv, IInv
<1>2. PICK fs \in Seq(Frames) : Goes(fs) /\ AfterDone(fs)  BY <1>1, DoneFrames
<1> DEFINE e == Emitter[Task]
<1>3. StepBy("done", fs)  BY <1>1, <1>2 DEF StepBy, Below1, TopOps, AfterDone, TriggerDone
<1>4. /\ OnTop' /\ StackMoves(fs) /\ Task \in Tasks /\ FrameOK(stack[1])
      /\ IsTop("done", Task) /\ stack[1].op = "done" /\ stack[1].task = Task
      /\ 1 \in DOMAIN stack
      /\ \A o, t : IsTop(o, t)' => fs[1].op = o /\ fs[1].task = t
  BY <1>2, <1>3, StepMoves DEF AfterDone
<1>5. /\ UNCHANGED <<emitted, queue_wait_, children_, requests, ncall, ntimeout, cancelled>>
      /\ ndone' = [ndone EXCEPT ![Task] = @ + 1]
  BY DEF TriggerDone, queues, cancels
<1> SUFFICES ASSUME D \cap cancelled' = {}, Kept(D) PROVE Kept(D)'
  BY <1>1, <1>4, <1>5, OnceThen DEF OnceKeeps
<1>6. /\ ncall[Task] > 0 /\ Finished(Task) /\ Root[Task] \in emitted
      /\ Task \in D => ndone[Task] = 0 /\ ndone'[Task] = 1
      /\ ndone'[Task] > 0
      /\ \A t \in Tasks : t # Task => ndone'[t] = ndone[t]
  BY <1>4, <1>5, <1>1 DEF FrameOK, Kept, DoneOnce, TypeOK
<1>7. ASSUME e # NoTask
      PROVE  /\ e \in Tasks /\ Kind[e] = "emitting" /\ Children(e) = {} /\ ncall[e] > 0
             /\ e \in D => e # Task /\ ndone[e] = 0
  <2>1. e \in Tasks /\ Kind[e] = "emitting" /\ parent_[Task] = NoTask /\ Root[Task] = Task
    BY <1>4, <1>7, TreeAssumption
  <2>2. Children(e) = {}
    <3> SUFFICES ASSUME NEW c \in Children(e) PROVE FALSE
      OBVIOUS
    <3>1. Kind[e] \in {"serial", "parallel"}  BY <2>1, ChildOf, TreeAssumption
    <3> QED  BY <2>1, <3>1
  <2>3. ASSUME e \in D PROVE e # Task /\ ndone[e] = 0
    <3>1. Task \in D  BY <1>1, <1>4, <2>3 DEF Whole
    <3>2. TreeOK(e) /\ ndone[e] \in Nat  BY <1>1, <2>1 DEF IInv, ChildrenOK, TypeOK
    <3>3. ndone[e] > 0 => ndone[Task] > 0  BY <1>4, <3>2 DEF TreeOK, Finished
    <3>4. ndone[e] = 0  BY <1>6, <3>1, <3>2, <3>3
    <3>5. e # Task  BY <1>6, <1>4, <3>1 DEF Finished
    <3> QED  BY <3>4, <3>5
  <2>4. ncall[e] > 0  BY <1>1, <1>4, <1>6, <1>7, <2>1 DEF IInv, ChildrenOK, TreeOK
  <2> QED  BY <2>1, <2>2, <2>3, <2>4
<1>8. \A t : IsTop("done", t)' => e # NoTask /\ t = e  BY <1>2, <1>4 DEF AfterDone
<1>9. \A t : IsTop("child_done", t)' => t = Task /\ parent_[Task] # NoTask
  BY <1>2, <1>4 DEF AfterDone
<1>10. \A t : ~IsTop("if_empty", t)'  BY <1>2, <1>4 DEF AfterDone
<1>11. \A t : ~IsTop("child_done", t)  BY <1>1, <1>4, TopIs
<1>12. PICK called \in SUBSET D : Session(D, called)  BY DEF Kept, Sessions
<1>13. Session(D, called)'
  <2>1. \A t \in called : ndone'[t] > 0 => ndone[t] > 0 \/ t \in Sudden
    BY <1>1, <1>4, <1>6, <1>12 DEF Session, Whole
  <2>2. \A k \in DOMAIN fs : fs[k].op = "done" => fs[k].task \notin called
    BY <1>2, <1>4, <1>6, <1>12 DEF AfterDone, Session, Begun
  <2>3. \A k \in DOMAIN fs : fs[k].op # "call" /\ fs[k].op # "if_empty"
    BY <1>2 DEF AfterDone
  <2> QED  BY <1>1, <1>3, <1>5, <1>12, <2>1, <2>2, <2>3, SessionKept
<1>14. DoneOnce(D)'
  <2>1. \A t \in D : ndone'[t] <= 1 /\ (ndone'[t] > 0 => ncall'[t] > 0)
    BY <1>1, <1>5, <1>6 DEF Kept, DoneOnce, Whole
  <2>2. \A t \in D : IsTop("done", t)' \/ IsTop("if_empty", t)' => ndone'[t] = 0
    BY <1>6, <1>7, <1>8, <1>10
  <2>3. ASSUME NEW t \in D, IsTop("child_done", t)', parent_[t] \in D
        PROVE  t \in children_'[parent_[t]]
    <3>1. t = Task /\ parent_[t] # NoTask  BY <1>9, <2>3
    <3>2. parent_[t] \in Tasks /\ Root[parent_[t]] = Root[t] /\ t \in Children(parent_[t])
      BY <1>4, <3>1, ParentIsTask
    <3>3. TreeOK(parent_[t]) /\ parent_[t] \notin cancelled
      BY <1>1, <1>5, <2>3, <3>2 DEF IInv, ChildrenOK
    <3> QED  BY <1>5, <1>6, <2>3, <3>1, <3>2, <3>3 DEF TreeOK
  <2>4. ASSUME NEW t \in D \cap requests' PROVE ndone'[t] = 0 /\ ~IsTop("done", t)'
    <3>1. t \in requests /\ t \in Tasks /\ Kind[t] = "leaf" /\ t # Task
      BY <1>1, <1>4, <1>5 DEF IInv, Waits, TypeOK, Kept, DoneOnce
    <3> QED  BY <1>6, <1>7, <1>8, <3>1 DEF Kept, DoneOnce
  <2>5. ASSUME NEW i \in DOMAIN stack', stack'[i].task \in D
        PROVE  /\ stack'[i].op = "if_empty" => Children(stack'[i].task) # {}
               /\ stack'[i].op = "erase" => ndone'[stack'[i].task] > 0
    <3>1. CASE i \in DOMAIN fs /\ stack'[i] = fs[i]  BY <1>2, <1>6, <3>1 DEF AfterDone
    <3>2. CASE \E j \in DOMAIN stack \ {1} : stack'[i] = stack[j]
      <4>1. PICK j \in DOMAIN stack \ {1} : stack'[i] = stack[j]  BY <3>2
      <4>2. stack[j].task \in Tasks  BY <1>1, FramesTyped
      <4> QED  BY <1>6, <2>5, <4>1, <4>2 DEF Kept, DoneOnce
    <3> QED  BY <1>4, <3>1, <3>2 DEF StackMoves
  <2> QED  BY <2>1, <2>2, <2>3, <2>4, <2>5 DEF DoneOnce, Children
<1>15. PartsWaitedFor(D)'
  <2> SUFFICES ASSUME NEW p \in D, NEW t \in children_[p]
      PROVE  /\ ndone'[t] > 0 => IsTop("child_done", t)'
             /\ ndone'[p] = 0 /\ ~IsTop("done", p)'
             /\ Kind[p] = "serial" =>
                  \A u \in Children(p) : Rank[t] < Rank[u] => u \in children_[p]
    BY <1>5 DEF PartsWaitedFor, Children
  <2>0. p \in Tasks  BY <1>1 DEF Whole
  <2>1. t \in Children(p) /\ t \in Tasks /\ parent_[t] = p /\ parent_[t] # NoTask
    BY <1>1, <2>0, ChildOf DEF IInv, ChildrenOK, TreeOK
  <2>2. ndone'[t] > 0 => IsTop("child_done", t)'
    <3>1. CASE t = Task
      <4>1. fs[1].op = "child_done" /\ fs[1].task = Task  BY <1>2, <2>1, <3>1 DEF AfterDone
      <4>2. 1 \in DOMAIN stack' /\ stack'[1] = fs[1]  BY <1>2, <1>4 DEF AfterDone, StackMoves
      <4>3. stack' \in Seq(Frames)  BY <1>1 DEF TypeOK
      <4>4. stack' # <<>> /\ Head(stack') = stack'[1]  BY <4>2, <4>3
      <4> QED  BY <3>1, <4>1, <4>2, <4>4 DEF IsTop, Top, Task
    <3>2. CASE t # Task  BY <1>6, <1>11, <2>1, <3>2 DEF Kept, PartsWaitedFor
    <3> QED  BY <3>1, <3>2
  <2>3. p # Task /\ ndone[p] = 0  BY <1>4 DEF Kept, PartsWaitedFor
  <2>4. ~IsTop("done", p)'  BY <1>7, <1>8, <2>1
  <2> QED  BY <1>6, <2>0, <2>2, <2>3, <2>4 DEF Kept, PartsWaitedFor
<1>16. KeptWhileOpen(D)'
  <2>1. ASSUME NEW t, t = Task PROVE OnStack("erase", t)'
    <3>1. PICK k \in DOMAIN fs : fs[k].op = "erase" /\ fs[k].task = Task
      BY <1>2 DEF AfterDone
    <3>2. k \in DOMAIN stack' /\ stack'[k] = fs[k]  BY <1>4 DEF StackMoves
    <3> QED  BY <2>1, <3>1, <3>2 DEF OnStack
  <2>2. \A t \in D \cap queue_wait_' : ndone'[t] > 0 =>
             (t \in queue_wait_ /\ ndone[t] > 0) \/ OnStack("erase", t)'
    <3> SUFFICES ASSUME NEW t \in D, t \in queue_wait_, ndone'[t] > 0
                 PROVE  ndone[t] > 0 \/ OnStack("erase", t)'
      BY <1>5
    <3>1. CASE t = Task  BY <2>1, <3>1
    <3>2. CASE t # Task  BY <1>1, <1>6, <3>2 DEF TypeOK
    <3> QED  BY <3>1, <3>2
  <2>3. \A t \in D : ncall'[t] > 0 /\ ndone'[t] = 0 => ncall[t] > 0 /\ ndone[t] = 0
    BY <1>1, <1>5, <1>6 DEF Whole
  <2> QED  BY <1>1, <1>3, <1>5, <2>2, <2>3, OpenKept DEF Kept
<1> QED  BY <1>12, <1>13, <1>14, <1>15, <1>16 DEF Kept, Sessions

(***************************************************************************)
(* child_done(): whatever the parent's kind, it strikes the child off.  A  *)
(* series that still waits for others calls the first of them.             *)
(***************************************************************************)
AfterChildDone(fs, p) ==
    /\ children_' = [children_ EXCEPT ![p] = children_[p] \ {Task}]
    /\ 1 \in DOMAIN fs
    /\ \A k \in DOMAIN fs :
         \/ fs[k].op = "if_empty" /\ fs[k].task = p /\ (k # 1 => fs[1].op = "call")
         \/ /\ k = 1 /\ fs[k].op = "call" /\ fs[k].task \in children_[p] \ {Task}
            /\ Kind[p] = "serial" /\ Task \in children_[p]

LEMMA FirstInOrder ==
  ASSUME IInv, NEW t \in Tasks, ncall[t] > 0, parent_[t] # NoTask,
         Kind[parent_[t]] = "serial", t \in children_[parent_[t]]
  PROVE  /\ First(children_[parent_[t]]) = t
         /\ \A v \in children_[parent_[t]] : Rank[t] <= Rank[v]
<1> DEFINE S == children_[parent_[t]]
           u == First(S)
<1>1. parent_[t] \in Tasks /\ S \subseteq Tasks  BY ParentIsTask DEF IInv, TypeOK
<1>2. \A v \in S : Rank[t] <= Rank[v]  BY DEF IInv, Begins, Begun, InOrder
<1>3. u \in S /\ Rank[u] <= Rank[t]  BY <1>1, FirstIsLeast
<1> HIDE DEF u
<1>4. Rank[u] \in Nat /\ Rank[t] \in Nat /\ Rank[t] <= Rank[u] /\ u \in Tasks
  BY <1>1, <1>2, <1>3, TreeAssumption
<1>5. Rank[u] = Rank[t]  BY <1>3, <1>4
<1>6. u = t  BY <1>4, <1>5, TreeAssumption
<1> QED  BY <1>2, <1>6 DEF u

LEMMA ChildDoneFrames ==
  ASSUME IInv, ChildDone
  PROVE  \E fs \in Seq(Frames) : Goes(fs) /\ AfterChildDone(fs, parent_[Task])
<1> DEFINE p == parent_[Task]
           strike == IF Kind[p] = "parallel" THEN TRUE
                     ELSE children_[p] # {} /\ First(children_[p]) = Task
           left == IF strike THEN children_[p] \ {Task} ELSE children_[p]
           c == First(left)
           goes == Kind[p] = "serial" /\ strike /\ left # {}
           f == Frame("call", c, {})
           g == Frame("if_empty", p, {})
           fs == If(goes, f) \o <<g>>
<1>1. TypeOK /\ Top("child_done") /\ Goes(fs) /\ children_' = [children_ EXCEPT ![p] = left]
  BY DEF IInv, ChildDone
<1>2. Task \in Tasks /\ 1 \in DOMAIN stack /\ stack[1].op = "child_done" /\ stack[1].task = Task
  BY <1>1, TopFrame
<1>3. ncall[Task] > 0 /\ p # NoTask  BY <1>2 DEF IInv, FramesOK, FrameOK
<1>4. p \in Tasks /\ Kind[p] \in {"serial", "parallel"} /\ children_[p] \subseteq Tasks
  BY <1>1, <1>2, <1>3, ParentIsTask, TreeAssumption DEF TypeOK
<1>5. Kind[p] = "serial" /\ Task \in children_[p] => First(children_[p]) = Task
  BY <1>2, <1>3, FirstInOrder
<1>6. left = children_[p] \ {Task}
  <2>1. CASE Task \notin children_[p]  BY <2>1
  <2>2. CASE Task \in children_[p]  BY <1>4, <1>5, <2>2
  <2> QED  BY <2>1, <2>2
<1>7. goes => Kind[p] = "serial" /\ Task \in children_[p] /\ left # {}
  <2> SUFFICES ASSUME goes PROVE Task \in children_[p]
    OBVIOUS
  <2>1. children_[p] # {} /\ First(children_[p]) = Task  OBVIOUS
  <2> QED  BY <1>4, <2>1, FirstIsLeast
<1>8. goes => c \in left /\ c \in Tasks
  <2>1. left \subseteq Tasks  BY <1>4, <1>6
  <2> HIDE DEF left
  <2> QED  BY <1>7, <2>1, FirstIsLeast
<1>9. g \in Frames /\ g.op = "if_empty" /\ g.task = p  BY <1>4, FrameType
<1>10. goes => f \in Frames /\ f.op = "call" /\ f.task = c  BY <1>8, FrameType
<1> HIDE DEF strike, left, c, goes, f, g
<1>11. CASE goes
  <2>1. fs = <<f>> \o <<g>>  BY <1>11 DEF If
  <2> HIDE DEF fs
  <2>2. fs = <<f, g>>  BY <1>9, <1>10, <1>11, <2>1, TwoFrames
  <2>3. fs \in Seq(Frames)  BY <1>9, <1>10, <1>11, <2>2
  <2>4. DOMAIN fs = {1, 2} /\ fs[1] = f /\ fs[2] = g  BY <2>2
  <2>5. AfterChildDone(fs, p)
    <3>1. \A k \in DOMAIN fs : k = 1 \/ k = 2  BY <2>4
    <3>2. 1 \in DOMAIN fs  BY <2>4
    <3>3. children_' = [children_ EXCEPT ![p] = children_[p] \ {Task}]  BY <1>1, <1>6
    <3>4. f.op = "call" /\ f.task \in children_[p] \ {Task} /\ Kind[p] = "serial"
          /\ Task \in children_[p]
      BY <1>6, <1>7, <1>8, <1>10, <1>11
    <3> QED  BY <1>9, <2>4, <3>1, <3>2, <3>3, <3>4 DEF AfterChildDone
  <2> QED  BY <1>1, <2>3, <2>5
<1>12. CASE ~goes
  <2>1. fs = <<>> \o <<g>>  BY <1>12 DEF If
  <2> HIDE DEF fs
  <2>2. fs = <<g>> /\ fs \in Seq(Frames)  BY <1>9, <2>1
  <2>3. DOMAIN fs = {1} /\ fs[1] = g  BY <2>2
  <2>4. AfterChildDone(fs, p)
    <3>1. children_' = [children_ EXCEPT ![p] = children_[p] \ {Task}]  BY <1>1, <1>6
    <3> QED  BY <1>9, <2>3, <3>1 DEF AfterChildDone
  <2> QED  BY <1>1, <2>2, <2>4
<1> QED  BY <1>11, <1>12

LEMMA ChildDoneOnce == ASSUME NEW D, OnceKeeps(D), ChildDone PROVE OnceInv(D)'
<1> DEFINE p == parent_[Task]
<1>1. Whole(D) /\ IInv /\ IInv' /\ OnTop /\ TypeOK
  BY ChildDoneKeeps DEF OnceKeeps, OnceInv, IInv
<1>2. PICK fs \in Seq(Frames) : Goes(fs) /\ AfterChildDone(fs, p)  BY <1>1, ChildDoneFrames
<1>3. StepBy("child_done", fs)
  BY <1>1, <1>2 DEF StepBy, Below1, TopOps, AfterChildDone, ChildDone
<1>4. /\ OnTop' /\ StackMoves(fs) /\ Task \in Tasks /\ FrameOK(stack[1])
      /\ IsTop("child_done", Task) /\ stack[1].op = "child_done"
      /\ stack[1].task = Task /\ 1 \in DOMAIN stack
      /\ \A o, t : IsTop(o, t)' => fs[1].op = o /\ fs[1].task = t
  BY <1>2, <1>3, StepMoves DEF AfterChildDone
<1>5. UNCHANGED <<emitted, queue_wait_, requests, ncall, ndone, ntimeout, cancelled>>
  BY DEF ChildDone, queues, counts, cancels
<1> SUFFICES ASSUME Kept(D) PROVE Kept(D)'
  BY <1>1, <1>4, <1>5, OnceThen DEF OnceKeeps
<1>6. ncall[Task] > 0 /\ ndone[Task] > 0 /\ p # NoTask  BY <1>4 DEF FrameOK
<1>7. /\ p \in Tasks /\ Task \in Children(p) /\ Kind[p] \in {"serial", "parallel"}
      /\ TreeOK(p)
  BY <1>1, <1>4, <1>6, ParentIsTask, TreeAssumption DEF IInv, ChildrenOK
<1>8. /\ children_'[p] = children_[p] \ {Task}
      /\ \A q \in Tasks : q # p => children_'[q] = children_[q]
  BY <1>1, <1>2, <1>7 DEF AfterChildDone, TypeOK
<1>9. ASSUME p \in D PROVE Task \in D /\ Task \in children_[p] /\ ndone[p] = 0
  <2>1. Task \in D  BY <1>1, <1>4, <1>9 DEF Whole
  <2>2. Task \in children_[p]  BY <1>4, <1>9, <2>1 DEF Kept, DoneOnce
  <2> QED  BY <1>9, <2>1, <2>2 DEF Kept, PartsWaitedFor
<1>10. \A t : ~IsTop("done", t)' /\ ~IsTop("child_done", t)' /\ (IsTop("if_empty", t)' => t = p)
  BY <1>2, <1>4 DEF AfterChildDone
<1>11. \A t : IsTop("child_done", t) => t = Task  BY DEF IsTop
<1>12. Kind[p] = "serial" /\ Task \in children_[p] =>
          \A v \in children_[p] : Rank[Task] <= Rank[v]
  BY <1>1, <1>4, <1>6, FirstInOrder
<1>13. PICK called \in SUBSET D : Session(D, called)  BY DEF Kept, Sessions
<1>14. Session(D, called)'
  <2>1. ASSUME NEW k \in DOMAIN fs
        PROVE  fs[k].op # "done" /\ (fs[k].op = "call" => parent_[fs[k].task] # NoTask)
    <3>1. children_[p] \subseteq Children(p)  BY <1>7 DEF TreeOK
    <3> QED  BY <1>2, <1>6, <3>1 DEF AfterChildDone, Children
  <2>2. ASSUME NEW k \in DOMAIN fs, fs[k].op = "if_empty", fs[k].task \in D, k > 1
        PROVE  \E d \in children_'[fs[k].task] \ Sudden : ncall[d] > 0 => d \in called
    <3>1. fs[k].task = p /\ fs[1].op = "call" /\ p \in D  BY <1>2, <2>2 DEF AfterChildDone
    <3>2. /\ Kind[p] = "serial" /\ Task \in children_[p]
          /\ fs[1].task \in children_[p] \ {Task}
      BY <1>2, <3>1 DEF AfterChildDone
    <3> DEFINE c == fs[1].task
    <3>3. c \in Children(p) /\ c \in Tasks /\ c # Task  BY <1>7, <3>2 DEF TreeOK, Children
    <3>4. Rank[Task] < Rank[c]
      <4>1. /\ Rank[Task] <= Rank[c] /\ Rank[Task] # Rank[c]
            /\ Rank[Task] \in Nat /\ Rank[c] \in Nat
        BY <1>4, <1>12, <3>2, <3>3, TreeAssumption
      <4> QED  BY <4>1
    <3>5. PICK d \in Children(p) \ Sudden : Rank[Task] < Rank[d]
      BY <1>1, <1>7, <3>1, <3>2, <3>3, <3>4 DEF Whole, SteadySeries
    <3>6. d \in Tasks /\ parent_[d] = p /\ Rank[d] \in Nat /\ Rank[Task] \in Nat
      BY <1>4, <3>5, TreeAssumption DEF Children
    <3>7. d \in children_[p] /\ d # Task
      BY <3>1, <3>2, <3>5, <3>6 DEF Kept, PartsWaitedFor
    <3>8. ~(ncall[d] > 0)
      <4> SUFFICES ASSUME ncall[d] > 0 PROVE FALSE
        OBVIOUS
      <4>1. Rank[d] <= Rank[Task]  BY <1>1, <1>6, <3>2, <3>6, <3>7, FirstInOrder
      <4> QED  BY <3>5, <3>6, <4>1
    <3> QED  BY <1>8, <3>1, <3>5, <3>7, <3>8
  <2>3. ASSUME NEW q \in D, NEW d \in children_[q] \ Sudden, ncall[d] > 0 => d \in called
        PROVE  d \in children_'[q]
    <3>1. d # Task  BY <1>6, <1>13, <2>3 DEF Session
    <3> QED  BY <1>1, <1>8, <3>1 DEF Whole
  <2>4. \A t \in called : ndone'[t] > 0 => ndone[t] > 0 \/ t \in Sudden  BY <1>5
  <2>5. \A k \in DOMAIN fs : fs[k].op = "if_empty" /\ fs[k].task \in D /\ k > 1 =>
             \E d \in children_'[fs[k].task] \ Sudden : ncall[d] > 0 => d \in called
    BY <2>2
  <2>6. \A q \in D : \A d \in children_[q] \ Sudden :
             (ncall[d] > 0 => d \in called) => d \in children_'[q]
    BY <2>3
  <2> HIDE DEF p
  <2> QED  BY <1>1, <1>3, <1>5, <1>13, <2>1, <2>4, <2>5, <2>6, SessionKept
<1>15. DoneOnce(D)'
  <2>1. ASSUME NEW i \in DOMAIN stack', stack'[i].task \in D
        PROVE  /\ stack'[i].op = "if_empty" => Children(stack'[i].task) # {}
               /\ stack'[i].op = "erase" => ndone'[stack'[i].task] > 0
    <3>1. CASE i \in DOMAIN fs /\ stack'[i] = fs[i]  BY <1>2, <1>7, <3>1 DEF AfterChildDone
    <3>2. CASE \E j \in DOMAIN stack \ {1} : stack'[i] = stack[j]
      BY <1>5, <2>1, <3>2 DEF Kept, DoneOnce
    <3> QED  BY <1>4, <3>1, <3>2 DEF StackMoves
  <2> QED  BY <1>5, <1>9, <1>10, <2>1 DEF Kept, DoneOnce, Children
<1>16. PartsWaitedFor(D)'
  <2> SUFFICES ASSUME NEW q \in D, NEW t \in children_'[q]
      PROVE  /\ ~(ndone[t] > 0) /\ ndone[q] = 0
             /\ Kind[q] = "serial" =>
                  \A u \in Children(q) : Rank[t] < Rank[u] => u \in children_'[q]
    BY <1>5, <1>10 DEF PartsWaitedFor, Children
  <2>0. q \in Tasks  BY <1>1 DEF Whole
  <2>1. t \in children_[q] /\ (q = p => t # Task)  BY <1>8, <2>0
  <2>2. t \in Children(q) /\ t \in Tasks /\ parent_[t] = q
    BY <1>1, <2>0, <2>1, ChildOf DEF IInv, ChildrenOK, TreeOK
  <2>3. ~(ndone[t] > 0)  BY <1>11, <2>1, <2>2 DEF Kept, PartsWaitedFor
  <2>4. ASSUME Kind[q] = "serial", NEW u \in Children(q), Rank[t] < Rank[u]
        PROVE  u \in children_'[q]
    <3>1. u \in children_[q]  BY <2>1, <2>4 DEF Kept, PartsWaitedFor
    <3>2. u \in Tasks /\ Rank[u] \in Nat /\ Rank[t] \in Nat
      BY <2>0, <2>2, ChildOf, TreeAssumption
    <3>3. q = p => u # Task
      <4> SUFFICES ASSUME q = p, u = Task PROVE FALSE
        OBVIOUS
      <4>1. Rank[u] <= Rank[t]  BY <1>9, <1>12, <2>1, <2>4
      <4> QED  BY <2>4, <3>2, <4>1
    <3> QED  BY <1>8, <2>0, <3>1, <3>3
  <2> QED  BY <2>1, <2>3, <2>4 DEF Kept, PartsWaitedFor
<1>17. KeptWhileOpen(D)'  BY <1>1, <1>3, <1>5, OpenKept DEF Kept
<1> QED  BY <1>13, <1>14, <1>15, <1>16, <1>17 DEF Kept, Sessions

(***************************************************************************)
(* A tree that is emitted waits for all its parts; nothing of it was       *)
(* called before.                                                          *)
(***************************************************************************)
NewTrees(D) ==
    \A q \in D : \/ children_'[q] = children_[q]
                 \/ Root[q] \notin emitted /\ children_'[q] = Children(q)

LEMMA EmitsNewTree ==
  ASSUME TypeOK, NEW D \in SUBSET Tasks, NEW r \in Tasks \ emitted, on_emit(r)
  PROVE  NewTrees(D)
BY DEF on_emit, NewTrees, TypeOK

LEMMA FreshTree ==
  ASSUME IInv, NEW D, Whole(D), DoneOnce(D), NEW q \in D, Root[q] \notin emitted
  PROVE  /\ ndone[q] = 0 /\ \A op : ~IsTop(op, q)
         /\ \A c \in Children(q) : ndone[c] = 0
<1>1. ASSUME NEW t \in D, Root[t] \notin emitted PROVE ndone[t] = 0
  <2>1. t \in Tasks  BY DEF Whole
  <2>2. ~(ncall[t] > 0)  BY <1>1, <2>1 DEF IInv, Begins, Begun, InOrder
  <2>3. ndone[t] \in Nat /\ ~(ndone[t] > 0)  BY <2>1, <2>2 DEF DoneOnce, IInv, TypeOK
  <2> QED  BY <2>3
<1>2. ASSUME NEW op, IsTop(op, q) PROVE FALSE
  <2>1. 1 \in DOMAIN stack /\ stack[1].task = q  BY <1>2, TopIs DEF IInv
  <2>2. Root[q] \in emitted  BY <2>1 DEF IInv, FramesOK, FrameOK
  <2> QED  BY <2>2
<1>3. \A c \in Children(q) : c \in D /\ Root[c] \notin emitted  BY ChildOf DEF Whole
<1> QED  BY <1>1, <1>2, <1>3

LEMMA NewTreesWait ==
  ASSUME IInv, NEW D, Whole(D), DoneOnce(D), PartsWaitedFor(D), NewTrees(D),
         \A t \in Tasks : ~IsTop("child_done", t),
         NEW q \in D, NEW t \in children_'[q]
  PROVE  /\ t \in Tasks /\ parent_[t] = q /\ ndone[t] = 0 /\ ndone[q] = 0
         /\ Kind[q] = "serial" =>
              \A u \in Children(q) : Rank[t] < Rank[u] => u \in children_'[q]
<1>0. q \in Tasks  BY DEF Whole
<1>1. CASE children_'[q] = children_[q]
  <2>1. t \in Children(q) /\ t \in Tasks /\ parent_[t] = q /\ ndone[t] \in Nat
    BY <1>0, <1>1, ChildOf DEF IInv, ChildrenOK, TreeOK, TypeOK
  <2>2. ~(ndone[t] > 0)  BY <1>1, <2>1 DEF PartsWaitedFor
  <2> QED  BY <1>1, <2>1, <2>2 DEF PartsWaitedFor
<1>2. CASE Root[q] \notin emitted /\ children_'[q] = Children(q)
  BY <1>0, <1>2, FreshTree, ChildOf
<1> QED  BY <1>1, <1>2 DEF NewTrees

(***************************************************************************)
(* call(): what it calls, or completes, is new.                            *)
(***************************************************************************)
AfterCall(fs) ==
    \A k \in DOMAIN fs :
        /\ k = 1
        /\ \/ fs[k].op = "done" /\ fs[k].task = Task /\ Kind[Task] = "instant"
           \/ fs[k].op \in {"first", "each"}

LEMMA CallFrames ==
  ASSUME IInv, TriggerCall
  PROVE  /\ \E fs \in Seq(Frames) : Goes(fs) /\ AfterCall(fs)
         /\ \A D \in SUBSET Tasks : NewTrees(D)
         /\ requests' \subseteq requests \cup {t \in {Task} : Kind[t] = "leaf"}
<1>1. TypeOK /\ Task \in Tasks /\ ncall[Task] = 0  BY CalledTask
<1>2. Kind[Task] \in Kinds  BY <1>1, TreeAssumption
<1>3. <<>> \in Seq(Frames) /\ AfterCall(<<>>)  BY DEF AfterCall
<1>4. ASSUME NEW f \in Frames,
             \/ f.op = "done" /\ f.task = Task /\ Kind[Task] = "instant"
             \/ f.op \in {"first", "each"}
      PROVE  <<f>> \in Seq(Frames) /\ AfterCall(<<f>>)
  <2> DEFINE fs == <<f>>
  <2>1. fs \in Seq(Frames) /\ DOMAIN fs = {1} /\ fs[1] = f  OBVIOUS
  <2> HIDE DEF fs
  <2>2. AfterCall(fs)  BY <1>4, <2>1 DEF AfterCall
  <2> QED  BY <2>1, <2>2 DEF fs
<1>5. CASE Kind[Task] = "leaf"
  <2>1. Goes(<<>>) /\ children_' = children_ /\ requests' = requests \cup {Task}
    BY <1>5 DEF TriggerCall
  <2> QED  BY <1>3, <1>5, <2>1 DEF NewTrees
<1>6. CASE Kind[Task] = "instant"
  <2> DEFINE f == Frame("done", Task, {})
  <2>1. Goes(<<f>>) /\ children_' = children_ /\ requests' = requests
    BY <1>6 DEF TriggerCall
  <2>2. f \in Frames /\ f.op = "done" /\ f.task = Task  BY <1>1, FrameType
  <2> HIDE DEF f
  <2>3. <<f>> \in Seq(Frames) /\ AfterCall(<<f>>)  BY <1>4, <1>6, <2>2
  <2> QED  BY <2>1, <2>3 DEF NewTrees
<1>7. CASE Kind[Task] = "serial"
  <2> DEFINE f == Frame("first", Task, {})
  <2>1. Goes(<<f>>) /\ children_' = children_ /\ requests' = requests
    BY <1>7 DEF TriggerCall
  <2>2. f \in Frames /\ f.op = "first"  BY <1>1, FrameType
  <2> HIDE DEF f
  <2>3. <<f>> \in Seq(Frames) /\ AfterCall(<<f>>)  BY <1>4, <2>2
  <2> QED  BY <2>1, <2>3 DEF NewTrees
<1>8. CASE Kind[Task] = "parallel"
  <2> DEFINE f == Frame("each", Task, Children(Task))
  <2>1. Goes(<<f>>) /\ children_' = children_ /\ requests' = requests
    BY <1>8 DEF TriggerCall
  <2>2. Children(Task) \in SUBSET Tasks  BY DEF Children
  <2>3. f \in Frames /\ f.op = "each"  BY <1>1, <2>2, FrameType
  <2> HIDE DEF f
  <2>4. <<f>> \in Seq(Frames) /\ AfterCall(<<f>>)  BY <1>4, <2>3
  <2> QED  BY <2>1, <2>4 DEF NewTrees
<1>9. CASE Kind[Task] = "emitting"
  <2>1. Goes(<<>>) /\ requests' = requests  BY <1>9 DEF TriggerCall
  <2>2. PICK r \in Tasks : Emitter[r] = Task /\ emit(r)  BY <1>9 DEF TriggerCall
  <2>3. Emitter[r] # NoTask  BY <1>1, <2>2, TreeAssumption
  <2>4. r \notin emitted  BY <1>1, <2>2, <2>3 DEF IInv, ChildrenOK, TreeOK
  <2>5. \A D \in SUBSET Tasks : NewTrees(D)  BY <1>1, <2>2, <2>4, EmitsNewTree DEF emit
  <2> QED  BY <1>3, <2>1, <2>5
<1> QED  BY <1>2, <1>5, <1>6, <1>7, <1>8, <1>9 DEF Kinds

LEMMA TriggerCallOnce == ASSUME NEW D, OnceKeeps(D), TriggerCall PROVE OnceInv(D)'
<1>1. Whole(D) /\ IInv /\ IInv' /\ OnTop /\ TypeOK
  BY TriggerCallKeeps DEF OnceKeeps, OnceInv, IInv
<1>2. PICK fs \in Seq(Frames) : Goes(fs) /\ AfterCall(fs)  BY <1>1, CallFrames
<1>3. NewTrees(D) /\ requests' \subseteq requests \cup {t \in {Task} : Kind[t] = "leaf"}
  BY <1>1, CallFrames DEF Whole
<1>4. StepBy("call", fs)  BY <1>1, <1>2 DEF StepBy, Below1, AfterCall, TriggerCall
<1>5. /\ OnTop' /\ StackMoves(fs) /\ Task \in Tasks
      /\ IsTop("call", Task) /\ stack[1].op = "call" /\ stack[1].task = Task
      /\ 1 \in DOMAIN stack
      /\ \A o, t : IsTop(o, t)' =>
              \/ 1 \in DOMAIN fs /\ fs[1].op = o /\ fs[1].task = t
              \/ /\ o \notin TopOps
                 /\ 2 \in DOMAIN stack /\ stack[2].op = o /\ stack[2].task = t
  BY <1>2, <1>4, StepMoves
<1>6. /\ UNCHANGED <<ndone, ntimeout, cancelled>> /\ queue_wait_' = queue_wait_ \cup {Task}
      /\ ncall' = [ncall EXCEPT ![Task] = @ + 1]
  BY DEF TriggerCall, cancels
<1> SUFFICES ASSUME Kept(D) PROVE Kept(D)'
  BY <1>1, <1>5, <1>6, OnceThen DEF OnceKeeps
<1>7. /\ ncall[Task] = 0 /\ ncall'[Task] = 1 /\ Begun(Task) /\ Root[Task] \in emitted
      /\ \A c \in Children(Task) : c \in Tasks /\ parent_[c] # NoTask /\ ncall'[c] = 0
  BY <1>1, CalledTask
<1>8. \A t \in Tasks : t # Task => ncall'[t] = ncall[t]  BY <1>1, <1>6 DEF TypeOK
<1>9. Task \in D => ndone[Task] = 0
  <2>1. Task \in D => ndone[Task] \in Nat /\ ~(ndone[Task] > 0)
    BY <1>1, <1>5, <1>7 DEF Kept, DoneOnce, TypeOK
  <2> QED  BY <2>1
<1>10. \A t : IsTop("done", t)' => t = Task /\ Kind[t] = "instant"
  BY <1>2, <1>5 DEF AfterCall, TopOps
<1>11. \A t : ~IsTop("child_done", t)'  BY <1>2, <1>5 DEF AfterCall, TopOps
<1>12. ASSUME NEW t \in D, IsTop("if_empty", t)' PROVE ndone[t] = 0
  <2>1. 2 \in DOMAIN stack /\ stack[2].op = "if_empty" /\ stack[2].task = t
    BY <1>2, <1>5, <1>12 DEF AfterCall
  <2> QED  BY <1>1, <2>1, Surfaced DEF Kept
<1>13. \A t : ~IsTop("child_done", t)  BY <1>1, <1>5, TopIs
<1>14. PICK called \in SUBSET D : Session(D, called)  BY DEF Kept, Sessions
<1>15. PICK all \in SUBSET D : all = called \cup (D \cap {Task})  OBVIOUS
<1>16. Session(D, all)'
  <2>1. ASSUME NEW r \in Tasks, ~Begun(r), parent_[r] = NoTask PROVE ~Begun(r)'
    <3>1. ~(ncall'[r] > 0)  BY <1>7, <1>8, <2>1 DEF Begun
    <3>2. ASSUME NEW i \in DOMAIN stack', stack'[i].op = "call", stack'[i].task = r PROVE FALSE
      <4>1. CASE i \in DOMAIN fs /\ stack'[i] = fs[i]
        BY <1>2, <3>2, <4>1 DEF AfterCall
      <4>2. CASE \E j \in DOMAIN stack \ {1} : stack'[i] = stack[j]
        BY <2>1, <3>2, <4>2 DEF Begun, OnStack
      <4> QED  BY <1>5, <4>1, <4>2 DEF StackMoves
    <3> QED  BY <3>1, <3>2 DEF Begun, OnStack
  <2>2. ASSUME NEW r \in Tasks, Emitter[r] \in Tasks
        PROVE  parent_[r] = NoTask /\ (Emitter[r] = Task => ~Begun(r))
    <3>1. parent_[r] = NoTask /\ Emitter[r] # NoTask /\ Root[r] = r  BY <2>2, TreeAssumption
    <3>2. ASSUME Emitter[r] = Task PROVE ~Begun(r)
      <4>1. r \notin emitted  BY <1>1, <1>7, <3>1, <3>2 DEF IInv, ChildrenOK, TreeOK
      <4> QED  BY <1>1, <3>1, <4>1 DEF IInv, Begins, InOrder
    <3> QED  BY <3>1, <3>2
  <2>3. \A t \in all : t \in D /\ t \in Tasks /\ (t = Task \/ (t \in called /\ t # Task))
    BY <1>1, <1>15 DEF Whole
  <2>4. called \subseteq all /\ (Task \in D => Task \in all)  BY <1>15
  <2>5. ASSUME NEW t \in all
        PROVE  /\ ncall'[t] > 0
               /\ ndone'[t] > 0 \/ IsTop("done", t)' => t \in Sudden
               /\ \A c \in Children(t) : ncall'[c] > 0 => c \in all
    <3>1. CASE t = Task
      BY <1>5, <1>6, <1>7, <1>9, <1>10, <2>3, <3>1, SuddenTask
    <3>2. CASE t \in called /\ t # Task
      <4>1. /\ ncall[t] > 0 /\ (ndone[t] > 0 => t \in Sudden)
            /\ \A c \in Children(t) : ncall[c] > 0 => c \in called
        BY <1>14, <3>2 DEF Session
      <4>2. \A c \in Children(t) : c \in Tasks /\ c \in D  BY <1>1, <2>3, ChildOf DEF Whole
      <4>3. \A c \in Children(t) : ncall'[c] > 0 => c \in all  BY <1>8, <2>4, <4>1, <4>2
      <4> QED  BY <1>6, <1>8, <1>10, <2>3, <3>2, <4>1, <4>3
    <3> QED  BY <2>3, <3>1, <3>2
  <2>6. ASSUME NEW t \in all, NEW r \in Tasks, Emitter[r] = t PROVE ~Begun(r)'
    <3>1. t \in Tasks  BY <2>3
    <3>2. ~Begun(r)  BY <1>14, <2>2, <2>3, <2>6, <3>1 DEF Session
    <3> QED  BY <2>1, <2>2, <2>6, <3>1, <3>2
  <2>7. ASSUME NEW i \in DOMAIN stack', stack'[i].op = "if_empty", stack'[i].task \in D, i > 1
        PROVE  \E c \in children_'[stack'[i].task] \ Sudden : ncall'[c] > 0 => c \in all
    <3>1. CASE i \in DOMAIN fs /\ stack'[i] = fs[i]  BY <1>2, <2>7, <3>1 DEF AfterCall
    <3>2. CASE \E j \in DOMAIN stack \ {1} : stack'[i] = stack[j]
      <4>1. PICK j \in DOMAIN stack \ {1} : stack'[i] = stack[j]  BY <3>2
      <4> DEFINE p == stack[j].task
      <4>2. p \in Tasks /\ p \in D /\ j > 1 /\ FrameOK(stack[j])
        BY <1>1, <2>7, <4>1, FramesTyped DEF IInv, FramesOK
      <4>3. PICK c \in children_[p] \ Sudden : ncall[c] > 0 => c \in called
        BY <1>14, <2>7, <4>1, <4>2 DEF Session
      <4>4. children_'[p] = children_[p]  BY <1>3, <4>2 DEF NewTrees, FrameOK
      <4>5. c \in Tasks /\ c \in D
        BY <1>1, <4>2, <4>3, ChildOf DEF IInv, ChildrenOK, TreeOK, Whole
      <4>6. ncall'[c] > 0 => c \in all  BY <1>8, <2>4, <4>3, <4>5
      <4> QED  BY <4>1, <4>3, <4>4, <4>6
    <3> QED  BY <1>5, <3>1, <3>2 DEF StackMoves
  <2> QED  BY <2>5, <2>6, <2>7 DEF Session, Children
<1>17. DoneOnce(D)'
  <2>1. \A t \in D : ndone'[t] <= 1 /\ (ndone'[t] > 0 => ncall'[t] > 0)
    BY <1>1, <1>6, <1>7, <1>8 DEF Kept, DoneOnce, Whole
  <2>2. \A t \in D : IsTop("done", t)' \/ IsTop("if_empty", t)' => ndone'[t] = 0
    BY <1>6, <1>9, <1>10, <1>12
  <2>3. ASSUME NEW t \in D \cap requests' PROVE ndone'[t] = 0 /\ ~IsTop("done", t)'
    <3>1. t \in requests => t \in Tasks /\ Kind[t] = "leaf"
      BY <1>1 DEF IInv, Waits, TypeOK
    <3>2. t \in requests \/ (t = Task /\ Kind[t] = "leaf")  BY <1>3, <2>3
    <3> QED  BY <1>6, <1>9, <1>10, <3>1, <3>2 DEF Kept, DoneOnce
  <2>4. ASSUME NEW i \in DOMAIN stack', stack'[i].task \in D
        PROVE  /\ stack'[i].op = "if_empty" => Children(stack'[i].task) # {}
               /\ stack'[i].op = "erase" => ndone'[stack'[i].task] > 0
    <3>1. CASE i \in DOMAIN fs /\ stack'[i] = fs[i]  BY <1>2, <3>1 DEF AfterCall
    <3>2. CASE \E j \in DOMAIN stack \ {1} : stack'[i] = stack[j]
      BY <1>6, <2>4, <3>2 DEF Kept, DoneOnce
    <3> QED  BY <1>5, <3>1, <3>2 DEF StackMoves
  <2> QED  BY <1>11, <2>1, <2>2, <2>3, <2>4 DEF DoneOnce, Children
<1>18. PartsWaitedFor(D)'
  <2> SUFFICES ASSUME NEW q \in D, NEW t \in children_'[q]
      PROVE  /\ ndone[t] = 0 /\ ndone[q] = 0 /\ ~IsTop("done", q)'
             /\ Kind[q] = "serial" =>
                  \A u \in Children(q) : Rank[t] < Rank[u] => u \in children_'[q]
    BY <1>6 DEF PartsWaitedFor, Children
  <2>1. /\ t \in Tasks /\ parent_[t] = q /\ ndone[t] = 0 /\ ndone[q] = 0
        /\ Kind[q] = "serial" =>
             \A u \in Children(q) : Rank[t] < Rank[u] => u \in children_'[q]
    BY <1>1, <1>3, <1>13, NewTreesWait DEF Kept
  <2>2. q # NoTask /\ Kind[q] \in {"serial", "parallel"}
    BY <1>1, <2>1, TreeAssumption DEF Whole
  <2>3. ~IsTop("done", q)'  BY <1>10, <2>2
  <2> QED  BY <2>1, <2>3
<1>19. KeptWhileOpen(D)'
  <2>1. \A t \in D \cap queue_wait_' : ndone'[t] > 0 => t \in queue_wait_ /\ ndone[t] > 0
    BY <1>6, <1>9
  <2>2. \A t \in D : ncall'[t] > 0 /\ ndone'[t] = 0 =>
             (ncall[t] > 0 /\ ndone[t] = 0) \/ t \in queue_wait_'
    BY <1>1, <1>6, <1>8 DEF Whole
  <2> QED  BY <1>1, <1>4, <1>6, <2>1, <2>2, OpenKept DEF Kept
<1> QED  BY <1>16, <1>17, <1>18, <1>19 DEF Kept, Sessions

-----------------------------------------------------------------------------
(***************************************************************************)
(* The event loop: with nothing on the stack it begins a call or a         *)
(* completion, or changes what these do not look at.                       *)
(***************************************************************************)
Starts(f) ==
    \/ f.op = "call"
    \/ f.op = "done" /\ f.task \in (requests \ requests') \cap queue_wait_

LEMMA StartOnce ==
  ASSUME NEW D, OnceKeeps(D), IInv',
         stack = <<>>, NEW f \in Frames, stack' \in {<<>>, <<f>>}, Starts(f),
         UNCHANGED <<children_, queue_wait_, counts, cancelled>>, requests' \subseteq requests
  PROVE  OnceInv(D)'
<1>1. /\ Whole(D) /\ IInv /\ TypeOK /\ f.task \in Tasks
      /\ UNCHANGED <<ncall, ndone, ntimeout>>
  BY DEF OnceKeeps, OnceInv, IInv, counts, Frames
<1>2. \A op, t : ~IsTop(op, t) /\ ~OnStack(op, t)
  BY NothingOnStack DEF IsTop, Top
<1>3. /\ \A i \in DOMAIN stack' : i = 1 /\ stack'[i] = f
      /\ \A op, t : IsTop(op, t)' => f.op = op /\ f.task = t
  <2>1. CASE stack' = <<>>
    <3>1. DOMAIN stack' = {}  BY <2>1
    <3> QED  BY <2>1, <3>1 DEF IsTop, Top
  <2>2. CASE stack' = <<f>>
    <3>1. DOMAIN stack' = {1} /\ stack'[1] = f /\ Head(stack') = f  BY <2>2
    <3> QED  BY <3>1 DEF IsTop, Top, Task
  <2> QED  BY <2>1, <2>2
<1>4. OnTop'  BY <1>3 DEF OnTop
<1> SUFFICES ASSUME Kept(D) PROVE Kept(D)'
  BY <1>1, <1>4, OnceThen DEF OnceKeeps
<1>5. \A t \in D \cap queue_wait_ : ndone[t] = 0
  <2> SUFFICES ASSUME NEW t \in D \cap queue_wait_ PROVE ndone[t] = 0
    OBVIOUS
  <2>1. ndone[t] \in Nat  BY <1>1 DEF TypeOK
  <2>2. ~(ndone[t] > 0)  BY <1>2 DEF Kept, KeptWhileOpen
  <2> QED  BY <2>1, <2>2
<1>6. \A p \in D : \A t \in children_[p] : ~(ndone[t] > 0)
  BY <1>2 DEF Kept, PartsWaitedFor
<1>7. \A t : IsTop("done", t)' =>
        t \in requests \ requests' /\ t \in queue_wait_ /\ Kind[t] = "leaf"
  BY <1>1, <1>3 DEF Starts, IInv, Waits
<1>8. \A t : ~IsTop("child_done", t)' /\ ~IsTop("if_empty", t)'  BY <1>3 DEF Starts
<1>9. Session(D, {})'  BY <1>3 DEF Session, Starts
<1>10. DoneOnce(D)'
  <2>1. \A i \in DOMAIN stack' : stack'[i].op # "if_empty" /\ stack'[i].op # "erase"
    BY <1>3 DEF Starts
  <2>2. \A t \in D : IsTop("done", t)' \/ IsTop("if_empty", t)' => ndone'[t] = 0
    BY <1>1, <1>5, <1>7, <1>8
  <2>3. \A t \in D \cap requests' : ndone'[t] = 0 /\ ~IsTop("done", t)'
    BY <1>1, <1>7 DEF Kept, DoneOnce
  <2>4. \A t \in D : ndone'[t] <= 1 /\ (ndone'[t] > 0 => ncall'[t] > 0)
    BY <1>1 DEF Kept, DoneOnce
  <2> QED  BY <1>8, <2>1, <2>2, <2>3, <2>4 DEF DoneOnce
<1>11. PartsWaitedFor(D)'
  <2> SUFFICES ASSUME NEW p \in D, NEW t \in children_[p] PROVE ~IsTop("done", p)'
    BY <1>1, <1>6 DEF Kept, PartsWaitedFor, Children
  <2>1. p \in Tasks /\ t \in Children(p)  BY <1>1 DEF IInv, ChildrenOK, TreeOK, Whole
  <2>2. Kind[p] \in {"serial", "parallel"}  BY <2>1, ChildOf, TreeAssumption
  <2> QED  BY <1>7, <2>2
<1>12. KeptWhileOpen(D)'  BY <1>1, <1>5 DEF Kept, KeptWhileOpen
<1> QED  BY <1>9, <1>10, <1>11, <1>12 DEF Kept, Sessions

LEMMA ReplyOnce == ASSUME NEW D, OnceKeeps(D), NEW t \in Tasks, Reply(t) PROVE OnceInv(D)'
<1> DEFINE f == Frame("done", t, {})
<1>1. f \in Frames /\ f.op = "done" /\ f.task = t  BY FrameType
<1>2. IInv'  BY ReplyKeeps DEF OnceKeeps, OnceInv
<1>3. /\ stack = <<>> /\ t \in requests /\ requests' = requests \ {t}
      /\ UNCHANGED <<children_, queue_wait_, counts, cancelled>>
      /\ stack' = IF t \in queue_wait_ THEN <<f>> ELSE <<>>
  BY DEF Reply, queues, cancels
<1> HIDE DEF f
<1>4. CASE t \in queue_wait_
  <2>1. Starts(f)  BY <1>1, <1>3, <1>4 DEF Starts
  <2>2. stack' \in {<<>>, <<f>>} /\ requests' \subseteq requests  BY <1>3
  <2> QED  BY <1>1, <1>2, <1>3, <2>1, <2>2, StartOnce
<1>5. CASE t \notin queue_wait_
  <2> DEFINE g == Frame("call", t, {})
  <2>1. g \in Frames /\ g.op = "call"  BY FrameType
  <2> HIDE DEF g
  <2>2. Starts(g)  BY <2>1 DEF Starts
  <2>3. stack' \in {<<>>, <<g>>} /\ requests' \subseteq requests  BY <1>3, <1>5
  <2> QED  BY <1>2, <1>3, <2>1, <2>2, <2>3, StartOnce
<1> QED  BY <1>4, <1>5

LEMMA CallReadyOnce == ASSUME NEW D, OnceKeeps(D), CallReady PROVE OnceInv(D)'
<1> DEFINE f == Frame("call", Head(batch), {})
<1>1. /\ stack = <<>> /\ stack' = <<f>> /\ batch # <<>>
      /\ UNCHANGED <<children_, queue_wait_, counts, cancelled, requests>>
  BY DEF CallReady, queues, cancels
<1>2. batch \in Seq(Tasks)  BY DEF OnceKeeps, OnceInv, IInv, TypeOK
<1>3. Head(batch) \in Tasks  BY <1>1, <1>2
<1>4. f \in Frames /\ f.op = "call"  BY <1>3, FrameType
<1>5. IInv'  BY CallReadyKeeps DEF OnceKeeps, OnceInv
<1> HIDE DEF f
<1>6. Starts(f)  BY <1>4 DEF Starts
<1> QED  BY <1>1, <1>4, <1>5, <1>6, StartOnce

(***************************************************************************)
(* A step that leaves the stack as it is and takes a task of D out of      *)
(* queue_wait_ only when it times out.                                     *)
(***************************************************************************)
LeavesAlone(D) ==
    /\ NewTrees(D)
    /\ \A t \in D :
         /\ t \in queue_wait_' => t \in queue_wait_
         /\ t \in queue_wait_ => t \in queue_wait_' \/ ntimeout'[t] > 0
         /\ ntimeout[t] > 0 => ntimeout'[t] > 0

LEMMA QuietOnce ==
  ASSUME NEW D, OnceKeeps(D), IInv',
         UNCHANGED <<stack, ncall, ndone>>, requests' \subseteq requests,
         cancelled \subseteq cancelled', D \cap cancelled' = {} => LeavesAlone(D)
  PROVE  OnceInv(D)'
<1>1. Whole(D) /\ IInv /\ TypeOK /\ TypeOK'
  BY DEF OnceKeeps, OnceInv, IInv
<1>2. OnTop'  BY DEF OnceKeeps, OnceInv, OnTop
<1> SUFFICES ASSUME D \cap cancelled' = {}, Kept(D) PROVE Kept(D)'
  BY <1>2, OnceThen DEF OnceKeeps
<1>3. NewTrees(D)  BY DEF LeavesAlone
<1>4. ASSUME NEW i \in DOMAIN stack, stack[i].task \in D
      PROVE  children_'[stack[i].task] = children_[stack[i].task]
  <2>1. Root[stack[i].task] \in emitted  BY <1>1 DEF IInv, FramesOK, FrameOK
  <2> QED  BY <1>3, <1>4, <2>1 DEF NewTrees
<1>5. \A op, t : /\ IsTop(op, t)' <=> IsTop(op, t)
                 /\ OnStack(op, t)' <=> OnStack(op, t)
  BY DEF IsTop, Top, Task, OnStack
<1>6. Sessions(D)'
  <2>1. PICK called \in SUBSET D : Session(D, called)  BY DEF Kept, Sessions
  <2>2. \A r \in Tasks : Begun(r)' <=> Begun(r)  BY <1>5 DEF Begun
  <2>3. ASSUME NEW t \in called
        PROVE  /\ ncall'[t] > 0
               /\ ndone'[t] > 0 \/ IsTop("done", t)' => t \in Sudden
               /\ \A c \in Children(t) : ncall'[c] > 0 => c \in called
               /\ \A r \in Tasks : Emitter[r] = t => ~Begun(r)'
    BY <1>5, <2>1, <2>2 DEF Session
  <2>4. ASSUME NEW i \in DOMAIN stack', stack'[i].op = "if_empty", stack'[i].task \in D, i > 1
        PROVE  \E c \in children_'[stack'[i].task] \ Sudden : ncall'[c] > 0 => c \in called
    BY <1>4, <2>1, <2>4 DEF Session
  <2>5. Session(D, called)'  BY <2>3, <2>4 DEF Session, Children
  <2> QED  BY <2>5 DEF Sessions
<1>7. DoneOnce(D)'
  <2>1. ASSUME NEW t \in D, IsTop("child_done", t), parent_[t] \in D
        PROVE  t \in children_'[parent_[t]]
    <3>1. 1 \in DOMAIN stack /\ stack[1].task = t /\ stack[1].op = "child_done"
      BY <1>1, <2>1, TopIs
    <3>2. parent_[t] # NoTask /\ Root[t] \in emitted
      BY <1>1, <3>1 DEF IInv, FramesOK, FrameOK
    <3>3. Root[parent_[t]] \in emitted  BY <1>1, <3>2, ParentIsTask DEF Whole
    <3>4. children_'[parent_[t]] = children_[parent_[t]]  BY <1>3, <2>1, <3>3 DEF NewTrees
    <3> QED  BY <2>1, <3>4 DEF Kept, DoneOnce
  <2> QED  BY <1>5, <2>1 DEF Kept, DoneOnce, Children
<1>8. PartsWaitedFor(D)'
  <2> SUFFICES ASSUME NEW p \in D, NEW t \in children_'[p]
      PROVE  /\ ndone[t] > 0 => IsTop("child_done", t)
             /\ ndone[p] = 0 /\ ~IsTop("done", p)
             /\ Kind[p] = "serial" =>
                  \A u \in Children(p) : Rank[t] < Rank[u] => u \in children_'[p]
    BY <1>5 DEF PartsWaitedFor, Children
  <2>1. CASE children_'[p] = children_[p]  BY <2>1 DEF Kept, PartsWaitedFor
  <2>2. CASE Root[p] \notin emitted /\ children_'[p] = Children(p)
    BY <1>1, <2>2, FreshTree DEF Kept
  <2> QED  BY <1>3, <2>1, <2>2 DEF NewTrees
<1>9. KeptWhileOpen(D)'
  <2>1. ASSUME NEW t \in D, ncall[t] > 0, ndone[t] = 0
        PROVE  t \in queue_wait_' \/ ntimeout'[t] > 0
    BY <2>1 DEF Kept, KeptWhileOpen, LeavesAlone
  <2>2. ASSUME NEW t \in D \cap queue_wait_', ndone[t] > 0 PROVE OnStack("erase", t)
    BY <2>2 DEF Kept, KeptWhileOpen, LeavesAlone
  <2> QED  BY <1>5, <2>1, <2>2 DEF KeptWhileOpen
<1> QED  BY <1>6, <1>7, <1>8, <1>9 DEF Kept

LEMMA EmitOnce == ASSUME NEW D, OnceKeeps(D), NEW r \in Tasks, Emit(r) PROVE OnceInv(D)'
<1>1. IInv' /\ TypeOK /\ D \in SUBSET Tasks
  BY EmitKeeps DEF OnceKeeps, OnceInv, IInv, Whole
<1>2. /\ r \in Tasks \ emitted /\ on_emit(r)
      /\ UNCHANGED <<stack, ncall, ndone, ntimeout, requests, queue_wait_, cancelled>>
  BY DEF Emit, emit, counts, cancels
<1>3. NewTrees(D)  BY <1>1, <1>2, EmitsNewTree
<1>4. LeavesAlone(D)  BY <1>2, <1>3 DEF LeavesAlone
<1> QED  BY <1>1, <1>2, <1>4, QuietOnce

(***************************************************************************)
(* triggerCancel of a task that is not in D: what it reaches is under it,  *)
(* and none of that is in D while D keeps clear of cancelled.              *)
(***************************************************************************)
LEMMA CancelOnce == ASSUME NEW D, OnceKeeps(D), NEW t \in Tasks, Cancel(t) PROVE OnceInv(D)'
<1>1. IInv' /\ TypeOK /\ D \subseteq Tasks
  BY CancelKeeps DEF OnceKeeps, OnceInv, IInv, Whole
<1>2. /\ children_' = [u \in Tasks |-> IF u \in Reached(t) THEN {} ELSE children_[u]]
      /\ queue_wait_' = queue_wait_ \ Reached(t)
      /\ cancelled' = cancelled \cup Reached(t)
      /\ UNCHANGED <<stack, ncall, ndone, ntimeout, requests>>
  BY DEF Cancel, counts
<1>3. ASSUME D \cap cancelled' = {} PROVE LeavesAlone(D)
  <2>1. \A u \in D : u \notin Reached(t)  BY <1>2, <1>3
  <2>2. NewTrees(D)  BY <1>1, <1>2, <2>1 DEF NewTrees
  <2> QED  BY <1>2, <2>1, <2>2 DEF LeavesAlone
<1>4. cancelled \subseteq cancelled'  BY <1>2
<1> QED  BY <1>1, <1>2, <1>3, <1>4, QuietOnce

LEMMA CheckTimeoutOnce == ASSUME NEW D, OnceKeeps(D), CheckTimeout PROVE OnceInv(D)'
<1> DEFINE t == Earliest(scan)
<1>1. IInv' /\ TypeOK /\ D \subseteq Tasks
  BY CheckTimeoutKeeps DEF OnceKeeps, OnceInv, IInv, Whole
<1>2. /\ UNCHANGED <<stack, ncall, ndone, requests, children_, cancelled>> /\ scan # {}
      /\ \/ UNCHANGED <<ntimeout, queue_wait_>>
         \/ triggerTimeout(t)
  BY DEF CheckTimeout, cancels
<1>3. t \in Tasks  BY <1>1, <1>2, EarliestIsMember DEF TypeOK
<1> HIDE DEF t
<1>4. LeavesAlone(D)
  <2>1. NewTrees(D)  BY <1>2 DEF NewTrees
  <2>2. CASE UNCHANGED <<ntimeout, queue_wait_>>  BY <2>1, <2>2 DEF LeavesAlone
  <2>3. CASE triggerTimeout(t)
    <3>1. /\ ntimeout' = [ntimeout EXCEPT ![t] = @ + 1] /\ queue_wait_' = queue_wait_ \ {t}
          /\ ntimeout \in [Tasks -> Nat]
      BY <1>1, <2>3 DEF triggerTimeout, TypeOK
    <3>2. ntimeout'[t] > 0 /\ \A u \in Tasks : ntimeout[u] > 0 => ntimeout'[u] > 0
      BY <1>3, <3>1
    <3> QED  BY <1>1, <2>1, <3>1, <3>2 DEF LeavesAlone
  <2> QED  BY <1>2, <2>2, <2>3
<1> QED  BY <1>1, <1>2, <1>4, QuietOnce

LEMMA StillOnce ==
  ASSUME NEW D, OnceKeeps(D), IInv',
         UNCHANGED <<stack, children_, queue_wait_, ncall, ndone, ntimeout, cancelled>>,
         requests' \subseteq requests
  PROVE  OnceInv(D)'
<1>1. LeavesAlone(D)  BY DEF LeavesAlone, NewTrees
<1> QED  BY <1>1, QuietOnce

LEMMA InitOnce == ASSUME NEW D, Whole(D), Init PROVE OnceInv(D)
<1>1. IInv  BY InitIInv
<1>2. DOMAIN stack = {} /\ \A op, t : ~IsTop(op, t)  BY DEF Init, IsTop, Top
<1>3. \A t \in Tasks : ncall[t] = 0 /\ ndone[t] = 0 /\ children_[t] = {}
  BY DEF Init
<1>4. queue_wait_ = {} /\ requests = {}  BY DEF Init
<1>5. Session(D, {})  BY <1>2 DEF Session
<1>6. OnTop  BY <1>2 DEF OnTop
<1>7. DoneOnce(D)  BY <1>2, <1>3, <1>4 DEF DoneOnce, Whole
<1>8. PartsWaitedFor(D) /\ KeptWhileOpen(D)
  BY <1>3, <1>4 DEF PartsWaitedFor, KeptWhileOpen, Whole
<1> QED  BY <1>1, <1>5, <1>6, <1>7, <1>8 DEF OnceInv, OnceIn, Sessions

LEMMA NextOnce == ASSUME NEW D, OnceKeeps(D), [Next]_vars PROVE OnceInv(D)'
<1>1. IInv'  BY NextIInv DEF OnceKeeps, OnceInv
<1>2. ASSUME NEW t \in Tasks, Emit(t) \/ Reply(t) \/ Cancel(t) PROVE OnceInv(D)'
  BY <1>2, EmitOnce, ReplyOnce, CancelOnce
<1>3. ASSUME NEW t \in Tasks, Elapse(t) \/ LoseReply(t) PROVE OnceInv(D)'
  <2>1. /\ UNCHANGED <<stack, children_, queue_wait_, ncall, ndone, ntimeout, cancelled>>
        /\ requests' \subseteq requests
    BY <1>3 DEF Elapse, LoseReply, queues, counts, cancels
  <2> QED  BY <1>1, <2>1, StillOnce
<1>4. ASSUME RunBegin \/ TakeReady \/ RunEnd \/ UNCHANGED vars PROVE OnceInv(D)'
  <2>1. /\ UNCHANGED <<stack, children_, queue_wait_, ncall, ndone, ntimeout, cancelled>>
        /\ requests' \subseteq requests
    BY <1>4 DEF RunBegin, TakeReady, RunEnd, vars, queues, counts, cancels
  <2> QED  BY <1>1, <2>1, StillOnce
<1>5. ASSUME CheckTimeout \/ CallReady PROVE OnceInv(D)'
  BY <1>5, CheckTimeoutOnce, CallReadyOnce
<1>6. ASSUME Step PROVE OnceInv(D)'
  BY <1>6, TriggerCallOnce, CallFirstOnce, CallEachOnce, TriggerDoneOnce, ChildDoneOnce,
     DoneIfEmptyOnce, EraseWaitOnce DEF Step
<1> QED  BY <1>2, <1>3, <1>4, <1>5, <1>6 DEF Next, Run

(***************************************************************************)
(* OnceInv holds of the parts of every steady task, in every behaviour of  *)
(* every forest.                                                           *)
(***************************************************************************)
EachOnce == IInv /\ \A t \in Steady : OnceInv(PartsOf[t])

THEOREM OnceInvariance == Spec => []EachOnce
<1>1. Init => EachOnce
  BY InitIInv, InitOnce, SteadyIsWhole DEF EachOnce
<1>2. EachOnce /\ [Next]_vars => EachOnce'
  <2> SUFFICES ASSUME EachOnce, [Next]_vars PROVE EachOnce'
    OBVIOUS
  <2>1. IInv'  BY NextIInv DEF EachOnce
  <2>2. ASSUME NEW t \in Steady PROVE OnceInv(PartsOf[t])'
    <3>1. OnceKeeps(PartsOf[t])  BY SteadyIsWhole DEF EachOnce, OnceKeeps
    <3> QED  BY <3>1, NextOnce
  <2> QED  BY <2>1, <2>2 DEF EachOnce
<1> QED  BY <1>1, <1>2, PTL DEF Spec

(***************************************************************************)
(* triggerCall reaches each task at most once, and triggerDone each steady *)
(* task of which no part was cancelled, in whatever order replies,         *)
(* timeouts and cancellations of other tasks come and however deep the     *)
(* notifications nest.                                                     *)
(***************************************************************************)
THEOREM CompletedOnce == Spec => []AtMostOnce
<1>1. EachOnce => AtMostOnce
  <2> SUFFICES ASSUME EachOnce PROVE AtMostOnce
    OBVIOUS
  <2>1. \A t \in Tasks : ncall[t] <= 1  BY DEF EachOnce, IInv, FramedOnce
  <2>2. ASSUME NEW t \in Steady, PartsOf[t] \cap cancelled = {} PROVE ndone[t] <= 1
    <3>1. t \in PartsOf[t]  BY SteadyIsWhole
    <3>2. DoneOnce(PartsOf[t])  BY <2>2 DEF EachOnce, OnceInv, OnceIn
    <3> QED  BY <3>1, <3>2 DEF DoneOnce
  <2> QED  BY <2>1, <2>2 DEF AtMostOnce
<1> QED  BY <1>1, OnceInvariance, PTL

(***************************************************************************)
(* child_done() is told of a parent the scheduler still keeps in           *)
(* queue_wait_, unless the parent timed out, something among its parts was *)
(* cancelled, or a series among them is not steady: there is no other way, *)
(* in any forest, for parent_ to dangle.                                   *)
(***************************************************************************)
THEOREM ParentsAreKept == Spec => []NotifiedParentWaits
<1>1. EachOnce => NotifiedParentWaits
  <2> DEFINE p == parent_[Task]
  <2> SUFFICES ASSUME EachOnce, Top("child_done"), p \in Steady, PartsOf[p] \cap cancelled = {}
      PROVE  p \in queue_wait_ \/ ntimeout[p] > 0
    BY DEF NotifiedParentWaits
  <2>1. IInv /\ TypeOK  BY DEF EachOnce, IInv
  <2>2. 1 \in DOMAIN stack /\ stack[1].op = "child_done" /\ stack[1].task = Task /\ Task \in Tasks
    BY <2>1, TopFrame
  <2>3. p # NoTask /\ ncall[Task] > 0  BY <2>1, <2>2 DEF IInv, FramesOK, FrameOK
  <2>4. p \in Tasks /\ p \in PartsOf[p] /\ Task \in PartsOf[p]
    BY <2>2, SteadyIsWhole DEF Whole
  <2>5. ncall[p] > 0  BY <2>1, <2>2, <2>3 DEF IInv, Begins, Begun, InOrder
  <2>6. DoneOnce(PartsOf[p]) /\ PartsWaitedFor(PartsOf[p]) /\ KeptWhileOpen(PartsOf[p])
    BY DEF EachOnce, OnceInv, OnceIn
  <2>7. IsTop("child_done", Task)  BY DEF IsTop
  <2>8. Task \in children_[p]  BY <2>4, <2>6, <2>7 DEF DoneOnce
  <2>9. ndone[p] = 0  BY <2>4, <2>6, <2>8 DEF PartsWaitedFor
  <2> QED  BY <2>4, <2>5, <2>6, <2>9 DEF KeptWhileOpen
<1> QED  BY <1>1, OnceInvariance, PTL
=============================================================================
