---------------------------- MODULE PathsProofs ----------------------------
(***************************************************************************)
(* PathInv is inductive relative to IInv, for every set of schemas and     *)
(* documents, every depth limit and every nesting of calls.  Again the     *)
(* proof goes by kinds of move: first what one step of a plan does to its  *)
(* frame, then what a move does to the stack, then the actions.            *)
(***************************************************************************)
EXTENDS Paths, ValidationProofs

(***************************************************************************)
(* One frame takes a step of its plan.                                     *)
(***************************************************************************)
LEMMA TailFacts ==
  ASSUME NEW todo \in Seq(Step), todo # <<>>
  PROVE  /\ Len(todo) \in Nat \ {0} /\ Head(todo) = todo[1] /\ todo[1] \in Step
         /\ Tail(todo) \in Seq(Step) /\ Len(Tail(todo)) = Len(todo) - 1
         /\ \A k \in 1 .. Len(todo) - 1 : Tail(todo)[k] = todo[k + 1]
         /\ Tail(todo) # <<>> => Len(todo) > 1 /\ Head(Tail(todo)) = todo[2]
OBVIOUS

(* What is left of a plan after its first step.                            *)
LEMMA RemainsTail ==
  ASSUME NEW fn, NEW todo \in Seq(Step), todo # <<>>, Remains(fn, todo)
  PROVE  /\ Remains(fn, Tail(todo))
         /\ Tail(todo) # <<>> => Head(Tail(todo)).do # "INCR_CONTEXT"
         /\ fn \in LoopFn => (Tail(todo) = <<>> <=> Head(todo).do = "DECR_CONTEXT")
<1>1. PICK n : n = Len(todo) /\ n \in Nat \ {0}
  BY TailFacts
<1>2. /\ Tail(todo) \in Seq(Step) /\ Len(Tail(todo)) = n - 1
      /\ \A k \in 1 .. n - 1 : Tail(todo)[k] = todo[k + 1] /\ k + 1 \in 1 .. n /\ k + 1 # 1
      /\ \A k \in 1 .. n - 1 : k = n - 1 <=> k + 1 = n
      /\ Head(todo) = todo[1] /\ 1 \in 1 .. n
  BY <1>1, TailFacts
<1>3. \A k \in 1 .. n - 1 :
        /\ todo[k + 1].do # "INCR_CONTEXT"
        /\ todo[k + 1].do = "DECR_CONTEXT" <=> fn \in LoopFn /\ k + 1 = n
        /\ todo[k + 1].do = "ADD_TO_CONTEXT" =>
             todo[k + 1].at # Nil /\ fn \in ArrayFn
        /\ todo[k + 1].do = "validate_object_property" => fn = "validate_properties"
        /\ fn = "validate_properties" =>
             todo[k + 1].do \in {"INCR_CONTEXT", "DECR_CONTEXT", "validate_object_property"}
  BY <1>1, <1>2 DEF Remains
<1>4. Remains(fn, Tail(todo))
  BY <1>2, <1>3 DEF Remains
<1>5. Tail(todo) # <<>> => Head(Tail(todo)).do # "INCR_CONTEXT"
  <2>1. Tail(todo) # <<>> => n > 1 /\ Head(Tail(todo)) = todo[2]
    BY <1>1, TailFacts
  <2>2. n > 1 => 1 \in 1 .. n - 1 /\ 1 + 1 = 2
    BY <1>1
  <2> QED BY <1>3, <2>1, <2>2
<1>6. fn \in LoopFn => (Tail(todo) = <<>> <=> Head(todo).do = "DECR_CONTEXT")
  <2>1. Tail(todo) = <<>> <=> n = 1
    <3>1. \A q \in Seq(Step) : q = <<>> <=> Len(q) = 0
      OBVIOUS
    <3>2. Tail(todo) = <<>> <=> Len(Tail(todo)) = 0
      BY <1>2, <3>1
    <3> QED BY <1>1, <1>2, <3>2
  <2>2. todo[1].do = "DECR_CONTEXT" <=> fn \in LoopFn /\ 1 = n
    BY <1>1, <1>2 DEF Remains
  <2> QED BY <1>2, <2>1, <2>2
<1> QED BY <1>4, <1>5, <1>6

Moved(f, g) == \A b \in Frame : Continues(b, f) => Continues(b, g)

LEMMA LocFacts ==
  ASSUME NEW f \in Frame
  PROVE  /\ f.loc \in Seq(Segment) /\ Len(f.loc) \in Nat /\ f.todo \in Seq(Step)
         /\ f.loc # <<>> => Len(f.loc) # 0
<1>1. f.loc \in Seq(Segment) /\ f.todo \in Seq(Step)
  BY DEF Frame
<1>2. PICK S, q : S = Segment /\ q = f.loc
  OBVIOUS
<1>3. q \in Seq(S)
  BY <1>1, <1>2
<1>4. Len(q) \in Nat /\ (q # <<>> => Len(q) # 0)
  BY <1>3
<1> QED BY <1>1, <1>2, <1>4

(* A frame that is neither a loop nor the work on one member.              *)
LEMMA DecideFacts ==
  ASSUME NEW f \in Frame, NEW g \in Frame, Placed(f),
         f.fn \notin LoopFn \cup {"validate_object_property"},
         g.fn = f.fn, g.loc = f.loc, Remains(g.fn, g.todo)
  PROVE  Placed(g) /\ Moved(f, g) /\ End(f) # Nil /\ End(g) # Nil
<1>1. ~Inside(f) /\ ~Inside(g) /\ f.fn # "validate_properties" /\ f.fn \notin ArrayFn
  BY DEF Inside, LoopFn
<1>2. ~Unnamed(f) /\ ~Unnamed(g)
  BY <1>1 DEF Unnamed
<1>3. End(f) # Nil /\ End(g) = End(f)
  BY <1>2 DEF Placed, End
<1>4. Placed(g)
  BY <1>1, <1>3 DEF Placed
<1>5. Moved(f, g)
  BY <1>1 DEF Moved, Continues
<1> QED BY <1>3, <1>4, <1>5

(* A function that was called gets its plan.                               *)
LEMMA EnterFacts ==
  ASSUME NEW f \in Frame, Placed(f), f.pc = "enter",
         NEW plan \in Seq(Step), Whole(f.fn, plan),
         NEW g \in Frame, g = [f EXCEPT !.pc = "plan", !.todo = plan]
  PROVE  Placed(g) /\ Moved(f, g)
<1>1. g.fn = f.fn /\ g.loc = f.loc /\ g.todo = plan /\ g.pc = "plan"
  BY DEF Frame
<1>2. ~Inside(f) /\ ~Inside(g)
  BY <1>1 DEF Inside, Whole
<1>3. End(f) = Nil => f.fn = "validate_object_property"
  BY <1>2 DEF Placed, Unnamed
<1>4. f.fn = "validate_object_property" => Unnamed(g)
  BY <1>1 DEF Whole, Unnamed
<1>5. Placed(g)
  BY <1>1, <1>2, <1>3, <1>4 DEF Placed, End, Whole
<1>6. Moved(f, g)
  BY <1>1, <1>2 DEF Moved, Continues
<1> QED BY <1>5, <1>6

(* A step that is not a macro of types/context.h.                          *)
LEMMA StepFacts ==
  ASSUME NEW f \in Frame, Placed(f), f.pc = "plan", f.todo # <<>>,
         Head(f.todo).do \notin PathOp,
         NEW g \in Frame, g = [f EXCEPT !.todo = Tail(f.todo)]
  PROVE  /\ Placed(g) /\ Moved(f, g)
         /\ End(g) = End(f)
         /\ End(f) = Nil => Head(f.todo).do = "validate_object_property"
         /\ Head(f.todo).do = "validate_object_property" => End(f) = Nil
<1>1. g.fn = f.fn /\ g.loc = f.loc /\ g.todo = Tail(f.todo) /\ g.pc = "plan"
  BY DEF Frame
<1>2. f.todo \in Seq(Step) /\ Remains(f.fn, f.todo)
  BY DEF Frame, Placed
<1>3. /\ Remains(g.fn, g.todo)
      /\ g.todo # <<>> => Head(g.todo).do # "INCR_CONTEXT"
      /\ f.fn \in LoopFn => g.todo # <<>>
  BY <1>1, <1>2, RemainsTail DEF PathOp
<1>4. Inside(f) <=> f.fn \in LoopFn
  BY DEF Inside, PathOp
<1>5. Inside(g) <=> f.fn \in LoopFn
  BY <1>1, <1>3 DEF Inside
<1>6. Unnamed(f) => f.fn = "validate_properties"
  BY DEF Unnamed, PathOp
<1>7. /\ Head(f.todo) = f.todo[1] /\ 1 \in 1 .. Len(f.todo)
  BY <1>2, TailFacts
<1>8. /\ Head(f.todo).do = "validate_object_property" => f.fn = "validate_properties"
      /\ f.fn = "validate_properties" => Head(f.todo).do = "validate_object_property"
  BY <1>2, <1>7 DEF Remains, PathOp
<1>9. "validate_properties" \in LoopFn
  BY DEF LoopFn
<1>10. f.fn = "validate_properties" => Unnamed(g) /\ End(f) = Nil
  BY <1>1, <1>4, <1>5, <1>9 DEF Unnamed, Placed
<1>11. End(g) = End(f) /\ (End(f) = Nil => f.fn = "validate_properties")
  BY <1>1, <1>6 DEF End, Placed
<1>12. Placed(g)
  BY <1>1, <1>3, <1>10, <1>11 DEF Placed
<1>13. Moved(f, g)
  BY <1>1, <1>4, <1>5 DEF Moved, Continues
<1> QED BY <1>8, <1>10, <1>11, <1>12, <1>13

(* INCR_CONTEXT.                                                           *)
LEMMA IncrFacts ==
  ASSUME NEW f \in Frame, Placed(f), f.pc = "plan", f.todo # <<>>,
         Head(f.todo).do = "INCR_CONTEXT",
         NEW g \in Frame,
         g = [f EXCEPT !.todo = Tail(f.todo), !.loc = Append(f.loc, Nil)]
  PROVE  /\ Placed(g) /\ Moved(f, g)
         /\ End(f) # Nil /\ End(g) = Nil /\ Len(g.loc) = Len(f.loc) + 1
         /\ \A k \in 1 .. Len(f.loc) : g.loc[k] = f.loc[k]
<1>1. g.fn = f.fn /\ g.loc = Append(f.loc, Nil) /\ g.todo = Tail(f.todo) /\ g.pc = "plan"
  BY DEF Frame
<1>2. /\ f.todo \in Seq(Step) /\ Remains(f.fn, f.todo)
      /\ f.loc \in Seq(Segment) /\ Len(f.loc) \in Nat /\ f.loc # <<>>
  BY DEF Frame, Placed
<1>3. PICK n : n = Len(f.loc) /\ n \in Nat \ {0}
  BY <1>2
<1>4. /\ Len(g.loc) = n + 1 /\ g.loc[n + 1] = Nil /\ g.loc # <<>>
      /\ \A k \in 1 .. n : g.loc[k] = f.loc[k]
  BY <1>1, <1>2, <1>3
<1>5. /\ Head(f.todo) = f.todo[1] /\ 1 \in 1 .. Len(f.todo) /\ Len(f.todo) \in Nat
      /\ g.todo # <<>> => Head(g.todo) = f.todo[2]
  BY <1>1, <1>2, TailFacts
<1>6. /\ f.fn \in LoopFn
      /\ f.fn \in ArrayFn => f.todo[2].do \in {"ADD_TO_CONTEXT", "DECR_CONTEXT"}
  BY <1>2, <1>5 DEF Remains
<1>7. /\ Remains(g.fn, g.todo) /\ g.todo # <<>>
      /\ Head(g.todo).do # "INCR_CONTEXT"
  BY <1>1, <1>2, <1>6, RemainsTail
<1>8. ~Inside(f) /\ Inside(g)
  BY <1>1, <1>6, <1>7 DEF Inside
<1>9. f.fn # "validate_object_property"
  BY <1>6 DEF LoopFn, ArrayFn
<1>10. Unnamed(g) /\ ~Unnamed(f)
  <2>1. f.fn \in ArrayFn => Head(g.todo).do \in {"ADD_TO_CONTEXT", "DECR_CONTEXT"}
    BY <1>5, <1>6, <1>7
  <2> QED BY <1>1, <1>6, <1>8, <1>9, <2>1 DEF Unnamed, LoopFn
<1>11. End(g) = Nil /\ End(f) # Nil /\ f.loc[n] # Nil
  BY <1>3, <1>4, <1>10 DEF End, Placed
<1>12. \A k \in 1 .. n : f.loc[k] # Nil
  BY <1>3, <1>11 DEF Placed
<1>13. Placed(g)
  <2>1. Len(g.loc) - 1 = n
    BY <1>3, <1>4
  <2> QED BY <1>4, <1>7, <1>10, <1>11, <1>12, <2>1 DEF Placed
<1>14. Moved(f, g)
  <2> SUFFICES ASSUME NEW b \in Frame, Continues(b, f)
               PROVE  Continues(b, g)
    BY DEF Moved
  <2>1. Len(b.loc) = n /\ \A k \in 1 .. n : b.loc[k] # Nil => f.loc[k] = b.loc[k]
    BY <1>3, <1>8, LocFacts DEF Continues
  <2> QED BY <1>1, <1>4, <1>8, <1>9, <2>1 DEF Continues
<1> QED BY <1>3, <1>4, <1>11, <1>13, <1>14

(* DECR_CONTEXT, in a frame that was called by b.                          *)
LEMMA DecrFacts ==
  ASSUME NEW f \in Frame, Placed(f), f.pc = "plan", f.todo # <<>>,
         Head(f.todo).do = "DECR_CONTEXT",
         NEW b \in Frame, Placed(b), Continues(b, f),
         NEW g \in Frame,
         g = [f EXCEPT !.todo = Tail(f.todo), !.loc = SubSeq(f.loc, 1, Len(f.loc) - 1)]
  PROVE  /\ Placed(g) /\ Moved(f, g)
         /\ End(g) # Nil /\ Len(g.loc) = Len(f.loc) - 1
         /\ \A k \in 1 .. Len(g.loc) : g.loc[k] = f.loc[k]
<1>1. /\ g.fn = f.fn /\ g.loc = SubSeq(f.loc, 1, Len(f.loc) - 1)
      /\ g.todo = Tail(f.todo) /\ g.pc = "plan"
  BY DEF Frame
<1>2. /\ f.todo \in Seq(Step) /\ Remains(f.fn, f.todo)
      /\ f.loc \in Seq(Segment) /\ f.loc # <<>> /\ b.loc # <<>> /\ b.loc \in Seq(Segment)
  BY DEF Frame, Placed
<1>3. /\ Head(f.todo) = f.todo[1] /\ 1 \in 1 .. Len(f.todo)
  BY <1>2, TailFacts
<1>4. f.fn \in LoopFn
  BY <1>2, <1>3 DEF Remains
<1>5. Remains(g.fn, g.todo) /\ g.todo = <<>>
  BY <1>1, <1>2, <1>4, RemainsTail
<1>6. Inside(f) /\ ~Inside(g) /\ f.fn # "validate_object_property"
  BY <1>4, <1>5 DEF Inside, LoopFn, ArrayFn
<1>7. PICK n : n = Len(b.loc) /\ n \in Nat \ {0} /\ Len(f.loc) = n + 1
  <2>1. Len(b.loc) \in Nat \ {0}
    BY <1>2
  <2> QED BY <1>6, <2>1 DEF Continues
<1>8. Len(g.loc) = n /\ g.loc # <<>> /\ \A k \in 1 .. n : g.loc[k] = f.loc[k]
  <2>1. /\ Len(SubSeq(f.loc, 1, Len(f.loc) - 1)) = Len(f.loc) - 1
        /\ \A j \in 1 .. Len(f.loc) - 1 : SubSeq(f.loc, 1, Len(f.loc) - 1)[j] = f.loc[j]
    BY <1>2, PopFacts
  <2>2. Len(f.loc) - 1 = n
    BY <1>7
  <2>3. Len(g.loc) = n /\ \A k \in 1 .. n : g.loc[k] = f.loc[k]
    BY <1>1, <2>1, <2>2
  <2>4. Len(<<>>) = 0
    OBVIOUS
  <2> QED BY <1>7, <2>3, <2>4
<1>9. \A k \in 1 .. n : f.loc[k] # Nil
  BY <1>7 DEF Placed
<1>10. End(g) # Nil
  BY <1>7, <1>8, <1>9 DEF End
<1>11. Placed(g)
  <2>1. \A k \in 1 .. n - 1 : k \in 1 .. n
    BY <1>7
  <2> QED BY <1>5, <1>6, <1>8, <1>9, <1>10, <2>1 DEF Placed
<1>12. Moved(f, g)
  <2> SUFFICES ASSUME NEW a \in Frame, Continues(a, f)
               PROVE  Continues(a, g)
    BY DEF Moved
  <2>1. Len(a.loc) = n /\ \A k \in 1 .. n : a.loc[k] # Nil => f.loc[k] = a.loc[k]
    BY <1>6, <1>7, LocFacts DEF Continues
  <2> QED BY <1>1, <1>6, <1>8, <2>1 DEF Continues
<1> QED BY <1>7, <1>8, <1>10, <1>11, <1>12

(* ADD_TO_CONTEXT.                                                         *)
LEMMA AddFacts ==
  ASSUME NEW f \in Frame, Placed(f), f.pc = "plan", f.todo # <<>>,
         Head(f.todo).do = "ADD_TO_CONTEXT",
         NEW seg, seg = Head(f.todo).at,
         NEW g \in Frame, g.fn = f.fn, g.pc = "plan", g.todo = Tail(f.todo),
         g.loc = Append(SubSeq(f.loc, 1, Len(f.loc) - 1), seg)
  PROVE  /\ Placed(g) /\ Moved(f, g)
         /\ seg # Nil /\ Len(g.loc) = Len(f.loc) /\ End(g) = seg
         /\ \A k \in 1 .. Len(f.loc) - 1 : g.loc[k] = f.loc[k]
<1>1. /\ g.fn = f.fn /\ g.loc = Append(SubSeq(f.loc, 1, Len(f.loc) - 1), seg)
      /\ g.todo = Tail(f.todo) /\ g.pc = "plan"
  OBVIOUS
<1>2. /\ f.todo \in Seq(Step) /\ Remains(f.fn, f.todo)
      /\ f.loc \in Seq(Segment) /\ f.loc # <<>>
  BY DEF Frame, Placed
<1>3. /\ Head(f.todo) = f.todo[1] /\ 1 \in 1 .. Len(f.todo) /\ f.todo[1] \in Step
  BY <1>2, TailFacts
<1>4. /\ seg # Nil /\ seg \in Segment
      /\ f.fn \in ArrayFn \/ f.fn = "validate_object_property"
  BY <1>2, <1>3 DEF Remains, Step
<1>5. PICK n : n = Len(f.loc) /\ n \in Nat \ {0}
  BY <1>2
<1>6. /\ Len(g.loc) = n /\ g.loc[n] = seg /\ g.loc # <<>>
      /\ \A k \in 1 .. n - 1 : g.loc[k] = f.loc[k]
  <2>0. PICK p : p = SubSeq(f.loc, 1, Len(f.loc) - 1)
    OBVIOUS
  <2>a. p \in Seq(Segment) /\ Len(p) = Len(f.loc) - 1
        /\ \A k \in 1 .. Len(f.loc) - 1 : p[k] = f.loc[k]
    BY <1>2, <2>0, PopFacts
  <2>1. p \in Seq(Segment) /\ Len(p) = n - 1 /\ \A k \in 1 .. n - 1 : p[k] = f.loc[k]
    BY <1>5, <2>a
  <2>2. g.loc = Append(p, seg)
    BY <1>1, <2>0
  <2>3. Len(Append(p, seg)) = n - 1 + 1 /\ Append(p, seg)[n - 1 + 1] = seg
        /\ \A k \in 1 .. n - 1 : Append(p, seg)[k] = p[k]
    BY <1>4, <1>5, <2>1
  <2>4. n - 1 + 1 = n /\ Len(<<>>) = 0
    BY <1>5
  <2> QED BY <1>5, <2>1, <2>2, <2>3, <2>4
<1>7. /\ Remains(g.fn, g.todo)
      /\ g.todo # <<>> => Head(g.todo).do # "INCR_CONTEXT"
      /\ f.fn \in LoopFn => g.todo # <<>>
  BY <1>1, <1>2, RemainsTail
<1>8. /\ f.fn \in LoopFn <=> f.fn \in ArrayFn
      /\ f.fn # "validate_properties"
      /\ f.fn \in LoopFn => f.fn # "validate_object_property"
  BY <1>4 DEF LoopFn, ArrayFn
<1>9. (Inside(f) <=> f.fn \in ArrayFn) /\ (Inside(g) <=> f.fn \in ArrayFn)
  BY <1>1, <1>7, <1>8 DEF Inside
<1>10. End(g) = seg
  BY <1>6 DEF End
<1>11. Placed(g)
  BY <1>1, <1>4, <1>5, <1>6, <1>7, <1>8, <1>10 DEF Placed
<1>12. Moved(f, g)
  <2> SUFFICES ASSUME NEW b \in Frame, Continues(b, f)
               PROVE  Continues(b, g)
    BY DEF Moved
  <2>0. PICK m : m = Len(b.loc) /\ m \in Nat
    BY LocFacts
  <2>1. CASE f.fn \in ArrayFn
    <3>1. n = m + 1 /\ \A k \in 1 .. m : b.loc[k] # Nil => f.loc[k] = b.loc[k]
      BY <1>5, <1>9, <2>0, <2>1 DEF Continues
    <3>2. \A k \in 1 .. m : g.loc[k] = f.loc[k]
      BY <1>6, <2>0, <3>1
    <3> QED BY <1>1, <1>6, <1>8, <1>9, <2>0, <2>1, <3>1, <3>2 DEF Continues
  <2>2. CASE f.fn = "validate_object_property"
    <3>1. ~Inside(f) /\ ~Inside(g)
      BY <1>9, <2>2 DEF ArrayFn
    <3>0. m + 0 = m
      BY <2>0
    <3>2. /\ n = m /\ End(b) = Nil
          /\ \A k \in 1 .. m : b.loc[k] # Nil => f.loc[k] = b.loc[k]
      BY <1>5, <2>0, <2>2, <3>0, <3>1 DEF Continues
    <3>3. \A k \in 1 .. m : b.loc[k] # Nil => k \in 1 .. n - 1
      BY <1>5, <2>0, <3>2 DEF End
    <3>4. \A k \in 1 .. m : b.loc[k] # Nil => g.loc[k] = b.loc[k]
      BY <1>6, <3>2, <3>3
    <3> QED BY <1>6, <2>0, <3>0, <3>1, <3>2, <3>4 DEF Continues
  <2> QED BY <1>4, <2>1, <2>2
<1> QED BY <1>4, <1>5, <1>6, <1>10, <1>11, <1>12

(***************************************************************************)
(* The invariant by frames.                                                *)
(***************************************************************************)
LinkedAt(b, g) == IF g.fn \in SessionFn THEN UserCode(b) ELSE Continues(b, g)

FineAt(r, f, e) ==
  /\ Deep(r, f)
  /\ e # "overrun" => Traced(r, f)
  /\ e \in {"none", "throw"} \/ UserCode(f) => Written(r, f)

LEMMA PathParts ==
  ASSUME PathInv
  PROVE  /\ \A j \in 1 .. Len(stack) : Placed(stack[j])
         /\ \A j \in 1 .. Len(stack) - 1 : LinkedAt(stack[j], stack[j + 1])
         /\ \A j \in 1 .. Len(stack) :
              Innermost(stack, j) => FineAt(ctx[stack[j].c], stack[j], exc)
         /\ \A c \in 1 .. Len(ctx) : Located(ctx[c])
         /\ exc = "throw" => Filled(Cur, Cur.depth)
BY DEF PathInv, FramesPlaced, Chained, LinkedAt, DepthCounted, PathTraced, SlotsFilled,
       FineAt, ThrowFilled

LEMMA PathArrives ==
  ASSUME NEW q, NEW x, NEW e, q = stack', x = ctx', e = exc',
         \A j \in 1 .. Len(q) : Placed(q[j]),
         \A j \in 1 .. Len(q) - 1 : LinkedAt(q[j], q[j + 1]),
         \A j \in 1 .. Len(q) : Innermost(q, j) => FineAt(x[q[j].c], q[j], e),
         \A c \in 1 .. Len(x) : Located(x[c]),
         e = "throw" => Filled(x[q[Len(q)].c], x[q[Len(q)].c].depth)
  PROVE  PathInv'
<1>1. FramesPlaced'
  <2>1. \A f : Placed(f)' <=> Placed(f)
    BY DEF Placed, Remains, Unnamed, Inside, End
  <2> QED BY SMTT(30) DEF FramesPlaced, Placed, Remains, Unnamed, Inside, End
<1>2. Chained'
  BY DEF Chained, LinkedAt, UserCode, Continues, Protecting, Inside, End
<1>3. DepthCounted'
  BY DEF DepthCounted, Innermost, FineAt, Deep
<1>4. PathTraced'
  BY DEF PathTraced, Innermost, FineAt, Traced
<1>5. SlotsFilled'
  BY DEF SlotsFilled, Innermost, FineAt, Written, Filled, UserCode, End, Protecting
<1>6. ThrowFilled'
  BY DEF ThrowFilled, Filled, Cur, Top
<1>7. (\A c \in 1 .. Len(ctx) : Located(ctx[c]))'
  BY DEF Located
<1> QED BY <1>1, <1>2, <1>3, <1>4, <1>5, <1>6, <1>7 DEF PathInv

(* The running frame.                                                      *)
LEMMA TopFine ==
  ASSUME IInv, PathInv, stack # <<>>, exc # "overrun"
  PROVE  /\ Placed(Top) /\ Deep(Cur, Top) /\ Traced(Cur, Top) /\ Located(Cur)
         /\ exc \in {"none", "throw"} \/ UserCode(Top) => Written(Cur, Top)
<1>1. Len(stack) \in 1 .. Len(stack) /\ stack[Len(stack)] = Top /\ Top.c \in 1 .. Len(ctx)
  BY TopFacts, ReplaceFacts DEF IInv, TypeOK
<1>2. FineAt(Cur, Top, exc) /\ Placed(Top) /\ Located(Cur)
  BY <1>1, PathParts DEF Innermost, Cur
<1> QED BY <1>2 DEF FineAt

(* The frame that called the running one, in the same validation.          *)
LEMMA CallerFacts ==
  ASSUME IInv, PathInv, stack # <<>>, Top.fn \notin SessionFn,
         NEW n, n = Len(stack)
  PROVE  /\ n \in Nat /\ n > 1 /\ stack[n - 1] \in Frame /\ stack[n - 1].c = Top.c
         /\ Placed(stack[n - 1]) /\ Continues(stack[n - 1], Top)
         /\ ~UserCode(stack[n - 1])
<1>1. stack \in Seq(Frame) /\ n \in Nat \ {0} /\ stack[n] = Top /\ n \in 1 .. n
  BY TopFacts, ReplaceFacts DEF IInv, TypeOK
<1>2. n # 1
  BY <1>1 DEF IInv, Nested
<1>3. n - 1 \in 1 .. n - 1 /\ n - 1 \in 1 .. n /\ n - 1 + 1 = n /\ n > 1 /\ n - 1 < n
  BY <1>1, <1>2
<1>4. stack[n - 1].c = Top.c /\ stack[n].c \in 1 .. Len(ctx)
  BY <1>1, <1>3 DEF IInv, Nested
<1>5. Placed(stack[n - 1]) /\ LinkedAt(stack[n - 1], stack[n - 1 + 1])
  BY <1>3, PathParts
<1>6. Continues(stack[n - 1], Top)
  BY <1>1, <1>3, <1>5 DEF LinkedAt
<1>7. ~UserCode(stack[n - 1])
  <2>1. UserCode(stack[n - 1]) => Protecting(stack[n - 1]) \/ YieldingTo(n - 1)
    BY DEF UserCode, YieldingTo
  <2>2. Protecting(stack[n - 1]) \/ YieldingTo(n - 1) => stack[n - 1].c < stack[n].c
    BY <1>1, <1>3 DEF IInv, Layered
  <2>3. \A c \in 1 .. Len(ctx) : ~(c < c)
    BY DEF IInv, TypeOK
  <2> QED BY <1>1, <1>4, <2>1, <2>2, <2>3
<1> QED BY <1>1, <1>3, <1>4, <1>5, <1>6, <1>7

(* The innermost frames of the validations that wait.                      *)
LEMMA OuterFacts ==
  ASSUME IInv, PathInv, exc # "overrun",
         NEW j \in 1 .. Len(stack) - 1, stack[j + 1].fn \in SessionFn
  PROVE  /\ stack[j].c \in 1 .. Len(ctx) /\ stack[j].c < Top.c
         /\ UserCode(stack[j])
         /\ \A e : FineAt(ctx[stack[j].c], stack[j], e)
<1>1. PICK n : n = Len(stack) /\ n \in Nat
  BY DEF IInv, TypeOK
<1>2. /\ j \in 1 .. n /\ j + 1 \in 1 .. n /\ n \in 1 .. n /\ j < j + 1 /\ j < n
      /\ j + 1 = n \/ j + 1 < n
  BY <1>1
<1>3. stack[j].c \in 1 .. Len(ctx) /\ stack[j + 1].c \in 1 .. Len(ctx) /\ Len(ctx) \in Nat
  BY <1>1, <1>2 DEF IInv, Nested, TypeOK
<1>4. stack[j].c < stack[j + 1].c /\ (j + 1 < n => stack[j + 1].c <= stack[n].c)
  BY <1>1, <1>2 DEF IInv, Layered
<1>5. stack[j].c < Top.c
  <2>1. stack[n].c \in 1 .. Len(ctx)
    BY <1>1, <1>2 DEF IInv, Nested
  <2> QED BY <1>1, <1>2, <1>3, <1>4, <2>1 DEF Top
<1>6. UserCode(stack[j])
  BY PathParts DEF LinkedAt
<1>7. FineAt(ctx[stack[j].c], stack[j], exc)
  BY <1>1, <1>2, PathParts DEF Innermost
<1> QED BY <1>3, <1>5, <1>6, <1>7 DEF FineAt

(***************************************************************************)
(* The running frame moves on, as f, and its context becomes r.            *)
(***************************************************************************)
Rewritten(r) ==
  /\ Len(ctx') = Len(ctx) /\ ctx'[Top.c] = r
  /\ \A c \in 1 .. Len(ctx) : c # Top.c => ctx'[c] = ctx[c]

MovedTo(f) ==
  /\ Len(stack') = Len(stack) /\ stack'[Len(stack)] = f
  /\ \A j \in 1 .. Len(stack) - 1 : stack'[j] = stack[j]

LEMMA MoveKeepsPath ==
  ASSUME IInv, PathInv, stack # <<>>, exc # "overrun",
         NEW f \in Frame, f.fn = Top.fn, f.c = Top.c, MovedTo(f),
         Placed(f), Moved(Top, f),
         NEW r, Rewritten(r), FineAt(r, f, exc'), Located(r),
         exc' = "throw" => Filled(r, r.depth)
  PROVE  PathInv'
<1>1. PICK n, q, x, e : n = Len(stack) /\ q = stack' /\ x = ctx' /\ e = exc'
  OBVIOUS
<1>2. /\ n \in Nat \ {0} /\ stack \in Seq(Frame) /\ stack[n] = Top /\ n \in 1 .. n
      /\ Top.c \in 1 .. Len(ctx)
  BY <1>1, TopFacts, ReplaceFacts DEF IInv, TypeOK
<1>3. /\ Len(q) = n /\ q[n] = f /\ \A j \in 1 .. n - 1 : q[j] = stack[j]
      /\ Len(x) = Len(ctx) /\ x[Top.c] = r
      /\ \A c \in 1 .. Len(ctx) : c # Top.c => x[c] = ctx[c]
  BY <1>1 DEF MovedTo, Rewritten
<1>4. \A j \in 1 .. n : j = n \/ (j \in 1 .. n - 1 /\ j # n)
  BY <1>2
<1>5. \A j \in 1 .. n : Placed(q[j])
  BY <1>1, <1>3, <1>4, PathParts
<1>6. ASSUME NEW j \in 1 .. n - 1
      PROVE  /\ LinkedAt(q[j], q[j + 1])
             /\ q[j + 1].fn = stack[j + 1].fn
  <2>1. LinkedAt(stack[j], stack[j + 1]) /\ q[j] = stack[j] /\ stack[j] \in Frame
    BY <1>1, <1>2, <1>3, PathParts
  <2>2. CASE j + 1 = n
    <3>1. LinkedAt(stack[j], f)
      BY <1>2, <2>1, <2>2 DEF LinkedAt, Moved
    <3> QED BY <1>2, <1>3, <2>1, <2>2, <3>1
  <2>3. CASE j + 1 # n
    <3>1. j + 1 \in 1 .. n - 1
      BY <1>2, <2>3
    <3> QED BY <1>3, <2>1, <3>1
  <2> QED BY <2>2, <2>3
<1>7. ASSUME NEW j \in 1 .. n, Innermost(q, j)
      PROVE  FineAt(x[q[j].c], q[j], e)
  <2>1. CASE j = n
    BY <1>1, <1>3, <2>1
  <2>2. CASE j # n
    <3>1. j \in 1 .. n - 1 /\ stack[j + 1].fn \in SessionFn
      BY <1>3, <1>4, <1>6, <1>7, <2>2 DEF Innermost
    <3>2. /\ stack[j].c \in 1 .. Len(ctx) /\ stack[j].c < Top.c
          /\ FineAt(ctx[stack[j].c], stack[j], e)
      BY <1>1, <3>1, OuterFacts
    <3>3. stack[j].c # Top.c
      BY <1>2, <3>2
    <3> QED BY <1>3, <3>1, <3>2, <3>3
  <2> QED BY <2>1, <2>2
<1>8. \A c \in 1 .. Len(x) : Located(x[c])
  BY <1>3, PathParts
<1>9. e = "throw" => Filled(x[q[Len(q)].c], x[q[Len(q)].c].depth)
  BY <1>1, <1>3
<1> QED BY <1>1, <1>3, <1>5, <1>6, <1>7, <1>8, <1>9, PathArrives

(* The path and what hangs on it stay.                                     *)
SamePath(r, s) ==
  s.path = r.path /\ s.depth = r.depth /\ s.leaks = r.leaks /\ s.errors = r.errors

LEMMA SamePathFacts ==
  ASSUME NEW r, NEW s, SamePath(r, s), NEW f, NEW g, g.loc = f.loc
  PROVE  /\ Deep(r, f) => Deep(s, g)
         /\ Traced(r, f) => Traced(s, g)
         /\ Written(r, f) => Written(s, g)
         /\ Located(r) => Located(s)
         /\ \A n : Filled(r, n) => Filled(s, n)
BY DEF SamePath, Deep, Traced, Written, Filled, End, Located

LEMMA StayKeepsPath ==
  ASSUME IInv, PathInv, stack # <<>>, exc # "overrun",
         NEW f \in Frame, f.fn = Top.fn, f.c = Top.c, f.loc = Top.loc, MovedTo(f),
         Placed(f), Moved(Top, f),
         NEW r, Rewritten(r), SamePath(Cur, r),
         exc' \in {"none", "throw"} \/ UserCode(f)
           => exc \in {"none", "throw"} \/ UserCode(Top),
         exc' = "throw" => Filled(Cur, Cur.depth)
  PROVE  PathInv'
<1>1. /\ Deep(Cur, Top) /\ Traced(Cur, Top) /\ Located(Cur)
      /\ exc \in {"none", "throw"} \/ UserCode(Top) => Written(Cur, Top)
  BY TopFine
<1>2. /\ Deep(r, f) /\ Traced(r, f) /\ Located(r)
      /\ Written(Cur, Top) => Written(r, f)
      /\ \A n : Filled(Cur, n) => Filled(r, n)
  BY <1>1, SamePathFacts
<1>3. FineAt(r, f, exc')
  BY <1>1, <1>2 DEF FineAt
<1>4. exc' = "throw" => Filled(r, r.depth)
  BY <1>2 DEF SamePath
<1> QED BY <1>2, <1>3, <1>4, MoveKeepsPath

(* Nothing but the exit under way changes.                                 *)
LEMMA MovedSelf == \A f : Moved(f, f)
BY DEF Moved

LEMMA ContextStays ==
  ASSUME UNCHANGED ctx
  PROVE  Rewritten(Cur) /\ SamePath(Cur, Cur)
BY DEF Rewritten, SamePath, Cur

LEMMA ExitKeepsPath ==
  ASSUME IInv, PathInv, stack # <<>>, exc # "overrun", UNCHANGED <<stack, ctx>>,
         exc' \in {"none", "throw"} => exc \in {"none", "throw"} \/ UserCode(Top),
         exc' = "throw" => Filled(Cur, Cur.depth)
  PROVE  PathInv'
<1>1. Top \in Frame /\ Placed(Top) /\ MovedTo(Top)
  BY TopFacts, TopFine DEF MovedTo, Top
<1> QED BY <1>1, MovedSelf, ContextStays, StayKeepsPath

(***************************************************************************)
(* The running frame, now f, calls g for its own validation.               *)
(***************************************************************************)
LEMMA CallKeepsPath ==
  ASSUME IInv, PathInv, Running,
         NEW f \in Frame, f.fn = Top.fn, f.c = Top.c, Placed(f), Moved(Top, f),
         NEW g \in Frame, g.fn \notin SessionFn, g.c = Top.c, g.loc = f.loc,
         f.loc = Top.loc, Placed(g), Continues(f, g), Pushed(f, g),
         NEW r, Rewritten(r), SamePath(Cur, r),
         UNCHANGED exc
  PROVE  PathInv'
<1>0. stack # <<>> /\ exc = "none"
  BY DEF Running
<1>1. PICK n, q, x, e : n = Len(stack) /\ q = stack' /\ x = ctx' /\ e = exc'
  OBVIOUS
<1>2. /\ n \in Nat \ {0} /\ stack \in Seq(Frame) /\ stack[n] = Top /\ n \in 1 .. n
      /\ Top.c \in 1 .. Len(ctx) /\ e = "none"
  BY <1>0, <1>1, TopFacts, ReplaceFacts DEF IInv, TypeOK
<1>3. /\ Len(q) = n + 1 /\ q[n + 1] = g /\ q[n] = f
      /\ \A j \in 1 .. n - 1 : q[j] = stack[j]
      /\ Len(x) = Len(ctx) /\ x[Top.c] = r
      /\ \A c \in 1 .. Len(ctx) : c # Top.c => x[c] = ctx[c]
  <2>1. /\ Replace(f) \in Seq(Frame) /\ Len(Replace(f)) = n
        /\ Replace(f)[n] = f /\ \A j \in 1 .. n - 1 : Replace(f)[j] = stack[j]
    BY <1>0, <1>1, <1>2, ReplaceFacts
  <2>2. \A j \in 1 .. n - 1 : j \in 1 .. n
    BY <1>2
  <2>3. /\ Len(q) = n + 1 /\ q[n + 1] = g /\ \A j \in 1 .. n : q[j] = Replace(f)[j]
    BY <1>1, <2>1, PushFacts DEF Pushed
  <2> QED BY <1>1, <1>2, <2>1, <2>2, <2>3 DEF Rewritten
<1>4. \A j \in 1 .. n + 1 :
        j = n + 1 \/ (j = n /\ j # n + 1) \/ (j \in 1 .. n - 1 /\ j # n /\ j # n + 1)
  BY <1>2
<1>5. \A j \in 1 .. n - 1 : j \in 1 .. n /\ (j + 1 = n \/ j + 1 \in 1 .. n - 1)
  BY <1>2
<1>6. \A j \in 1 .. n + 1 : Placed(q[j])
  BY <1>1, <1>3, <1>4, <1>5, PathParts
<1>7. ASSUME NEW j \in 1 .. n - 1
      PROVE  /\ LinkedAt(q[j], q[j + 1])
             /\ q[j + 1].fn = stack[j + 1].fn
  <2>1. LinkedAt(stack[j], stack[j + 1]) /\ q[j] = stack[j] /\ stack[j] \in Frame
    BY <1>1, <1>2, <1>3, <1>5, PathParts
  <2>2. CASE j + 1 = n
    <3>1. LinkedAt(stack[j], f)
      BY <1>2, <2>1, <2>2 DEF LinkedAt, Moved
    <3> QED BY <1>2, <1>3, <2>1, <2>2, <3>1
  <2>3. CASE j + 1 \in 1 .. n - 1
    BY <1>3, <2>1, <2>3
  <2> QED BY <1>5, <2>2, <2>3
<1>8. \A j \in 1 .. n + 1 - 1 : LinkedAt(q[j], q[j + 1])
  <2>1. LinkedAt(f, g)
    BY DEF LinkedAt
  <2>2. \A j \in 1 .. n + 1 - 1 : j = n \/ j \in 1 .. n - 1
    BY <1>2
  <2> QED BY <1>3, <1>7, <2>1, <2>2
<1>9. FineAt(r, g, e) /\ Located(r)
  <2>1. Deep(Cur, Top) /\ Traced(Cur, Top) /\ Located(Cur) /\ Written(Cur, Top)
    BY <1>0, TopFine
  <2>2. Deep(r, g) /\ Traced(r, g) /\ Written(r, g) /\ Located(r)
    BY <2>1, SamePathFacts
  <2> QED BY <2>2 DEF FineAt
<1>10. ASSUME NEW j \in 1 .. n + 1, Innermost(q, j)
       PROVE  FineAt(x[q[j].c], q[j], e)
  <2>1. CASE j = n + 1
    BY <1>3, <1>9, <2>1
  <2>2. CASE j = n
    BY <1>2, <1>3, <1>10, <2>2 DEF Innermost
  <2>3. CASE j \in 1 .. n - 1 /\ j # n + 1
    <3>1. stack[j + 1].fn \in SessionFn
      BY <1>3, <1>7, <1>10, <2>3 DEF Innermost
    <3>2. /\ stack[j].c \in 1 .. Len(ctx) /\ stack[j].c < Top.c
          /\ FineAt(ctx[stack[j].c], stack[j], e)
      BY <1>0, <1>1, <2>3, <3>1, OuterFacts
    <3>3. stack[j].c # Top.c
      BY <1>2, <3>2
    <3> QED BY <1>3, <2>3, <3>2, <3>3
  <2> QED BY <1>4, <2>1, <2>2, <2>3
<1>11. \A c \in 1 .. Len(x) : Located(x[c])
  BY <1>3, <1>9, PathParts
<1> QED BY <1>1, <1>2, <1>3, <1>6, <1>8, <1>10, <1>11, PathArrives, SMTT(30)

(***************************************************************************)
(* The running frame ends, and its caller goes on.  The levels it has not  *)
(* popped are added to leaks.                                              *)
(***************************************************************************)
Leaving(r) ==
  /\ r.path = Cur.path /\ r.depth = Cur.depth /\ r.errors = Cur.errors
  /\ r.leaks = Cur.leaks + (Len(Top.loc) - Len(stack[Len(stack) - 1].loc))

LEMMA ReturnKeepsPath ==
  ASSUME IInv, PathInv, stack # <<>>, Top.fn \notin SessionFn, exc # "overrun",
         Return, NEW r, Rewritten(r), Leaving(r),
         exc = "none" => ~Inside(Top),
         exc' \in {"none", "throw"} => exc \in {"none", "throw"},
         exc' = "throw" => exc = "throw"
  PROVE  PathInv'
<1>1. PICK n, q, x, e, b : /\ n = Len(stack) /\ q = stack' /\ x = ctx' /\ e = exc'
                           /\ b = stack[n - 1]
  OBVIOUS
<1>2. /\ stack \in Seq(Frame) /\ stack[n] = Top /\ Top \in Frame
      /\ Top.c \in 1 .. Len(ctx) /\ Cur \in Context
  BY <1>1, TopFacts DEF IInv, TypeOK
<1>3. /\ n \in Nat /\ n > 1 /\ b \in Frame /\ b.c = Top.c
      /\ Placed(b) /\ Continues(b, Top) /\ ~UserCode(b)
  BY <1>1, CallerFacts
<1>4. /\ Len(q) = n - 1 /\ \A j \in 1 .. n - 1 : q[j] = stack[j]
      /\ Len(x) = Len(ctx) /\ x[Top.c] = r
      /\ \A c \in 1 .. Len(ctx) : c # Top.c => x[c] = ctx[c]
  BY <1>1, <1>2, BelowFacts DEF Return, Rewritten
<1>5. /\ Placed(Top) /\ Deep(Cur, Top) /\ Traced(Cur, Top) /\ Located(Cur)
      /\ exc \in {"none", "throw"} => Written(Cur, Top)
  BY TopFine
<1>6. PICK l, k, d, z : /\ l = Len(b.loc) /\ k = Len(Top.loc)
                        /\ d = Cur.depth /\ z = Cur.leaks
  OBVIOUS
<1>7. /\ l \in Nat /\ l # 0 /\ k \in Nat /\ d \in Int /\ z \in Int /\ z >= 0 /\ d = k - 1 + z
      /\ k = l \/ k = l + 1
      /\ ~Inside(Top) => k = l
      /\ r.depth = d /\ r.leaks = z + (k - l) /\ r.path = Cur.path
  <2>1. l \in Nat /\ l # 0 /\ k \in Nat
    BY <1>2, <1>3, <1>6, LocFacts DEF Placed, Frame
  <2>2. k = l + (IF Inside(Top) THEN 1 ELSE 0)
    BY <1>3, <1>6 DEF Continues
  <2>3. (k = l \/ k = l + 1) /\ (~Inside(Top) => k = l)
    BY <2>1, <2>2
  <2>4. d \in Int /\ z \in Int /\ z >= 0 /\ d = k - 1 + z
    BY <1>2, <1>5, <1>6 DEF Deep, Context
  <2>5. r.depth = d /\ r.leaks = z + (k - l) /\ r.path = Cur.path
    BY <1>1, <1>6 DEF Leaving
  <2> QED BY <2>1, <2>3, <2>4, <2>5
<1>8. Deep(r, b)
  <2>1. z + (k - l) >= 0 /\ d = l - 1 + (z + (k - l))
    BY <1>7
  <2> QED BY <1>6, <1>7, <2>1 DEF Deep
<1>9. Traced(r, b)
  <2>1. SUFFICES ASSUME r.leaks = 0, NEW i \in 1 .. l, b.loc[i] # Nil
                 PROVE  i <= MaxDepth /\ r.path[i - 1] = b.loc[i]
    BY <1>6 DEF Traced
  <2>2. z = 0 /\ k = l
    BY <1>7, <2>1
  <2>3. Top.loc[i] = b.loc[i]
    BY <1>3, <1>6, <2>1 DEF Continues
  <2> QED BY <1>5, <1>6, <1>7, <2>1, <2>2, <2>3 DEF Traced
<1>10. ASSUME e \in {"none", "throw"}
       PROVE  Written(r, b)
  <2>1. Written(Cur, Top) /\ exc \in {"none", "throw"}
    BY <1>1, <1>5, <1>10
  <2>2. Filled(r, r.depth - 1)
    BY <1>6, <1>7, <2>1 DEF Written, Filled
  <2>3. ASSUME End(b) # Nil
        PROVE  Filled(Cur, Cur.depth)
    <3>1. CASE exc = "throw"
      BY <3>1, PathParts
    <3>2. CASE exc = "none"
      <4>1. k = l /\ l \in 1 .. l
        BY <1>7, <3>2
      <4>2. End(Top) # Nil
        BY <1>3, <1>6, <2>3, <4>1 DEF Continues, End
      <4> QED BY <2>1, <4>2 DEF Written
    <3> QED BY <2>1, <3>1, <3>2
  <2> QED BY <1>6, <1>7, <2>2, <2>3 DEF Written, Filled
<1>11. FineAt(r, b, e)
  BY <1>3, <1>8, <1>9, <1>10 DEF FineAt
<1>12. Located(r)
  BY <1>5 DEF Located, Leaving
<1>13. /\ \A j \in 1 .. n - 1 : j \in 1 .. n /\ (j = n - 1 \/ (j \in 1 .. n - 2 /\ j # n - 1))
       /\ \A j \in 1 .. n - 2 : j \in 1 .. n - 1 /\ j + 1 \in 1 .. n - 1
       /\ n - 1 - 1 = n - 2 /\ n - 1 \in 1 .. n - 1
  BY <1>3
<1>14. \A j \in 1 .. n - 1 : Placed(q[j])
  BY <1>1, <1>4, <1>13, PathParts
<1>15. \A j \in 1 .. n - 2 : LinkedAt(q[j], q[j + 1]) /\ q[j + 1] = stack[j + 1]
  BY <1>1, <1>4, <1>13, PathParts
<1>16. ASSUME NEW j \in 1 .. n - 1, Innermost(q, j)
       PROVE  FineAt(x[q[j].c], q[j], e)
  <2>1. CASE j = n - 1
    BY <1>1, <1>3, <1>4, <1>11, <2>1
  <2>2. CASE j \in 1 .. n - 2 /\ j # n - 1
    <3>1. stack[j + 1].fn \in SessionFn
      BY <1>4, <1>15, <1>16, <2>2 DEF Innermost
    <3>2. /\ stack[j].c \in 1 .. Len(ctx) /\ stack[j].c < Top.c
          /\ FineAt(ctx[stack[j].c], stack[j], e)
      BY <1>1, <3>1, OuterFacts
    <3>3. stack[j].c # Top.c
      BY <1>2, <3>2
    <3> QED BY <1>4, <3>2, <3>3
  <2> QED BY <1>13, <2>1, <2>2
<1>17. \A c \in 1 .. Len(x) : Located(x[c])
  BY <1>4, <1>12, PathParts
<1>18. e = "throw" => Filled(x[q[Len(q)].c], x[q[Len(q)].c].depth)
  <2>1. e = "throw" => Filled(r, r.depth)
    BY <1>1, <1>6, <1>7, PathParts DEF Filled
  <2> QED BY <1>1, <1>3, <1>4, <1>13, <2>1
<1> QED BY <1>1, <1>4, <1>13, <1>14, <1>15, <1>16, <1>17, <1>18, PathArrives

(***************************************************************************)
(* A validation opens, above f if user code makes it, and one closes.      *)
(***************************************************************************)
LEMMA NewFine ==
  ASSUME NEW call \in Call, NEW c,
         NEW g, g = NewFrame(Do(call.fn, call.cs, call.d, 0), c, <<Root>>),
         NEW r, r = NewContext(call)
  PROVE  /\ g.fn \in SessionFn /\ g.c = c /\ Placed(g)
         /\ \A e : FineAt(r, g, e)
         /\ Located(r)
<1>1. /\ g.fn \in SessionFn /\ g.c = c /\ g.loc = <<Root>> /\ g.todo = <<>> /\ g.pc = "enter"
  BY DEF NewFrame, Do, Call, SessionFn
<1>2. /\ Len(g.loc) = 1 /\ g.loc # <<>> /\ g.loc[1] = Root /\ Root # Nil
  BY <1>1 DEF Root, Nil
<1>3. /\ r.depth = 0 /\ r.leaks = 0 /\ r.errors = <<>>
      /\ r.path = [j \in 0 .. MaxDepth - 1 |-> IF j = 0 THEN Root ELSE Nil]
  BY DEF NewContext
<1>4. 0 < MaxDepth /\ 1 <= MaxDepth /\ r.path[0] = Root
  BY <1>3, MaxDepthAssumption
<1>5. Placed(g)
  <2>1. Remains(g.fn, g.todo)
    BY <1>1 DEF Remains
  <2>2. ~Inside(g)
    BY <1>1 DEF Inside
  <2>4. \A k \in 1 .. 1 - 1 : FALSE
    OBVIOUS
  <2>3. \A k \in 1 .. Len(g.loc) - 1 : g.loc[k] # Nil
    BY <1>2, <2>4
  <2> QED BY <1>2, <2>1, <2>2, <2>3 DEF Placed, End
<1>6. Deep(r, g)
  BY <1>2, <1>3 DEF Deep
<1>7. Traced(r, g)
  <2>2. \A k \in 1 .. 1 : k = 1 /\ k - 1 = 0
    OBVIOUS
  <2>1. \A k \in 1 .. Len(g.loc) : k = 1 /\ k - 1 = 0
    BY <1>2, <2>2
  <2> QED BY <1>2, <1>4, <2>1 DEF Traced
<1>8. Written(r, g)
  <2>1. \A j \in 0 .. 0 : j = 0
    OBVIOUS
  <2>2. Filled(r, 0)
    BY <1>2, <1>4, <2>1 DEF Filled
  <2>3. Filled(r, 0 - 1)
    BY DEF Filled
  <2> QED BY <1>3, <2>2, <2>3 DEF Written
<1>9. Located(r)
  BY <1>3 DEF Located
<1> QED BY <1>1, <1>5, <1>6, <1>7, <1>8, <1>9 DEF FineAt

LEMMA OpenKeepsPath ==
  ASSUME IInv, PathInv, stack # <<>> => exc = "none", exc' # "throw",
         NEW base \in Seq(Frame), Len(base) = Len(stack),
         \A j \in 1 .. Len(stack) - 1 : base[j] = stack[j],
         NEW f, stack # <<>> =>
           /\ f \in Frame /\ base[Len(stack)] = f /\ f.fn = Top.fn /\ f.c = Top.c
           /\ f.loc = Top.loc /\ Placed(f) /\ Moved(Top, f) /\ UserCode(f),
         NEW call \in Call, OpenSession(base, call)
  PROVE  PathInv'
<1>1. PICK n, m, q, x, e, g, r :
        /\ e = exc' /\ n = Len(stack) /\ m = Len(ctx) /\ q = stack' /\ x = ctx'
        /\ g = NewFrame(Do(call.fn, call.cs, call.d, 0), m + 1, <<Root>>)
        /\ r = NewContext(call)
  OBVIOUS
<1>2. /\ n \in Nat /\ stack \in Seq(Frame) /\ m \in Nat /\ ctx \in Seq(Context)
  BY <1>1 DEF IInv, TypeOK
<1>3. /\ g.fn \in SessionFn /\ g.c = m + 1 /\ Placed(g)
      /\ FineAt(r, g, e) /\ Located(r)
  BY <1>1, NewFine
<1>4. /\ q = Append(base, g) /\ x = Append(ctx, r)
  BY <1>1 DEF OpenSession
<1>5. /\ Len(q) = n + 1 /\ q[n + 1] = g /\ \A j \in 1 .. n : q[j] = base[j]
      /\ Len(x) = m + 1 /\ x[m + 1] = r /\ \A c \in 1 .. m : x[c] = ctx[c]
  <2>1. /\ Len(q) = Len(base) + 1 /\ q[Len(base) + 1] = g
        /\ \A j \in 1 .. Len(base) : q[j] = base[j]
    BY <1>4
  <2>2. /\ Len(x) = m + 1 /\ x[m + 1] = r /\ \A c \in 1 .. m : x[c] = ctx[c]
    BY <1>1, <1>2, <1>4
  <2> QED BY <1>1, <2>1, <2>2
<1>6. /\ \A j \in 1 .. n + 1 :
           \/ j = n + 1
           \/ j = n /\ n # 0 /\ j # n + 1
           \/ j \in 1 .. n - 1 /\ j # n /\ j # n + 1 /\ n # 0
      /\ \A j \in 1 .. n - 1 : j \in 1 .. n /\ n # 0 /\ (j + 1 = n \/ j + 1 \in 1 .. n - 1)
      /\ n # 0 => n \in 1 .. n
  BY <1>2
<1>7. n # 0 => /\ stack # <<>> /\ Top \in Frame /\ stack[n] = Top /\ Top.c = m /\ m \in 1 .. m
               /\ q[n] = f
  <2>1. n # 0 => stack # <<>>
    BY <1>1
  <2> QED BY <1>1, <1>5, <1>6, <2>1, TopFacts
<1>8. \A j \in 1 .. n - 1 : q[j] = stack[j]
  BY <1>1, <1>5, <1>6
<1>9. \A j \in 1 .. n + 1 : Placed(q[j])
  BY <1>1, <1>3, <1>5, <1>6, <1>7, <1>8, PathParts
<1>10. ASSUME NEW j \in 1 .. n - 1
       PROVE  LinkedAt(q[j], q[j + 1]) /\ q[j + 1].fn = stack[j + 1].fn
  <2>1. LinkedAt(stack[j], stack[j + 1]) /\ q[j] = stack[j] /\ stack[j] \in Frame
    BY <1>1, <1>2, <1>6, <1>8, PathParts
  <2>2. CASE j + 1 = n
    <3>1. LinkedAt(stack[j], f)
      BY <1>6, <1>7, <2>1, <2>2 DEF LinkedAt, Moved
    <3> QED BY <1>6, <1>7, <2>1, <2>2, <3>1
  <2>3. CASE j + 1 \in 1 .. n - 1
    BY <1>8, <2>1, <2>3
  <2> QED BY <1>6, <2>2, <2>3
<1>11. ASSUME NEW j \in 1 .. Len(q) - 1
       PROVE  LinkedAt(q[j], q[j + 1])
  <2>1. j \in 1 .. n - 1 \/ (j = n /\ n # 0)
    BY <1>2, <1>5
  <2>2. CASE j = n /\ n # 0
    BY <1>3, <1>5, <1>7, <2>2 DEF LinkedAt
  <2> QED BY <1>10, <2>1, <2>2
<1>12. ASSUME NEW j \in 1 .. n + 1, Innermost(q, j)
       PROVE  FineAt(x[q[j].c], q[j], e)
  <2>1. CASE j = n + 1
    BY <1>3, <1>5, <2>1
  <2>2. CASE j = n /\ n # 0
    <3>1. Deep(Cur, Top) /\ Traced(Cur, Top) /\ Written(Cur, Top)
      BY <1>7, <2>2, TopFine
    <3>2. SamePath(Cur, Cur)
      BY DEF SamePath
    <3>3. Deep(Cur, f) /\ Traced(Cur, f) /\ Written(Cur, f)
      BY <1>7, <2>2, <3>1, <3>2, SamePathFacts
    <3>4. x[q[n].c] = Cur
      BY <1>5, <1>7, <2>2 DEF Cur
    <3> QED BY <1>7, <2>2, <3>3, <3>4 DEF FineAt
  <2>3. CASE j \in 1 .. n - 1 /\ j # n /\ j # n + 1 /\ n # 0
    <3>1. stack[j + 1].fn \in SessionFn
      BY <1>5, <1>10, <1>12, <2>3 DEF Innermost
    <3>2. /\ stack[j].c \in 1 .. Len(ctx)
          /\ FineAt(ctx[stack[j].c], stack[j], e)
      BY <1>1, <1>7, <2>3, <3>1, OuterFacts
    <3> QED BY <1>1, <1>5, <1>8, <2>3, <3>2
  <2> QED BY <1>6, <2>1, <2>2, <2>3
<1>13. \A c \in 1 .. m + 1 : Located(x[c])
  <2>1. \A c \in 1 .. m + 1 : c = m + 1 \/ c \in 1 .. m
    BY <1>2
  <2> QED BY <1>1, <1>3, <1>5, <2>1, PathParts
<1>14. \A j \in 1 .. Len(q) : Placed(q[j])
  BY <1>5, <1>9
<1>15. \A j \in 1 .. Len(q) : Innermost(q, j) => FineAt(x[q[j].c], q[j], e)
  BY <1>5, <1>12
<1>16. \A c \in 1 .. Len(x) : Located(x[c])
  BY <1>5, <1>13
<1> QED BY <1>1, <1>11, <1>14, <1>15, <1>16, PathArrives

LEMMA CloseKeepsPath ==
  ASSUME IInv, PathInv, stack # <<>>, exc # "overrun", Top.fn \in SessionFn,
         NEW outcome, CloseSession(outcome), exc' # "throw"
  PROVE  PathInv'
<1>1. PICK n, m, q, x, e :
        /\ n = Len(stack) /\ m = Len(ctx) /\ q = stack' /\ x = ctx' /\ e = exc'
  OBVIOUS
<1>2. /\ n \in Nat \ {0} /\ stack \in Seq(Frame) /\ stack[n] = Top
      /\ m \in Nat /\ ctx \in Seq(Context) /\ Top.c = m /\ m \in 1 .. m
  BY <1>1, TopFacts, ReplaceFacts DEF IInv, TypeOK
<1>3. /\ Len(q) = n - 1 /\ \A j \in 1 .. n - 1 : q[j] = stack[j]
      /\ Len(x) = m - 1 /\ \A c \in 1 .. m - 1 : x[c] = ctx[c]
  <2>1. ctx # <<>>
    BY <1>1, <1>2
  <2> QED BY <1>1, <1>2, <2>1, BelowFacts, PopFacts DEF CloseSession
<1>4. /\ \A j \in 1 .. n - 1 : j \in 1 .. n /\ (j = n - 1 \/ (j \in 1 .. n - 2 /\ j # n - 1))
      /\ \A j \in 1 .. n - 2 : j \in 1 .. n - 1 /\ j + 1 \in 1 .. n - 1
      /\ n - 1 - 1 = n - 2 /\ n - 1 + 1 = n
  BY <1>2
<1>5. \A j \in 1 .. n - 1 : Placed(q[j])
  BY <1>1, <1>3, <1>4, PathParts
<1>6. \A j \in 1 .. n - 2 : LinkedAt(q[j], q[j + 1]) /\ q[j + 1] = stack[j + 1]
  BY <1>1, <1>3, <1>4, PathParts
<1>7. ASSUME NEW j \in 1 .. n - 1, Innermost(q, j)
      PROVE  FineAt(x[q[j].c], q[j], e)
  <2>1. stack[j + 1].fn \in SessionFn
    <3>1. CASE j = n - 1
      BY <1>2, <1>4, <3>1
    <3>2. CASE j \in 1 .. n - 2 /\ j # n - 1
      BY <1>3, <1>6, <1>7, <3>2 DEF Innermost
    <3> QED BY <1>4, <3>1, <3>2
  <2>2. /\ stack[j].c \in 1 .. Len(ctx) /\ stack[j].c < Top.c
        /\ FineAt(ctx[stack[j].c], stack[j], e)
    BY <1>1, <2>1, OuterFacts
  <2>3. stack[j].c \in 1 .. m - 1
    BY <1>1, <1>2, <2>2
  <2> QED BY <1>3, <2>2, <2>3
<1>8. \A c \in 1 .. m - 1 : Located(x[c])
  <2>1. \A c \in 1 .. m - 1 : c \in 1 .. m
    BY <1>2
  <2> QED BY <1>1, <1>3, <2>1, PathParts
<1> QED BY <1>1, <1>3, <1>4, <1>5, <1>6, <1>7, <1>8, PathArrives

(***************************************************************************)
(* Every action keeps PathInv.                                             *)
(***************************************************************************)
LEMMA GotoMoves ==
  ASSUME IInv, stack # <<>>, NEW f \in Frame, Goto(f)
  PROVE  MovedTo(f)
BY ReplaceFacts DEF IInv, TypeOK, Goto, MovedTo

LEMMA ContextSet ==
  ASSUME IInv, stack # <<>>, NEW r \in Context, SetContext(r)
  PROVE  Rewritten(r)
BY SetContextFacts DEF Rewritten

LEMMA DecidersAreFlat ==
  /\ DecidingFn \cap (LoopFn \cup {"validate_object_property"}) = {}
  /\ SessionFn \cap (LoopFn \cup {"validate_object_property"}) = {}
  /\ "is_valid" \notin LoopFn \cup {"validate_object_property"}
BY DEF DecidingFn, Combinator, LoopFn, ArrayFn, SessionFn

(* A function that decides ends, with a plan of plain steps.               *)
LEMMA ConcludeKeepsPath ==
  ASSUME IInv, PathInv, stack # <<>>, Top.fn \in DecidingFn,
         NEW plan \in Seq(Plain), Conclude(Top, plan),
         NEW r, Rewritten(r), SamePath(Cur, r),
         exc = "none" \/ (exc # "overrun" /\ UserCode(Top)), exc' = "none"
  PROVE  PathInv'
<1>1. PICK f : f = [Top EXCEPT !.pc = "plan", !.todo = plan]
  OBVIOUS
<1>2. Top \in Frame /\ exc # "overrun" /\ Placed(Top)
  BY TopFacts, TopFine
<1>3. Top.fn \notin LoopFn \cup {"validate_object_property"}
  BY DecidersAreFlat
<1>4. plan \in Seq(Step) /\ Remains(Top.fn, plan)
  BY <1>3, PlainWhole
<1>5. /\ f \in Frame /\ f.fn = Top.fn /\ f.c = Top.c /\ f.loc = Top.loc /\ f.todo = plan
  BY <1>1, <1>2, <1>4 DEF Frame, Label
<1>6. Placed(f) /\ Moved(Top, f)
  BY <1>2, <1>3, <1>4, <1>5, DecideFacts
<1>7. MovedTo(f)
  BY <1>1, <1>5, GotoMoves DEF Conclude
<1> QED BY <1>2, <1>5, <1>6, <1>7, StayKeepsPath

(* It goes on deciding.                                                    *)
LEMMA DecideKeepsPath ==
  ASSUME IInv, PathInv, Running, Top.fn \in DecidingFn,
         NEW f \in Frame, f.fn = Top.fn, f.c = Top.c, f.loc = Top.loc, f.todo = Top.todo,
         Goto(f), UNCHANGED ctx, exc' # "throw"
  PROVE  PathInv'
<1>1. stack # <<>> /\ exc = "none"
  BY DEF Running
<1>2. Top \in Frame /\ Placed(Top)
  BY <1>1, TopFacts, TopFine
<1>3. Top.fn \notin LoopFn \cup {"validate_object_property"}
  BY DecidersAreFlat
<1>4. Placed(f) /\ Moved(Top, f)
  BY <1>2, <1>3, DecideFacts DEF Placed
<1> QED BY <1>1, <1>4, GotoMoves, ContextStays, StayKeepsPath

LEMMA EnterIsValidKeepsPath ==
  ASSUME IInv, PathInv, Running,
         Top.fn \notin LoopFn \cup {"validate_object_property"},
         NEW f \in Frame, f.fn = Top.fn, f.c = Top.c, f.loc = Top.loc, f.todo = Top.todo,
         NEW s \in Schema, NEW d \in Data, EnterIsValid(f, s, d)
  PROVE  PathInv'
<1>1. stack # <<>> /\ exc = "none"
  BY DEF Running
<1>2. Top \in Frame /\ Placed(Top) /\ Cur \in Context
  BY <1>1, TopFacts, TopFine
<1>3. Placed(f) /\ Moved(Top, f) /\ End(f) # Nil
  BY <1>2, DecideFacts DEF Placed
<1>4. PICK h, g, r : /\ h = NewFrame(Do("is_valid", s, d, 0), f.c, f.loc)
                     /\ g = [h EXCEPT !.saved = Cur.flag]
                     /\ r = [Cur EXCEPT !.flag = TRUE]
  OBVIOUS
<1>5. h \in Frame
  <2>1. PICK c \in Nat, loc \in Seq(Segment), fn \in FnName :
          c = f.c /\ loc = f.loc /\ fn = "is_valid"
    BY DEF FnName, OtherFn, Frame
  <2>2. NewFrame(Do(fn, s, d, 0), c, loc) \in Frame
    BY NewFrameType
  <2> QED BY <1>4, <2>1, <2>2
<1>6. h.fn = "is_valid" /\ h.c = f.c /\ h.loc = f.loc /\ h.todo = <<>> /\ h.pc = "enter"
  BY <1>4 DEF NewFrame, Do
<1>7. /\ g \in Frame /\ g.fn = "is_valid" /\ g.c = Top.c /\ g.loc = f.loc
      /\ g.todo = <<>> /\ g.pc = "enter"
  <2>1. Cur.flag \in BOOLEAN
    BY <1>2 DEF Context
  <2> QED BY <1>4, <1>5, <1>6, <2>1 DEF Frame
<1>8. ~Inside(g)
  BY <1>7 DEF Inside
<1>9. Placed(g)
  BY <1>3, <1>7, <1>8, DecidersAreFlat DEF Placed, End, Remains
<1>10. Continues(f, g)
  <2>1. Len(f.loc) = Len(f.loc) + 0
    BY LocFacts
  <2> QED BY <1>7, <1>8, <2>1 DEF Continues
<1>11. /\ r \in Context /\ SamePath(Cur, r) /\ SetContext(r)
  BY <1>2, <1>4 DEF Context, SamePath, EnterIsValid
<1>12. Pushed(f, g) /\ UNCHANGED exc
  BY <1>4 DEF EnterIsValid, Pushed
<1> QED BY <1>1, <1>3, <1>7, <1>9, <1>10, <1>11, <1>12, ContextSet, CallKeepsPath
        DEF SessionFn

(* A function that has pushed no level ends.                               *)
LEMMA LeaveFlat ==
  ASSUME IInv, PathInv, stack # <<>>, Top.fn \notin SessionFn, ~Inside(Top),
         exc # "overrun", NEW r, SamePath(Cur, r)
  PROVE  Leaving(r)
<1>1. PICK n, b : n = Len(stack) /\ b = stack[n - 1]
  OBVIOUS
<1>2. n \in Nat /\ n > 1 /\ b \in Frame /\ Continues(b, Top)
  BY <1>1, CallerFacts
<1>3. Top \in Frame /\ Cur.leaks \in Int
  BY TopFacts DEF Context
<1>4. Len(b.loc) \in Nat /\ Len(Top.loc) = Len(b.loc) + 0
  BY <1>2, <1>3, LocFacts DEF Continues
<1>5. Cur.leaks = Cur.leaks + (Len(Top.loc) - Len(b.loc))
  <2>1. \A x \in Int, l \in Nat : x = x + (l + 0 - l)
    OBVIOUS
  <2> QED BY <1>3, <1>4, <2>1
<1> QED BY <1>1, <1>5 DEF Leaving, SamePath

LEMMA IsValidEnds ==
  ASSUME IInv, PathInv, stack # <<>>, exc # "overrun", Top.fn = "is_valid",
         IsValidEnsure, Return,
         exc' \in {"none", "throw"} => exc \in {"none", "throw"}, exc' # "throw"
  PROVE  PathInv'
<1>1. PICK r : r = [Cur EXCEPT !.flag = Top.saved]
  OBVIOUS
<1>2. r \in Context /\ SamePath(Cur, r) /\ Rewritten(r)
  BY <1>1, TopFacts, ContextSet DEF Context, Frame, IsValidEnsure, SamePath
<1>3. Top.fn \notin SessionFn /\ ~Inside(Top)
  BY DecidersAreFlat DEF SessionFn, Inside
<1> QED BY <1>2, <1>3, LeaveFlat, ReturnKeepsPath

LEMMA SessionStepsPath ==
  ASSUME IInv, PathInv, SessionStep
  PROVE  PathInv'
<1>1. CASE Start
  <2>1. PICK call \in Calls : OpenSession(<<>>, call)
    BY <1>1 DEF Start
  <2>2. call \in Call /\ stack = <<>> /\ exc' = exc
    BY <1>1, CallsAssumption DEF Start
  <2>3. exc' # "throw"
    BY <2>2 DEF IInv, ThrowFlagged
  <2>6. <<>> \in Seq(Frame)
    OBVIOUS
  <2>4. PICK base \in Seq(Frame) : base = <<>>
    BY <2>6
  <2>5. Len(base) = Len(stack) /\ \A j \in 1 .. Len(stack) - 1 : base[j] = stack[j]
    BY <2>2, <2>4
  <2> QED BY <2>1, <2>2, <2>3, <2>4, <2>5, OpenKeepsPath
<1>2. CASE ValidateReturns
  BY <1>2, CloseKeepsPath DEF ValidateReturns, At, Running, SessionFn
<1>3. CASE ValidReturns
  BY <1>3, CloseKeepsPath DEF ValidReturns, At, Running, SessionFn
<1>4. CASE ValidCalls
  <2>1. /\ Running /\ stack # <<>> /\ Top.fn = "rb_valid"
        /\ EnterIsValid([Top EXCEPT !.pc = "branch"], Top.cs, Top.d)
    BY <1>4 DEF ValidCalls, At, Running
  <2>2. PICK f : f = [Top EXCEPT !.pc = "branch"]
    OBVIOUS
  <2>3. /\ f \in Frame /\ f.fn = Top.fn /\ f.c = Top.c /\ f.loc = Top.loc
        /\ f.todo = Top.todo /\ Top.cs \in Schema /\ Top.d \in Data
    BY <2>1, <2>2, TopFacts DEF Frame, Label
  <2>4. Top.fn \notin LoopFn \cup {"validate_object_property"}
    BY <2>1, DecidersAreFlat DEF SessionFn
  <2> QED BY <2>1, <2>2, <2>3, <2>4, EnterIsValidKeepsPath
<1>5. CASE IsValidReturns
  BY <1>5, IsValidEnds DEF IsValidReturns, At, Running
<1> QED BY <1>1, <1>2, <1>3, <1>4, <1>5 DEF SessionStep

(* What the macros of types/context.h do to a context.                     *)
LEMMA IncrFine ==
  ASSUME NEW f \in Frame, NEW g \in Frame, NEW r \in Context,
         Deep(r, f), Traced(r, f), Written(r, f), End(f) # Nil,
         End(g) = Nil, Len(g.loc) = Len(f.loc) + 1,
         \A k \in 1 .. Len(f.loc) : g.loc[k] = f.loc[k],
         NEW s, s = [r EXCEPT !.depth = r.depth + 1]
  PROVE  Deep(s, g) /\ Traced(s, g) /\ Written(s, g)
<1>1. /\ s.path = r.path /\ s.depth = r.depth + 1 /\ s.leaks = r.leaks
      /\ r.depth \in Int /\ r.leaks \in Int
  BY DEF Context
<1>2. PICK l \in Nat : l = Len(f.loc)
  BY LocFacts
<1>3. Deep(s, g)
  BY <1>1, <1>2 DEF Deep
<1>4. Traced(s, g)
  <2>1. \A k \in 1 .. l + 1 : k \in 1 .. l \/ (k = l + 1 /\ g.loc[k] = Nil)
    BY <1>2 DEF End
  <2> QED BY <1>1, <1>2, <2>1 DEF Traced
<1>5. Written(s, g)
  <2>1. Filled(r, r.depth) /\ r.depth + 1 - 1 = r.depth
    BY <1>1 DEF Written
  <2> QED BY <1>1, <2>1 DEF Written, Filled
<1> QED BY <1>3, <1>4, <1>5

LEMMA DecrFine ==
  ASSUME NEW f \in Frame, NEW g \in Frame, NEW r \in Context,
         Deep(r, f), Traced(r, f), Written(r, f),
         Len(g.loc) = Len(f.loc) - 1,
         \A k \in 1 .. Len(g.loc) : g.loc[k] = f.loc[k],
         NEW s, s = [r EXCEPT !.depth = r.depth - 1]
  PROVE  Deep(s, g) /\ Traced(s, g) /\ Written(s, g)
<1>1. /\ s.path = r.path /\ s.depth = r.depth - 1 /\ s.leaks = r.leaks
      /\ r.depth \in Int /\ r.leaks \in Int
  BY DEF Context
<1>2. PICK l \in Nat : l = Len(f.loc)
  BY LocFacts
<1>3. Deep(s, g)
  <2>1. r.leaks >= 0 /\ r.depth = l - 1 + r.leaks
    BY <1>2 DEF Deep
  <2>2. r.depth - 1 = l - 1 - 1 + r.leaks
    <3>1. \A d, z \in Int : d = l - 1 + z => d - 1 = l - 1 - 1 + z
      BY <1>2
    <3> QED BY <1>1, <2>1, <3>1
  <2> QED BY <1>1, <1>2, <2>1, <2>2 DEF Deep
<1>4. Traced(s, g)
  <2>1. \A k \in 1 .. l - 1 : k \in 1 .. l
    BY <1>2
  <2> QED BY <1>1, <1>2, <2>1 DEF Traced
<1>5. Written(s, g)
  <2>1. Filled(r, r.depth - 1)
    BY DEF Written
  <2>2. \A j \in 0 .. r.depth - 1 - 1 : j \in 0 .. r.depth - 1
    BY <1>1
  <2> QED BY <1>1, <2>1, <2>2 DEF Written, Filled
<1> QED BY <1>3, <1>4, <1>5

LEMMA AddFine ==
  ASSUME NEW f \in Frame, NEW g \in Frame, NEW r \in Context,
         Deep(r, f), Traced(r, f), Written(r, f),
         NEW seg, seg # Nil, Len(g.loc) = Len(f.loc), f.loc # <<>>, End(g) = seg,
         \A k \in 1 .. Len(f.loc) - 1 : g.loc[k] = f.loc[k],
         r.depth \in 0 .. MaxDepth - 1,
         NEW s, s = [r EXCEPT !.path[r.depth] = seg]
  PROVE  Deep(s, g) /\ Traced(s, g) /\ Written(s, g)
<1>1. /\ s.depth = r.depth /\ s.leaks = r.leaks
      /\ r.depth \in Int /\ r.leaks \in Int /\ MaxDepth \in Nat
      /\ s.path[r.depth] = seg
      /\ \A j \in 0 .. MaxDepth - 1 : j # r.depth => s.path[j] = r.path[j]
  BY MaxDepthAssumption DEF Context
<1>2. PICK l : l = Len(f.loc) /\ l \in Nat /\ l # 0
  BY LocFacts
<1>3. Deep(s, g)
  BY <1>1, <1>2 DEF Deep
<1>4. Traced(s, g)
  <2> SUFFICES ASSUME r.leaks = 0, NEW k \in 1 .. l, g.loc[k] # Nil
               PROVE  k <= MaxDepth /\ s.path[k - 1] = g.loc[k]
    BY <1>1, <1>2 DEF Traced
  <2>1. r.depth = l - 1 /\ l <= MaxDepth
    BY <1>1, <1>2 DEF Deep
  <2>2. CASE k = l
    BY <1>1, <1>2, <2>1, <2>2 DEF End
  <2>3. CASE k # l
    <3>1. k \in 1 .. l - 1 /\ k - 1 \in 0 .. MaxDepth - 1 /\ k - 1 # r.depth
      BY <1>1, <1>2, <2>1, <2>3
    <3>2. r.path[k - 1] = f.loc[k] /\ g.loc[k] = f.loc[k]
      BY <1>2, <3>1 DEF Traced
    <3> QED BY <1>1, <2>1, <3>1, <3>2
  <2> QED BY <2>2, <2>3
<1>5. Written(s, g)
  <2>1. Filled(r, r.depth - 1)
    BY DEF Written
  <2>2. ASSUME NEW j \in 0 .. r.depth
        PROVE  j < MaxDepth /\ s.path[j] # Nil
    <3>1. CASE j = r.depth
      BY <1>1, <3>1
    <3>2. CASE j # r.depth
      <4>1. j \in 0 .. r.depth - 1 /\ j \in 0 .. MaxDepth - 1
        BY <1>1, <3>2
      <4> QED BY <1>1, <2>1, <3>2, <4>1 DEF Filled
    <3> QED BY <3>1, <3>2
  <2>3. \A j \in 0 .. r.depth - 1 : j \in 0 .. r.depth
    BY <1>1
  <2> QED BY <1>1, <2>2, <2>3 DEF Written, Filled
<1> QED BY <1>3, <1>4, <1>5

LEMMA PlanStepsPath ==
  ASSUME IInv, PathInv, PlanStep
  PROVE  PathInv'
<1>0. stack # <<>> /\ exc = "none" /\ Running
  BY DEF PlanStep, Enter, Perform, PassOver, RaiseError, IncrContext, DecrContext,
         AddToContext, PlanReturns, Pending, Running
<1>1. /\ Top \in Frame /\ Cur \in Context /\ Placed(Top) /\ Located(Cur)
      /\ Deep(Cur, Top) /\ Traced(Cur, Top) /\ Written(Cur, Top)
  BY <1>0, TopFacts, TopFine
<1>2. ASSUME UNCHANGED ctx
      PROVE  Rewritten(Cur) /\ SamePath(Cur, Cur)
  BY <1>2, ContextStays
<1>3. ASSUME NEW do, Pending(do)
      PROVE  /\ Top.pc = "plan" /\ Top.todo # <<>> /\ Head(Top.todo).do \in do
             /\ Head(Top.todo) \in Step /\ Advanced = [Top EXCEPT !.todo = Tail(Top.todo)]
             /\ Advanced \in Frame /\ Advanced.fn = Top.fn /\ Advanced.c = Top.c
             /\ Advanced.loc = Top.loc /\ Advanced.todo = Tail(Top.todo)
  <2>1. Top.todo \in Seq(Step) /\ Top.todo # <<>> /\ Top.pc = "plan"
    BY <1>1, <1>3 DEF Frame, Pending
  <2>2. Head(Top.todo) \in Step /\ Tail(Top.todo) \in Seq(Step)
    BY <2>1
  <2> QED BY <1>1, <1>3, <2>1, <2>2 DEF Pending, Advanced, Frame
<1>4. CASE Enter
  <2>1. UNCHANGED <<ctx, ret, exc, last>> /\ Top.pc = "enter"
    BY <1>4 DEF Enter
  <2>2. CASE Top.fn \in DecidingFn
    <3>1. PICK f : f = [Top EXCEPT !.pc = "loop"]
      OBVIOUS
    <3>2. /\ f \in Frame /\ f.fn = Top.fn /\ f.c = Top.c /\ f.loc = Top.loc
          /\ f.todo = Top.todo
      BY <1>1, <3>1 DEF Frame, Label
    <3>3. Goto(f)
      BY <1>4, <2>2, <3>1 DEF Enter
    <3> QED BY <1>0, <2>1, <2>2, <3>2, <3>3, DecideKeepsPath
  <2>3. CASE Top.fn \notin DecidingFn
    <3>1. PICK plan, f : /\ plan = Plan(Top.fn, Top.cs, Top.d, Top.i)
                         /\ f = [Top EXCEPT !.pc = "plan", !.todo = plan]
      OBVIOUS
    <3>2. Goto(f)
      BY <1>4, <2>3, <3>1 DEF Enter, Conclude
    <3>3. Top.cs \in Schema /\ Top.d \in Data /\ Top.i \in Nat
      BY <1>1 DEF Frame
    <3>4. plan \in Seq(Step) /\ Whole(Top.fn, plan)
      BY <3>1, <3>3, PlanFacts
    <3>5. f \in Frame /\ f.fn = Top.fn /\ f.c = Top.c /\ f.loc = Top.loc
      BY <1>1, <3>1, <3>4 DEF Frame, Label
    <3>6. Placed(f) /\ Moved(Top, f)
      BY <1>1, <2>1, <3>1, <3>4, <3>5, EnterFacts
    <3> QED BY <1>0, <1>2, <2>1, <3>2, <3>5, <3>6, GotoMoves, StayKeepsPath
  <2> QED BY <2>2, <2>3
<1>5. CASE Perform
  <2>1. /\ Pending(CallFn) /\ CallStep(Advanced, Head(Top.todo))
        /\ UNCHANGED <<ctx, ret, exc, last>>
    BY <1>5 DEF Perform
  <2>2. PICK f, g : f = Advanced /\ g = NewFrame(Head(Top.todo), f.c, f.loc)
    OBVIOUS
  <2>3. /\ Top.pc = "plan" /\ Top.todo # <<>> /\ Head(Top.todo).do \in CallFn
        /\ Head(Top.todo) \in Step /\ f = [Top EXCEPT !.todo = Tail(Top.todo)]
        /\ f \in Frame /\ f.fn = Top.fn /\ f.c = Top.c /\ f.loc = Top.loc
    BY <1>3, <2>1, <2>2
  <2>4. /\ Head(Top.todo).do \notin PathOp /\ Head(Top.todo).do \in FnName
        /\ Head(Top.todo).do \notin SessionFn
    BY <2>3 DEF CallFn, PathOp, SessionFn, FnName, TypeFn, SchemaFn, Combinator, ArrayFn,
                ObjectFn, OtherFn
  <2>5. /\ Placed(f) /\ Moved(Top, f) /\ End(f) = End(Top)
        /\ End(Top) = Nil => Head(Top.todo).do = "validate_object_property"
        /\ Head(Top.todo).do = "validate_object_property" => End(Top) = Nil
    BY <1>1, <2>3, <2>4, StepFacts
  <2>6. /\ g.c = Top.c /\ g.pc = "enter" /\ g.fn = Head(Top.todo).do /\ g.loc = f.loc
        /\ g.todo = <<>>
    BY <2>2, <2>3 DEF NewFrame
  <2>7. g \in Frame
    <3>1. /\ Head(Top.todo).cs \in Schema /\ Head(Top.todo).d \in Data
          /\ Head(Top.todo).err \in ErrorType /\ Head(Top.todo).i \in Nat
          /\ f.c \in Nat /\ f.loc \in Seq(Segment) /\ "enter" \in Label
      BY <2>3 DEF Step, Frame, Label
    <3>2. <<>> \in Seq(Step)
      OBVIOUS
    <3> QED BY <2>2, <2>4, <3>1, <3>2 DEF NewFrame, Frame
  <2>8. ~Inside(g) /\ End(g) = End(f)
    BY <2>6 DEF Inside, End
  <2>9. Placed(g)
    <3>1. End(g) = Nil => Unnamed(g)
      BY <2>5, <2>6, <2>8 DEF Unnamed
    <3>2. Remains(g.fn, g.todo)
      BY <2>6 DEF Remains
    <3> QED BY <2>5, <2>6, <2>8, <3>1, <3>2 DEF Placed
  <2>10. Continues(f, g)
    <3>1. Len(f.loc) = Len(f.loc) + 0
      BY <2>3, LocFacts
    <3> QED BY <2>5, <2>6, <2>8, <3>1 DEF Continues
  <2>11. Pushed(f, g)
    BY <2>1, <2>2 DEF CallStep, Pushed
  <2> QED BY <1>0, <1>2, <2>1, <2>3, <2>4, <2>5, <2>6, <2>7, <2>9, <2>10, <2>11, CallKeepsPath
<1>6. CASE PassOver
  <2>1. Pending({"skip"}) /\ Goto(Advanced) /\ UNCHANGED <<ctx, ret, exc, last>>
    BY <1>6 DEF PassOver
  <2>2. PICK f : f = Advanced
    OBVIOUS
  <2>3. /\ Top.pc = "plan" /\ Top.todo # <<>> /\ Head(Top.todo).do \notin PathOp
        /\ f = [Top EXCEPT !.todo = Tail(Top.todo)]
        /\ f \in Frame /\ f.fn = Top.fn /\ f.c = Top.c /\ f.loc = Top.loc
    BY <1>3, <2>1, <2>2 DEF PathOp
  <2>4. Placed(f) /\ Moved(Top, f)
    BY <1>1, <2>3, StepFacts
  <2> QED BY <1>0, <1>2, <2>1, <2>2, <2>3, <2>4, GotoMoves, StayKeepsPath
<1>7. CASE RaiseError
  BY <1>0, <1>7, ExitKeepsPath DEF RaiseError
<1>8. CASE IncrContext
  <2>1. /\ Pending({"INCR_CONTEXT"}) /\ exc' \in {"none", "raise"}
        /\ Goto([Advanced EXCEPT !.loc = Append(@, Nil)])
        /\ SetContext([Cur EXCEPT !.depth = @ + 1])
    BY <1>8 DEF IncrContext
  <2>2. PICK f, r : /\ f = [Top EXCEPT !.todo = Tail(Top.todo), !.loc = Append(Top.loc, Nil)]
                    /\ r = [Cur EXCEPT !.depth = Cur.depth + 1]
    OBVIOUS
  <2>3. Top.pc = "plan" /\ Top.todo # <<>> /\ Head(Top.todo).do = "INCR_CONTEXT"
    BY <1>3, <2>1
  <2>4. /\ f \in Frame /\ f.fn = Top.fn /\ f.c = Top.c /\ Goto(f)
    <3>1. Append(Top.loc, Nil) \in Seq(Segment) /\ Tail(Top.todo) \in Seq(Step)
      BY <1>1, <2>3 DEF Frame, Segment
    <3>2. f = [Advanced EXCEPT !.loc = Append(Advanced.loc, Nil)]
      BY <1>1, <1>3, <2>1, <2>2 DEF Frame
    <3> QED BY <1>1, <2>1, <2>2, <3>1, <3>2 DEF Frame
  <2>5. /\ Placed(f) /\ Moved(Top, f)
        /\ End(Top) # Nil /\ End(f) = Nil /\ Len(f.loc) = Len(Top.loc) + 1
        /\ \A k \in 1 .. Len(Top.loc) : f.loc[k] = Top.loc[k]
    BY <1>1, <2>2, <2>3, <2>4, IncrFacts
  <2>6. r \in Context /\ SetContext(r) /\ Located(r)
    BY <1>1, <2>1, <2>2 DEF Context, Located
  <2>7. Deep(r, f) /\ Traced(r, f) /\ Written(r, f)
    BY <1>1, <2>2, <2>4, <2>5, IncrFine
  <2>8. FineAt(r, f, exc') /\ Rewritten(r) /\ MovedTo(f)
    BY <1>0, <2>4, <2>6, <2>7, ContextSet, GotoMoves DEF FineAt
  <2> QED BY <1>0, <2>1, <2>4, <2>5, <2>6, <2>8, MoveKeepsPath
<1>9. CASE DecrContext
  <2>1. /\ Pending({"DECR_CONTEXT"}) /\ exc' = exc
        /\ Goto([Advanced EXCEPT !.loc = SubSeq(@, 1, Len(@) - 1)])
        /\ SetContext([Cur EXCEPT !.depth = @ - 1])
    BY <1>9 DEF DecrContext
  <2>2. PICK n, b, f, r :
          /\ n = Len(stack) /\ b = stack[n - 1]
          /\ f = [Top EXCEPT !.todo = Tail(Top.todo),
                             !.loc = SubSeq(Top.loc, 1, Len(Top.loc) - 1)]
          /\ r = [Cur EXCEPT !.depth = Cur.depth - 1]
    OBVIOUS
  <2>3. Top.pc = "plan" /\ Top.todo # <<>> /\ Head(Top.todo).do = "DECR_CONTEXT"
    BY <1>3, <2>1
  <2>4. Top.fn \notin SessionFn
    <3>1. Top.todo \in Seq(Step) /\ Remains(Top.fn, Top.todo)
      BY <1>1 DEF Frame, Placed
    <3>2. Top.fn \in LoopFn
      BY <2>3, <3>1, TailFacts DEF Remains
    <3> QED BY <3>2, DecidersAreFlat
  <2>5. b \in Frame /\ Placed(b) /\ Continues(b, Top)
    BY <1>0, <2>2, <2>4, CallerFacts
  <2>6. /\ f \in Frame /\ f.fn = Top.fn /\ f.c = Top.c /\ Goto(f)
    <3>1. SubSeq(Top.loc, 1, Len(Top.loc) - 1) \in Seq(Segment) /\ Tail(Top.todo) \in Seq(Step)
      BY <1>1, <2>3, FrontType DEF Frame
    <3>2. f = [Advanced EXCEPT !.loc = SubSeq(Advanced.loc, 1, Len(Advanced.loc) - 1)]
      BY <1>1, <1>3, <2>1, <2>2 DEF Frame
    <3> QED BY <1>1, <2>1, <2>2, <3>1, <3>2 DEF Frame
  <2>7. /\ Placed(f) /\ Moved(Top, f) /\ Len(f.loc) = Len(Top.loc) - 1
        /\ \A k \in 1 .. Len(f.loc) : f.loc[k] = Top.loc[k]
    BY <1>1, <2>2, <2>3, <2>5, <2>6, DecrFacts
  <2>8. r \in Context /\ SetContext(r) /\ Located(r)
    <3>1. Cur.depth - 1 \in Int
      BY <1>1 DEF Context
    <3>2. r \in Context
      BY <1>1, <2>2, <3>1 DEF Context
    <3>3. SetContext(r)
      BY <2>1, <2>2
    <3>4. r.errors = Cur.errors
      BY <1>1, <2>2 DEF Context
    <3>5. Located(r)
      BY <1>1, <3>4 DEF Located
    <3> QED BY <3>2, <3>3, <3>5
  <2>a. r = [Cur EXCEPT !.depth = Cur.depth - 1]
    BY <2>2
  <2>9. Deep(r, f) /\ Traced(r, f) /\ Written(r, f)
    BY <1>1, <2>6, <2>7, <2>a, DecrFine
  <2>10. FineAt(r, f, exc') /\ Rewritten(r) /\ MovedTo(f)
    BY <1>0, <2>6, <2>8, <2>9, ContextSet, GotoMoves DEF FineAt
  <2> QED BY <1>0, <2>1, <2>6, <2>7, <2>8, <2>10, MoveKeepsPath
<1>10. CASE AddToContext
  <2>1. PICK seg : /\ seg = Head(Top.todo).at
                   /\ Goto([Advanced EXCEPT !.loc = Append(SubSeq(@, 1, Len(@) - 1), seg)])
                   /\ IF Cur.depth \in 0 .. MaxDepth - 1
                        THEN SetContext([Cur EXCEPT !.path[Cur.depth] = seg]) /\ exc' = exc
                        ELSE ctx' = ctx /\ exc' = "overrun"
    BY <1>10 DEF AddToContext
  <2>2. PICK f : f = [Top EXCEPT !.todo = Tail(Top.todo),
                                 !.loc = Append(SubSeq(Top.loc, 1, Len(Top.loc) - 1), seg)]
    OBVIOUS
  <2>3. /\ Top.pc = "plan" /\ Top.todo # <<>> /\ Head(Top.todo).do = "ADD_TO_CONTEXT"
        /\ seg \in Segment
    BY <1>3, <1>10, <2>1 DEF AddToContext, Step
  <2>4. /\ f \in Frame /\ f.fn = Top.fn /\ f.c = Top.c /\ Goto(f)
    <3>1. SubSeq(Top.loc, 1, Len(Top.loc) - 1) \in Seq(Segment) /\ Tail(Top.todo) \in Seq(Step)
      BY <1>1, <2>3, FrontType DEF Frame
    <3>2. Append(SubSeq(Top.loc, 1, Len(Top.loc) - 1), seg) \in Seq(Segment)
      BY <2>3, <3>1
    <3>3. f = [Advanced EXCEPT !.loc = Append(SubSeq(Advanced.loc, 1, Len(Advanced.loc) - 1), seg)]
      BY <1>1, <1>3, <1>10, <2>2 DEF Frame, AddToContext
    <3> QED BY <1>1, <2>1, <2>2, <3>1, <3>2, <3>3 DEF Frame
  <2>5. /\ Placed(f) /\ Moved(Top, f) /\ seg # Nil /\ Len(f.loc) = Len(Top.loc) /\ End(f) = seg
        /\ \A k \in 1 .. Len(Top.loc) - 1 : f.loc[k] = Top.loc[k]
    <3>1. seg = Head(Top.todo).at
      BY <2>1
    <3>2. /\ f.fn = Top.fn /\ f.pc = "plan" /\ f.todo = Tail(Top.todo)
          /\ f.loc = Append(SubSeq(Top.loc, 1, Len(Top.loc) - 1), seg)
      BY <1>1, <2>2, <2>3 DEF Frame
    <3> QED BY <1>1, <2>3, <2>4, <3>1, <3>2, AddFacts
  <2>6. CASE Cur.depth \in 0 .. MaxDepth - 1
    <3>1. PICK r : r = [Cur EXCEPT !.path[Cur.depth] = seg]
      OBVIOUS
    <3>2. r \in Context /\ SetContext(r) /\ Located(r) /\ exc' = exc
      BY <1>1, <2>1, <2>3, <2>6, <3>1 DEF Context, Located
    <3>3. Deep(r, f) /\ Traced(r, f) /\ Written(r, f)
      BY <1>1, <2>4, <2>5, <2>6, <3>1, AddFine DEF Placed
    <3>4. FineAt(r, f, exc') /\ Rewritten(r) /\ MovedTo(f)
      BY <1>0, <2>4, <3>2, <3>3, ContextSet, GotoMoves DEF FineAt
    <3> QED BY <1>0, <2>4, <2>5, <3>2, <3>4, MoveKeepsPath
  <2>7. CASE Cur.depth \notin 0 .. MaxDepth - 1
    <3>1. UNCHANGED ctx /\ exc' = "overrun"
      BY <2>1, <2>7
    <3>2. ~UserCode(f)
      <4>1. Remains(Top.fn, Top.todo) /\ Top.todo \in Seq(Step)
        BY <1>1 DEF Placed, Frame
      <4>2. Top.fn \in ArrayFn \cup {"validate_object_property"}
        BY <2>3, <4>1, TailFacts DEF Remains
      <4> QED BY <2>4, <4>2 DEF UserCode, Protecting, ArrayFn
    <3>3. FineAt(Cur, f, exc') /\ Rewritten(Cur) /\ MovedTo(f)
      BY <1>0, <1>1, <1>2, <2>4, <2>5, <3>1, <3>2, GotoMoves DEF FineAt, Deep
    <3> QED BY <1>0, <1>1, <2>4, <2>5, <3>1, <3>3, MoveKeepsPath
  <2> QED BY <2>6, <2>7
<1>11. CASE PlanReturns
  <2>1. /\ Top.fn \notin SessionFn /\ Top.todo = <<>> /\ Return
        /\ UNCHANGED <<ctx, ret, exc, last>>
    BY <1>11 DEF PlanReturns
  <2>2. ~Inside(Top)
    BY <2>1 DEF Inside
  <2> QED BY <1>0, <1>2, <2>1, <2>2, LeaveFlat, ReturnKeepsPath
<1> QED BY <1>4, <1>5, <1>6, <1>7, <1>8, <1>9, <1>10, <1>11 DEF PlanStep

LEMMA CombinatorStepsPath ==
  ASSUME IInv, PathInv, CombinatorStep
  PROVE  PathInv'
<1>0. stack # <<>> /\ exc = "none" /\ Running /\ Top.fn \in DecidingFn
  BY DEF CombinatorStep, TryBranch, CountBranch, EndBranches, TryItem, EndContains,
         TryNot, EndNot, TryIf, TryChosen, NothingChosen, EndIf, At, Running, BranchFn,
         DecidingFn, Combinator
<1>1. /\ Top \in Frame /\ Top.cs \in Schema /\ Top.d \in Data
      /\ Top.i \in Nat /\ Top.n \in Nat /\ Compiled[Top.cs] \in Struct
  <2>1. Top \in Frame
    BY <1>0, TopFacts
  <2> QED BY <2>1, StructType DEF Frame
<1>2. Top.fn \notin LoopFn \cup {"validate_object_property"}
  BY <1>0, DecidersAreFlat
<1>3. \A k \in SubKeyword : Compiled[Top.cs].sub[k] \in Schema
  BY <1>1 DEF Struct
<1>4. ASSUME NEW plan \in Seq(Plain), Conclude(Top, plan), UNCHANGED <<ctx, ret, exc, last>>
      PROVE  PathInv'
  BY <1>0, <1>4, ContextStays, ConcludeKeepsPath
<1>6. ASSUME NEW k \in {"branch", "then", "else"}, NEW i \in Nat, NEW f,
             f = [Top EXCEPT !.pc = k, !.i = i] \/ f = [Top EXCEPT !.pc = k],
             NEW s \in Schema, NEW d \in Data, EnterIsValid(f, s, d)
      PROVE  PathInv'
  <2>1. /\ f \in Frame /\ f.fn = Top.fn /\ f.c = Top.c /\ f.loc = Top.loc
        /\ f.todo = Top.todo
    <3>1. k \in Label
      BY DEF Label
    <3>2. CASE f = [Top EXCEPT !.pc = k, !.i = i]
      BY <1>1, <3>1, <3>2 DEF Frame
    <3>3. CASE f = [Top EXCEPT !.pc = k]
      BY <1>1, <3>1, <3>3 DEF Frame
    <3> QED BY <1>6, <3>2, <3>3
  <2> QED BY <1>0, <1>2, <1>6, <2>1, EnterIsValidKeepsPath
<1>7. CASE TryBranch
  <2>1. PICK f, s : /\ f = [Top EXCEPT !.pc = "branch", !.i = Top.i + 1]
                    /\ s = BranchList(Top)[Top.i + 1]
    OBVIOUS
  <2>2. EnterIsValid(f, s, Top.d) /\ Top.i < Len(BranchList(Top))
    BY <1>7, <2>1 DEF TryBranch
  <2>3. s \in Schema /\ Top.i + 1 \in Nat
    <3>1. BranchList(Top) \in Seq(Schema)
      BY <1>1, BranchListType
    <3>2. Top.i + 1 \in 1 .. Len(BranchList(Top))
      BY <1>1, <2>2, <3>1
    <3> QED BY <1>1, <2>1, <3>1, <3>2
  <2> QED BY <1>1, <1>6, <2>1, <2>2, <2>3
<1>8. CASE CountBranch
  <2>1. /\ Goto([Top EXCEPT !.pc = "loop", !.n = IF ret THEN @ + 1 ELSE @])
        /\ UNCHANGED <<ctx, ret, exc, last>>
    BY <1>8 DEF CountBranch
  <2>2. PICK f : f = [Top EXCEPT !.pc = "loop", !.n = IF ret THEN Top.n + 1 ELSE Top.n]
    OBVIOUS
  <2>3. /\ f \in Frame /\ f.fn = Top.fn /\ f.c = Top.c /\ f.loc = Top.loc
        /\ f.todo = Top.todo
    <3>1. (IF ret THEN Top.n + 1 ELSE Top.n) \in Nat
      BY <1>1
    <3> QED BY <1>1, <2>2, <3>1 DEF Frame, Label
  <2>4. Goto(f)
    BY <2>1, <2>2
  <2> QED BY <1>0, <2>1, <2>3, <2>4, DecideKeepsPath
<1>9. CASE EndBranches
  <2>1. Conclude(Top, Verdict(Top)) /\ UNCHANGED <<ctx, ret, exc, last>>
    BY <1>9 DEF EndBranches
  <2>2. Verdict(Top) \in Seq(Plain)
    BY <1>1, VerdictType
  <2> QED BY <1>4, <2>1, <2>2
<1>10. CASE TryItem
  <2>1. PICK f, d : /\ f = [Top EXCEPT !.pc = "branch", !.i = Top.i + 1]
                    /\ d = Doc[Top.d].items[Top.i + 1]
    OBVIOUS
  <2>2. EnterIsValid(f, Compiled[Top.cs].sub["contains"], d) /\ Top.i < Len(Doc[Top.d].items)
    BY <1>10, <2>1 DEF TryItem
  <2>3. d \in Data /\ Top.i + 1 \in Nat
    <3>1. Doc[Top.d].items \in Seq(Data)
      BY <1>1, ValueType1 DEF Value
    <3>2. Top.i + 1 \in 1 .. Len(Doc[Top.d].items)
      BY <1>1, <2>2, <3>1
    <3> QED BY <1>1, <2>1, <3>1, <3>2
  <2>4. Compiled[Top.cs].sub["contains"] \in Schema
    BY <1>3 DEF SubKeyword
  <2> QED BY <1>6, <2>1, <2>2, <2>3, <2>4
<1>11. CASE EndContains
  <2>1. Conclude(Top, ContainsVerdict(Top)) /\ UNCHANGED <<ctx, ret, exc, last>>
    BY <1>11 DEF EndContains
  <2>2. ContainsVerdict(Top) \in Seq(Plain)
    BY <1>1, VerdictType
  <2> QED BY <1>4, <2>1, <2>2
<1>12. CASE TryNot
  <2>1. EnterIsValid([Top EXCEPT !.pc = "branch"], Compiled[Top.cs].sub["not"], Top.d)
    BY <1>12 DEF TryNot
  <2>2. Compiled[Top.cs].sub["not"] \in Schema
    BY <1>3 DEF SubKeyword
  <2> QED BY <1>1, <1>6, <2>1, <2>2
<1>13. CASE EndNot
  <2>1. /\ Conclude(Top, ErrIf(ret, Compiled[Top.cs].sub["not"], Top.d, "not"))
        /\ UNCHANGED <<ctx, ret, exc, last>>
    BY <1>13 DEF EndNot
  <2>2. ErrIf(ret, Compiled[Top.cs].sub["not"], Top.d, "not") \in Seq(Plain)
    BY <1>1, <1>3, ErrIfType DEF SubKeyword, ErrorType
  <2> QED BY <1>4, <2>1, <2>2
<1>14. CASE TryIf
  <2>1. EnterIsValid([Top EXCEPT !.pc = "branch"], Compiled[Top.cs].sub["if"], Top.d)
    BY <1>14 DEF TryIf
  <2>2. Compiled[Top.cs].sub["if"] \in Schema
    BY <1>3 DEF SubKeyword
  <2> QED BY <1>1, <1>6, <2>1, <2>2
<1>15. CASE TryChosen
  <2>1. EnterIsValid([Top EXCEPT !.pc = Chosen], Compiled[Top.cs].sub[Chosen], Top.d)
    BY <1>15 DEF TryChosen
  <2>2. Chosen \in {"branch", "then", "else"} /\ Compiled[Top.cs].sub[Chosen] \in Schema
    BY <1>3 DEF SubKeyword, Chosen
  <2> QED BY <1>1, <1>6, <2>1, <2>2
<1>16. CASE NothingChosen
  <2>1. Conclude(Top, <<>>) /\ UNCHANGED <<ctx, ret, exc, last>>
    BY <1>16 DEF NothingChosen
  <2>2. <<>> \in Seq(Plain)
    OBVIOUS
  <2> QED BY <1>4, <2>1, <2>2
<1>17. CASE EndIf
  <2>1. PICK type : type = IF Top.pc = "then" THEN "if/then" ELSE "if/else"
    OBVIOUS
  <2>2. /\ Conclude(Top, ErrIf(~ret, Compiled[Top.cs].sub[Top.pc], Top.d, type))
        /\ UNCHANGED <<ctx, ret, exc, last>> /\ Top.pc \in {"then", "else"}
    BY <1>17, <2>1 DEF EndIf
  <2>3. Compiled[Top.cs].sub[Top.pc] \in Schema /\ type \in ErrorType
    BY <1>3, <2>1, <2>2 DEF SubKeyword, ErrorType
  <2>4. ErrIf(~ret, Compiled[Top.cs].sub[Top.pc], Top.d, type) \in Seq(Plain)
    BY <1>1, <2>3, ErrIfType
  <2> QED BY <1>4, <2>2, <2>4
<1> QED BY <1>7, <1>8, <1>9, <1>10, <1>11, <1>12, <1>13, <1>14, <1>15, <1>16, <1>17
        DEF CombinatorStep

LEMMA AppendIndex ==
  ASSUME NEW S, NEW q \in Seq(S), NEW x
  PROVE  /\ Len(Append(q, x)) = Len(q) + 1 /\ Append(q, x)[Len(q) + 1] = x
         /\ \A j \in 1 .. Len(q) : Append(q, x)[j] = q[j]
OBVIOUS

(* The error yielded is the one at the frame's place.                      *)
LEMMA ErrorFine ==
  ASSUME NEW f \in Frame, NEW r \in Context, Placed(f), End(f) # Nil,
         Deep(r, f), Traced(r, f), Located(r), Filled(r, r.depth),
         NEW e, e.path = PathOf(r), e.loc = f.loc, e.leaks = r.leaks,
         NEW s, s.errors = Append(r.errors, e)
  PROVE  Located(s)
<1>1. /\ r.errors \in Seq(Error) /\ r.depth \in Int /\ r.leaks \in Int /\ r.leaks >= 0
      /\ f.loc \in Seq(Segment) /\ f.loc # <<>>
  BY DEF Context, Frame, Deep, Placed
<1>2. PICK l : l = Len(f.loc) /\ l \in Nat /\ l # 0
  <2>1. PICK S, q : S = Segment /\ q = f.loc
    OBVIOUS
  <2>2. q \in Seq(S) /\ q # <<>>
    BY <1>1, <2>1
  <2>3. Len(q) \in Nat /\ Len(q) # 0
    BY <2>2
  <2> QED BY <2>1, <2>3
<1>3. r.depth = l - 1 + r.leaks /\ r.depth + 1 \in Nat /\ r.depth + 1 = l + r.leaks
  BY <1>1, <1>2 DEF Deep
<1>4. Len(PathOf(r)) = r.depth + 1 /\ \A k \in 1 .. r.depth + 1 : PathOf(r)[k] = r.path[k - 1]
  BY <1>3 DEF PathOf
<1>5. r.leaks = 0 => PathOf(r) = f.loc
  <2> SUFFICES ASSUME r.leaks = 0
               PROVE  PathOf(r) = f.loc
    OBVIOUS
  <2>1. r.depth + 1 = l
    BY <1>1, <1>2, <1>3
  <2>2. \A k \in 1 .. l : f.loc[k] # Nil
    BY <1>2 DEF Placed, End
  <2>3. \A k \in 1 .. l : r.path[k - 1] = f.loc[k]
    BY <1>2, <2>2 DEF Traced
  <2>4. PathOf(r) = [k \in 1 .. l |-> f.loc[k]]
    BY <2>1, <2>3 DEF PathOf
  <2>5. PICK S, q : S = Segment /\ q = f.loc
    OBVIOUS
  <2>6. q \in Seq(S) /\ l = Len(q)
    BY <1>1, <1>2, <2>5
  <2>7. [k \in 1 .. l |-> q[k]] = q
    BY <2>6
  <2>8. [k \in 1 .. l |-> f.loc[k]] = f.loc
    BY <2>5, <2>7
  <2> QED BY <2>4, <2>8
<1>6. PICK m : m = Len(r.errors) /\ m \in Nat
  <2>1. PICK S, q : S = Error /\ q = r.errors
    OBVIOUS
  <2>2. q \in Seq(S)
    BY <1>1, <2>1
  <2>3. Len(q) \in Nat
    BY <2>2
  <2> QED BY <2>1, <2>3
<1>7. /\ Len(s.errors) = m + 1 /\ s.errors[m + 1] = e
      /\ \A j \in 1 .. m : s.errors[j] = r.errors[j]
  <2>1. PICK S, q : S = Error /\ q = r.errors
    OBVIOUS
  <2>2. q \in Seq(S) /\ m = Len(q)
    BY <1>1, <1>6, <2>1
  <2>3. /\ Len(Append(q, e)) = m + 1 /\ Append(q, e)[m + 1] = e
        /\ \A j \in 1 .. m : Append(q, e)[j] = q[j]
    BY <2>2, AppendIndex
  <2> QED BY <2>1, <2>3
<1>8. \A j \in 1 .. m + 1 : j = m + 1 \/ j \in 1 .. m
  BY <1>6
<1>9. Len(e.path) = Len(e.loc) + e.leaks /\ (e.leaks = 0 => e.path = e.loc)
  BY <1>2, <1>3, <1>4, <1>5
<1> QED BY <1>6, <1>7, <1>8, <1>9 DEF Located

LEMMA ErrorStepsPath ==
  ASSUME IInv, PathInv, ErrorStep
  PROVE  PathInv'
<1>0. /\ stack # <<>> /\ exc = "none" /\ Running /\ Top.fn = "yield_error" /\ Top.pc = "loop"
  BY DEF ErrorStep, ShortCircuit, YieldToBlock, At, Running
<1>1. /\ Top \in Frame /\ Cur \in Context /\ Placed(Top) /\ Located(Cur)
      /\ Deep(Cur, Top) /\ Traced(Cur, Top) /\ Written(Cur, Top)
  BY <1>0, TopFacts, TopFine
<1>2. Top.fn \notin LoopFn \cup {"validate_object_property"} /\ Top.fn \in DecidingFn
  BY <1>0, DecidersAreFlat DEF DecidingFn
<1>3. End(Top) # Nil /\ Remains(Top.fn, Top.todo)
  BY <1>1, <1>2, DecideFacts DEF Placed
<1>4. Filled(Cur, Cur.depth)
  BY <1>1, <1>3 DEF Written
<1>5. CASE ShortCircuit
  BY <1>0, <1>4, <1>5, ExitKeepsPath DEF ShortCircuit
<1>6. CASE YieldToBlock
  <2>1. CASE UNCHANGED <<stack, ctx>> /\ exc' \in {"overrun", "raise"}
    BY <1>0, <2>1, ExitKeepsPath
  <2>2. CASE /\ Cur.depth \in 0 .. MaxDepth - 1
             /\ ~\E j \in 0 .. Cur.depth : Cur.path[j] = Nil
    <3>1. PICK e, r, f :
            /\ e = [cs |-> Top.cs, d |-> Top.d, type |-> Top.err,
                    path |-> PathOf(Cur), loc |-> Top.loc, leaks |-> Cur.leaks]
            /\ r = [Cur EXCEPT !.errors = Append(Cur.errors, e)]
            /\ f = [Top EXCEPT !.pc = "block"]
      OBVIOUS
    <3>2. SetContext(r) /\ Goto(f) /\ exc' = exc
      BY <1>6, <2>2, <3>1 DEF YieldToBlock
    <3>3. e \in Error
      <4>1. PathOf(Cur) \in Seq(Segment)
        <5>1. /\ Cur.depth + 1 \in Nat
              /\ \A j \in 1 .. Cur.depth + 1 : Cur.path[j - 1] \in Segment
          BY <1>1, <2>2, MaxDepthAssumption DEF Context
        <5> QED BY <5>1 DEF PathOf
      <4> QED BY <1>1, <3>1, <4>1 DEF Error, Frame, Context
    <3>4. /\ r \in Context /\ r.path = Cur.path /\ r.depth = Cur.depth /\ r.leaks = Cur.leaks
          /\ r.errors = Append(Cur.errors, e)
      <4>1. Append(Cur.errors, e) \in Seq(Error)
        BY <1>1, <3>3 DEF Context
      <4> QED BY <1>1, <3>1, <4>1 DEF Context
    <3>5. /\ f \in Frame /\ f.fn = Top.fn /\ f.c = Top.c /\ f.loc = Top.loc
          /\ f.todo = Top.todo
      BY <1>1, <3>1 DEF Frame, Label
    <3>6. Placed(f) /\ Moved(Top, f)
      BY <1>1, <1>2, <1>3, <3>5, DecideFacts
    <3>7. Located(r)
      BY <1>1, <1>3, <1>4, <3>1, <3>4, ErrorFine
    <3>8. Deep(r, f) /\ Traced(r, f) /\ Written(r, f)
      BY <1>1, <3>4, <3>5 DEF Deep, Traced, Written, Filled, End
    <3>9. FineAt(r, f, exc') /\ Rewritten(r) /\ MovedTo(f)
      BY <1>0, <3>2, <3>4, <3>5, <3>8, ContextSet, GotoMoves DEF FineAt
    <3> QED BY <1>0, <3>2, <3>5, <3>6, <3>7, <3>9, MoveKeepsPath
  <2> QED BY <1>6, <2>1, <2>2 DEF YieldToBlock
<1> QED BY <1>5, <1>6 DEF ErrorStep

LEMMA UserStepsPath ==
  ASSUME IInv, PathInv, UserStep
  PROVE  PathInv'
<1>0. /\ stack # <<>> /\ exc \in {"none", "raise"}
      /\ Top.fn \in {"yield_error", "validate_custom_format"}
  BY DEF UserStep, UserCodeCalls, BlockReturns, BlockLeaves, UserCodeRescues,
         CallableAnswers, CallableRaises, InBlock, InCallable, At, Running
<1>1. Top \in Frame /\ Placed(Top)
  BY <1>0, TopFacts, TopFine
<1>2. /\ Top.fn \notin LoopFn \cup {"validate_object_property"} /\ Top.fn \in DecidingFn
      /\ Top.fn \notin SessionFn
  BY <1>0, DecidersAreFlat DEF DecidingFn, SessionFn
<1>3. ASSUME NEW k \in Label, NEW f, f = [Top EXCEPT !.pc = k]
      PROVE  /\ f \in Frame /\ f.fn = Top.fn /\ f.c = Top.c /\ f.loc = Top.loc
             /\ f.todo = Top.todo /\ f.pc = k
  BY <1>1, <1>3 DEF Frame
<1>4. CASE UserCodeCalls
  <2>1. PICK call \in NestedCalls : OpenSession(Replace([Top EXCEPT !.pc = "called"]), call)
    BY <1>4 DEF UserCodeCalls
  <2>2. call \in Call /\ exc = "none" /\ exc' = "none"
    BY <1>4, CallsAssumption DEF UserCodeCalls, At, Running
  <2>3. PICK f, base : f = [Top EXCEPT !.pc = "called"] /\ base = Replace(f)
    OBVIOUS
  <2>4. /\ f \in Frame /\ f.fn = Top.fn /\ f.c = Top.c /\ f.loc = Top.loc
        /\ f.todo = Top.todo /\ f.pc = "called"
    BY <1>3, <2>3 DEF Label
  <2>5. /\ base \in Seq(Frame) /\ Len(base) = Len(stack) /\ base[Len(stack)] = f
        /\ \A j \in 1 .. Len(stack) - 1 : base[j] = stack[j]
    BY <1>0, <2>3, <2>4, ReplaceFacts DEF IInv, TypeOK
  <2>6. Placed(f) /\ Moved(Top, f)
    BY <1>1, <1>2, <2>4, DecideFacts DEF Placed
  <2>7. UserCode(f)
    BY <1>0, <2>4 DEF UserCode, Protecting
  <2> QED BY <2>1, <2>2, <2>3, <2>4, <2>5, <2>6, <2>7, OpenKeepsPath
<1>5. CASE BlockReturns
  <2>1. Return /\ UNCHANGED <<ctx, exc>> /\ exc = "none"
    BY <1>5 DEF BlockReturns, InBlock, Running
  <2>2. ~Inside(Top)
    BY <1>2 DEF Inside
  <2> QED BY <1>0, <1>2, <2>1, <2>2, ContextStays, LeaveFlat, ReturnKeepsPath
<1>6. CASE BlockLeaves
  <2>1. /\ Running /\ exc' \in {"raise", "break"} /\ UNCHANGED ctx
        /\ Goto([Top EXCEPT !.pc = "block"])
    BY <1>6 DEF BlockLeaves, InBlock
  <2>2. PICK f : f = [Top EXCEPT !.pc = "block"]
    OBVIOUS
  <2>3. /\ f \in Frame /\ f.fn = Top.fn /\ f.c = Top.c /\ f.loc = Top.loc
        /\ f.todo = Top.todo
    BY <1>3, <2>2 DEF Label
  <2> QED BY <1>2, <2>1, <2>2, <2>3, DecideKeepsPath
<1>7. CASE UserCodeRescues
  <2>1. UserCode(Top) /\ exc = "raise" /\ exc' = "none" /\ UNCHANGED <<stack, ctx>>
    BY <1>7 DEF UserCodeRescues, UserCode, Protecting
  <2> QED BY <1>0, <2>1, ExitKeepsPath
<1>8. CASE CallableAnswers
  <2>1. /\ Conclude(Top, When(Top.d \notin Compiled[Top.cs].formatOk, FormatError))
        /\ UNCHANGED <<ctx, exc>> /\ exc = "none"
    BY <1>8 DEF CallableAnswers, InCallable, Running
  <2>2. When(Top.d \notin Compiled[Top.cs].formatOk, FormatError) \in Seq(Plain)
    BY <1>0, FormatErrorType, WhenType
  <2> QED BY <1>0, <1>2, <2>1, <2>2, ContextStays, ConcludeKeepsPath
<1>9. CASE CallableRaises
  <2>1. /\ Running /\ exc' = "raise" /\ UNCHANGED ctx
        /\ Goto([Top EXCEPT !.pc = "loop"])
    BY <1>9 DEF CallableRaises, InCallable
  <2>2. PICK f : f = [Top EXCEPT !.pc = "loop"]
    OBVIOUS
  <2>3. /\ f \in Frame /\ f.fn = Top.fn /\ f.c = Top.c /\ f.loc = Top.loc
        /\ f.todo = Top.todo
    BY <1>3, <2>2 DEF Label
  <2> QED BY <1>2, <2>1, <2>2, <2>3, DecideKeepsPath
<1> QED BY <1>4, <1>5, <1>6, <1>7, <1>8, <1>9 DEF UserStep

LEMMA UnwindStepsPath ==
  ASSUME IInv, PathInv, UnwindStep
  PROVE  PathInv'
<1>0. stack # <<>> /\ exc \in {"throw", "raise", "break"} /\ exc # "overrun"
  BY DEF UnwindStep, UnwindIsValid, ProtectStops, UnwindSession, UnwindFrame, Unwinding
<1>1. Top \in Frame /\ Cur \in Context
  BY <1>0, TopFacts
<1>2. CASE UnwindIsValid
  <2>1. /\ Top.fn = "is_valid" /\ IsValidEnsure /\ Return
        /\ IF exc = "throw" THEN exc' = "none" ELSE exc' = exc
    BY <1>2 DEF UnwindIsValid
  <2> QED BY <1>0, <2>1, IsValidEnds
<1>3. CASE ProtectStops
  <2>1. PICK r : r = [Cur EXCEPT !.disturbed =
                   Cur.disturbed \/ Top.d \in Compiled[Top.cs].formatOk \ Compiled[Top.cs].formatRaise]
    OBVIOUS
  <2>2. /\ exc' = "none" /\ Conclude(Top, <<FormatError>>) /\ SetContext(r)
        /\ Protecting(Top)
    BY <1>3, <2>1 DEF ProtectStops
  <2>3. r \in Context /\ SamePath(Cur, r)
    BY <1>1, <2>1 DEF Context, SamePath
  <2>4. <<FormatError>> \in Seq(Plain)
    BY <1>0, FormatErrorType
  <2>5. UserCode(Top) /\ Top.fn \in DecidingFn
    BY <2>2 DEF UserCode, Protecting, DecidingFn
  <2> QED BY <1>0, <2>2, <2>3, <2>4, <2>5, ContextSet, ConcludeKeepsPath
<1>4. CASE UnwindSession
  <2>1. /\ Top.fn \in SessionFn /\ exc' # "throw"
        /\ CloseSession("broken") \/ CloseSession("raised")
    <3>1. Top.fn \in SessionFn /\ (CloseSession("broken") \/ CloseSession("raised"))
          /\ exc' \in {"none", exc}
      BY <1>4 DEF UnwindSession
    <3>2. exc # "throw"
      BY <1>0, <3>1, ThrowsLeaveSessions
    <3> QED BY <3>1, <3>2
  <2> QED BY <1>0, <2>1, CloseKeepsPath
<1>5. CASE UnwindFrame
  <2>1. PICK r : r = [Cur EXCEPT !.leaks =
                   Cur.leaks + (Len(Top.loc) - Len(stack[Len(stack) - 1].loc))]
    OBVIOUS
  <2>2. /\ Top.fn \notin SessionFn /\ Return /\ SetContext(r) /\ exc' = exc
    BY <1>5, <2>1 DEF UnwindFrame
  <2>3. r \in Context /\ Leaving(r)
    <3>1. PICK n, b : n = Len(stack) /\ b = stack[n - 1]
      OBVIOUS
    <3>2. b \in Frame
      BY <1>0, <2>2, <3>1, CallerFacts
    <3>3. Len(b.loc) \in Nat /\ Len(Top.loc) \in Nat /\ Cur.leaks \in Int
      BY <1>1, <3>2, LocFacts DEF Context
    <3>4. \A x \in Int, y, z \in Nat : x + (y - z) \in Int
      OBVIOUS
    <3>5. Cur.leaks + (Len(Top.loc) - Len(stack[Len(stack) - 1].loc)) \in Int
      BY <3>1, <3>3, <3>4
    <3> QED BY <1>1, <2>1, <3>5 DEF Context, Leaving
  <2> QED BY <1>0, <2>2, <2>3, ContextSet, ReturnKeepsPath
<1> QED BY <1>2, <1>3, <1>4, <1>5 DEF UnwindStep

(***************************************************************************)
(* The theorems.                                                           *)
(***************************************************************************)
LEMMA InitPathInv == Init => PathInv
<1> SUFFICES ASSUME Init
             PROVE  PathInv
  OBVIOUS
<1>1. stack = <<>> /\ ctx = <<>> /\ exc = "none" /\ Len(stack) = 0 /\ Len(ctx) = 0
  BY DEF Init
<1>2. FramesPlaced /\ Chained /\ DepthCounted /\ PathTraced /\ SlotsFilled /\ ThrowFilled
  BY <1>1 DEF FramesPlaced, Chained, DepthCounted, PathTraced, SlotsFilled, ThrowFilled
<1> QED BY <1>1, <1>2 DEF PathInv

LEMMA StutterPath ==
  ASSUME PathInv, UNCHANGED vars
  PROVE  PathInv'
<1>1. PICK q, x, e : q = stack /\ x = ctx /\ e = exc
  OBVIOUS
<1>2. q = stack' /\ x = ctx' /\ e = exc'
  BY <1>1 DEF vars
<1>3. /\ \A j \in 1 .. Len(q) : Placed(q[j])
      /\ \A j \in 1 .. Len(q) - 1 : LinkedAt(q[j], q[j + 1])
      /\ \A j \in 1 .. Len(q) : Innermost(q, j) => FineAt(x[q[j].c], q[j], e)
      /\ \A c \in 1 .. Len(x) : Located(x[c])
      /\ e = "throw" => Filled(x[q[Len(q)].c], x[q[Len(q)].c].depth)
  BY <1>1, PathParts DEF Cur, Top
<1> QED BY <1>2, <1>3, PathArrives

LEMMA NextPathInv == IInv /\ PathInv /\ [Next]_vars => PathInv'
<1> SUFFICES ASSUME IInv, PathInv, [Next]_vars
             PROVE  PathInv'
  OBVIOUS
<1>1. CASE Next
  <2>1. Finished => UNCHANGED vars
    BY DEF Finished
  <2> QED BY <1>1, <2>1, SessionStepsPath, PlanStepsPath, CombinatorStepsPath,
             ErrorStepsPath, UserStepsPath, UnwindStepsPath, StutterPath DEF Next
<1>2. CASE UNCHANGED vars
  BY <1>2, StutterPath
<1> QED BY <1>1, <1>2

(* At every moment of every validation, however deeply calls of the same   *)
(* thread nest and whatever is thrown or raised on the way, the path array *)
(* and its depth stand for the place the innermost function is at          *)
(* (types/context.h, path.c).                                              *)
THEOREM PathFollowsDocument == Spec => []PathInv
<1>1. Init => IInv /\ PathInv
  BY InitIInv, InitPathInv
<1>2. IInv /\ PathInv /\ [Next]_vars => (IInv /\ PathInv)'
  BY NextIInv, NextPathInv
<1> QED BY <1>1, <1>2, PTL DEF Spec

(* Every INCR_CONTEXT is balanced by a DECR_CONTEXT on every normal        *)
(* return: only levels that a throw or an exception left behind remain.    *)
THEOREM DepthIsAccounted == Spec => []DepthAccounted
<1>1. IInv /\ PathInv => DepthAccounted
  <2> SUFFICES ASSUME IInv, PathInv, exc = "none", stack # <<>>
               PROVE  Cur.depth = Len(Top.loc) - 1 + Cur.leaks
    BY DEF DepthAccounted
  <2>1. exc # "overrun"
    OBVIOUS
  <2> QED BY <2>1, TopFine DEF Deep
<1> QED BY <1>1, Invariance, PathFollowsDocument, PTL

(* The path an error is yielded with is the place of the failing value,    *)
(* longer only by the levels that were left behind (error.c, path.c).      *)
THEOREM ErrorsAreLocated == Spec => []ErrorsLocated
<1>1. PathInv => ErrorsLocated
  BY DEF PathInv, Located, ErrorsLocated
<1> QED BY <1>1, PathFollowsDocument, PTL

(* When an error is about to be yielded every slot that to_path will read  *)
(* is in the array and holds a segment (error.c, path.c).                  *)
THEOREM SlotsAreWritten == Spec => []SlotsWritten
<1>1. IInv /\ PathInv => SlotsWritten
  <2> SUFFICES ASSUME IInv, PathInv, At("yield_error", "loop")
               PROVE  Filled(Cur, Cur.depth)
    BY DEF SlotsWritten, Filled
  <2>1. stack # <<>> /\ exc = "none" /\ exc # "overrun" /\ Top.fn = "yield_error"
    BY DEF At, Running
  <2>2. Placed(Top) /\ Written(Cur, Top)
    BY <2>1, TopFine
  <2>3. ~Unnamed(Top)
    BY <2>1 DEF Unnamed, Inside, LoopFn, ArrayFn
  <2> QED BY <2>2, <2>3 DEF Placed, Written
<1> QED BY <1>1, Invariance, PathFollowsDocument, PTL
=============================================================================
