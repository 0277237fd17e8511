-------------------------- MODULE LifecycleProofs --------------------------
(***************************************************************************)
(* For every number of calls, objects and trees: Consistent is inductive,  *)
(* LiveInUse and OneTree follow from it, and Lifecycle implements          *)
(* SchemaObject.                                                           *)
(***************************************************************************)
EXTENDS Lifecycle, TLAPS

\* Initially no ivar is set, no call is made and no tree exists.
LEMMA InitConsistent == Init => Consistent
<1> SUFFICES ASSUME Init PROVE Consistent OBVIOUS
<1>1. TypeOK
  BY DEF Init, TypeOK, Op, Answer
<1>2. IvarsAgree
  BY NoObjectAssumption DEF Init, IvarsAgree, CallsOn
<1>3. CallsHold
  BY DEF Init, CallsHold
<1>4. ReachableLive
  BY NoTreeAssumption DEF Init, ReachableLive, Reachable
<1>5. RacesKnown
  BY DEF Init, RacesKnown, RaceKnown
<1> QED BY <1>1, <1>2, <1>3, <1>4, <1>5 DEF Consistent

\* Calls answered at once change nothing but an answer.
LEMMA AtOnceStep ==
  ASSUME Consistent, NEW c \in Call, NEW o \in Object,
         AlreadyCompiled(c, o) \/ RejectValidate(c, o)
  PROVE  Consistent'
<1> USE DEF AlreadyCompiled, RejectValidate
<1>1. TypeOK' BY DEF Consistent, TypeOK, Answer
<1>2. IvarsAgree' BY DEF Consistent, IvarsAgree, CallsOn
<1>3. CallsHold' BY DEF Consistent, CallsHold
<1>4. ReachableLive' BY DEF Consistent, ReachableLive, Reachable
<1>5. RacesKnown' BY DEF Consistent, RacesKnown, RaceKnown, Compiling, CallsOn
<1> QED BY <1>1, <1>2, <1>3, <1>4, <1>5 DEF Consistent

\* A compile begins on an object without a tree, and with a tree nobody has.
LEMMA BeginCompileStep ==
  ASSUME Consistent, NEW c \in Call, NEW o \in Object, NEW tr \in Tree,
         BeginCompile(c, o, tr)
  PROVE  Consistent'
<1> USE DEF BeginCompile, Idle
<1>1. TypeOK' BY DEF Consistent, TypeOK, Op
<1>2. IvarsAgree' BY DEF Consistent, IvarsAgree, CallsOn, TypeOK
<1>3. CallsHold' BY NoObjectAssumption DEF Consistent, CallsHold, TypeOK
<1>4. ReachableLive' BY DEF Consistent, ReachableLive, Reachable, TypeOK
<1>5. RacesKnown'
  <2> SUFFICES ASSUME NEW d \in Call PROVE RaceKnown(d)'
    BY DEF RacesKnown
  <2>1. CASE d = c
    <3>1. ivar[o] = NoTree BY DEF Consistent, IvarsAgree
    <3>2. Compiling(o)' = Compiling(o) \cup {c} BY DEF Consistent, TypeOK, Compiling, CallsOn
    <3>3. op'[c] = "compile" /\ self'[c] = o BY DEF Consistent, TypeOK
    <3> QED BY <2>1, <3>1, <3>2, <3>3 DEF RaceKnown
  <2>2. CASE d # c
    <3>1. op'[d] = op[d] /\ self'[d] = self[d] /\ struct'[d] = struct[d] /\ ivar' = ivar
      BY <2>2 DEF Consistent, TypeOK
    <3>2. CASE op[d] = "compile" /\ self[d] = o
      <4>1. d \in Compiling(o) BY <3>2 DEF Compiling, CallsOn
      <4> QED BY <3>1, <3>2, <4>1 DEF RaceKnown
    <3>3. CASE op[d] = "compile" /\ self[d] # o
      <4>1. Compiling(self[d])' = Compiling(self[d])
        BY <3>3 DEF Consistent, CallsHold, TypeOK, Compiling, CallsOn
      <4> QED BY <3>1, <3>3, <4>1 DEF Consistent, RacesKnown, RaceKnown
    <3>4. CASE op[d] # "compile"
      BY <3>1, <3>4 DEF Consistent, RacesKnown, RaceKnown
    <3> QED BY <3>2, <3>3, <3>4
  <2> QED BY <2>1, <2>2
<1> QED BY <1>1, <1>2, <1>3, <1>4, <1>5 DEF Consistent

\* A compile ends: what it published, others may only hold if they raced.
LEMMA PublishStep ==
  ASSUME Consistent, NEW c \in Call, Publish(c)
  PROVE  Consistent'
<1> USE DEF Publish, Return
<1>0. self[c] \in Object /\ struct[c] \in used \ freed /\ struct[c] \in Tree /\ struct[c] # NoTree
  BY NoTreeAssumption DEF Consistent, CallsHold, ReachableLive, Reachable, TypeOK
<1>1. TypeOK' BY <1>0 DEF Consistent, TypeOK, Op, Answer
<1>2. IvarsAgree'
  BY <1>0, NoObjectAssumption DEF Consistent, IvarsAgree, CallsOn, TypeOK
<1>3. CallsHold' BY <1>0, NoTreeAssumption DEF Consistent, CallsHold, TypeOK
<1>4. ReachableLive' BY <1>0 DEF Consistent, ReachableLive, Reachable, TypeOK
<1>5. RacesKnown'
  <2> SUFFICES ASSUME NEW d \in Call PROVE RaceKnown(d)'
    BY DEF RacesKnown
  <2>1. CASE d = c
    BY <2>1 DEF Consistent, TypeOK, RaceKnown
  <2>2. CASE d # c
    <3>1. op'[d] = op[d] /\ self'[d] = self[d] /\ struct'[d] = struct[d]
      BY <2>2 DEF Consistent, TypeOK
    <3>2. CASE self[d] = self[c]
      <4>1. CASE op[d] = "compile"
        <5>1. c \in Compiling(self[d]) BY <3>2 DEF Compiling, CallsOn
        <5> QED BY <2>2, <3>1, <4>1, <5>1 DEF Consistent, RacesKnown, RaceKnown
      <4>2. CASE op[d] = "validate"
        <5>1. struct[d] # NoTree
          BY <4>2, NoTreeAssumption DEF Consistent, CallsHold, TypeOK
        <5>2. self[d] \in raced
          BY <3>2, <4>2, <5>1 DEF Consistent, RacesKnown, RaceKnown
        <5> QED BY <3>1, <5>2 DEF RaceKnown
      <4> QED BY <3>1, <4>1, <4>2 DEF RaceKnown, Consistent, TypeOK, Op
    <3>3. CASE self[d] # self[c]
      <4>1. ivar'[self[d]] = ivar[self[d]]
        BY <3>3 DEF Consistent, TypeOK
      <4>2. op[d] = "compile" => Compiling(self[d])' = Compiling(self[d])
        BY <3>3, NoObjectAssumption DEF Consistent, CallsHold, TypeOK, Compiling, CallsOn
      <4> QED BY <3>1, <4>1, <4>2 DEF Consistent, RacesKnown, RaceKnown
    <3> QED BY <3>2, <3>3
  <2> QED BY <2>1, <2>2
<1> QED BY <1>1, <1>2, <1>3, <1>4, <1>5 DEF Consistent

\* A call that ends without publishing leaves the object as it was.
LEMMA EndStep ==
  ASSUME Consistent, NEW c \in Call, CompileRaises(c) \/ EndValidate(c)
  PROVE  Consistent'
<1> USE DEF CompileRaises, EndValidate, Return
<1>0. PICK how \in {"done", "raised"} : Return(c, how)
  BY DEF CompileRaises, EndValidate
<1>1. TypeOK' BY <1>0 DEF Consistent, TypeOK, Op, Answer
<1>2. IvarsAgree' BY NoObjectAssumption DEF Consistent, IvarsAgree, CallsOn, TypeOK
<1>3. CallsHold' BY NoTreeAssumption DEF Consistent, CallsHold, TypeOK
<1>4. ReachableLive' BY DEF Consistent, ReachableLive, Reachable, TypeOK
<1>5. RacesKnown'
  <2> SUFFICES ASSUME NEW d \in Call PROVE RaceKnown(d)'
    BY DEF RacesKnown
  <2>1. CASE d = c
    BY <2>1 DEF Consistent, TypeOK, RaceKnown
  <2>2. CASE d # c
    <3>1. op'[d] = op[d] /\ self'[d] = self[d] /\ struct'[d] = struct[d] /\ ivar' = ivar
      BY <2>2 DEF Consistent, TypeOK
    <3>2. op[d] = "compile" /\ Compiling(self[d]) = {d} => Compiling(self[d])' = {d}
      BY <2>2, NoObjectAssumption DEF Consistent, CallsHold, TypeOK, Compiling, CallsOn
    <3> QED BY <3>1, <3>2 DEF Consistent, RacesKnown, RaceKnown
  <2> QED BY <2>1, <2>2
<1> QED BY <1>1, <1>2, <1>3, <1>4, <1>5 DEF Consistent

\* A validation begins with the tree of its object.
LEMMA BeginValidateStep ==
  ASSUME Consistent, NEW c \in Call, NEW o \in Object, BeginValidate(c, o)
  PROVE  Consistent'
<1> USE DEF BeginValidate, Idle
<1>0. ivar[o] \in used /\ ivar[o] \in Tree
  BY DEF Consistent, ReachableLive, Reachable, TypeOK
<1>1. TypeOK' BY <1>0 DEF Consistent, TypeOK, Op
<1>2. IvarsAgree' BY DEF Consistent, IvarsAgree, CallsOn, TypeOK
<1>3. CallsHold' BY <1>0, NoObjectAssumption DEF Consistent, CallsHold, IvarsAgree, TypeOK
<1>4. ReachableLive' BY DEF Consistent, ReachableLive, Reachable, TypeOK
<1>5. RacesKnown'
  <2> SUFFICES ASSUME NEW d \in Call PROVE RaceKnown(d)'
    BY DEF RacesKnown
  <2>1. CASE d = c
    BY <2>1 DEF Consistent, TypeOK, RaceKnown
  <2>2. CASE d # c
    <3>1. op'[d] = op[d] /\ self'[d] = self[d] /\ struct'[d] = struct[d] /\ ivar' = ivar
      BY <2>2 DEF Consistent, TypeOK
    <3>2. op[d] = "compile" => Compiling(self[d])' = Compiling(self[d])
      BY NoObjectAssumption DEF Consistent, CallsHold, TypeOK, Compiling, CallsOn
    <3> QED BY <3>1, <3>2 DEF Consistent, RacesKnown, RaceKnown
  <2> QED BY <2>1, <2>2
<1> QED BY <1>1, <1>2, <1>3, <1>4, <1>5 DEF Consistent

\* Objects come and go while no call is made on them.
LEMMA ObjectStepConsistent ==
  ASSUME Consistent, ObjectStep
  PROVE  Consistent'
<1>1. ASSUME NEW o \in Object, New(o) PROVE Consistent'
  <2> USE <1>1 DEF New
  <2>1. TypeOK' BY DEF Consistent, TypeOK
  <2>2. IvarsAgree' BY DEF Consistent, IvarsAgree, CallsOn, TypeOK
  <2>3. CallsHold' BY DEF Consistent, CallsHold
  <2>4. ReachableLive' BY DEF Consistent, ReachableLive, Reachable
  <2>5. RacesKnown' BY DEF Consistent, RacesKnown, RaceKnown, Compiling, CallsOn
  <2> QED BY <2>1, <2>2, <2>3, <2>4, <2>5 DEF Consistent
<1>2. ASSUME NEW o \in Object, NEW p \in Object, Copy(o, p) PROVE Consistent'
  <2> USE <1>2 DEF Copy
  <2>1. TypeOK' BY DEF Consistent, TypeOK
  <2>2. IvarsAgree' BY DEF Consistent, IvarsAgree, CallsOn, TypeOK
  <2>3. CallsHold' BY DEF Consistent, CallsHold, IvarsAgree, CallsOn, TypeOK
  <2>4. ReachableLive' BY DEF Consistent, ReachableLive, Reachable, TypeOK
  <2>5. RacesKnown'
    <3>1. \A c \in Call : self[c] # p
      BY DEF Consistent, IvarsAgree, CallsOn
    <3>2. \A c \in Call : ivar'[self[c]] = ivar[self[c]]
      BY <3>1 DEF Consistent, TypeOK
    <3> QED BY <3>2 DEF Consistent, RacesKnown, RaceKnown, Compiling, CallsOn
  <2> QED BY <2>1, <2>2, <2>3, <2>4, <2>5 DEF Consistent
<1>3. ASSUME NEW o \in Object, Drop(o) PROVE Consistent'
  <2> USE <1>3 DEF Drop
  <2>1. TypeOK' BY DEF Consistent, TypeOK
  <2>2. IvarsAgree' BY DEF Consistent, IvarsAgree, CallsOn, TypeOK
  <2>3. CallsHold' BY DEF Consistent, CallsHold, IvarsAgree, CallsOn, TypeOK
  <2>4. ReachableLive' BY NoTreeAssumption DEF Consistent, ReachableLive, Reachable, TypeOK
  <2>5. RacesKnown'
    <3>1. \A c \in Call : self[c] # o
      BY DEF CallsOn
    <3>2. \A c \in Call : ivar'[self[c]] = ivar[self[c]]
      BY <3>1 DEF Consistent, TypeOK
    <3> QED BY <3>2 DEF Consistent, RacesKnown, RaceKnown, Compiling, CallsOn
  <2> QED BY <2>1, <2>2, <2>3, <2>4, <2>5 DEF Consistent
<1> QED BY <1>1, <1>2, <1>3 DEF ObjectStep

\* The collector takes only what is not reachable.
LEMMA CollectStep ==
  ASSUME Consistent, NEW tr \in Tree, Collect(tr)
  PROVE  Consistent'
<1> USE DEF Collect
<1>1. TypeOK' BY DEF Consistent, TypeOK
<1>2. IvarsAgree' BY DEF Consistent, IvarsAgree, CallsOn
<1>3. CallsHold' BY DEF Consistent, CallsHold
<1>4. ReachableLive' BY DEF Consistent, ReachableLive, Reachable
<1>5. RacesKnown' BY DEF Consistent, RacesKnown, RaceKnown, Compiling, CallsOn
<1> QED BY <1>1, <1>2, <1>3, <1>4, <1>5 DEF Consistent

\* Every step keeps the invariant.
LEMMA NextConsistent == Consistent /\ [Next]_vars => Consistent'
<1> SUFFICES ASSUME Consistent, [Next]_vars PROVE Consistent' OBVIOUS
<1>1. ASSUME NEW c \in Call, CompileStep(c) PROVE Consistent'
  BY <1>1, AtOnceStep, BeginCompileStep, PublishStep, EndStep DEF CompileStep
<1>2. ASSUME NEW c \in Call, ValidateStep(c) PROVE Consistent'
  BY <1>2, AtOnceStep, BeginValidateStep, EndStep DEF ValidateStep
<1>3. CASE ObjectStep
  BY <1>3, ObjectStepConsistent
<1>4. ASSUME NEW tr \in Tree, Collect(tr) PROVE Consistent'
  BY <1>4, CollectStep
<1>5. CASE UNCHANGED vars
  BY <1>5 DEF vars, Consistent, TypeOK, IvarsAgree, CallsHold, ReachableLive, RacesKnown,
              RaceKnown, Reachable, Compiling, CallsOn
<1> QED BY <1>1, <1>2, <1>3, <1>4, <1>5 DEF Next

\* schema.c: in every reachable state the ivars agree, what the collector can
\* see is whole, and a call works on its object's tree unless compiles of the
\* object overlapped.
THEOREM AlwaysConsistent == Spec => []Consistent
BY InitConsistent, NextConsistent, PTL DEF Spec

\* schema.c:12: no tree is freed under a call, but for a validation of an
\* object whose compiles overlapped.
THEOREM AlwaysLiveInUse == Spec => []LiveInUse
<1>1. Consistent => LiveInUse
  <2> SUFFICES ASSUME Consistent PROVE LiveInUse OBVIOUS
  <2>1. ASSUME NEW c \in Call, struct[c] \in freed
        PROVE  op[c] = "validate" /\ self[c] \in raced
    <3>1. struct[c] \in Tree /\ ~Reachable(struct[c])
      BY <2>1 DEF Consistent, TypeOK, ReachableLive
    <3>2. ~wrapper[c] BY <3>1 DEF Reachable
    <3>3. op[c] # "compile" BY <3>2 DEF Consistent, CallsHold
    <3>4. op[c] # "none"
      BY <3>1, NoTreeAssumption DEF Consistent, CallsHold
    <3>5. op[c] = "validate" BY <3>3, <3>4 DEF Consistent, TypeOK, Op
    <3>6. self[c] \in Object BY <3>5 DEF Consistent, CallsHold, TypeOK
    <3>7. struct[c] # ivar[self[c]] BY <3>1, <3>6 DEF Reachable
    <3> QED BY <3>5, <3>7 DEF Consistent, RacesKnown, RaceKnown
  <2>2. ASSUME NEW o \in Object PROVE ivar[o] \notin freed
    BY DEF Consistent, TypeOK, ReachableLive, Reachable
  <2> QED BY <2>1, <2>2 DEF LiveInUse
<1> QED BY <1>1, AlwaysConsistent, PTL

\* schema.c:52: an object whose compiles never overlapped has one tree.
THEOREM AlwaysOneTree == Spec => OneTree
<1> DEFINE Keeps == \A o \in Object : ivar[o] # NoTree /\ ivar'[o] \notin {ivar[o], NoTree} => o \in raced
<1>1. Consistent /\ [Next]_vars => [Keeps]_vars
  <2> SUFFICES ASSUME Consistent, Next, NEW o \in Object,
                      ivar[o] # NoTree, ivar'[o] \notin {ivar[o], NoTree}
               PROVE  o \in raced
    OBVIOUS
  <2>1. ASSUME NEW c \in Call, CompileStep(c) PROVE o \in raced
    <3>1. CASE Publish(c)
      <4>1. self[c] = o BY <3>1 DEF Publish, Consistent, TypeOK
      <4> QED BY <3>1, <4>1 DEF Publish, Consistent, RacesKnown, RaceKnown
    <3>2. CASE ~Publish(c)
      BY <2>1, <3>2 DEF CompileStep, AlreadyCompiled, BeginCompile, CompileRaises
    <3> QED BY <3>1, <3>2
  <2>2. ASSUME NEW c \in Call, ValidateStep(c) PROVE o \in raced
    BY <2>2 DEF ValidateStep, BeginValidate, RejectValidate, EndValidate
  <2>3. CASE ObjectStep
    BY <2>3 DEF ObjectStep, New, Copy, Drop, Consistent, TypeOK, IvarsAgree
  <2>4. ASSUME NEW tr \in Tree, Collect(tr) PROVE o \in raced
    BY <2>4 DEF Collect
  <2> QED BY <2>1, <2>2, <2>3, <2>4 DEF Next
<1> QED BY <1>1, AlwaysConsistent, PTL DEF Spec, OneTree, Keeps

----------------------------------------------------------------------------
(***************************************************************************)
(* Lifecycle implements SchemaObject: each step is one of its steps.       *)
(***************************************************************************)
\* A step of rb_compile is a step of a call that compiles.
LEMMA CompileStepAnswered ==
  ASSUME Consistent, NEW c \in Call, CompileStep(c)
  PROVE  Promise!CallStep(c)
<1> DEFINE ready == {o \in Object : compiled[o]}
<1>1. ASSUME NEW o \in Object, AlreadyCompiled(c, o) PROVE Promise!Compile(c, o)
  BY <1>1 DEF AlreadyCompiled, Idle, Promise!Compile, Promise!Free, Promise!AtOnce
<1>2. ASSUME NEW o \in Object, NEW tr \in Tree, BeginCompile(c, o, tr)
      PROVE  Promise!Compile(c, o)
  BY <1>2 DEF BeginCompile, Idle, Promise!Compile, Promise!Free, Promise!Begin
<1>3. CASE Publish(c)
  <2>1. self[c] \in Object BY <1>3 DEF Publish, Consistent, CallsHold, TypeOK
  <2>2. ready' = ready \cup {self[c]} BY <1>3, <2>1 DEF Publish, Consistent, TypeOK
  <2> QED BY <1>3, <2>2 DEF Publish, Return, Promise!CallStep, Promise!Compiled, Promise!Answer
<1>4. CASE CompileRaises(c)
  <2>1. ready' = ready BY <1>4 DEF CompileRaises
  <2> QED BY <1>4, <2>1 DEF CompileRaises, Return, Promise!CallStep, Promise!Compiled, Promise!Answer
<1> QED BY <1>1, <1>2, <1>3, <1>4 DEF CompileStep, Promise!CallStep

\* A step of rb_validate or rb_valid is a step of a call that validates.
LEMMA ValidateStepAnswered ==
  ASSUME Consistent, NEW c \in Call, ValidateStep(c)
  PROVE  Promise!CallStep(c)
<1> DEFINE ready == {o \in Object : compiled[o]}
<1>1. ASSUME NEW o \in Object, BeginValidate(c, o) PROVE Promise!Validate(c, o)
  <2>1. o \in ready BY <1>1 DEF BeginValidate, Consistent, IvarsAgree
  <2> QED BY <1>1, <2>1 DEF BeginValidate, Idle, Promise!Validate, Promise!Free, Promise!Begin
<1>2. ASSUME NEW o \in Object, RejectValidate(c, o) PROVE Promise!Validate(c, o)
  <2>1. o \notin ready BY <1>2 DEF RejectValidate, Consistent, IvarsAgree
  <2> QED BY <1>2, <2>1 DEF RejectValidate, Idle, Promise!Validate, Promise!Free, Promise!AtOnce
<1>3. CASE EndValidate(c)
  <2>1. self[c] \in ready BY <1>3 DEF EndValidate, Consistent, CallsHold, TypeOK
  <2>2. ready' = ready BY <1>3 DEF EndValidate
  <2> QED BY <1>3, <2>1, <2>2
          DEF EndValidate, Return, Promise!CallStep, Promise!Validated, Promise!Answer
<1> QED BY <1>1, <1>2, <1>3 DEF ValidateStep, Promise!CallStep

\* Objects come and go as SchemaObject says.
LEMMA ObjectStepAnswered ==
  ASSUME Consistent, ObjectStep
  PROVE  Promise!ObjectStep
<1> DEFINE ready == {o \in Object : compiled[o]}
<1>1. ASSUME NEW o \in Object, New(o) PROVE Promise!New(o)
  BY <1>1 DEF New, Promise!New
<1>2. ASSUME NEW o \in Object, NEW p \in Object, Copy(o, p) PROVE Promise!Copy(o, p)
  <2>1. p \notin ready BY <1>2 DEF Copy, Consistent, IvarsAgree
  <2>2. ready' = IF o \in ready THEN ready \cup {p} ELSE ready
    BY <1>2, <2>1 DEF Copy, Consistent, TypeOK
  <2> QED BY <1>2, <2>2 DEF Copy, Promise!Copy
<1>3. ASSUME NEW o \in Object, Drop(o) PROVE Promise!Drop(o)
  <2>1. ready' = ready \ {o} BY <1>3 DEF Drop, Consistent, TypeOK
  <2> QED BY <1>3, <2>1 DEF Drop, CallsOn, Promise!Drop
<1> QED BY <1>1, <1>2, <1>3 DEF ObjectStep, Promise!ObjectStep

\* schema.c: whatever the calls, their order, the copies and the collector,
\* every call is answered as SchemaObject says.
THEOREM AlwaysAnswered == Spec => Answered
<1>1. Init => Promise!Init
  BY DEF Init, Promise!Init
<1>2. Consistent /\ [Next]_vars => [Promise!Next]_(Promise!objectVars)
  <2> SUFFICES ASSUME Consistent, [Next]_vars
               PROVE  Promise!Next \/ UNCHANGED Promise!objectVars
    OBVIOUS
  <2>1. ASSUME NEW c \in Call, CompileStep(c) \/ ValidateStep(c) PROVE Promise!Next
    BY <2>1, CompileStepAnswered, ValidateStepAnswered DEF Promise!Next
  <2>2. CASE ObjectStep
    BY <2>2, ObjectStepAnswered DEF Promise!Next
  <2>3. ASSUME NEW tr \in Tree, Collect(tr) PROVE UNCHANGED Promise!objectVars
    BY <2>3 DEF Collect, Promise!objectVars
  <2>4. CASE UNCHANGED vars
    BY <2>4 DEF vars, Promise!objectVars
  <2> QED BY <2>1, <2>2, <2>3, <2>4 DEF Next
<1> QED BY <1>1, <1>2, AlwaysConsistent, PTL DEF Spec, Answered, Promise!Spec
=============================================================================
