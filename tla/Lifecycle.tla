----------------------------- MODULE Lifecycle -----------------------------
(***************************************************************************)
(* A Schema object between its users: schema.c's rb_compile, rb_validate   *)
(* and rb_valid called from several threads and from the blocks that other *)
(* calls yield to, copies of the object, and the collector.  Ruby runs one *)
(* thread at a time and may switch wherever C calls back into Ruby, so a   *)
(* step here is what a C function does without calling back.  A call is    *)
(* one activation: those of a thread nest and those of several interleave, *)
(* and letting any call take the next step covers both.                    *)
(***************************************************************************)
CONSTANTS
  Call,    \* activations of the three methods
  Object,  \* Schema objects
  Tree,    \* trees of CompiledSchema structs; it bounds how many are built
  NoTree,  \* nil
  NoObject

ASSUME NoTreeAssumption == NoTree \notin Tree
ASSUME NoObjectAssumption == NoObject \notin Object

VARIABLES
  status,     \* of an object: not made yet, in the application's hands, gone
  ivar,       \* its ivar "compiled_schema"
  compiled,   \* its ivar "compiled"
  op,         \* what a call is doing
  self,       \* the object it is made on
  struct,     \* the tree its C code points into
  wrapper,    \* whether the tree's wrapper is on its C stack
  answer,     \* how it ended the last time
  used,       \* trees ever built
  freed,      \* trees given back
  raced       \* history: objects on which one compile began during another

vars == <<status, ivar, compiled, op, self, struct, wrapper, answer, used, freed, raced>>

Op == {"none", "compile", "validate"}
Answer == {"none", "done", "raised", "TypeError"}

TypeOK ==
  /\ status \in [Object -> {"unborn", "alive", "gone"}]
  /\ ivar \in [Object -> Tree \cup {NoTree}]
  /\ compiled \in [Object -> BOOLEAN]
  /\ op \in [Call -> Op]
  /\ self \in [Call -> Object \cup {NoObject}]
  /\ struct \in [Call -> Tree \cup {NoTree}]
  /\ wrapper \in [Call -> BOOLEAN]
  /\ answer \in [Call -> Answer]
  /\ used \subseteq Tree /\ freed \subseteq used
  /\ raced \subseteq Object

CallsOn(o) == {c \in Call : self[c] = o}
Compiling(o) == {c \in CallsOn(o) : op[c] = "compile"}

Idle(c, o) == op[c] = "none" /\ status[o] = "alive"

\* The call ends and its C frame is gone.
Return(c, how) ==
  /\ op' = [op EXCEPT ![c] = "none"]
  /\ self' = [self EXCEPT ![c] = NoObject]
  /\ struct' = [struct EXCEPT ![c] = NoTree]
  /\ wrapper' = [wrapper EXCEPT ![c] = FALSE]
  /\ answer' = [answer EXCEPT ![c] = how]

----------------------------------------------------------------------------
(* rb_compile.                                                              *)

AlreadyCompiled(c, o) ==
  /\ Idle(c, o) /\ compiled[o]
  /\ answer' = [answer EXCEPT ![c] = "done"]
  /\ UNCHANGED <<status, ivar, compiled, op, self, struct, wrapper, used, freed, raced>>

\* Mutant: the ivar "compiled" is not looked at.
BeginCompileAgain(c, o, tr) ==
  /\ Idle(c, o)
  /\ tr \notin used
  /\ op' = [op EXCEPT ![c] = "compile"]
  /\ self' = [self EXCEPT ![c] = o]
  /\ struct' = [struct EXCEPT ![c] = tr]
  /\ wrapper' = [wrapper EXCEPT ![c] = TRUE]
  /\ used' = used \cup {tr}
  /\ raced' = IF Compiling(o) = {} THEN raced ELSE raced \cup {o}
  /\ UNCHANGED <<status, ivar, compiled, answer, freed>>

\* compile_schema wraps the root struct first: the wrapper stays on its stack.
BeginCompile(c, o, tr) ==
  /\ Idle(c, o) /\ ~compiled[o]
  /\ tr \notin used
  /\ op' = [op EXCEPT ![c] = "compile"]
  /\ self' = [self EXCEPT ![c] = o]
  /\ struct' = [struct EXCEPT ![c] = tr]
  /\ wrapper' = [wrapper EXCEPT ![c] = TRUE]
  /\ used' = used \cup {tr}
  /\ raced' = IF Compiling(o) = {} THEN raced ELSE raced \cup {o}
  /\ UNCHANGED <<status, ivar, compiled, answer, freed>>

\* Mutant: "compiled" is left as it was.
PublishUnmarked(c) ==
  /\ op[c] = "compile"
  /\ ivar' = [ivar EXCEPT ![self[c]] = struct[c]]
  /\ Return(c, "done")
  /\ UNCHANGED <<status, compiled, used, freed, raced>>

\* The tree is complete: both ivars are set in one go.
Publish(c) ==
  /\ op[c] = "compile"
  /\ ivar' = [ivar EXCEPT ![self[c]] = struct[c]]
  /\ compiled' = [compiled EXCEPT ![self[c]] = TRUE]
  /\ Return(c, "done")
  /\ UNCHANGED <<status, used, freed, raced>>

\* compile() or resolve_refs() raises, or the thread is interrupted.
CompileRaises(c) ==
  /\ op[c] = "compile"
  /\ Return(c, "raised")
  /\ UNCHANGED <<status, ivar, compiled, used, freed, raced>>

----------------------------------------------------------------------------
(* rb_validate, rb_valid.                                                   *)

\* root_schema returns the struct.  Nothing uses its wrapper afterwards, so
\* the compiler may keep it on the stack or not.
BeginValidate(c, o) ==
  /\ Idle(c, o) /\ ivar[o] # NoTree
  /\ op' = [op EXCEPT ![c] = "validate"]
  /\ self' = [self EXCEPT ![c] = o]
  /\ struct' = [struct EXCEPT ![c] = ivar[o]]
  /\ \E kept \in BOOLEAN : wrapper' = [wrapper EXCEPT ![c] = kept]
  /\ UNCHANGED <<status, ivar, compiled, answer, used, freed, raced>>

\* root_schema finds nil in the ivar.
RejectValidate(c, o) ==
  /\ Idle(c, o) /\ ivar[o] = NoTree
  /\ answer' = [answer EXCEPT ![c] = "TypeError"]
  /\ UNCHANGED <<status, ivar, compiled, op, self, struct, wrapper, used, freed, raced>>

\* With its result, or with what a block or a format raised.
EndValidate(c) ==
  /\ op[c] = "validate"
  /\ \E how \in {"done", "raised"} : Return(c, how)
  /\ UNCHANGED <<status, ivar, compiled, used, freed, raced>>

----------------------------------------------------------------------------
(* The application and Ruby.                                                *)

New(o) ==
  /\ status[o] = "unborn"
  /\ status' = [status EXCEPT ![o] = "alive"]
  /\ UNCHANGED <<ivar, compiled, op, self, struct, wrapper, answer, used, freed, raced>>

\* Mutant: the copy has the tree and not the mark.
CopyUnmarked(o, p) ==
  /\ status[o] = "alive" /\ status[p] = "unborn"
  /\ status' = [status EXCEPT ![p] = "alive"]
  /\ ivar' = [ivar EXCEPT ![p] = ivar[o]]
  /\ UNCHANGED <<compiled, op, self, struct, wrapper, answer, used, freed, raced>>

\* Object#dup copies the ivars: both objects hold the same wrapper.
Copy(o, p) ==
  /\ status[o] = "alive" /\ status[p] = "unborn"
  /\ status' = [status EXCEPT ![p] = "alive"]
  /\ ivar' = [ivar EXCEPT ![p] = ivar[o]]
  /\ compiled' = [compiled EXCEPT ![p] = compiled[o]]
  /\ UNCHANGED <<op, self, struct, wrapper, answer, used, freed, raced>>

\* Nobody refers to the object; a call on it does.
Drop(o) ==
  /\ status[o] = "alive" /\ CallsOn(o) = {}
  /\ status' = [status EXCEPT ![o] = "gone"]
  /\ ivar' = [ivar EXCEPT ![o] = NoTree]
  /\ compiled' = [compiled EXCEPT ![o] = FALSE]
  /\ UNCHANGED <<op, self, struct, wrapper, answer, used, freed, raced>>

\* Mutant: a stack is not searched.
ReachableFromIvars(tr) == \E o \in Object : ivar[o] = tr

\* The collector finds a tree through its wrapper, in an ivar or on a stack.
Reachable(tr) ==
  \/ \E o \in Object : ivar[o] = tr
  \/ \E c \in Call : wrapper[c] /\ struct[c] = tr

\* rb_free_compiled_schema.
Collect(tr) ==
  /\ tr \in used \ freed /\ ~Reachable(tr)
  /\ freed' = freed \cup {tr}
  /\ UNCHANGED <<status, ivar, compiled, op, self, struct, wrapper, answer, used, raced>>

----------------------------------------------------------------------------
Init ==
  /\ status \in [Object -> {"unborn", "alive"}]
  /\ ivar = [o \in Object |-> NoTree]
  /\ compiled = [o \in Object |-> FALSE]
  /\ op = [c \in Call |-> "none"]
  /\ self = [c \in Call |-> NoObject]
  /\ struct = [c \in Call |-> NoTree]
  /\ wrapper = [c \in Call |-> FALSE]
  /\ answer = [c \in Call |-> "none"]
  /\ used = {} /\ freed = {} /\ raced = {}

CompileStep(c) ==
  \/ \E o \in Object : AlreadyCompiled(c, o)
  \/ \E o \in Object, tr \in Tree : BeginCompile(c, o, tr)
  \/ Publish(c)
  \/ CompileRaises(c)

ValidateStep(c) ==
  \/ \E o \in Object : BeginValidate(c, o) \/ RejectValidate(c, o)
  \/ EndValidate(c)

ObjectStep ==
  \/ \E o \in Object : New(o) \/ Drop(o)
  \/ \E o, p \in Object : Copy(o, p)

Next ==
  \/ \E c \in Call : CompileStep(c) \/ ValidateStep(c)
  \/ ObjectStep
  \/ \E tr \in Tree : Collect(tr)

Spec == Init /\ [][Next]_vars
----------------------------------------------------------------------------
(***************************************************************************)
(* The invariant the properties follow from.                               *)
(***************************************************************************)
\* The two ivars agree, and an object that is not there has neither.
IvarsAgree ==
  \A o \in Object : /\ compiled[o] <=> ivar[o] # NoTree
                    /\ status[o] # "alive" => ~compiled[o] /\ CallsOn(o) = {}

\* What a call holds.
CallsHold ==
  \A c \in Call :
    /\ op[c] = "none" <=> self[c] = NoObject
    /\ op[c] = "none" => ~wrapper[c] /\ struct[c] = NoTree
    /\ op[c] = "compile" => wrapper[c]
    /\ op[c] # "none" => struct[c] \in used
    /\ op[c] = "validate" => compiled[self[c]]

\* What the collector can see it leaves alone.
ReachableLive ==
  \A tr \in Tree : Reachable(tr) => tr \in used \ freed

\* Only a race has two trees for one object.
RaceKnown(c) ==
  /\ op[c] = "compile" /\ (ivar[self[c]] # NoTree \/ Compiling(self[c]) # {c})
       => self[c] \in raced
  /\ op[c] = "validate" /\ struct[c] # ivar[self[c]] => self[c] \in raced

RacesKnown == \A c \in Call : RaceKnown(c)

\* schema.c: the two ivars of an object never disagree, every tree in an ivar
\* or on the stack of compile is whole, and a call works on the tree of its
\* object unless two compiles of that object overlapped.
Consistent == TypeOK /\ IvarsAgree /\ CallsHold /\ ReachableLive /\ RacesKnown

----------------------------------------------------------------------------
(***************************************************************************)
(* What a Schema object promises its users.                                *)
(***************************************************************************)
\* root_schema (schema.c:12) lets the wrapper go: the tree a call works on is
\* freed under it only if compiles of its object overlapped.  The tree that
\* is being compiled and the tree of an object in use never are.
LiveInUse ==
  /\ \A c \in Call : struct[c] \in freed => op[c] = "validate" /\ self[c] \in raced
  /\ \A o \in Object : ivar[o] \notin freed

\* rb_compile (schema.c:52) gives an object one tree for its life, which its
\* copies share, unless compiles of the object overlapped.
OneTree ==
  [][\A o \in Object : ivar[o] # NoTree /\ ivar'[o] \notin {ivar[o], NoTree}
                          => o \in raced]_vars

\* The object as its users see it: compiled or not, whatever the trees.
Promise == INSTANCE SchemaObject WITH ready <- {o \in Object : compiled[o]}

\* schema.c: every call is answered as SchemaObject says.
Answered == Promise!Spec
=============================================================================
