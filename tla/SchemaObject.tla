---------------------------- MODULE SchemaObject ----------------------------
(***************************************************************************)
(* A Schema object as its users see it.  It becomes ready once and for     *)
(* all, when a compile ends well; a copy is as ready as the original.  A   *)
(* compile that ends well leaves it ready, one that raises leaves it as it *)
(* was.  It validates from the moment it is ready, and before that it      *)
(* answers TypeError at once.  Calls overlap as they like.                 *)
(***************************************************************************)
CONSTANTS Call, Object, NoObject

VARIABLES status, ready, op, self, answer

objectVars == <<status, ready, op, self, answer>>

Free(c, o) == op[c] = "none" /\ status[o] = "alive"

\* A call begins, and goes on until Answer.
Begin(c, o, what) ==
  /\ op' = [op EXCEPT ![c] = what]
  /\ self' = [self EXCEPT ![c] = o]
  /\ UNCHANGED <<status, ready, answer>>

Answer(c, how) ==
  /\ op' = [op EXCEPT ![c] = "none"]
  /\ self' = [self EXCEPT ![c] = NoObject]
  /\ answer' = [answer EXCEPT ![c] = how]
  /\ UNCHANGED status

\* A call is answered at once.
AtOnce(c, how) ==
  /\ answer' = [answer EXCEPT ![c] = how]
  /\ UNCHANGED <<status, ready, op, self>>

Compile(c, o) ==
  IF o \in ready THEN Free(c, o) /\ AtOnce(c, "done") ELSE Free(c, o) /\ Begin(c, o, "compile")

Compiled(c) ==
  /\ op[c] = "compile"
  /\ \/ ready' = ready \cup {self[c]} /\ Answer(c, "done")
     \/ ready' = ready /\ Answer(c, "raised")

Validate(c, o) ==
  IF o \in ready THEN Free(c, o) /\ Begin(c, o, "validate") ELSE Free(c, o) /\ AtOnce(c, "TypeError")

Validated(c) ==
  /\ op[c] = "validate" /\ self[c] \in ready
  /\ ready' = ready /\ \E how \in {"done", "raised"} : Answer(c, how)

New(o) ==
  /\ status[o] = "unborn"
  /\ status' = [status EXCEPT ![o] = "alive"]
  /\ UNCHANGED <<ready, op, self, answer>>

Copy(o, p) ==
  /\ status[o] = "alive" /\ status[p] = "unborn"
  /\ status' = [status EXCEPT ![p] = "alive"]
  /\ ready' = IF o \in ready THEN ready \cup {p} ELSE ready
  /\ UNCHANGED <<op, self, answer>>

Drop(o) ==
  /\ status[o] = "alive" /\ \A c \in Call : self[c] # o
  /\ status' = [status EXCEPT ![o] = "gone"]
  /\ ready' = ready \ {o}
  /\ UNCHANGED <<op, self, answer>>

Init ==
  /\ status \in [Object -> {"unborn", "alive"}]
  /\ ready = {}
  /\ op = [c \in Call |-> "none"]
  /\ self = [c \in Call |-> NoObject]
  /\ answer = [c \in Call |-> "none"]

CallStep(c) ==
  \/ \E o \in Object : Compile(c, o) \/ Validate(c, o)
  \/ Compiled(c)
  \/ Validated(c)

ObjectStep == \E o \in Object : New(o) \/ Drop(o) \/ \E p \in Object : Copy(o, p)

Next == ObjectStep \/ \E c \in Call : CallStep(c)

Spec == Init /\ [][Next]_objectVars
=============================================================================
