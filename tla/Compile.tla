------------------------------- MODULE Compile -------------------------------
(***************************************************************************)
(* Schema#compile: the recursive compile() over the Ruby schema, the table *)
(* of paths and $ids it fills (ref_data), resolve_refs() over the finished *)
(* structs, and Ruby's garbage collector, which may run between any two    *)
(* steps and frees what mark_compiled_schema does not reach.               *)
(***************************************************************************)
EXTENDS RubySchema

CONSTANTS
  Schemas,    (* The Ruby schemas a Schema object may be made from.        *)
  MaxAttempts (* Bound on the calls of compile that do the work.           *)

ASSUME SchemasAssumption == Schemas \subseteq Value
ASSUME MaxAttemptsAssumption == MaxAttempts \in Nat \ {0}

VARIABLES
  source,   (* @ruby_schema.                                               *)
  phase,    (* Where the call of compile is.                               *)
  attempts, (* Calls of compile that did the work so far.                  *)
  heap,     (* The CompiledSchema structs, in the order of their creation. *)
  frames,   (* The C frames of compile(), innermost last.                  *)
  refData,  (* ref_data.                                                   *)
  agenda,   (* Structs resolve_refs() has still to visit.                  *)
  root,     (* compiled_schema_obj on compile_schema's C stack, 0: none.   *)
  ivar      (* The ivar compiled_schema of the Schema object, 0: unset.    *)

cvars == <<source, phase, attempts, heap, frames, refData, agenda, root, ivar>>

(***************************************************************************)
(* A struct; 0 is a NULL pointer.  "expose" is EXPOSE_TO_RUBY: a Ruby      *)
(* object wraps the struct.  "scope" is scopePointer_val as a one-element  *)
(* sequence, empty for Qundef.  History fields: "loc", the position of the *)
(* schema in the document; "home", the struct of the nearest enclosing     *)
(* schema whose $id is a base, 0 for none; "swept", the collector is done  *)
(* with the wrapper; "frees", how often the struct was freed.              *)
(***************************************************************************)
Fn == {"no_op_validate", "false_validate", "validate", "validate_ref"}
Struct ==
  [val : Value, path : Seq(STRING), expose : BOOLEAN, fn : Fn, typeFn : STRING,
   flags : SUBSET STRING, format : STRING, id : UriType, ref : UriType,
   resolvedId : UriType, resolvedRef : UriType, scope : Seq(Seq(STRING)),
   refSchema : Nat, single : [SingleKeyword -> Nat], lists : [ListKeyword -> Seq(Nat)],
   nested : Seq(Nat), slots : Nat,
   loc : Seq(STRING), home : Nat, swept : BOOLEAN, frees : Nat]

(* A frame of compile(): its struct, its CompileContext, what it has still *)
(* to do, the Array or Hash it fills and the wrapper it has not put there  *)
(* yet.                                                                    *)
Frame == [s : Nat, base : UriType, pointer : Seq(STRING), home : Nat,
          pc : {"enter", "jobs"}, jobs : Seq(JobType), kept : Seq(Nat), obj : Nat]

CompileTypeOK ==
  /\ source \in Schemas
  /\ phase \in {"idle", "compile", "resolve", "dropped"}
  /\ attempts \in 0 .. MaxAttempts
  /\ heap \in Seq(Struct)
  /\ frames \in Seq(Frame)
  /\ \A k \in DOMAIN refData : k \in UriType /\ refData[k] \in 1 .. Len(heap)
  /\ agenda \in Seq(1 .. Len(heap))
  /\ root \in 0 .. Len(heap) /\ ivar \in 0 .. Len(heap)

-----------------------------------------------------------------------------
NewStruct(val, path, expose, loc, home) ==
  [val |-> val, path |-> path, expose |-> expose, fn |-> "no_op_validate",
   typeFn |-> "", flags |-> {}, format |-> "", id |-> NoUri, ref |-> NoUri,
   resolvedId |-> NoUri, resolvedRef |-> NoUri, scope |-> <<>>, refSchema |-> 0,
   single |-> [k \in SingleKeyword |-> 0], lists |-> [k \in ListKeyword |-> <<>>],
   nested |-> <<>>, slots |-> 0, loc |-> loc, home |-> home, swept |-> FALSE,
   frees |-> 0]

NewFrame(s, base, pointer, home) ==
  [s |-> s, base |-> base, pointer |-> pointer, home |-> home, pc |-> "enter",
   jobs |-> <<>>, kept |-> <<>>, obj |-> 0]

Top == frames[Len(frames)]
Cur == heap[Top.s]
Next1 == Len(heap) + 1
Replace(f) == [frames EXCEPT ![Len(frames)] = f]
Advanced == [Top EXCEPT !.jobs = Tail(@)]

Compiling(pc) == phase = "compile" /\ Top.pc = pc
Pending(do) == Compiling("jobs") /\ Top.jobs # <<>> /\ Head(Top.jobs).do = do

Put(f, k, x) == [y \in DOMAIN f \cup {k} |-> IF y = k THEN x ELSE f[y]]
NoRefData == [k \in {} |-> 0]

-----------------------------------------------------------------------------
(***************************************************************************)
(* compile_schema (compiled_schema.c).                                     *)
(***************************************************************************)
(* Mutant: the wrapper of the first attempt is kept for the next one.      *)
CompileSchemaCached ==
  /\ phase = "idle" /\ ivar = 0 /\ attempts < MaxAttempts
  /\ phase' = "compile"
  /\ attempts' = attempts + 1
  /\ heap' = Append(heap, NewStruct(source, <<"#">>, TRUE, <<>>, 0))
  /\ frames' = <<NewFrame(Next1, NoUri, <<>>, 0)>>
  /\ refData' = NoRefData
  /\ root' = 1
  /\ UNCHANGED <<source, agenda, ivar>>

CompileSchema ==
  /\ phase = "idle" /\ ivar = 0 /\ attempts < MaxAttempts
  /\ phase' = "compile"
  /\ attempts' = attempts + 1
  /\ heap' = Append(heap, NewStruct(source, <<"#">>, TRUE, <<>>, 0))
  /\ frames' = <<NewFrame(Next1, NoUri, <<>>, 0)>>
  /\ refData' = NoRefData
  /\ root' = Next1
  /\ UNCHANGED <<source, agenda, ivar>>

(* compile() returns; when the root's does, resolve_refs begins.           *)
LeaveCompile ==
  /\ frames' = SubSeq(frames, 1, Len(frames) - 1)
  /\ IF Len(frames) = 1 THEN phase' = "resolve" /\ agenda' = <<root>>
                        ELSE UNCHANGED <<phase, agenda>>

(* A Ruby exception leaves every C frame; the Schema object is as before.  *)
Raise ==
  /\ phase' = "idle"
  /\ frames' = <<>> /\ agenda' = <<>> /\ root' = 0
  /\ refData' = NoRefData
  /\ UNCHANGED <<source, attempts, heap, ivar>>

(***************************************************************************)
(* compile(): the struct is registered under its path.  A boolean, an      *)
(* empty Hash and anything else that is no Hash is done at once.           *)
(***************************************************************************)
PathKey == Uri("", Cur.path)
RegisterPath == Put(refData, PathKey, Top.s)

IsLeaf(v) == Shape(v) # "hash" \/ Ruby[v].members = <<>>

CompileLeaf ==
  /\ Compiling("enter") /\ IsLeaf(Cur.val)
  /\ refData' = RegisterPath
  /\ heap' = [heap EXCEPT ![Top.s].fn =
                IF Shape(Cur.val) = "false" THEN "false_validate" ELSE "no_op_validate"]
  /\ LeaveCompile
  /\ UNCHANGED <<source, attempts, root, ivar>>

(* uri_scope.c: $ref and $id against the base of the parent.               *)
ResolvedRef(ref) ==
  IF ref = NoUri \/ IsAbsolute(ref) THEN ref ELSE UriJoin(Top.base, ref)

ResolvedId(id) ==
  IF id = NoUri \/ IsAbsolute(id) \/ UriJoin(Top.base, id) = NoUri
    THEN id ELSE UriJoin(Top.base, id)

(* Mutant: the joined $id is not registered.                               *)
RegisterIdLiteral(id, scope) ==
  IF id = NoUri THEN RegisterPath ELSE Put(RegisterPath, id, Top.s)

(* ref_resolver.c: under the $id as written, under the joined $id, and     *)
(* under "<base>#<pointer>" when the pointer is not empty.                 *)
RegisterId(id, scope) ==
  LET own == IF id = NoUri THEN RegisterPath
             ELSE Put(Put(RegisterPath, id, Top.s), ResolvedId(id), Top.s)
  IN  IF scope \in {<<>>, << <<>> >>} THEN own
      ELSE Put(own, Uri(Top.base.doc, Top.base.at \o <<"#">> \o scope[1]), Top.s)

CompileHash ==
  /\ Compiling("enter") /\ ~IsLeaf(Cur.val)
  /\ LET v == Cur.val
         id == UriAt(v, "$id")
         ref == UriAt(v, "$ref")
         scope == IF Top.base = NoUri THEN <<>> ELSE <<Top.pointer>>
         rebased == IF id = NoUri THEN Top
                    ELSE [Top EXCEPT !.base = ResolvedId(id), !.pointer = <<>>]
     IN  /\ refData' = RegisterId(id, scope)
         /\ heap' = [heap EXCEPT ![Top.s] =
              [@ EXCEPT !.fn = "validate", !.id = id, !.ref = ref,
                        !.resolvedId = ResolvedId(id),
                        !.resolvedRef = ResolvedRef(ref), !.scope = scope]]
         /\ frames' = Replace([rebased EXCEPT !.pc = "jobs", !.jobs = Jobs(v),
              !.home = IF id # NoUri /\ id.at \in {<<>>, <<"#">>} THEN Top.s ELSE @])
  /\ UNCHANGED <<source, phase, attempts, agenda, root, ivar>>

-----------------------------------------------------------------------------
(***************************************************************************)
(* The parts of a Hash.  The context of a list element or of a schema      *)
(* under an unknown keyword descends (compile_context_descend); that of a  *)
(* single-schema keyword is the parent's own.                              *)
(***************************************************************************)
Descend(keys) ==
  IF Top.base = NoUri THEN Top.pointer ELSE Top.pointer \o Cut(keys)

Child(job, expose) ==
  NewStruct(job.val, Cur.path \o Cut(job.keys), expose, Cur.loc \o job.keys, Top.home)
Enter(f, pointer) ==
  frames' = Append(Replace(f), NewFrame(Next1, Top.base, pointer, Top.home))

(* Mutant: the child is not assigned to its field before it is compiled.   *)
CompileSingleUnlinked ==
  /\ Pending("single")
  /\ heap' = Append(heap, Child(Head(Top.jobs), FALSE))
  /\ Enter(Advanced, Top.pointer)
  /\ UNCHANGED <<source, phase, attempts, refData, agenda, root, ivar>>

CompileSingle ==
  /\ Pending("single")
  /\ LET job == Head(Top.jobs)
     IN  heap' = Append([heap EXCEPT ![Top.s].single[job.kw] = Next1], Child(job, FALSE))
  /\ Enter(Advanced, Top.pointer)
  /\ UNCHANGED <<source, phase, attempts, refData, agenda, root, ivar>>

(* nested_schemas.c: the slots are allocated, then filled one by one.      *)
AllocNested ==
  /\ Pending("alloc")
  /\ heap' = [heap EXCEPT ![Top.s].slots = NestedTotal(Cur.val)]
  /\ frames' = Replace(Advanced)
  /\ UNCHANGED <<source, phase, attempts, refData, agenda, root, ivar>>

CompileNested ==
  /\ Pending("nested")
  /\ LET job == Head(Top.jobs)
     IN  /\ heap' = Append([heap EXCEPT ![Top.s].nested = Append(@, Next1)],
                           Child(job, FALSE))
         /\ Enter(Advanced, Descend(job.keys))
  /\ UNCHANGED <<source, phase, attempts, refData, agenda, root, ivar>>

(* schema_collection.c, properties_val.c: wrapped, compiled, kept.         *)
CompileElement ==
  /\ Pending("element")
  /\ LET job == Head(Top.jobs)
     IN  /\ heap' = Append(heap, Child(job, TRUE))
         /\ Enter([Advanced EXCEPT !.obj = Next1], Descend(job.keys))
  /\ UNCHANGED <<source, phase, attempts, refData, agenda, root, ivar>>

RaisesOnKey(job) ==
  job.kw = "patternProperties" /\ job.keys[Len(job.keys)] \in BadRegexp

KeepElement ==
  /\ Pending("keep") /\ ~RaisesOnKey(Head(Top.jobs))
  /\ frames' = Replace([Advanced EXCEPT !.kept = Append(@, Top.obj), !.obj = 0])
  /\ UNCHANGED <<source, phase, attempts, heap, refData, agenda, root, ivar>>

KeyRaises == Pending("keep") /\ RaisesOnKey(Head(Top.jobs)) /\ Raise

(* Mutant: the code goes on with the same job.                             *)
StoreListAgain ==
  /\ Pending("store")
  /\ heap' = [heap EXCEPT ![Top.s].lists[Head(Top.jobs).kw] = Top.kept]
  /\ UNCHANGED <<source, phase, attempts, frames, refData, agenda, root, ivar>>

StoreList ==
  /\ Pending("store")
  /\ heap' = [heap EXCEPT ![Top.s].lists[Head(Top.jobs).kw] = Top.kept]
  /\ frames' = Replace([Advanced EXCEPT !.kept = <<>>])
  /\ UNCHANGED <<source, phase, attempts, refData, agenda, root, ivar>>

(* Mutant: the two functions are mixed up.                                 *)
EndCompileSwapped ==
  /\ Compiling("jobs") /\ Top.jobs = <<>> /\ ~BadTypeArray(Cur.val)
  /\ heap' = [heap EXCEPT ![Top.s] =
       [@ EXCEPT !.format = Format(Cur.val), !.fn = TypeFn(Cur.val),
                 !.flags = TypeFlags(Cur.val), !.typeFn = @]]
  /\ LeaveCompile
  /\ UNCHANGED <<source, attempts, refData, root, ivar>>

(* The end of compile(): format, type, and a $ref overrides everything.    *)
EndCompile ==
  /\ Compiling("jobs") /\ Top.jobs = <<>> /\ ~BadTypeArray(Cur.val)
  /\ heap' = [heap EXCEPT ![Top.s] =
       [@ EXCEPT !.format = Format(Cur.val), !.typeFn = TypeFn(Cur.val),
                 !.flags = TypeFlags(Cur.val),
                 !.fn = IF Cur.ref # NoUri THEN "validate_ref" ELSE Cur.fn]]
  /\ LeaveCompile
  /\ UNCHANGED <<source, attempts, refData, root, ivar>>

TypeRaises ==
  Compiling("jobs") /\ Top.jobs = <<>> /\ BadTypeArray(Cur.val) /\ Raise

-----------------------------------------------------------------------------
(***************************************************************************)
(* resolve_refs (ref_resolver.c): depth first over the structs.            *)
(***************************************************************************)
Found(key) == IF key \in DOMAIN refData THEN refData[key] ELSE 0

(* Mutant: the $ref as written comes first.                                *)
RefTargetLiteral(st) ==
  IF Found(DecodeRef(st.ref)) # 0 THEN Found(DecodeRef(st.ref))
  ELSE IF st.resolvedRef # NoUri THEN Found(DecodeRef(st.resolvedRef)) ELSE 0

(* The joined $ref, and if nothing is registered there, the $ref as        *)
(* written.                                                                *)
RefTarget(st) ==
  LET key == IF st.resolvedRef # NoUri THEN st.resolvedRef ELSE st.ref
  IN  IF Found(DecodeRef(key)) # 0 THEN Found(DecodeRef(key))
                                   ELSE Found(DecodeRef(st.ref))

Singles(st, keys) ==
  FlattenSeq([j \in 1 .. Len(keys) |->
                IF st.single[keys[j]] = 0 THEN <<>> ELSE <<st.single[keys[j]]>>])
Lists(st, keys) == FlattenSeq([j \in 1 .. Len(keys) |-> st.lists[keys[j]]])

(* Mutant: schemas under unknown keywords are not visited.                 *)
ChildrenNotNested(st) ==
  Singles(st, <<"if", "then", "else", "not", "items", "additionalItems",
                "contains", "propertyNames", "additionalProperties">>)
    \o Lists(st, <<"allOf", "anyOf", "oneOf", "items", "properties",
                   "patternProperties", "dependencies">>)

Children(st) ==
  Singles(st, <<"if", "then", "else", "not", "items", "additionalItems",
                "contains", "propertyNames", "additionalProperties">>)
    \o Lists(st, <<"allOf", "anyOf", "oneOf", "items", "properties",
                   "patternProperties", "dependencies">>)
    \o st.nested

Visiting == phase = "resolve" /\ agenda # <<>>
Visited == heap[Head(agenda)]

ResolveRefs ==
  /\ Visiting /\ (Visited.ref # NoUri => RefTarget(Visited) # 0)
  /\ heap' = [heap EXCEPT ![Head(agenda)].refSchema =
                IF Visited.ref = NoUri THEN 0 ELSE RefTarget(Visited)]
  /\ agenda' = Children(Visited) \o Tail(agenda)
  /\ UNCHANGED <<source, phase, attempts, frames, refData, root, ivar>>

RefRaises == Visiting /\ Visited.ref # NoUri /\ RefTarget(Visited) = 0 /\ Raise

(* The ivars are set once everything is resolved.                          *)
Publish ==
  /\ phase = "resolve" /\ agenda = <<>>
  /\ ivar' = root
  /\ phase' = "idle" /\ root' = 0 /\ refData' = NoRefData
  /\ UNCHANGED <<source, attempts, heap, frames, agenda>>

-----------------------------------------------------------------------------
(***************************************************************************)
(* The garbage collector.  Wrappers on the C stack and in the ivar are     *)
(* marked, and what mark_compiled_schema reaches from them; one wrapper    *)
(* that is not marked is freed at a time.                                  *)
(***************************************************************************)
Owned(st) == ToSet(st.nested) \cup ({st.single[k] : k \in SingleKeyword} \ {0})
Wrapped(st) == UNION {ToSet(st.lists[k]) : k \in ListKeyword}

(* Mutant: the wrapper of the root is not kept on the stack.               *)
RootedIvar ==
  ({ivar} \cup UNION {{frames[j].obj} \cup ToSet(frames[j].kept) : j \in 1 .. Len(frames)}) \ {0}

Rooted ==
  ({root, ivar} \cup UNION {{frames[j].obj} \cup ToSet(frames[j].kept) :
                              j \in 1 .. Len(frames)}) \ {0}

(* The structs that links lead to.  A struct is created after the struct   *)
(* that points at it.                                                      *)
Reach(links, from) ==
  LET upto[s \in 0 .. Len(links)] ==
        IF s = 0 THEN {}
        ELSE IF s \in from \/ \E p \in upto[s - 1] : s \in links[p]
          THEN upto[s - 1] \cup {s} ELSE upto[s - 1]
  IN  upto[Len(links)]

Owns   == [p \in 1 .. Len(heap) |-> Owned(heap[p])]
Points == [p \in 1 .. Len(heap) |-> Owned(heap[p]) \cup Wrapped(heap[p])]

Marked == Reach(Points, Rooted)

(* Mutant: freeing a struct frees the structs of its lists as well.        *)
FreedWithLists(w) == Reach(Points, {w})

(* free_compiled_schema: the struct, and those its parent alone points at. *)
FreedWith(w) == Reach(Owns, {w})

Garbage ==
  LET marked == Marked
  IN  {s \in 1 .. Len(heap) : heap[s].expose /\ ~heap[s].swept /\ s \notin marked}

Sweep ==
  /\ \E w \in Garbage :
       LET freed == FreedWith(w)
       IN  heap' = [s \in 1 .. Len(heap) |->
             [heap[s] EXCEPT !.frees = IF s \in freed THEN @ + 1 ELSE @,
                             !.swept = @ \/ s = w]]
  /\ UNCHANGED <<source, phase, attempts, frames, refData, agenda, root, ivar>>

(* The application lets go of the Schema object.                           *)
DropSchema ==
  /\ phase = "idle" /\ (ivar # 0 \/ attempts = MaxAttempts)
  /\ phase' = "dropped" /\ ivar' = 0
  /\ UNCHANGED <<source, attempts, heap, frames, refData, agenda, root>>

Dropped == phase = "dropped" /\ Garbage = {} /\ UNCHANGED cvars

-----------------------------------------------------------------------------
CInit ==
  /\ source \in Schemas
  /\ phase = "idle" /\ attempts = 0
  /\ heap = <<>> /\ frames = <<>> /\ refData = NoRefData /\ agenda = <<>>
  /\ root = 0 /\ ivar = 0

CompileStep ==
  \/ CompileSchema \/ CompileLeaf \/ CompileHash
  \/ CompileSingle \/ AllocNested \/ CompileNested
  \/ CompileElement \/ KeepElement \/ KeyRaises \/ StoreList
  \/ EndCompile \/ TypeRaises
ResolveStep == ResolveRefs \/ RefRaises \/ Publish

CNext == CompileStep \/ ResolveStep \/ Sweep \/ DropSchema \/ Dropped

CSpec == CInit /\ [][CNext]_cvars

(* The thread in compile keeps running.                                    *)
Running == phase \in {"compile", "resolve"} /\ (CompileStep \/ ResolveStep)
CFairSpec == CSpec /\ WF_cvars(Running)
=============================================================================
