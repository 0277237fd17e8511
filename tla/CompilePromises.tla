-------------------------- MODULE CompilePromises --------------------------
(***************************************************************************)
(* What Schema#compile promises: where a $ref leads according to the URI   *)
(* and JSON Pointer rules uri_scope.h restates, read off the positions of  *)
(* the schemas in the document (the history fields loc and home) and not   *)
(* off the table the code looks its keys up in; and what the collector     *)
(* must never do.                                                          *)
(***************************************************************************)
EXTENDS Compile

CONSTANT StructIds (* Names for the trees CompileIsOneCall speaks of.      *)
ASSUME StructIdsAssumption == 0 \notin StructIds

(* The structs of the tree being compiled, or of the published one.        *)
TreeRoot == IF phase \in {"compile", "resolve"} THEN root ELSE ivar
Tree == IF TreeRoot = 0 THEN {} ELSE {s \in TreeRoot .. Len(heap) : heap[s].frees = 0}
Refs == {s \in Tree : heap[s].ref # NoUri}

(* A schema with an $id that is no anchor begins a resource.               *)
BeginsResource(s) == heap[s].id # NoUri /\ heap[s].id.at \in {<<>>, <<"#">>}
ResourceOf(s) == IF heap[s].home = 0 THEN TreeRoot ELSE heap[s].home

(* The documents' absolute names; "" when there is none.                   *)
DocName ==
  LET name[s \in 0 .. Len(heap)] ==
        IF s = 0 THEN ""
        ELSE IF ~BeginsResource(s) THEN name[heap[s].home]
        ELSE LET id == heap[s].id
                 outer == name[heap[s].home]
             IN  IF IsAbsolute(id) THEN id.doc
                 ELSE IF outer = "" THEN "" ELSE JoinDoc[outer][id.doc]
  IN  name

RefDoc(s) ==
  LET r == heap[s].ref
      outer == DocName[heap[s].home]
  IN  IF IsAbsolute(r) THEN r.doc ELSE IF outer = "" THEN "" ELSE JoinDoc[outer][r.doc]

RefResources(s) ==
  IF heap[s].ref.doc = "" THEN {ResourceOf(s)}
  ELSE {t \in Tree : /\ RefDoc(s) # "" /\ BeginsResource(t)
                     /\ DocName[t] = RefDoc(s)}

(* The keys from a resource to a schema in it, and the keys a JSON Pointer *)
(* spells.                                                                 *)
Within(r, t) == SubSeq(heap[t].loc, Len(heap[r].loc) + 1, Len(heap[t].loc))
Spelled(at) == [j \in 1 .. Len(at) - 1 |-> Unescape[at[j + 1]]]

(* Where the $ref of s leads; none when nothing is there.                  *)
Targets(s) ==
  LET at == heap[s].ref.at
  IN  {t \in Tree : \E r \in RefResources(s) :
         CASE at \in {<<>>, <<"#">>} -> t = r
           [] at # <<>> /\ Head(at) = "#" /\ Len(at) > 1 ->
                heap[t].loc = heap[r].loc \o Spelled(at)
           [] OTHER -> heap[t].id.at = at /\ ResourceOf(t) = r}

(***************************************************************************)
(* Documents in which the names the code registers are the right ones:     *)
(* every pointer names one schema, no struct is registered at another's    *)
(* place below its base, $ids are absolute and spelled without escapes.    *)
(***************************************************************************)
ScopeExact(t) ==
  \/ heap[t].scope = <<>>
  \/ heap[t].scope[1] = Cut(Within(ResourceOf(t), t))

Unambiguous == \A t, u \in Tree : heap[t].path = heap[u].path => t = u
PlainId(t) ==
  heap[t].id # NoUri => DocName[t] # "" /\ Unescape[heap[t].id.doc] = heap[t].id.doc

Plain ==
  Unambiguous /\ \A t \in Tree : PlainId(t) /\ (ScopeExact(t) \/ heap[t].scope[1] = <<>>)

(* The $ref leads somewhere, and to a schema that knows its place.         *)
Addressable(s) == Targets(s) # {} /\ \A t \in Targets(s) : ScopeExact(t)

(* The part of the Ruby schema the keys lead to, if there is one.          *)
PartAt(keys) ==
  FoldLeft(LAMBDA parts, k : {Lookup(v, k) : v \in {u \in parts : Keyed(u, k)}},
           {source}, keys)

(* The names of definitions that are schemas and that the $ref points at.  *)
DefinitionNames(s) ==
  LET at == heap[s].ref.at
  IN  {k \in DOMAIN Pieces :
         /\ Len(at) = 3 /\ at[1] = "#" /\ Spelled(at) = <<"definitions", k>>
         /\ \E r \in RefResources(s) : \E v \in PartAt(heap[r].loc \o <<"definitions", k>>) :
              Shape(v) \in SchemaShape}

(* "#" inside a resource that is not the whole document.                   *)
OwnRoot(s) ==
  /\ heap[s].ref.doc = "" /\ heap[s].ref.at \in {<<>>, <<"#">>}
  /\ heap[ResourceOf(s)].loc # <<>>

-----------------------------------------------------------------------------
(***************************************************************************)
(* References.                                                             *)
(***************************************************************************)
(* In a plain document a resolved $ref leads where the rules say it leads: *)
(* the keys written by register_path and register_id under four spellings, *)
(* last write wins, never make a $ref of one schema find another.          *)
RefsLand ==
  Plain => \A s \in Refs :
             heap[s].refSchema # 0 /\ ~OwnRoot(s) /\ Addressable(s)
               => heap[s].refSchema \in Targets(s)

(* In a plain document compile raises "Unresolved $ref" only for a $ref    *)
(* that leads nowhere, or to a place the code lost: every other schema was *)
(* registered under a key the $ref can be looked up by.  A definition is   *)
(* such a schema unless it has the name of a keyword that holds no schema: *)
(* compile reads "definitions" like a schema (nested_schemas.c:33).        *)
UnresolvedMeansMissing ==
  [][RefRaises /\ Plain =>
       LET s == Head(agenda)
       IN  /\ ~Addressable(s)
           /\ Targets(s) = {} =>
                DefinitionNames(s) \subseteq KnownKeyword \ SingleKeyword]_cvars

(* A published Schema has every $ref resolved, to a schema of the same     *)
(* tree, however many attempts failed before: validate_ref never follows   *)
(* an unset pointer or one into a tree that was given up.                  *)
PublishedComplete ==
  ivar # 0 => \A s \in Refs : heap[s].refSchema \in Tree

(* uri_scope.h:63-66: a schema is registered under "<base>#<pointer>" so   *)
(* that a $ref that is a JSON Pointer into a base finds it: the $ref leads *)
(* to the schema the pointer spells, not to another of the same base.      *)
PointersFindTheirSchema ==
  \A s \in Refs :
    DocName[heap[s].home] # "" /\ heap[s].refSchema # 0 /\ Len(heap[s].ref.at) > 1
      => heap[s].refSchema \in Targets(s)

(* uri_scope.h:39: a fragment-only $ref below an $id resolves inside that  *)
(* resource.                                                               *)
RefsStayInside ==
  \A s \in Refs :
    heap[s].ref.doc = "" /\ heap[s].refSchema # 0 /\ DocName[heap[s].home] # ""
      => \/ heap[s].refSchema = ResourceOf(s)
         \/ ResourceOf(heap[s].refSchema) = ResourceOf(s)

(* ref_decoder.c:6: the decoded $ref matches the key of the schema it      *)
(* names, so only a $ref to nothing is unresolved.                         *)
DecodedRefsMatch == [][RefRaises => Targets(Head(agenda)) = {}]_cvars

-----------------------------------------------------------------------------
(***************************************************************************)
(* Memory.                                                                 *)
(***************************************************************************)
(* Nothing the program can still reach is freed: the structs of the frames *)
(* of compile(), the collections being filled, the table of $ref targets,  *)
(* the structs resolve_refs has yet to visit, and all the structs of the   *)
(* tree with the targets of their $refs, which no mark function follows.   *)
Held ==
  LET inUse == {frames[j].s : j \in 1 .. Len(frames)} \cup ToSet(agenda)
                 \cup {refData[k] : k \in DOMAIN refData}
      marked == Marked
  IN  (inUse \cup marked \cup {heap[s].refSchema : s \in marked}) \ {0}

LiveStructs == \A s \in Held : heap[s].frees = 0

(* Each struct is freed by the collector's visit of one wrapper alone, its *)
(* own or that of the schema that points at it, and none is left when the  *)
(* collector is done.                                                      *)
FreedOnce ==
  /\ \A s \in 1 .. Len(heap) : heap[s].frees <= 1
  /\ Garbage = {} => \A s \in 1 .. Len(heap) : s \in Marked \/ heap[s].frees = 1

(* compile_nested_schemas counts the schemas under unknown keywords before *)
(* it appends them: the two traversals agree, the array is never overrun   *)
(* and, once filled, has no slot that was not written.                     *)
NestedFits ==
  \A s \in 1 .. Len(heap) :
    /\ Len(heap[s].nested) <= heap[s].slots
    /\ ivar # 0 /\ s \in Marked => Len(heap[s].nested) = heap[s].slots

(* The same object seen from outside, as Lifecycle has it for many calls:  *)
(* a tree is its root struct, and is freed with the first of its structs.  *)
Roots == {s \in 1 .. Len(heap) : heap[s].loc = <<>>}
RootOf(r, s) == r <= s /\ \A q \in Roots : q <= s => q <= r
FreedTrees ==
  {r \in Roots : \E s \in 1 .. Len(heap) : RootOf(r, s) /\ heap[s].frees > 0}

Outside ==
  INSTANCE Lifecycle WITH
    Call <- {1}, Object <- {1}, Tree <- StructIds, NoTree <- 0, NoObject <- 0,
    status <- [o \in {1} |-> IF phase = "dropped" THEN "gone" ELSE "alive"],
    ivar <- [o \in {1} |-> ivar],
    compiled <- [o \in {1} |-> ivar # 0],
    op <- [c \in {1} |-> IF root = 0 THEN "none" ELSE "compile"],
    self <- [c \in {1} |-> IF root = 0 THEN 0 ELSE 1],
    struct <- [c \in {1} |-> root],
    wrapper <- [c \in {1} |-> root # 0],
    answer <- [c \in {1} |-> IF ivar # 0 THEN "done" ELSE
                              IF attempts = (IF root = 0 THEN 0 ELSE 1) THEN "none" ELSE "raised"],
    used <- Roots, freed <- FreedTrees, raced <- {}

(* compile with all its frames, tables and wrappers is one call of         *)
(* Lifecycle: a tree appears, and is published whole or given up, and no   *)
(* struct of a tree is freed while the tree is held by the call or by the  *)
(* object.  Only the step that lets the object go is left out: Compile     *)
(* does not remember how the call had ended.                               *)
CompileIsOneCall ==
  Outside!Init /\ [][DropSchema \/ Outside!Next]_(Outside!vars)

(* Every compile that is begun ends: with a published schema or with an    *)
(* exception.                                                              *)
CompileEnds == (phase \in {"compile", "resolve"}) ~> (phase \in {"idle", "dropped"})
=============================================================================
