# fast_json-schema in TLA+

A model of `fast_json-schema`, a JSON Schema (draft 7) validator for Ruby written
as a C extension, with TLC runs and TLAPS proofs. Paths below are relative to
`src/`; C files without a directory are in `src/ext/fast_json/schema/`.

## 1. The system

`FastJSON::Schema.new(ruby_schema).compile` turns a Ruby Hash (or `true`/`false`)
into a tree of C structs, `CompiledSchema`; `schema.validate(doc) { |error| ... }`
and `schema.valid?(doc)` walk a document along that tree.

| Component | State | Operations | Talks to |
|---|---|---|---|
| Validation engine: `schema.c`, `is_valid.c`, `context.c`, `types/context.h`, `error.c`, `path.c` | the C stack; per call a `Context`: `path[]`, `depth`, `short_circuit_on_error` | `validate`, `valid?`, `is_valid` (catch, flag, ensure), `yield_error`, INCR/DECR/ADD_TO_CONTEXT | the functions below; the caller's block; Ruby's exceptions, `throw`, `break` |
| Validation functions: `validate*.c`, `all_of.c` ... `ref.c` | none but local variables | one function per type or keyword | engine, and each other through function pointers |
| Custom formats: `formats/custom_format.c` | none | call a user's callable under `rb_protect` | user code, which may validate again |
| Schema compiler: `compiled_schema.c`, `schema_collection.c`, `properties_val.c`, `nested_schemas.c` | the tree under construction, Ruby wrappers on the C stack | `compile`, `compile_schema`, mark and free for the collector | reference resolution, Ruby's collector |
| Reference resolution: `uri_scope.c`, `uri_resolver.c`, `compile_context.c`, `ref_resolver.c`, `ref_decoder.c` | `ref_data`: four spellings of a schema's name, each mapped to its struct; base and pointer of the context | register, join, decode, `resolve_refs` | compiler |
| Schema object: `lib/fast_json/schema.rb`, `schema.c` | ivars `compiled_schema`, `compiled`, `@ruby_schema`, `@custom_formats` | `new`, `create`, `compile`, `validate`, `valid?`, `dup` | all of the above; the application's threads |
| Built-in formats: `formats/*.c` | none | one function per name of the `format` keyword, selected by `format.c` | called by the string function; the parsers |
| Format parsers: `formats/utils/*.c` | none; a position and a length that move through the text | recognise a string or a window of it | each other: a URI has a host, a host an address, an address UTF-8 |

What is hard here:

- *Non-local exits.* `is_valid` tries a branch with a `catch`, and the first error
  throws. Exceptions (from NUM2LONG, from user code, from the depth limit) and a
  block's `break` pass through the same C frames, which hold `depth`, `path` and
  the flag half way through an update.
- *Re-entrance.* The block and the callables may validate other documents while a
  validation is under way; all validations share one throw tag and one thread.
- *Memory.* Part of a tree is owned by its parent struct, part by Ruby wrappers;
  the collector may run inside every allocation of `compile`; `compile` may raise
  anywhere in the middle.
- *Names.* A schema can be found by its path, its `$id` as written, its joined
  `$id`, and base plus pointer, all keys of one Hash whose last write wins.
- *Threads.* Ruby runs one thread at a time and may switch wherever C calls back
  into Ruby. Two threads may compile one Schema object, or one may validate with a
  tree while another replaces it. The collector sees wrappers, in ivars and on C
  stacks; `root_schema` keeps the struct and lets its wrapper go.
- *Texts.* Sixteen formats are recognised by hand-written scanners that cut a text at
  the first occurrence of a byte, pass windows (`s + pos`, `len`) to one another and
  report failure as "nothing taken". Limits, empty parts, truncated sequences and
  the text's end are each tested at one place only.

What makes each part correct:

- engine: `valid?` answers whether the document conforms, `validate` reports at
  least one error exactly when it does not, with the path of the failing value
  (what the code does instead is in sections 2 and 3);
  errors of a branch being tried stay inside; every call ends;
- functions: each keyword decides what its draft 7 definition says, but for the
  differences section 2 lists;
- compiler: nothing in use is freed, nothing is freed twice or never; a published
  tree is complete;
- references: a `$ref` leads where the URI and JSON Pointer rules say;
- Schema object: it is compiled once, and then every call is answered with the tree it
  had when the call began, which stays whole until the call has ended;
- formats: a format passes the strings of its RFC's grammar and no others, but for the
  differences section 2 lists, and formats that share a production agree on it.

## 2. Modules

| Module | Models | Role |
|---|---|---|
| `Handlers` | the validation functions | operators: `Plan` gives each function's steps for a schema and a document |
| `Validation` | the engine | state machine; EXTENDS `Handlers` |
| `Semantics` | the keywords' meaning | reference definition `Says` (draft 7), independent of `Plan`, and the two exceptions `Refused`; `Conforms` is a table of answers that obeys both |
| `Verdict` | what callers are promised | abstract specification; `Validation` implements it |
| `Answers` | what each function, frame and step has to do with the verdict | `Accepts`, the inductive invariant `AnswerInv`, the refinement `KeepsPromise` |
| `ValidationMC` | - | schemas, documents, calls for TLC; the properties of the violation runs |
| `PlanShapes`, `Paths` | - | what every plan does to `path` and `depth`; the inductive invariant behind `DepthAccounted`, `ErrorsLocated`, `SlotsWritten` |
| `HandlersProofs`, `ValidationProofs`, `PathsProofs` | - | theorems about the plans, the flag and the throws, the path |
| `AnswersProofs` | - | theorems about the verdict: `Validation` implements `Verdict` |
| `RubySchema` | how compile reads its input | operators: `Jobs`, `Format`, `TypeFn`, `UriJoin`, `DecodeRef` |
| `Compile` | compiler, reference resolution, the collector | state machine; EXTENDS `RubySchema` |
| `CompilePromises` | the URI and pointer rules; the memory rules | reference definition `Targets`, properties |
| `JobShapes`, `Trees` | - | what every list of jobs has in common; the inductive invariant behind `CompilePromises` |
| `RubySchemaProofs`, `CompileProofs` | - | theorems about the jobs, the trees, the collector |
| `CompileMC` | - | sixteen Ruby schemas for TLC |
| `Lifecycle` | Schema objects, their callers, copies, the collector | state machine; `Compile` implements it (`CompileIsOneCall`) |
| `SchemaObject` | what an object promises its users | abstract specification; `Lifecycle` implements it (`Answered`) |
| `LifecycleMC` | - | calls, objects and trees for TLC |
| `LifecycleProofs` | - | theorems |
| `Bytes`, `Limits` | what the scanners are made of; the lengths they `#define` | operators |
| `Utf8` | `utf8.c` | `utf8_seq_len`, and RFC 3629 as arithmetic |
| `HostParsers` | `hostname_parser.c`, `ip_parser.c` | operators |
| `UriParser` | `uri_parser.c` | operators; EXTENDS `HostParsers` |
| `UriTemplateParser` | `uri_template_parser.c` | operators; EXTENDS `UriParser` |
| `AddrSpecParser` | `addr_spec_parser.c` | operators; EXTENDS `HostParsers` |
| `PointerParsers`, `DateTimeParsers` | `json_pointer_parser.c` and `relative_json_pointer.c`; `date.c`, `time.c`, `date_time.c` | operators |
| `Formats` | `format.c` and the functions it selects | `Passes(format, text)`, composing the parsers |
| `Texts` | the strings a caller may pass | state machine: one word more at every step |
| `Grammar`, `Rfc`, `RfcUri`, `RfcMail`, `RfcTemplate` | - | reference definitions: the RFCs' grammars, as sets of positions |
| `FormatPromises`, `Utf8Promises` | - | each parser against its grammar; formats against each other |
| `FormatsMC` | - | the words for TLC |
| `FormatProofs` | - | theorems |

The parts meet in three places. The first is the struct: `Compile` produces
`CompiledSchema` structs, `Handlers` reads them (`Compiled[s]`), with `ref_schema` as
the field that carries a resolved `$ref`. `Handlers` takes structs as a constant, so the
engine is checked for structs beyond those a particular Ruby schema gives. The second is
the published tree: seen from outside, all of `Compile` is one call in `Lifecycle`,
whose other calls use what it publishes. The third is the format: the engine asks of a
string whether its format's function passes it (a constant of `Handlers`), and `Passes`
in `Formats` is that question answered for the built-in names.

### Validation: state and actions

`stack` is the C stack: a frame has the function, its schema and datum, what is
left of its plan (`todo`), a label where the function waits for a nested call, the
combinators' loop index and count, and `saved`, is_valid's `prev_short_circuit`.
`ctx` holds the Context of each call under way, `ret` what the last `is_valid`
answered, `exc` the exit under way (`throw`, `raise`, `break`), `last` the outcome
of the call that ended last. `loc`, `errors`, `leaks` and `disturbed` are history:
no guard reads them, and the properties compare the program's state with them.

A straight-line function is a *plan*: `Enter` expands a call into its steps and
`Perform`, `PassOver`, `IncrContext`, `DecrContext`, `AddToContext`, `RaiseError`
take them one at a time. Functions that look at the answer of `is_valid`
(`anyOf`, `oneOf`, `contains`, `not`, `if`) have actions of their own, one per
branch of the code. `YieldToBlock` hands an error to the block, `ShortCircuit`
throws; `UserCodeCalls` starts a call inside user code. Unwinding goes frame by
frame: `UnwindIsValid` (ensure and catch), `ProtectStops` (rb_protect),
`UnwindSession`, `UnwindFrame`. `Start` is the application's call.

When a document is one level deeper than `path[]` has slots, the C code writes past
the array (undefined behaviour). The model records `exc = "overrun"` and stops
there; nothing is claimed of what follows.

### Where the functions differ from draft 7

`Semantics` states the rules of draft 7 (`Says`), and apart from them what the functions
refuse against the rules (`Refused`), two kinds of number:

- `WholeFloat`: 3.0 where an integer is asked for and no other number
  (`validate_integer.c:5`; in draft 7 a float with zero fractional part is an integer,
  and `draft7_pending.yml:171-175` lists the test that fails);
- `WideQuotient`: a multiple of `multipleOf` when `validate_number` decides and an int
  cannot hold the quotient, which `validate_number.c:21` casts to int. `validate_integer`
  keeps a long and takes the same number.

A value conforms, in `KeepsPromise` and the theorems on it, when the rules accept it and
it is not refused; so these two are the only differences there are, and not small ones: a
refused part can make a whole document valid or invalid, through `not` or `contains`.
`MCDifferences` lists, schema by schema, the documents of the instance of which draft 7 on
its own says otherwise, and TLC compares the list with the rules (`DifferencesAssumption`).

Three more differences are outside what `KeepsPromise` claims: an integer beyond a
long raises RangeError, so its call has no answer (`optional/bignum.json` in
`draft7_pending.yml`); to `uniqueItems` 1 and 1.0 are two values (`EqualAssumption` keeps
them out of one instance); and a negative size, which draft 7 gives no meaning, is
wrapped by NUM2ULONG (`SizesAssumption`). A `pattern` that is no Regexp raises at each
validation and has no answer either.

### Compile: state and actions

`heap` is the list of structs in order of creation, `frames` the C frames of
`compile()` with their `CompileContext` (base, pointer) and the parts still to
compile (`jobs`), `refData` the table, `agenda` the depth-first walk of
`resolve_refs`, `root` the wrapper on `compile_schema`'s stack, `ivar` the published
tree. A job is one part of the schema: a *single* schema (a C pointer), an
*element* of an Array or Hash (wrapped, then *kept*, the collection *stored* at the
end), a schema *nested* below an unknown keyword. `CompileHash` registers the
struct's names and rebinds the context (`resolve_uri_scope`), `EndCompile` sets
format, type and `$ref`, `ResolveRefs` visits one struct. `TypeRaises`,
`KeyRaises` and `RefRaises` are the three ways compile raises: they drop every
frame and leave the heap to the collector. `Sweep` is the collector: it frees one
wrapper that is not marked, with the structs `free_compiled_schema` frees, in any
order and between any two steps. `loc` (the position in the document), `home` (the
enclosing `$id`), `swept` and `frees` are history.

URIs are a document and a fragment cut at its slashes; `URI.join`, percent and
tilde decoding are tables given by the instance (`JoinDoc`, `Unescape`, `Pieces`), and
so is how an index is spelled in a path (`Digits`). `Height` is how deep the Arrays at
a place are nested: that it exists says that no Array contains itself, on which
`compile` would not end. `TotalNested`, `CountNested` and `NestedEntries`, recursive in
the code, are recursive functions, not RECURSIVE operators, so that theorems can speak
of them.

### Lifecycle: state and actions

A `Call` is one activation of `compile`, `validate` or `valid?`, wherever it comes
from: a thread, or a block of another call. `op`, `self`, `struct` and `wrapper` are
what its C frame holds: what it is doing, the object, the pointer into the tree,
and whether the tree's wrapper is on its stack, where the collector finds it. `ivar`
and `compiled` are the object's two ivars, `used` and `freed` the trees built and
given back. `raced` is history: objects on which one compile began during another.

| Action | Code |
|---|---|
| `AlreadyCompiled`, `BeginCompile` | `rb_compile` reads the ivar and calls `compile_schema`, which wraps the root struct and keeps the wrapper |
| `Publish`, `CompileRaises` | the two `rb_ivar_set` at its end; an exception before them |
| `BeginValidate`, `RejectValidate` | `root_schema`: the struct without its wrapper, or a TypeError on `nil` |
| `EndValidate` | the validation returns or raises |
| `New`, `Copy`, `Drop` | the application: `new` (`create` compiles before it hands the object out), `dup`, letting go |
| `Collect` | `rb_free_compiled_schema` on a tree no wrapper of which is reachable |

Between `root_schema` and the end of a validation nothing mentions the wrapper, and a
C compiler may or may not have left it in a stack slot: `BeginValidate` chooses. In
between the steps of a call every other call may take any number of steps, since
both a compile and a validation call Ruby, and Ruby may switch threads there.

`SchemaObject` forgets trees and the collector: an object is `ready` or not, calls begin
and are answered. `Lifecycle` implements it with `ready` as the objects whose
`compiled` is set. `Compile` implements `Lifecycle` for one object, one call at a
time and no validation, until the application lets the object go: a tree is named by
its root's struct, `struct` and `wrapper` are the compile's root, and a tree is freed
with the first of its structs. The chain
`Compile => Lifecycle => SchemaObject` says that compile's whole machinery, its
failures and retries included, is to a user one step from "not ready" to "ready".

### Formats: texts, parsers, grammars

The parsers keep no state between calls, so the state of these runs is the text.
`Texts` spells one word by word from alphabets given per kind of text; every prefix
is a text of its own, so truncated ones are among them. A parser is an operator with
the C function's name. It takes the whole text and a window, and where the C function
answers how many bytes it took, it answers the position it stopped at; taking nothing
is failure, as it is in the code. Where a caller distinguishes failure from an empty
success, the operator answers the set of stop positions, one or none. Loops are
`Skip` and `Find` where they look at single bytes and `Repeat` where they take units;
`parse_ipv6`'s loop is a recursive function of its three local variables. A window
that would be read outside the text is outside the domain of the function, and TLC
stops there; the runs therefore also show that no parser reads past the end.

The grammars in `Grammar` and `Rfc*` are written the other way round: a nonterminal
maps the set of positions where it may begin to the set of positions where it may
end, and follows all alternatives at once. They neither scan nor cut nor count, so
agreement of the two on every text is not agreement by construction. The calendar is
the count of days since year 0, not a table; UTF-8 is arithmetic on code points.

Where the code differs from the RFC, the promise says so:

- `Ipv6Exact` allows one lone colon after a compressed address (the run `lone_colon` shows
  it against the comment that says otherwise);
- `UriExact` excludes `DottedName`s, hosts such as `1.2.3.4a` that are names by RFC 3986
  and are refused, because `uri_parser.c:242` does not return to the name once the
  address matched;
- `TimesExact`: the grammar of RFC 3339 takes "t" and "z" for "T" and "Z", and second 60
  only as the last second of a month in UTC (`leapTime`: 23:59:60 less the offset; which
  months have a leap second is announced, so any may). The code takes capitals only
  (`date_time.c:8` says so) and second 60 in every minute (`time.c:25`).
  `draft7_pending.yml:281-295` and `606-660` list the tests that fail for it. The
  promise is that nothing else differs: without these letters, the texts accepted are
  those of the grammar and those that would be if a leap second could end any
  minute (`anyLeapTime`); with one of them, none is;
- `HostnameExact` allows a trailing dot, and internationalised text is any UTF-8 beyond
  ASCII, where RFC 3987 and the IDNA rules exclude some characters.

## 3. Runs

| Run | Cfg | Expected | Shows |
|---|---|---|---|
| `verdict` | `MCVerdict` | pass | one call at a time: every keyword against every kind of document. `KeepsPromise` (Validation implements Verdict), `DepthAccounted`, `ErrorsLocated`, `SlotsWritten`, `TypeOK` |
| `nesting` | `MCNesting` | pass | calls inside blocks and callables, with throws, exceptions, breaks: the inductive invariants `IInv`, `PathInv` and `AnswerInv`, `FlagIffCatch`, `QuietInsideIsValid`, `ThrowOwnCatch`, `KeepsPromise`, `CallsEnd` |
| `path` | `MCPath` | violation | `ErrorsAtTheirPlace`: a throw leaves its levels on `depth`, and later errors of the call have a wrong `data_path` |
| `limit` | `MCLimit` | violation | `LimitOnlyForDeepDocuments`: those levels add up to MAX_CONTEXT_DEPTH on a shallow document |
| `overrun` | `MCOverrun` | violation | `DeepDocumentsRaise`: the write past `path[]` comes before the limit raises |
| `compile` | `MCCompile` | pass | sixteen schemas, two attempts, the collector: `LiveStructs`, `FreedOnce`, `NestedFits`, `PublishedComplete`, their inductive invariants `TreeInv` and `TreesApart`, `RefsLand`, `UnresolvedMeansMissing`, `CompileEnds`, `CompileTypeOK`, `CompileIsOneCall` (Compile implements Lifecycle) |
| `shadowed` | `MCShadowed` | violation | `PointersFindTheirSchema`: below a base, `not/allOf/0` takes the name of `allOf/0` |
| `recursive` | `MCRecursive` | violation | `RefsStayInside`: `#` below a nested `$id` leads to the document's root |
| `encoded` | `MCSpaced` | violation | `DecodedRefsMatch`: a percent-encoded `$id` cannot be referenced |
| `lifecycle` | `MCLifecycle` | pass | three overlapping calls on two objects: `Consistent`, `LiveInUse`, `OneTree`, `Answered` (Lifecycle implements SchemaObject) |
| `formats` | `MCFormats` | pass | 350,624 texts of thirteen kinds: `Utf8Decoded`, `Ipv4Exact`, `Ipv6Exact`, `HostnameExact`, `PointersExact`, `DatesExact`, `TimesExact`, `UriExact`, `MailExact`, `TemplateExact` (a parser against its grammar), `FormatsWiden`, `FormatsCompose` (formats against each other) |
| `lone_colon` | `MCLoneColon` | violation | `TrailingColonRejected`: `::f:` is taken for an IPv6 address |

The violation runs are disagreements between a comment and the code; PROJECT.json
quotes both. The passing runs state what does hold next to them: `ErrorsLocated`
says the path is exact until a throw has left a level behind and too long by exactly
those levels afterwards; `RefsLand` and `UnresolvedMeansMissing` hold of *plain*
documents (`Plain`, `OwnRoot`, `Addressable`), whose conditions name the three
disagreements and two ambiguities (a key with a slash that spells another path, a
nested `$id` without an absolute base). `UnresolvedMeansMissing` looks into the Ruby
schema, too: a definition that is a schema is found unless its name is a keyword that
holds none. `"definitions"` is an unknown keyword to `compile`, which reads its value
like a schema: a definition named `items` is compiled as the keyword, one named `type`
not at all, and a `$ref` to it raises.

`LiveInUse` and `OneTree` hold unless two compiles of one object overlap, and fail if
they do: both compiles see `compiled` unset, the second to end replaces the tree of
the first, and a validation that began in between works on a tree the collector may
free. No document of the repository promises that `compile` may be called twice at a
time, so this is no finding; `Schema.create` compiles before anybody else has the
object and is safe.

### Bounds

- `MaxSessions` (calls inside one another): 2 in `nesting`, since the only things two
  calls share are the throw tag and the thread; each activation of user code makes
  at most one nested call.
- `MaxDepth` (MAX_CONTEXT_DEPTH, 1000 in the code): 5 where the limit should not
  matter, 3 or 4 where it should; the code compares with it and nothing else.
- `LongMax`: 20, one instance number (`big`) lies beyond it, so NUM2LONG's
  RangeError happens. NUM2ULONG takes sizes up to `2 * LongMax + 1`: one schema has a
  size between the two limits (`ulong`) and one beyond both (`beyond`).
- `IntMax`: 2, so that dividing `six` by 2 leaves an int. `validate_number` casts the
  quotient to int and takes such a number for no multiple; `validate_integer`, and so a
  schema without a `type`, passes it. `Semantics` names this in `WideQuotient`.
- `MaxAttempts` (calls of compile that do the work): 2, a failure and the retry
  with the first tree still on its way to the collector.
- `Call`, `Object`, `Tree`: three calls (two compiles and a validation are what the
  smallest race needs), an object and its copy, four trees, so that after a race
  another can be built. Calls, objects and trees are interchangeable and `lifecycle`
  checks no liveness, so symmetry over all three is sound.
- `StructIds` (names of trees in `CompileIsOneCall`): 1..99, more structs than any
  run of `compile` makes.
- Texts: words per kind in `FormatsMC`, up to eleven per text (five to eight where
  words combine freely). A byte stands for its class: a parser compares a byte with
  single bytes and with classes only. Numbers take the values on both sides of every
  limit.
- `MAX_HOSTNAME_LEN`, `MAX_LABEL_LEN`, `MAX_LOCAL_PART`, `MAX_DOMAIN`: 7, 4, 4, 20 for
  253, 63, 64 and 255, so that texts cross each limit. The parsers only compare with
  them; a label's limit must be at least 4 (`LimitsAssumption`), the length of a
  character.
- Schemas and documents: one of each keyword and of each type, with the
  combinations the properties need (recursion through `$ref`, containers inside
  tried branches, two resources with the same pointer). The instances' `$ref`s are
  grounded: each cycle goes deeper into the document.

### Fairness

`FairSpec` has WF of `Next`: the thread keeps running, and the user code it runs
ends (each activation makes at most one nested call and then answers, raises or
leaves). `CFairSpec` has WF of the steps of a compile under way; starting a compile
and running the collector are never forced. Both are what a thread that is scheduled
does; nothing else is assumed. `Lifecycle` and `Texts` assume no fairness: what they
are checked for is safety.

## 4. Proofs

Everything below holds for all constants that satisfy the named assumptions of the
modules (the shapes of structs, documents and Ruby values, limits that are positive,
no Array that contains itself); TLC evaluates each of them on the instances. No other
bound is assumed: not of the size of a schema or a document, of the calls inside one
another, or of the attempts at `compile`.

Five assumptions are about the meaning of a schema, and only the theorems on the
verdict use them:

- `DivisorAssumption`: `multipleOf` is above zero, as draft 7 demands. The code does not
  check it (section 5);
- `SizesAssumption`: no size is negative. NUM2ULONG would wrap it, and draft 7 gives it no
  meaning to compare with;
- `KeysAssumption`: a Hash has no key twice, so members counted are members;
- `EqualAssumption`: no number is in the documents both as an integer and as a float, so
  that equal values are one value of the model, as `uniqueItems` sees them;
- `MeaningAssumption`: `Conforms` answers as the keywords say (`Says`), given what
  `Conforms` answers for the parts, and no to what the functions refuse (`Refused`).
  `Conforms` is any table with this property, where a definition by recursion would need
  schemas without `$ref` cycles. Most cycles have a table; one that leads back to the
  same value through a `not` has none, and means nothing in draft 7 either. In the
  instance the table is written out by hand (`MCAccepted`), schema by schema, and TLC
  evaluates the assumption on it.

### The engine

`HandlersProofs` shows `PlanType`: every function's plan is a sequence of steps that
name existing functions, schemas and values; and `PlanBalanced`: in every plan
INCR_CONTEXT and DECR_CONTEXT enclose the body of a loop and occur nowhere else, and
ADD_TO_CONTEXT comes first in what is done for an item or a member.

`ValidationProofs` shows `Invariance` (`[]IInv`) and from it `TypeCorrect`,
`FlagsFollowCatches`, `TriedBranchesAreQuiet` and `ThrowsStayInside`, that is
`[]TypeOK`, `[]FlagIffCatch`, `[]QuietInsideIsValid`, `[]ThrowOwnCatch`.

`FlagIffCatch` is not inductive: what `is_valid` restores is `saved`, so one needs
that `saved` tells the truth (`SavedFlags`), that the frames of one call are
contiguous on the stack (`Nested`, `Layered`), and that a throw only travels with the
flag set (`ThrowFlagged`). `IInv` is their conjunction, and an invariant of the run
`nesting`. The proof is by kinds of move: an action changes the top frame, calls,
returns, opens a validation, or closes one; each kind keeps `IInv` (one lemma each),
and each action is an instance of a kind.

`PathsProofs` shows `PathFollowsDocument` (`[]PathInv`) and from it `DepthIsAccounted`,
`ErrorsAreLocated` and `SlotsAreWritten`: `[]DepthAccounted`, `[]ErrorsLocated`,
`[]SlotsWritten`. None of the three is inductive, because `depth` says nothing of the
frames that will still decrement it. `PathInv` says what each frame owes:

- `FramesPlaced`: what is left of a frame's plan is still balanced (`Remains`, what
  `PlanBalanced` becomes as steps are taken), and its place has an unnamed last level
  only where the slot is not written yet;
- `Chained`: a frame is at its caller's place or, inside a loop, one level below it;
- `DepthCounted`: `depth` is the level of the innermost frame of each validation plus the
  levels throws have leaked; it is stated for the innermost frames of *all* validations
  on the stack, since a validation that was suspended by its block is resumed with
  the `depth` it had;
- `PathTraced`, `SlotsFilled`: the slots hold the segments of the place while nothing has
  leaked, and every slot below `depth` is written; `ThrowFilled` carries this through an
  unwinding that ends in a catch, where errors are reported again;
- `Located`: the errors already handed out.

The proof uses the same kinds of move, and one lemma for each operation on the path
(`IncrFine`, `DecrFine`, `AddFine`, `ErrorFine`). The exception is an overrun of
`path[]`, after which only the depth is claimed, as in section 2.

### The engine's verdict

`AnswersProofs` shows what the engine is for, `EngineKeepsPromise`: `Validation`
implements `Verdict` (`KeepsPromise`), whatever the schemas and documents and however
calls nest, throw, raise and break. Three things come before it.

*What a plan decides.* `Accepts` in `Answers` says when a function accepts a value: for
`validate_items` that all items conform, for `validate_number` its limits, for
`yield_error` never. A step of a plan *fails* if it calls a function that does not
accept what it is called with. `PlanTells`: for each function and struct, if a step of
the plan fails then the value is not accepted, and if no step fails or raises then it
is. It is put together from a lemma for each group of keywords (`NumericTells`,
`StringTells`, `ArrayTells`, `ObjectTells` and so on), where the code's arithmetic is
compared with the definition's: that the remainder tests of `validate_integer.c` and
`validate_number.c` find exactly the multiples (`Multiples`), that the numbers a cast to
int loses are the `WideQuotient`s (`NumbersRefused`), that NUM2ULONG leaves a size that
is not negative as it is, that the comparison of each item with the later ones finds
duplicates (`Distinct`), that `items`, a list of items and `additionalItems` cover the
array between them (`ItemsSplit`). `VerdictTells` and `ContainsTells` do the same for
the functions that count answers, of which `allOf`, `anyOf` and `oneOf` stop at the
branch that decides.

*The invariant.* `AnswersAreRight`: `[]AnswerInv`, an invariant of the run `nesting`.
No single frame knows the verdict, so each clause says what a part of the stack adds:

- `FramesRight`: what a frame has counted or chosen agrees with the keywords, and if a
  step left in its plan fails, the frame's value is not accepted;
- `FramesJoined`: a frame's call fails only if the frame does, which carries a failure
  down the stack to the nearest `is_valid`, where the throw will land;
- `FramesComplete`: the converse, that a frame whose rest is harmless accepts. It holds
  while no error was reported, or below a catch, where the first error throws:
  `validate` goes on after an error, with frames that have already failed;
- `FramesAnswer`: outside every catch a failure is one of the whole call;
- `SessionsMatch`, `BlocksHaveErrors`: a frame of a call and its Context speak of the same
  call, and a block runs only with an error in hand;
- `ReportsTrue`, `ReturnTrue`, `ExitTrue`: what was reported, what `is_valid` answered and
  what a throw means.

A callable that fails on a value it accepts ends in a failed format, so the clauses
about truth are stated for calls that are not `disturbed`; what a disturbed call does to
the calls around it, which have Contexts of their own, is nothing. `AnswerInv` needs
`IInv`: only because a throw meets the catch of its own call, and the flag is set
exactly inside one, does an error in a tried branch stay out of `errors`.

*The steps.* Each action of `Validation` is a step of `Verdict` or changes nothing there:

| Verdict | Validation |
|---|---|
| `Open` | `Start`, `UserCodeCalls` |
| `Report` | `YieldToBlock` for the call's first error |
| `Disturb` | `ProtectStops` on a value the format accepts |
| `AnswerValidate`, `AnswerValid` | `validate` and `valid?` return |
| `Leave` | `UnwindSession`: an exception, or a block's `break` |

`StepKeeps` goes through them; the invariant supplies the guards, which are about the
verdict and not about the stack.

### The compiler

`RubySchemaProofs` shows `SlotsCounted`: `compile_nested_schemas` counts the schemas below
unknown keywords in one traversal and appends them in another, and for every Ruby
schema the numbers agree. It also shows what a list of jobs looks like (`JobsFacts`:
elements are kept before they are stored, no field is assigned twice, nested schemas
come last). The recursive functions of `RubySchema` are unfolded without an
induction theorem: a property that fails somewhere fails at a value of least `Height`
(`Least`, `ValueInduction`), and `Recursion` shows in the same way that a function
defined over the items of an Array exists and equals its definition.

`CompileProofs` shows `TreesAreSound` (`[]TreeInv`) together with `CompileTypes`
(`[]CompileTypeOK`), and from them

- `NothingLiveIsFreed`, `[]LiveStructs`: whatever order the collector works in, no struct
  that a C frame, the table, the agenda, the tree or one of its `$ref`s leads to is freed;
- `EachFreedOnce`, `[]FreedOnce`: no struct is freed twice and none stays behind;
- `SlotsFit`, `[]NestedFits`;
- `PublishedIsComplete`, `[]PublishedComplete`: in a published tree every `$ref` leads to a
  struct of that tree.

`TreeInv` is checked by the run `compile`. Its clauses, and what needs them:

- `Phases`, `FramesInTree`, `NamesInTree`: frames, wrappers on the C stack, the table, the
  agenda and resolved `$ref`s belong to the tree in use, the structs from its root on.
  No mark function follows `ref_schema`, the table or the agenda: they are safe only
  because what they mention hangs in the tree anyway;
- `Sound`: pointers lead to later structs and into the tree in use from that tree alone
  (`Forward`); each struct of the tree has a wrapper that is held or a struct of the tree
  that points at it (`Connected`); a struct without a wrapper has one owner and shares its
  fate (`Owners`). From the first two, *marked* is the same as *of the tree in use*
  (`MarkedIsYoung`, `YoungMarked`), which is why a sweep never touches it and why all of a
  given-up tree is garbage at once;
- `Work`: what a frame has done and what it has still to do add up: a field it will assign
  is unset, a wrapper it made is kept or stored next, the slots are those filled and
  those to come. Without it a store could overwrite the only pointer to a struct, and
  `Connected` would not be inductive;
- `SlotsFilled`: a struct no frame works on any more has all its slots;
- `Resolving`: an unresolved `$ref` is still reachable from the agenda, so an empty agenda
  means there is none.

`Reach`, the mark phase, is a recursive function over the list of structs; `ReachIs` shows
that it is closed under the links, from `GrowthExists` and links that lead forward. The
heap changes in five ways, one lemma each: a field changes (`EditSound`), a struct is
added (`GrowSound`), a collection is stored (`StoreSound`), a tree is given up
(`AbandonSound`), wrappers are swept (`SweepSound`). Frames advance, are pushed and are
popped (`FrameMove`, `FramePush`, `FramePop`). Each action is one of the first with one
of the second.

The refinement is proved as well. `CompileIsACall` shows `CompileIsOneCall`: with the
frames, the table and the structs hidden, and each tree known by its root, every step of
`Compile` is a step of `Lifecycle` or changes nothing there, except `DropSchema`, which
forgets how the call had ended. `compile_schema` entered is `BeginCompile`, an
exception is `CompileRaises`, `Publish` is `Publish`, the first visit of the collector to
a tree is `Collect`; the steps of `compile()` and `resolve_refs` and the later visits are
stutters (`Unseen`). `StructIds` holds the names of the trees, which TLC needs finite: the
theorem assumes that it names every struct that is made, `CompileIsAlwaysACall` that it
holds every positive number.

What this needs beyond `TreeInv` is `TreesApart` (`TreesStayApart`, and an invariant of the
run `compile`): `Forward` speaks of the tree in use, while a visit of the collector frees
a given-up tree, of which one must know that no pointer leads from one tree into the
next. Then the structs freed together are of one tree (`FreedTogether`), and since what is
swept is not marked and all of the tree in use is, that tree is neither the call's nor
the object's (`SweepFacts`). An action that changes the heap changes one struct that
is not before the newest root and may add one that is no root (`Builds`), so one lemma
(`BuildKeeps`) serves them all.

### Schema objects

`LifecycleProofs` shows, for any sets of calls, objects and trees, `AlwaysConsistent`,
`AlwaysLiveInUse`, `AlwaysOneTree` and `AlwaysAnswered`. `Consistent` is the inductive
invariant: the two ivars agree (`IvarsAgree`), a frame holds what its call needs
(`CallsHold`), what the collector can reach has not been freed (`ReachableLive`), and
two trees for one object mean a race (`RacesKnown`). `LiveInUse` alone is not
inductive: that the collector leaves the tree of an unraced validation alone follows
only from that tree still being the one in the object's ivar, which `RacesKnown`
carries from the beginning of the call, and which a compile begun before the
validation can break only after `BeginCompile` has recorded the race. Copies are why
`IvarsAgree` speaks of all objects: an object's tree may be another's first.
`AlwaysAnswered` maps each action to one of `SchemaObject`, and `Collect` to a stutter; a
second `Publish` answers a compile of an object that is ready already.

### Formats

`FormatProofs` shows `Utf8Exact`: for every text and window `utf8_seq_len` is the length
of the RFC's sequence there, by cases on the length (`EncodesOne` to `EncodesFour`), each
a fact of linear arithmetic on the bytes; and `Utf8AlwaysDecoded`, the property of the
run `formats`. It also shows `CalendarExact`: the table and the leap years of
`date.c` are the differences between first days of months, for every year.

`DatesAlwaysExact` and `TimesAlwaysExact` are the two properties of the run for every
text, the second with its two differences from RFC 3339. The parsers read fields at
fixed offsets, the grammar steps over sets of positions, so `TwoDigits`, `AfterOne` and
`Year` say where a field of the grammar starts and what its digits say, `DateIs`
compares the two with `CalendarExact` for the day, and `TimeEnds` is for any set of
starts and of seconds, hence for a time and for one that follows a date, with a leap
second and without. `TimeIs` puts the two kinds of second together, which is what
`parse_full_time` does in texts without "t" and "z"; that it accepts no text with them
is `TimeChars`. The rule for leap seconds plays no part in the proof but that it allows
no more than `anyLeapTime`. The fraction of seconds has no fixed length: `SkipIs` says
where the parser's loop stops, `ManyDigits` what the grammar's closure computes. The
prover has no induction over the definition of the closure, but the sets of positions
are finite, so that a largest set it would compute wrongly is a contradiction. The
character that follows, no digit and no dot, makes the greedy loop and the closure agree
(`FractionIs`).

`Ipv4AlwaysExact`: `parse_ipv4` unfolds to three octets with a dot and one without
(`OctetsAre`), and `OctetIs` compares an octet with the grammar's before a dot or the end,
where taking every digit and taking as few as one likes come to the same.

`Ipv6AlwaysExact`: the grammar has an alternative for each place of the "::", the code
one loop with three local variables. `CountsAre` turns the loop into two sets per
position, the counts of groups with which it may arrive there and end well, after a "::"
and before it (`CountAfter`, `CountBefore`). The loop's recursion is over positions that
grow, so a function that solves it exists, found from the last position down
(`RoundsExist`). One round reads one group (`GroupIs`) and the colons after it, from one
position a group with its colon, and likewise "::", has one end or none
(`GroupColonIs`), so the counts and the grammar's alternatives go through the text
together. A lone colon at the end is the one place where the loop goes on and the
grammar does not.

`PointersAlwaysExact` and `HostnameAlwaysExact` have no fixed number of parts. `ClosureIs`
says of a repetition of the grammar that it is the least set of positions that has the
starts and is closed under one more; `WalkIs` and `JumpIs` say of the parser's loops that
they are defined from every position, the later ones first, and answer the same wherever
they began. Then both directions are short. The positions from which the parser cannot
succeed are closed under the grammar's steps, so that the least set stays among them
and never reaches the end; and of the positions the grammar reaches from which the parser
would succeed, the greatest can only be the last. The host names do it twice, for the
characters of a label (`LabelIs`) and for the labels of a name (`HostnameIs`): the
parser checks hyphens by looking back from where a label stopped, the grammar by saying
which characters may be last.

### Only model-checked

- `CallsEnd`, `CompileEnds`: liveness under fairness is beyond the prover.
- `RefsLand`, `UnresolvedMeansMissing`: they rest on what `URI.join` and the tables of
  the instance do to names, and on `Targets`, an induction over the schema's nesting.
- `UriExact`, `MailExact`, `TemplateExact`, and the two that compare formats,
  `FormatsWiden` and `FormatsCompose`: their grammars nest several closures and
  alternatives, each of which needs a proof like the one of host names.
- The properties of the violation runs, which do not hold.

## 5. Not modelled

- The pattern of a `regex` format: Ruby decides whether it compiles.
- What the engine sees of a string is its length, the patterns it matches and whether
  its format passes it; `uniqueItems` compares values by identity.
- Floats: they are counted in exact halves; rounding, limits and a `multipleOf` that are
  floats, and `multipleOf: 0` (a division by zero in `validate_integer.c`, for which the
  program has no next state).
- Documents changed by a block during iteration; cyclic Ruby Hashes; `$ref` cycles
  that consume nothing (the C stack has no limit here).
- `validate` without a block (an Enumerator, possibly run in a Fiber).
- Compaction; NUL bytes in `format` and `type`; URNs and the normalisation `URI.join`
  does beyond replacing the document part.
- The initialisation of the library, and the checks of the `formats:` argument before
  there is an object.

## 6. Plan

Done: the engine with its abstract specification, the compiler with reference
resolution, the Schema object between threads, the formats and their parsers, and the
theorems of section 4. Left, in order:

1. Theorems about more formats, with the lemmas on closures, walks and jumps that the
   pointers and host names rest on: `UriExact`, then the templates and mail.
2. Floats: `multipleOf` and the limits with rounding, as dyadic rationals.
3. `validate` as an Enumerator: a validation suspended in a Fiber that may never be
   resumed, which `Lifecycle` covers only as a call that never ends.
