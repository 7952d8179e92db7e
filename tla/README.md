# TLA+ models of the Z98 bootstrap compiler (zig0)

`zig0` (`src/src/bootstrap`, `src/src/include`) compiles Z98, a subset of Zig, to C89. It is one
process and one thread. What makes it hard is not concurrency but long sequences of
dependent steps over shared mutable tables: recursive loading of modules, types that are
used before they are complete, statements that are copied to every exit of a scope, trees
that are rewritten while they are walked, abstract states that are merged after branches,
C files that must agree with each other, and an allocator that all of it rests on.

This directory holds the TLA+ modules that model these parts, the TLC configurations that
check them and the proofs that TLAPS checks. `PROJECT.json` lists the components, the runs,
the definitions with the source lines they model, the hazards, the findings and the theorems.

    tlc -config MCSymbolTable.cfg MCSymbolTable     # one run
    tlapm ArenaAllocatorProofs.tla                  # the proofs of one module

## The system

A compilation goes through these parts, in this order. "State" is what a part keeps between
its operations.

| Part | State | Operations | What makes it correct | Module |
|---|---|---|---|---|
| Arena allocator (`memory.hpp`) | chunk list, byte counters, limits | alloc, reset, setHardLimit | blocks never overlap, limits hold, no spurious NULL | `ArenaAllocator` |
| String interner | hash table of strings | intern | one pointer per string | not modelled |
| Lexer, token supplier (`lexer.cpp`) | position, line, column, token array | nextToken, getTokensForFile | maximal munch, values, locations | `Lexer` |
| Parser (`parser.cpp`) | token index, depth, scopes entered | parse* | the tree is what was written, nothing is dropped | `Parser`, `Syntax` |
| Module loading (`compilation_unit.cpp`) | module list, call stack, current module, import nodes | addSource, resolveImports, sort | each file once, imports bound, dependencies first | `ModuleImports` |
| Symbol table (`symbol_table.cpp`) | scopes, open scopes, level | enter/exitScope, insert, lookups | lexical scoping | `SymbolTable`, `NameScopes` |
| Named types (`type_checker.cpp`, `type_system.cpp`) | placeholders, dependents, deferred declarations | registration, resolution, retries | true layouts, cycles rejected, termination | `TypeResolution` |
| Expression and statement checking | types of nodes, scopes, label stack | visitors | coercions, labels | not modelled |
| C89 feature validator | flags | visitors | what it passes can be emitted | its defer limit, in `DeferCodegen` |
| AST lifter (`ast_lifter.cpp`) | temporaries, insertion points | lift, lower* | the lifted body does what the source says | `ControlFlowLifter`, `LiftSemantics` |
| Lifetime, null pointer, double free analyzers | per-function abstract states | visitors | what is reported happens; in stated fragments what happens is reported | `LifetimeAnalyzer`, `NullPointerAnalyzer`, `DoubleFreeAnalyzer`, composed in `StaticAnalyzers`, judged in `AnalyzerReports` |
| Metadata preparation | header types | collect, sort | C types defined before use | `MetadataPreparation` |
| Name mangler, C variable allocator | assigned names, per-file name cache | mangle, allocate, generate | names unique in 31 characters, the same in every file | `CNames` |
| C emitter (`codegen.cpp`) | scope stack of defers, loop stacks, type buffer, output | emit* | the C does what the source says | `DeferCodegen`, `ExpressionEmitter`, `TypeEmitter` |
| C backend (`cbackend.cpp`) | files, the cache of special types | generateHeaderFile, generateSourceFile | the files compile together | `CBackend` |
| Driver | phase | performFullPipeline | an error stops the output | phases one by one |
| Runtime library | arena blocks | arena_alloc, arena_reset | as the arena allocator | not modelled |

Interactions: every part allocates from the arena and keeps its pointers until a reset; the
loader creates a symbol table per module and injects the runtime symbols; parser and type
checker insert into it, the analyses search it afterwards (`findInAnyScope`); the type checker
works on the module order the sort leaves; the validator and the lifter run before the emitter
and decide which trees it meets; the analyzers see lifted bodies only; all emitters share one
cache of special types. There are no threads, messages or persistent state. Failures are a
missing or broken file, an allocation beyond a limit, a file that cannot be opened for
writing, and a rejected program.

## Modules

### ArenaAllocator and ArenaAllocatorProofs

State: the chunk list (`chunks`, head last) and the counters of the class, by their names.
`live` is a history variable with the blocks handed out since the last reset. One action per
outcome of `alloc_aligned`: rejected (size 0 or cap), aborted at the hard limit, served from
the head, served from a new chunk, refused by the OS; and `reset`, `resetPeak`,
`setHardLimit`. Sums of sizes wrap at `WordSize`, as `size_t` does.

Not modelled: `DynamicArray`, and the statistics of `MEASURE_MEMORY` builds.

### Lexer

`nextToken` is one action per token; a source is a sequence of characters, in which a keyword
or the name of a builtin is one word. The model keeps the scanning (numbers with their
lookahead for ranges, escapes, nested comments, the longest operator), the overflow test of
`parseInteger` against `IntMax`, the range check of `\u{...}`, and the line and column counters
with their tab stops. The values of floats, characters and strings are left out, and sources
end in no quote.

### Parser, ExpressionEmitter, Syntax and SyntaxTrees

`Parser` is the recursive descent: one operator per `parse*` function, from a parser state to
a parser state whose `n` is the node built. Errors end the program in the code; here they
leave a failed parser at the last token. The functions call each other in circles: every
call that closes one goes through the recursive operator `descend`, so that TLC's coverage
expands each production once (`emit` does the same in `TypeEmitter`). `Syntax` writes a file out from a tree (the
grammar the other way round), loses at most one token of it, and parses the rest. `SyntaxTrees`
has the trees.
`ExpressionEmitter` turns expressions into C tokens as `emitExpression` does and reads them
back by C's own grammar, which is external. Types decide some of the text the emitter
writes; the model takes the operand of `@intCast` to need a checked conversion.

### ModuleImports and ModuleImportsProofs

The recursion of `resolveImportsRecursive` is a stack of frames. A program is what is on
disk: for each file its imports, each the list of paths tried for it, and whether the file is
absent, unreadable, unparsable or fine. The actions are the branches of the loop over the
imports (a module already known, a file loaded, a missing or broken one, return from a
module), and then the steps of Kahn's algorithm in `performFullPipeline`, including the
appending of what a cycle leaves over. `module_ptr` holds what each import node was bound to, one
by one, and `aliases` the module symbols inserted with the table they went into. A nested load
leaves its own module as the current one, so the table need not be the importer's:
`AliasesNear` says which tables it can be (see Disagreements).

### SymbolTable, NameScopes and SymbolTableProofs

`NameScopes` is the promise: a list of maps from names to symbols, some of them open, and one
action per call. The last call stands in the variable `call` with the name it was asked about,
beside its answer, in the promise and in the code alike, so an answer is right only for its own
question: a redeclaration accepted, an insertion refused without reason, or a lookup that answers
as another one, or for another name, is no step of `NameScopes`. `SymbolTable` is the code: chained hash tables whose
resizing loop is modelled entry by entry, the two rules for matching module names (`find`
knows "builtin", `insert` does not), `insert`, `registerTempSymbol`, `lookup`,
`lookupInCurrentScope`, `lookupWithModule` and `findInAnyScope`. The refinement mapping reads
each scope's map with `find`. Callers obey what the compiler's callers do: the runtime
symbols are injected before anything else, globals carry the module's name and locals NULL.
`registerTempSymbol` has no caller in the compiler today; it is the one way to the branch of
`Scope::insert` that updates an entry.

### TypeResolution, TypeResolutionProofs and TypeLayoutProofs

The declarations of one module, each a struct or a bare union whose fields are primitives or
by-value, pointer, slice, optional and array uses of declared types. The phases are those of
the compiler: placeholders; the attempt of phase 0.5; the first visit with deferral; the
retries, at most `MAX_PASSES`; the forced errors; the last visit; `verifyNoPlaceholders`. A
layout is a size and an alignment. Resolving a field whose placeholder is being resolved does
nothing, as `visitVarDecl` returns at `is_resolving`. A type object (pointer, slice, optional,
array) made over a placeholder joins its dependents (`Registered`); `refreshLayout` is the
order in which it reaches types (`RefreshOrder`) and the recomputation of each (`Recompute`).

Not modelled: tagged unions, error unions, tuples, enums and types of other modules.

### FnBodies, the analyzers, StaticAnalyzers, its proofs, BodySemantics and AnalyzerReports

`FnBodies` has the statements and expressions that lifted bodies are made of, as the constant
set `Nodes`, which is closed under taking children (`NodesAssumption`).
Each analyzer module is the visitor with its recursion as a list of what is left to visit
(`todo`); what a visitor does after its children is an entry of that list, with the values the
C++ function holds in local variables. `StaticAnalyzers` runs them one after the other, in the
order of `performFullPipeline`, over one function, and says what their stacks must do
(`Balanced`): no scope is popped that was not pushed, deferred actions are those of open
blocks, and everything is given back in the end. `BodySemantics` says, independently, what
the body does: all its executions, with the double frees, leaks, null dereferences and
dangling returns each commits; a block that is left runs its defers, last one first, and then its
errdefers if an error is returned, as the emitted code does. `AnalyzerReports` compares the reports with it; that blocks left
behind are forgotten is part of `FreeReportsReal`.

### ControlFlowLifter and LiftSemantics

`ControlFlowLifter` is the rewriting: which expressions are lifted (`needsLifting`, which passes
over `void` ones), what each becomes, in which order operands and branches are transformed, and
before which statement (or at the end of which block) the new statements go. What is asked of
the surroundings is asked of `parent_stack_` as the code keeps it (`at`, `skipParens`): a lifted
expression is not pushed on it, so what stands inside one is judged by what is around that one.
`LiftSemantics` runs a body before and after, with an oracle for the outcome of every call, and
compares calls, order and result. `Plain` says of which bodies the meaning is kept, and
`LiftedAsWritten` says that these are all of them: any other body that can be emitted does
differ, for some outcome of its calls, in one of the ways listed under Disagreements. A body with
a `void` `if` or `switch` expression is left with it, and the emitter refuses it
(`CallsKeptOnce`).

### DeferCodegen, DeferSemantics and DeferCodegenProofs

`DeferCodegen` is the emitter for a function returning `!void`: blocks, `defer`, `errdefer`,
`try` as a statement (as the lifter lowers it), `return`, `break`, `continue`, `while`, `for`,
`if`, `switch` (its prongs one after the other), `unreachable`. The recursion of the emit
functions is a list of what is left to emit; the C text is a sequence of instructions. When
emission ends, the C code is checked for labels and run, with every outcome of its conditions
up to `MaxChoices` true ones. The constant `Statements` holds the statements at any depth; of
them the module assumes what earlier passes see to: the shapes the parser builds
(`StatementTypes`), a number of its own for every loop of a function (`LoopsNumbered`), and no
way out of a deferred statement, since the type checker rejects `return`, `break` and
`continue` there (`DeferredStays`). Loops and `try` in deferred statements are accepted and are
part of the model. Lowering makes a `return` of a `try`; in a deferred statement it unwinds the
scopes that hold the statement, which is then emitted while it is being emitted: the recursion
has no end (`EmitDeferredAgain`, after which the phase is "diverged"). So `CodeWellFormed` and
`EmissionCompletes` speak of bodies whose deferred statements hold neither (`PlainDefers`), and
`DeferredLoopsAndTries` says what happens to the others: emission has no end exactly when it
comes to a `try` of a deferred statement, and a C compiler refuses the code only where the labels
of a deferred loop were emitted twice. `DeferSemantics` defines, independently, what the source
means, and compares (`CompiledAsWritten`), for every body that is compiled.

### MetadataPreparation, TypeEmitter, CBackend and TypePrograms

A program is its modules, types and symbols. `MetadataPreparation` collects the types a header
lists, in the order of the hash buckets, and sorts them. `TypeEmitter` is the part of the
emitter that declares and defines types, as the tokens a C compiler cares about: guards,
forward declarations, opened and closed definitions, uses that need a complete type. It keeps
the buffer of definitions, the emitter's own lists and the cache that emitters share. `CBackend`
writes headers, sources and `zig_special_types.h` from these, then an external C compiler
reads each source with its includes and lists what it rejects. `TypePrograms` has the programs.

### CNames and CNamesProofs

The C names of a program: `precomputeMangledNames`, the lookup of globals with its per-file
cache, and `CVariableAllocator` for the locals and temporaries of a function, with the length
limit, reserved words and the numbering of names that collide. A name is a sequence of
characters. `mentions` records which file used which name for which global: by the lookup of a
file of the global's own module (`MentionGlobal`), or, from whatever module, as the symbol the
type checker found (`MentionMember`); at most `MaxMentions` of them are followed. Not modelled: the
mangling of types (`mangleType`), the `c_name` of extern symbols, and the counter for anonymous
types.

## Runs

Passing runs. All finish in under two minutes.

| Run | Instance | Properties |
|---|---|---|
| `arena` | one unit = 4 bytes, a default chunk of 8, cap 8, limits 6 and 9, requests 0, 1, 3 with alignments 1, 2, 4, up to 3 chunks | blocks separate and stable, exact accounting, limits, no spurious failure |
| `imports` | every program of three files with at most two imports each, fallback paths, missing, unreadable, unparsable files | `LoaderInv` (each file once, each import bound to its own module, module symbols in the tables `AliasesNear` names, the root current in the end), failing exactly when broken, ordering, termination |
| `symbols` | three colliding names, one of them a runtime symbol, three scopes, four symbols, two buckets | `TableInv` (chains, counts, levels), and every call is answered as lexical scopes answer that call for that name |
| `types` | every module of three one-field structs, and modules of two-field structs and unions | `LayoutInv` (types and objects agree when phase 0.5 ends), cycles rejected, no internal error, what the deferral scheme guarantees, termination |
| `defer` | 387 function bodies: one loop with a branch, switch or try in it; two nested loops left and continued from the inner one; blocks with every kind of exit; scopes at the limit of defers; loops and tries in deferred statements that are emitted at no, one or several ways out | the compiled function does what the source says; `CodeWellFormed`; `EmissionCompletes`; `DeferredLoopsAndTries` |
| `analyses` | some two thousand bodies over two pointers, a local, a parameter and a struct, with branches, loops, defers and early returns | reports are real (`FreeReportsReal`, `NullReportsMatch`), nothing is missed in straight-line code, scopes balance |
| `lifter` | 2,339 bodies with a lifted expression in every position, `void` ones among them | the lifted body does what the source says exactly when it is `Plain`; every call is kept once, and which bodies the emitter can take |
| `front_end` | every sequence of a few characters over eight alphabets, every word; two thousand files: every pair of operators, every form of statement, type and declaration, whole and with any one token lost | blanks and comments change nothing, locations, values, the longest operator the lexer has a rule for; read as written, nothing dropped, scopes follow blocks, C groups expressions alike |
| `output` | one module of three types and a function that refer to each other in every way of a menu, in several orders; two modules with and without an import cycle; names of at most 8 significant characters: shadowing, long names that agree in what is kept, keywords, reserved and numbered names, two modules and three files | types defined before use, special types declared, nothing defined twice; locals distinct and legal, globals named alike everywhere |

Violated runs. Each checks one sentence of a document or a comment, and its counterexample is
what the compiler does.

| Run | Sentence | What happens |
|---|---|---|
| `circular_imports` | `CircularImportsFatal`: circular imports are reported as fatal errors (`builtins.md`, `DESIGN.md`) | the loader takes a module that is still being loaded as it is, and the sort appends what a cycle leaves over |
| `star2` | `DocumentedOperatorsRead`: the operators listed as implemented in `Lexer.md` are tokens | `**` is read as two `*`, which the parser needs for a pointer to a pointer |
| `type_order` | `DefinedBeforeUseAlways`: what a type contains by value is defined before it (the comment over the sort of header types) | the sort does not look through arrays, and an optional is defined where it is first mentioned, be its payload complete or not: the header does not compile |

Why the bounds are enough. *Arena*: all decisions compare the head chunk, the use and the
limits with one request; three chunks give an abandoned head between two others, and the
sizes reach both sides of every comparison. *Imports*: three
files form every cycle shape the loop distinguishes (self, mutual, through a third, diamond);
the sort distinguishes in and out of cycles only. *Symbols*: two insertions double a table and
the third goes to a table already doubled; the hashes put all names in one chain before, and
two chains after. *Types*: needs of three declarations give every order of complete,
placeholder and deferred. *Defer*: the emitter's state is two stacks, and each body makes both
grow by two and leaves them by every exit. *Analyses*: the states are per variable and merges
are pairwise, so two pointers and two nested branches meet every case of a merge; loop bodies
run up to twice. *Lifter*: an expression is moved past one parent at a time; operands two
deep in every context give each pair. *Front end*: no rule of the lexer looks further than two
characters ahead; precedence and lookahead of the parser concern pairs of neighbouring operators.
*Output*: an order can go wrong between a container, what it holds and one type between them;
one name more than two that collide tries the numbering twice. For what is proved below the
bounds do not matter.

Where a property is conditional, the condition is what the code achieves, and the remark
before the property says which bodies fall outside it; those cases are listed below.

Fairness. `imports` and `types` check that the procedure ends, under weak fairness of its next
step: the compiler is one thread that waits for nothing. The other runs check safety only.

Deadlock is allowed in `arena`, where an aborted process stops, and in `output`, which ends when
all files are written; elsewhere finished states stutter explicitly.

### Disagreements

Beside the three violated runs, seen while modelling and not kept as runs. In each case the model behaves as the code does.

- Arena: `size_t` sums are not tested for wrap-around although the design document speaks of
  overflow-safe checks; no caller asks for blocks near `SIZE_MAX`.
- Modules: dependencies are looked up by base name, so two files of one name in different
  directories are mixed up by the sort; after a nested load `current_module_` is not set back, and
  the module symbols of that import and of those after it go into the loaded module's table; a
  module that merely imports a cycle is ordered before it.
- Symbols: `findInAnyScope` returns the entry of the scope entered last, so a local of another
  function hides a global from the analyses, and `return &x` of a global is rejected.
- Types: an optional over a placeholder is laid out with size 0 and never refreshed; a legal
  chain of four structs in reverse order is rejected; a union with a forward by-value need is
  rejected where the semantics document says it is deferred.
- Defer: a `try` in a `defer` is accepted and makes the emitter recurse without end; a loop in a
  `defer` is emitted once per exit with the same labels (`DeferredLoopsAndTries`).
- Lifter: the statements of a lifted expression go before the statement around it, so
  `g() and (try f())` calls `f` when `g` gives false, `while (f() orelse false)` evaluates its
  condition once, those of an `else if` condition are appended after the `if`, in
  `h(a) + (try f(a))` the calls change order, and in `return (try f()) orelse x` the `try` is taken
  for the value of the `return`, whose parent the stale `parent_stack_` shows, and wrapped as one.
  An `if` or `switch` of type `void` that is used as an expression is not lifted, and the emitter
  refuses it with `ERR_UNSUPPORTED_FEATURE`.
- Analyzers: a pointer assigned in the branch that found it null, or in a switch prong, counts
  as definitely null afterwards; a variable that shadows another inherits its allocation state;
  the double free analyzer replays defers and errdefers as one stack, as `DESIGN.md` and
  `AST_Parser.md` say, while the emitter and `C89_Codegen.md` run a block's errdefers after its
  defers, so that with `defer free(p); errdefer free(p)` it blames the wrong one of the two; a
  returned pointer that a deferred statement assigns is reported as leaked;
  after `defer free(p); if (c) return; free(p)` the double free is missed; the pipeline
  returns true when the analyzers have reported errors; the lifetime analyzer runs first, the
  documents say last.
- Lexer: `@intToPtr` is compared with the wrong length and never recognised; `c_char` is out of
  order in the sorted table and never found; a hexadecimal number cannot start a range; an
  unterminated block comment ends the file silently; columns drift after escapes; a file that
  ends in a quote is read past its end.
- Parser: `.{ .a, x }`, `!try f()` and slices whose start has several tokens are rejected;
  `comptime { }` is accepted as the last statement of a block only.
- Expressions: operators are written without parentheses, so C groups `a & b == c` in another
  way than the source, reads `- -a` as a decrement and casts only `p` in `@ptrCast(T, p + q)`.
- Backend: without the option for early includes, a struct that holds another module's struct
  does not compile; the shared cache drops a special type from the second source file that uses
  it privately; tuples as fields are never complete; `zig_special_types.h` uses optionals
  inside slices that it does not declare.
- Names: two functions of a module that agree in their last 21 characters get one C name, and
  a local renamed to `a_1` captures an external function of that name; a second local
  called `_` is numbered to `__1`, which C reserves.
- Runtime: after `arena_reset`, growing overwrites the link to the blocks that were kept.

## Proofs

Properties of seven components are theorems for every value of the constants. `PROJECT.json`
pairs each with the property its run checks.

| Module | Theorems | Hypotheses beyond the types of the constants |
|---|---|---|
| `ArenaAllocatorProofs` | the type invariant, `LiveBlocksSeparate`, `NoSpuriousFailure`, `GrantsRespectLimits`, `BlocksStable`, `AccountingExact` | `RequestsFit` |
| `SymbolTableProofs` | `TableInv`; the tables implement `NameScopes` | none |
| `ModuleImportsProofs` | `LoaderInv`, `FailsOnlyWhenBroken`, `AcyclicOrder` | none |
| `TypeResolutionProofs` | `ValueCyclesRejected`, `NoInternalError` | none |
| `TypeLayoutProofs` | `LayoutInv` | none |
| `StaticAnalyzersProofs` | `Balanced` | `NodesAssumption`, `FunctionsAssumption` |
| `DeferCodegenProofs` | `CodeWellFormed`, `EmissionCompletes`, which speak of bodies with `PlainDefers` | `DeferConstants` (`StatementTypes`, `LoopsNumbered`, `DeferredStays`) |
| `CNamesProofs` | `LocalsDistinct`, `LocalsLegal`, `GlobalsLink` | `NoDiscards` for the second, `GlobalsWellNamed` for the third |

### Arena

`RequestsFit` says that the largest chunk and two largest requests stay below `WordSize`: the
condition under which no `size_t` sum of one request wraps. None of the properties is inductive
alone: that a request fits is decided by sums, and they are exact only if the offsets and
capacities in them are bounded; that a new chunk always takes the request it was made for, on
which `NoSpuriousFailure` rests, needs the chunk size computed without wrapping; the peak and
the use are related only through the check made when bytes are taken. The inductive invariant
`IInv` adds `Bounded` (use within the cap, capacities at most `MaxCapacity`) to the three. Its
proof has one step per action; the lemmas state what aligning, sizing a chunk and taking bytes
from a chunk do.

`AccountingExact` compares the counters with sums over the chunk list. The sum is a recursive
function, so the proof first shows that its equations have a solution and one
only, by least counterexample over the positions, and from that how a total changes when a
summand is appended or the last one replaced. These are the only two things the allocator does
to its list. That the bytes obtained from the OS never wrap is not a matter of the requests:
chunks lie apart in memory, so no list of them is larger than the address space (the guard of
`AllocNewChunk`).

### Symbol table

The lemmas speak of a table's entries (`Has`) rather than of its chains: what `find` answers
depends on them alone. The inductive invariant adds to `TableInv` that the open scopes nest,
that the redeclaration check has cleared the name under insertion, and what the loop of
`resize` has moved so far: the new chains hold exactly the entries passed. For the refinement,
every action is shown to be a step of `NameScopes` or to leave its state alone; the whole
resizing is invisible because the entries are the same when it is done. That an insertion
answers for the name it was asked about follows its symbol and its caller through the loop; that
a declaration goes to a scope without the name, and a refusal to one with it, is what the check
before the loop found, kept until the symbol is put. All four lookups then agree with what the
lexical scopes mean, each with the meaning it is asked for.

### Module loading

The program is the least set of files with the root and everything the disk offers its imports
(`Program`). While imports are resolved, the loaded files belong to it, once each; a file has
the modules of the imports before the one its call is at; a file without a call has them all.
When the last call returns, the loaded files are closed under imports, so they are all of it.
An import node is bound to what its own path finds, node by node. For `AliasesNear` the invariant
`AInv` adds where the current module can be while imports are resolved: the file whose
imports are being read, a module it has already been bound to, or the one just loaded for the
import it is at, since each call was made for the import its caller is at and ends with its own
file; and it follows each module symbol from the step that inserts it.
While modules are sorted, an in-degree is the number of dependencies not taken yet. That it
starts so rests on names being distinct, which is a hypothesis inside `AcyclicOrder`, as is the
absence of cycles. That every module is taken uses a least counterexample: among the files left
over one that reaches fewest others has no dependency left over.

### Types

For the first two theorems only the kinds matter, complete or placeholder, and not the layouts. A type is completed
only when all it holds by value or in arrays is complete, so every set of completed types has a
member that holds none of the others (`Sound`). A type that contained itself would, with all
that contain it, make a set without such a member. For `NoInternalError` the invariant follows
a declaration through the passes (`Accounted`): unless something was reported it is complete,
or resolved to an unnamed type, or waiting in one of the two lists, and when the forced visit
reports nothing the last pass completes it.

`LayoutInv` is about the layouts. The space of the fields, the list of dependents and the
refreshing of them are recursive functions over positions: each exists, and has a property at
every position, because there is no least position without it. `refreshLayout` recurses through
types, possibly in circles, until it meets one with `is_resolving` set; every level marks one
more of finitely many types, so the number of unmarked ones bounds the depth, and induction on
that bound gives the order in which types are recomputed. The inductive invariant adds that a
completed type has an object for every field that needs one, and, during phase 0.5 of a module
without optionals (`Consistent`): objects on completed types have those types' layouts,
completed types have the layout of their fields, and every other object waits among the
dependents of what it is built on. When a type completes, only objects on it are behind, since
what completed earlier holds it by pointer or slice at most. Refreshing its dependents brings
exactly these up to date and recomputes every aggregate on the way to what it already was
(`Settled`, `OnlyObjects`). The restriction to modules without optionals is the code's: an
optional over a placeholder is never brought up to date (see Disagreements).

### Analyzers

`Balanced` is a statement about a recursion that the model has turned into the list `todo`.
What each entry will do to the stacks is fixed by its kind and by the *level* at which it is
reached: open scopes, open blocks, the depth of the deferred actions left, the error path. A
list fits a level when there are levels for all its entries, the first being that level and
the last the ground, such that each entry leads from its own to the next one (`Fit`). The
inductive invariant says that `todo` fits the level the stacks are at; `Balanced` follows since
an entry that pops has a level with something to pop, and an empty list fits the ground only.
An action replaces the first entry by what the visitor does, and the proof shows for each kind
of node that the new entries lead from the same level to the same next one. `NodesAssumption`
says that children of nodes are nodes of the kinds the parser builds and names are strings;
`FunctionsAssumption` that a function's body is a block and its parameters are finitely many.

### Defer code

The proof follows the list of what is left to emit as the one for the analyzers does. A level
has the stack of scopes with the deferred statements in each, the open loops, the deferred
statements being emitted, the loops that may still be opened, and the loops marked to have a
continue label. The inductive invariant has three parts. First, `todo` fits the level the
emitter's stacks are at, and its last level has no open loop. So a `break` or `continue` finds
its loop on both stacks; a deferred statement is not reached while it is being emitted, since
it is not inside itself and outer scopes are unwound outside deferred statements only, which is
where `PlainDefers` is needed (`Within`, `NeverAgain`); and a
scope never holds more deferred statements than its block, which the validator has counted.

Second, `JumpsFit` says what the code so far and the open loops owe each other: each label
stands once and after the start of its loop; an open loop has its end label still to come; a
jump has its label, or its loop is open and will have it. A loop's labels are written once
because it is taken out of the loops that may be opened when it is entered, which
`LoopsNumbered` allows. That a continue label is written when a `continue` asked for one
depends on `loop_has_continue_`: when it is set, the entry that closes the loop writes the
label. When nothing is left to emit no loop is open, so every jump has its label.

Third, `Closed` says that every opening brace has its closing one in the code so far or in what
is still to come, so that a condition that fails, or a prong that is done, continues inside
the code. This is carried over to the run of the C program, whose conditions and calls may come
out in any way.

The body never changes, so `PlainDefers(body) => Inv` is what is proved inductive. Nothing is
proved of bodies with a loop or a `try` in a deferred statement: with a `try` that is emitted
there the emission does not complete, and what does hold (`DeferredLoopsAndTries`) is
model-checked.

### C names

For locals the properties are nearly inductive, and the invariants only add that
`assigned_names` is a sequence; the work is in the two ways a name is made. A name that was
searched for is new, since the search compares what is left after the cut; a name that was only
cut keeps the prefix that marks it as the compiler's own. What makes a name acceptable is in its
first two characters, which cutting and numbering keep (`Plain`), or, for a keyword, in being
short and without an underscore. `NoDiscards` excludes a lone underscore as the name of a
local: the second of a function would be numbered to `__1`, which C reserves (two switch
prongs that capture into `_` get there).

For globals the invariant `LinkInv` says that every file uses `CName`, which depends on the
symbol alone, and that a file has cached such names of its own module only; a use that takes
the name from its symbol takes `CName` too (`MemberKeepsLinks`). `GlobalsWellNamed`
is what the mangler counts on: a module declares a name once, hashes of modules differ, and
the names of imported modules, which are not precomputed, are short. Then the number that makes
a name unique in its file is never needed, and the parts of a mangled name can be read back
from their places.

### Only model-checked

- `Terminates` (imports) and `CheckTerminates` (types): the prover does not do liveness.
- `OneForwardStepExact` of `TypeResolution`: the true layouts are a fixed point, and that the
  passes reach it is an induction over the containment of types, which takes a property as its
  parameter.
- `DeferredLoopsAndTries` of `DeferCodegen`: the invariant of the proof is about bodies that
  have none.
- The reports of the analyzers (`AnalyzerReports`), `CompiledAsWritten` of `DeferSemantics`, and
  `LiftSemantics`, `Lexer`, `Syntax` and `CBackend`: they compare the code with a meaning that
  is recursive over trees or text, written with `RECURSIVE` operators, which the prover does not
  handle.

## What could come next

The composition of the phases in `performFullPipeline`; `TypeResolution` across modules, with
tagged unions and error unions; compatibility and coercion of types as operators; a proof about
bodies with loops in deferred statements that are emitted once.

## Not modelled

The text of literals, formatting, logging, file and socket I/O, the platform layer, the PE
writer, the catalogues (append-only lists that only reports read), debugging aids, tests, and
the runtime library. The checking of expressions and statements in `type_checker.cpp` is a
case analysis over resolved types, pair by pair: a model of it would repeat the code and had
nothing to be checked against but itself. `PROJECT.json` gives the reason for each part.
