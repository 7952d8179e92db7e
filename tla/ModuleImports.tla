---------------------------- MODULE ModuleImports ----------------------------
(***************************************************************************)
(* Loading a program's modules and ordering them for semantic analysis     *)
(* (src/bootstrap/compilation_unit.cpp: addSource, resolveImportsRecursive *)
(* and the topological sort inside performFullPipeline).                   *)
(*                                                                         *)
(* The recursion of resolveImportsRecursive is an explicit stack of        *)
(* frames, one per active call: the module whose imports it walks, the     *)
(* index of the import it is at and the saved value of current_module_.    *)
(* The code's own stack of filenames is the files of the frames.           *)
(*                                                                         *)
(* A program is what the compiler finds on disk: for each file the list of *)
(* its imports, and whether it can be read and parsed.  An import is the   *)
(* list of the normalised paths its relative path expands to, in the order *)
(* they are tried: the importing file's directory, the -I directories and  *)
(* the default lib directory.                                              *)
(***************************************************************************)
EXTENDS Integers, Sequences, FiniteSets

CONSTANTS
    Files,          \* normalised file names
    Root,           \* the file given on the command line
    Names,          \* module names
    NameOf,         \* a file's base name without extension
    Programs,       \* [imports : Files -> Seq(Seq(Files)), disk : Files -> state]
    BuiltinFile     \* "<builtin>", the file name of the builtin module

ASSUME ImportConstants ==
    /\ Root \in Files
    /\ NameOf \in [Files -> Names]
    /\ BuiltinFile \notin Files
    /\ \A p \in Programs :
           /\ p.imports \in [Files -> Seq(Seq(Files))]
           /\ p.disk \in [Files -> {"ok", "unreadable", "unparsable", "absent"}]
           /\ p.disk[Root] = "ok"

Builtin == "builtin"

VARIABLES
    prog,       \* the program being compiled (never changes)
    modules_,   \* sequence of modules in discovery order, sorted at the end
    frames,     \* active calls of resolveImportsRecursive, innermost last
    current_module_,
    module_ptr, \* import_stmt->module_ptr of each import node
    aliases,    \* <<module owning the table, name>>: the names looked up in
                \* a module's table and, if not declared there, inserted
    phase,      \* "import", "sort", "sorted", "failed"
    indeg,      \* Kahn: remaining in-degree of each module index
    queue,      \* Kahn: module indices with no unsorted import
    sorted      \* Kahn: module indices in the order they were taken

vars == <<prog, modules_, frames, current_module_, module_ptr, aliases,
          phase, indeg, queue, sorted>>
sortVars == <<indeg, queue, sorted>>

-----------------------------------------------------------------------------
ModuleIds == 1..Len(modules_)
First(ids) == CHOOSE i \in ids : \A j \in ids : i <= j

(* getModuleByFilename, as a set of at most one index; getModule(name), the *)
(* first module of that name.                                              *)
ByFilename(f) == {i \in ModuleIds : modules_[i].filename = f}
IdOf(f) == CHOOSE i \in ByFilename(f) : TRUE
Named(n) == {i \in ModuleIds : modules_[i].name = n}
getModule(n) == First(Named(n))

(* A new Module object, as addSource creates it. *)
NewModule(f, ast) ==
    [name |-> NameOf[f], filename |-> f, ast |-> ast, imports |-> <<>>]

(* Path resolution: the first candidate that is loaded or exists on disk. *)
Found(f) == ByFilename(f) # {} \/ prog.disk[f] # "absent"
FoundAt(cands) == {k \in DOMAIN cands : Found(cands[k])}
Target(cands) == cands[First(FoundAt(cands))]

Top == frames[Len(frames)]
ImportNodes(f) == prog.imports[f]
AtImport == Top.next <= Len(ImportNodes(Top.file))
Cands == ImportNodes(Top.file)[Top.next]
OnStack(f) == \E k \in DOMAIN frames : frames[k].file = f

Loaded(f) == \E i \in ByFilename(f) : modules_[i].ast

(* The import needs no loading: it closes a cycle, or is parsed already. *)
NeedsNoLoad(f) == OnStack(f) \/ Loaded(f)

-----------------------------------------------------------------------------
(* Each import of the innermost active module is handled by one of:        *)

ImportNotFound ==
    /\ phase = "import" /\ AtImport
    /\ FoundAt(Cands) = {}
    /\ phase' = "failed"
    /\ UNCHANGED <<prog, modules_, frames, current_module_, module_ptr,
                   aliases, sortVars>>

(* Mutant: an unreadable file is skipped. *)
ImportUnreadableSkipped ==
    /\ phase = "import" /\ AtImport
    /\ FoundAt(Cands) # {}
    /\ ~NeedsNoLoad(Target(Cands))
    /\ prog.disk[Target(Cands)] = "unreadable"
    /\ frames' = [frames EXCEPT ![Len(frames)].next = @ + 1]
    /\ UNCHANGED <<prog, modules_, current_module_, module_ptr, aliases,
                   phase, sortVars>>

(* plat_file_read fails. *)
ImportUnreadable ==
    /\ phase = "import" /\ AtImport
    /\ FoundAt(Cands) # {}
    /\ ~NeedsNoLoad(Target(Cands))
    /\ prog.disk[Target(Cands)] = "unreadable"
    /\ phase' = "failed"
    /\ UNCHANGED <<prog, modules_, frames, current_module_, module_ptr,
                   aliases, sortVars>>

(* addSource, then parse() returns NULL: the module stays without an AST.  *)
ImportParseFails ==
    /\ phase = "import" /\ AtImport
    /\ FoundAt(Cands) # {}
    /\ LET f == Target(Cands) IN
         /\ ~NeedsNoLoad(f)
         /\ prog.disk[f] = "unparsable"
         /\ modules_' = Append(modules_, NewModule(f, FALSE))
         /\ current_module_' = NameOf[f]
    /\ phase' = "failed"
    /\ UNCHANGED <<prog, frames, module_ptr, aliases, sortVars>>

(* addSource (which makes the new module the current one), parse,          *)
(* collectImports, and the recursive call, which saves current_module_.    *)
ImportLoads ==
    /\ phase = "import" /\ AtImport
    /\ FoundAt(Cands) # {}
    /\ LET f == Target(Cands) IN
         /\ ~NeedsNoLoad(f)
         /\ prog.disk[f] = "ok"
         /\ modules_' = Append(modules_, NewModule(f, TRUE))
         /\ current_module_' = NameOf[f]
         /\ frames' = Append(frames, [file |-> f, next |-> 1,
                                      saved |-> current_module_'])
    /\ UNCHANGED <<prog, module_ptr, aliases, phase, sortVars>>

(* The import's module is there (loaded earlier, by the call just          *)
(* finished, or being loaded further up the stack): record the dependency  *)
(* in module own, and insert the module's symbol into the table of the     *)
(* current module, which a nested load has changed: the call it made saved *)
(* and put back the name of the module it was called for.                  *)
RecordImport(own) ==
    /\ phase = "import" /\ AtImport
    /\ FoundAt(Cands) # {}
    /\ NeedsNoLoad(Target(Cands))
    /\ LET f == Target(Cands)
           n == NameOf[f]
       IN  /\ modules_' =
                IF \E k \in DOMAIN modules_[own].imports :
                       modules_[own].imports[k] = n
                  THEN modules_
                  ELSE [modules_ EXCEPT ![own].imports = Append(@, n)]
           /\ module_ptr' = [module_ptr EXCEPT ![Top.file] = Append(@, f)]
           /\ aliases' = aliases \cup {<<current_module_, n>>}
    /\ frames' = [frames EXCEPT ![Len(frames)].next = @ + 1]
    /\ UNCHANGED <<prog, current_module_, phase, sortVars>>

(* Mutants: the dependency recorded in current_module_, which a nested     *)
(* load has changed; an import that closes a cycle waits for its module.   *)
ImportReadyIntoCurrent == RecordImport(getModule(current_module_))

ImportReadyWaits ==
    /\ phase = "import" /\ AtImport /\ FoundAt(Cands) # {}
    /\ \/ OnStack(Target(Cands)) /\ UNCHANGED vars
       \/ ~OnStack(Target(Cands)) /\ RecordImport(IdOf(Top.file))

ImportReady == RecordImport(IdOf(Top.file))

(* All imports done: setCurrentModule(saved_module), pop, return true. *)
ReturnFromModule ==
    /\ phase = "import" /\ ~AtImport
    /\ current_module_' = Top.saved
    /\ frames' = SubSeq(frames, 1, Len(frames) - 1)
    /\ phase' = IF Len(frames) = 1 THEN "sort" ELSE "import"
    /\ UNCHANGED <<prog, modules_, module_ptr, aliases, sortVars>>

-----------------------------------------------------------------------------
(* The topological sort: Kahn's algorithm over indices of modules_.  An    *)
(* import is an edge from the first module of that name.                   *)
Imports(i) == modules_[i].imports
(* Mutant: the edge taken the wrong way round. *)
DependsOnReversed(i, d) == \E k \in DOMAIN Imports(d) : getModule(Imports(d)[k]) = i

DependsOn(i, d) == \E k \in DOMAIN Imports(i) : getModule(Imports(i)[k]) = d

(* The members of a set of indices in ascending or descending order. *)
Ascending(S) == [k \in 1..Cardinality(S) |->
    CHOOSE i \in S : Cardinality({j \in S : j < i}) = k - 1]
Descending(S) == [k \in 1..Cardinality(S) |-> Ascending(S)[Cardinality(S) + 1 - k]]

SortStart ==
    /\ phase = "sort" /\ indeg = <<>>
    /\ \A i \in ModuleIds : \A k \in DOMAIN Imports(i) :
           Named(Imports(i)[k]) # {}
    /\ indeg' = [i \in ModuleIds |-> Len(Imports(i))]
    /\ queue' = Ascending({i \in ModuleIds : Imports(i) = <<>>})
    /\ UNCHANGED <<prog, modules_, frames, current_module_, module_ptr,
                   aliases, phase, sorted>>

(* Take one index from the queue; the adjacency lists are built by         *)
(* pushing at the front, so dependents are visited from last to first.     *)
SortTake ==
    /\ phase = "sort" /\ queue # <<>>
    /\ LET u     == Head(queue)
           deps  == {v \in ModuleIds : DependsOn(v, u)}
           freed == {v \in deps : indeg[v] = 1}
       IN  /\ sorted' = Append(sorted, u)
           /\ indeg' = [v \in ModuleIds |->
                          IF v \in deps THEN indeg[v] - 1 ELSE indeg[v]]
           /\ queue' = Tail(queue) \o Descending(freed)
    /\ UNCHANGED <<prog, modules_, frames, current_module_, module_ptr,
                   aliases, phase>>

(* The queue is empty: what a cycle holds back is appended in discovery    *)
(* order, and modules_ is replaced by the sorted list.                     *)
SortFinish ==
    /\ phase = "sort" /\ indeg # <<>> /\ queue = <<>>
    /\ LET taken == {sorted[k] : k \in DOMAIN sorted}
           order == sorted \o Ascending(ModuleIds \ taken)
       IN  modules_' = [k \in 1..Len(order) |-> modules_[order[k]]]
    /\ phase' = "sorted"
    /\ UNCHANGED <<prog, frames, current_module_, module_ptr, aliases,
                   sortVars>>

(* The compilation goes on (or has been given up). *)
Terminated ==
    /\ phase \in {"sorted", "failed"}
    /\ UNCHANGED vars

-----------------------------------------------------------------------------
(* CompilationUnit's constructor, addSource(Root), parse and               *)
(* collectImports of the root, and the call of resolveImports.             *)
Init ==
    /\ prog \in Programs
    /\ modules_ = << [name |-> Builtin, filename |-> BuiltinFile,
                      ast |-> FALSE, imports |-> <<>>],
                     NewModule(Root, TRUE) >>
    /\ current_module_ = NameOf[Root]
    /\ frames = << [file |-> Root, next |-> 1, saved |-> NameOf[Root]] >>
    /\ module_ptr = [f \in Files |-> <<>>]
    /\ aliases = {}
    /\ phase = "import"
    /\ indeg = <<>> /\ queue = <<>> /\ sorted = <<>>

Resolve ==
    \/ ImportNotFound
    \/ ImportUnreadable
    \/ ImportParseFails
    \/ ImportLoads
    \/ ImportReady
    \/ ReturnFromModule

Sort == SortStart \/ SortTake \/ SortFinish

Next == Resolve \/ Sort \/ Terminated

Spec == Init /\ [][Next]_vars

(* The pipeline runs on one thread and nothing else holds it up. *)
FairSpec == Spec /\ WF_vars(Resolve \/ Sort)

-----------------------------------------------------------------------------
(* The import graph of the program itself, independent of the loader: the  *)
(* target of an import and those of a file's imports, and what is          *)
(* reachable from a file, which is in every set that holds its targets and *)
(* is closed under imports.                                                *)
On(cands) == {j \in DOMAIN cands : prog.disk[cands[j]] # "absent"}
DiskTarget(cands) == cands[First(On(cands))]
DiskTargets(f) ==
    { c \in Files : \E k \in DOMAIN ImportNodes(f) :
        On(ImportNodes(f)[k]) # {} /\ c = DiskTarget(ImportNodes(f)[k]) }

Closed(S) == \A g \in S : DiskTargets(g) \subseteq S
Reaches(f) ==
    {g \in Files : \A S \in SUBSET Files : DiskTargets(f) \subseteq S /\ Closed(S) => g \in S}
Program == {Root} \cup Reaches(Root)
Cyclic  == \E f \in Program : f \in Reaches(f)

FileModules == {i \in ModuleIds : modules_[i].filename # BuiltinFile}

TypeOK ==
    /\ \A i \in ModuleIds :
           /\ modules_[i].name \in Names \cup {Builtin}
           /\ modules_[i].filename \in Files \cup {BuiltinFile}
           /\ modules_[i].ast \in BOOLEAN
           /\ modules_[i].imports \in Seq(Names)
    /\ \A k \in DOMAIN frames :
           frames[k] \in [file : Files, next : Nat, saved : Names]
    /\ current_module_ \in Names
    /\ aliases \subseteq Names \X Names
    /\ phase \in {"import", "sort", "sorted", "failed"}

(* When resolveImports and the sort succeed, modules_ holds every file     *)
(* reachable through @import exactly once, parsed, plus the builtin module *)
(* (whatever cycles, diamonds, fallback directories the imports form).     *)
LoadsProgramOnce ==
    phase = "sorted" =>
        /\ {modules_[i].filename : i \in FileModules} = Program
        /\ \A i, j \in ModuleIds :
               modules_[i].filename = modules_[j].filename => i = j
        /\ \A i \in FileModules : modules_[i].ast

(* Every import node ends up with the module its own path resolves to, one *)
(* by one and in order, and the dependency list of a module names exactly  *)
(* the modules it imports, each once: the sort counts it as the module's   *)
(* in-degree.  A later load never changes what an earlier import meant     *)
(* (RecordImport, import_stmt->module_ptr).                                *)
ImportsRecorded ==
    phase = "sorted" =>
        \A i \in FileModules :
            LET f     == modules_[i].filename
                nodes == ImportNodes(f)
            IN  /\ DOMAIN module_ptr[f] = DOMAIN nodes
                /\ \A k \in DOMAIN nodes : module_ptr[f][k] = DiskTarget(nodes[k])
                /\ {Imports(i)[k] : k \in DOMAIN Imports(i)}
                     = {NameOf[g] : g \in DiskTargets(f)}
                /\ \A j, k \in DOMAIN Imports(i) :
                       Imports(i)[j] = Imports(i)[k] => j = k

(* The module symbol of an import is in the table of the importing module  *)
(* or, since a nested load changes current_module_ and nobody changes it   *)
(* back for the rest of the imports, of a module it imports there or       *)
(* before; no table gets a symbol in any other way (RecordImport).         *)
Near(f, k) == {f} \cup {module_ptr[f][j] : j \in 1..k}
Registers(f, k, alias) ==
    /\ alias[1] \in {NameOf[t] : t \in Near(f, k)}
    /\ alias[2] = NameOf[module_ptr[f][k]]
AliasesNear ==
    phase = "sorted" =>
        /\ \A f \in Program : \A k \in DOMAIN ImportNodes(f) :
               \E alias \in aliases : Registers(f, k, alias)
        /\ \A alias \in aliases : \E f \in Program :
               \E k \in DOMAIN ImportNodes(f) : Registers(f, k, alias)

(* Loading fails only when some reachable import cannot be loaded, and a   *)
(* broken file is never skipped over (the early returns of                 *)
(* resolveImportsRecursive).                                               *)
FailsOnlyWhenBroken ==
    /\ phase = "failed" =>
         \E f \in Program :
            \/ prog.disk[f] # "ok"
            \/ \E k \in DOMAIN ImportNodes(f) : \A c \in DOMAIN ImportNodes(f)[k] :
                   prog.disk[ImportNodes(f)[k][c]] = "absent"
    /\ phase = "sorted" => \A f \in Program : prog.disk[f] = "ok"

(* docs/reference/builtins.md:93 on @import: it detects circular           *)
(* dependencies and reports them as fatal errors.  The code detects them   *)
(* and goes on.                                                            *)
CircularImportsFatal == phase = "sorted" => ~Cyclic

(* When no import is circular, every module comes after all the modules it *)
(* imports (compilation_model.md: dependencies are processed first).  The  *)
(* sort looks modules up by base name, so the names have to differ.        *)
NamesDistinct ==
    \A f, g \in Program : NameOf[f] # Builtin /\ (NameOf[f] = NameOf[g] => f = g)
AcyclicOrder ==
    phase = "sorted" /\ ~Cyclic /\ NamesDistinct =>
        \A f \in Program : \A g \in DiskTargets(f) : IdOf(g) < IdOf(f)

(* After all imports are resolved the current module is the root's again,  *)
(* whatever was loaded on the way; in between it is not restored.          *)
ContextRestored == phase \in {"sort", "sorted"} => current_module_ = NameOf[Root]

(* Import resolution and sorting always come to an end, on every program. *)
Terminates == <>(phase \in {"sorted", "failed"})

(* What loading leaves behind, taken together: the program loaded once,    *)
(* every import recorded with its own module, the module symbols where the *)
(* code puts them, and the root the current module.                        *)
LoaderInv ==
    /\ TypeOK /\ LoadsProgramOnce /\ ImportsRecorded /\ AliasesNear
    /\ ContextRestored
=============================================================================
