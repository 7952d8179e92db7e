------------------------ MODULE ModuleImportsProofs ------------------------
(***************************************************************************)
(* Proofs about module loading and ordering, for every set of programs.    *)
(*                                                                         *)
(* The inductive invariant IInv says, while imports are resolved, that the *)
(* loaded files are reachable and there once each, that every file has the *)
(* modules of the imports before the one its call is at, and that a file   *)
(* without a call has them all.  When the last call returns the loaded     *)
(* files are closed under imports, so they are the whole program.  While   *)
(* the modules are sorted, an in-degree counts the dependencies not taken  *)
(* yet.  Three arguments go beyond a single step: Ascending lists a set    *)
(* (ranks are injective), in-degrees start as numbers of dependencies      *)
(* (different names are different modules), and without a cycle the sort   *)
(* takes every file (one left over that reaches least has no dependency    *)
(* left over).                                                             *)
(*                                                                         *)
(* A second invariant, AInv, says where the module symbols go: it needs    *)
(* IInv and nothing in IInv needs it.                                      *)
(***************************************************************************)
EXTENDS ModuleImports, FiniteSetTheorems, SequenceTheorems, TLAPS

(* The first of a set of positions. *)
LEMMA FirstExists ==
    ASSUME NEW ids \in SUBSET Nat, ids # {}
    PROVE  First(ids) \in ids /\ \A j \in ids : First(ids) <= j
<1> DEFINE less == OpToRel(<, Nat)
<1>1. PICK x \in ids : \A y \in ids : ~(<<y, x>> \in less)
  <2> HIDE DEF less
  <2> QED BY NatLessThanWellFounded, WFMin DEF less
<1>2. \A y \in ids : <<y, x>> \in less <=> y < x
  BY DEF OpToRel
<1>3. \A y \in ids : ~(y < x) /\ y \in Nat /\ x \in Nat
  BY <1>1, <1>2
<1>4. \A y \in ids : x <= y
  BY <1>3
<1> QED BY <1>4 DEF First

-----------------------------------------------------------------------------
(* The types of what a program on disk holds. *)
LEMMA ProgramTypes ==
    ASSUME prog \in Programs
    PROVE  /\ prog.imports \in [Files -> Seq(Seq(Files))]
           /\ prog.disk \in [Files -> {"ok", "unreadable", "unparsable", "absent"}]
           /\ prog.disk[Root] = "ok" /\ Root \in Files
           /\ \A f \in Files : /\ ImportNodes(f) \in Seq(Seq(Files))
                               /\ Len(ImportNodes(f)) \in Nat
                               /\ DOMAIN ImportNodes(f) = 1..Len(ImportNodes(f))
<1>1. /\ prog.imports \in [Files -> Seq(Seq(Files))]
      /\ prog.disk \in [Files -> {"ok", "unreadable", "unparsable", "absent"}]
      /\ prog.disk[Root] = "ok" /\ Root \in Files
  BY ImportConstants
<1>2. \A f \in Files : ImportNodes(f) \in Seq(Seq(Files))
  BY <1>1 DEF ImportNodes
<1> QED BY <1>1, <1>2

(* The file an import resolves to is on the disk. *)
LEMMA TargetOnDisk ==
    ASSUME prog \in Programs, NEW cands \in Seq(Files), On(cands) # {}
    PROVE  DiskTarget(cands) \in Files /\ prog.disk[DiskTarget(cands)] # "absent"
<1>1. On(cands) \in SUBSET Nat /\ On(cands) \subseteq DOMAIN cands
  BY DEF On
<1>2. First(On(cands)) \in On(cands)
  BY <1>1, FirstExists
<1>3. PICK j \in DOMAIN cands : j = First(On(cands)) /\ prog.disk[cands[j]] # "absent"
  BY <1>2 DEF On
<1>4. cands[j] \in Files
  OBVIOUS
<1> QED BY <1>3, <1>4 DEF DiskTarget

(* The files a file imports, import by import. *)
LEMMA TargetsAre ==
    ASSUME prog \in Programs, NEW f \in Files
    PROVE  /\ DiskTargets(f) \subseteq Files
           /\ \A k \in 1..Len(ImportNodes(f)) :
                  On(ImportNodes(f)[k]) # {} => DiskTarget(ImportNodes(f)[k]) \in DiskTargets(f)
           /\ \A g \in DiskTargets(f) : \E k \in 1..Len(ImportNodes(f)) :
                  On(ImportNodes(f)[k]) # {} /\ g = DiskTarget(ImportNodes(f)[k])
<1>1. \A k \in 1..Len(ImportNodes(f)) : ImportNodes(f)[k] \in Seq(Files)
  BY ProgramTypes
<1>2. DiskTargets(f) =
         {c \in Files : \E k \in 1..Len(ImportNodes(f)) :
              On(ImportNodes(f)[k]) # {} /\ c = DiskTarget(ImportNodes(f)[k])}
  BY ProgramTypes DEF DiskTargets, On, DiskTarget
<1>3. \A k \in 1..Len(ImportNodes(f)) :
         On(ImportNodes(f)[k]) # {} => DiskTarget(ImportNodes(f)[k]) \in Files
  BY <1>1, TargetOnDisk
<1> QED BY <1>2, <1>3

(* The program is the smallest set that holds the root and its imports. *)
LEMMA ProgramClosed ==
    ASSUME prog \in Programs
    PROVE  /\ Root \in Program /\ Program \subseteq Files
           /\ \A f \in Program : DiskTargets(f) \subseteq Program
<1>1. Root \in Program /\ Program \subseteq Files
  BY ImportConstants DEF Program, Reaches
<1>2. ASSUME NEW f \in Program, NEW g \in DiskTargets(f)
      PROVE  g \in Reaches(Root)
  <2>1. g \in Files
    BY <1>1, TargetsAre
  <2>2. ASSUME NEW S \in SUBSET Files, DiskTargets(Root) \subseteq S, Closed(S)
        PROVE  g \in S
    <3>1. CASE f = Root
      BY <2>2, <3>1
    <3>2. CASE f # Root
      <4>1. f \in S
        BY <2>2, <3>2 DEF Program, Reaches
      <4> QED BY <2>2, <4>1 DEF Closed
    <3> QED BY <3>1, <3>2
  <2> QED BY <2>1, <2>2 DEF Reaches
<1> QED BY <1>1, <1>2 DEF Program

(* The program is the least set of files closed under imports. *)
LEMMA ProgramLeast ==
    ASSUME NEW S \in SUBSET Files, Root \in S, Closed(S)
    PROVE  Program \subseteq S
<1>1. DiskTargets(Root) \subseteq S
  BY DEF Closed
<1> QED BY <1>1 DEF Program, Reaches
-----------------------------------------------------------------------------
(* The inductive invariant.  Its types: *)
ModuleRecs == [name : Names \cup {Builtin}, filename : Files \cup {BuiltinFile},
               ast : BOOLEAN, imports : Seq(Names)]
FrameRecs == [file : Files, next : Nat \ {0}, saved : Names]
Typed ==
    /\ prog \in Programs
    /\ modules_ \in Seq(ModuleRecs) /\ frames \in Seq(FrameRecs)
    /\ current_module_ \in Names /\ Named(current_module_) # {}
    /\ module_ptr \in [Files -> Seq(Files)]
    /\ aliases \subseteq Names \X Names
    /\ phase \in {"import", "sort", "sorted", "failed"}

(* The files loaded so far belong to the program, each is there once, and  *)
(* unless loading has failed they were all read and parsed.                *)
Known == {f \in Files : ByFilename(f) # {}}
LoadedOnce ==
    /\ \A i, j \in ModuleIds : modules_[i].filename = modules_[j].filename => i = j
    /\ \A i \in ModuleIds : modules_[i].name = IF i \in FileModules
                                 THEN NameOf[modules_[i].filename] ELSE Builtin
    /\ Root \in Known /\ Known \subseteq Program
    /\ phase # "failed" => /\ \A i \in FileModules : modules_[i].ast
                           /\ \A f \in Known : prog.disk[f] = "ok"

(* The imports resolved so far, and the dependencies recorded for them. *)
ResolvedIn(f) ==
    /\ Len(module_ptr[f]) <= Len(ImportNodes(f))
    /\ \A j \in 1..Len(module_ptr[f]) :
           /\ On(ImportNodes(f)[j]) # {}
           /\ module_ptr[f][j] = DiskTarget(ImportNodes(f)[j])
           /\ module_ptr[f][j] \in Known
Resolved ==
    \A f \in Files : IF f \in Known THEN ResolvedIn(f) ELSE module_ptr[f] = <<>>
Dependencies ==
    \A i \in ModuleIds :
        /\ \A j, k \in DOMAIN Imports(i) : Imports(i)[j] = Imports(i)[k] => j = k
        /\ IF i \in FileModules
           THEN Range(Imports(i)) = {NameOf[g] : g \in Range(module_ptr[modules_[i].filename])}
           ELSE Imports(i) = <<>>

(* An active call has resolved the imports before the one it is at; a file *)
(* with no active call is done.                                            *)
Done(f) == Len(module_ptr[f]) = Len(ImportNodes(f))
Walking ==
    phase = "import" =>
        /\ frames # <<>> /\ frames[1].file = Root
        /\ \A j, k \in 1..Len(frames) : frames[j].file = frames[k].file => j = k
        /\ \A k \in 1..Len(frames) :
               /\ frames[k].file \in Known
               /\ frames[k].saved = NameOf[frames[k].file]
               /\ Len(module_ptr[frames[k].file]) = frames[k].next - 1
        /\ \A f \in Known : OnStack(f) \/ Done(f)
        /\ indeg = <<>> /\ queue = <<>> /\ sorted = <<>>
Settled ==
    phase \in {"sort", "sorted"} =>
        current_module_ = NameOf[Root] /\ \A f \in Known : Done(f)

(* Kahn's algorithm: the in-degree of a module counts its dependencies not *)
(* taken yet, the modules with none left are taken or queued, each once,   *)
(* and what is taken came after all it depends on.                         *)
Deps(v) == {d \in ModuleIds : DependsOn(v, d)}
Sorting ==
    phase = "sort" =>
        /\ sorted \in Seq(ModuleIds) /\ queue \in Seq(ModuleIds)
        /\ \A j, k \in 1..Len(sorted) : sorted[j] = sorted[k] => j = k
        /\ \A j, k \in 1..Len(queue) : queue[j] = queue[k] => j = k
        /\ Range(sorted) \cap Range(queue) = {}
        /\ IF indeg = <<>> THEN sorted = <<>> /\ queue = <<>>
           ELSE /\ indeg \in [ModuleIds -> Nat]
                /\ \A v \in ModuleIds : /\ indeg[v] = Cardinality(Deps(v) \ Range(sorted))
                                        /\ indeg[v] = 0 <=> v \in Range(sorted) \cup Range(queue)
        /\ \A k \in 1..Len(sorted) : \A d \in Deps(sorted[k]) : \E j \in 1..k - 1 : sorted[j] = d

IInv ==
    /\ Typed /\ LoadedOnce /\ Resolved /\ Dependencies /\ Walking /\ Settled
    /\ Sorting /\ FailsOnlyWhenBroken /\ AcyclicOrder
-----------------------------------------------------------------------------
(* The types of the loaded modules. *)
LEMMA ModuleTypes ==
    ASSUME Typed
    PROVE  /\ Len(modules_) \in Nat
           /\ \A i \in ModuleIds : modules_[i] \in ModuleRecs
           /\ \A i \in ModuleIds : i \in FileModules <=> modules_[i].filename \in Files
           /\ \A i \in FileModules : modules_[i].filename \in Known
           /\ \A f \in Known : \E i \in FileModules : modules_[i].filename = f
           /\ \A f \in Files : /\ Len(module_ptr[f]) \in Nat
                               /\ DOMAIN module_ptr[f] = 1..Len(module_ptr[f])
                               /\ \A j \in 1..Len(module_ptr[f]) : module_ptr[f][j] \in Files
<1>1. /\ Len(modules_) \in Nat
      /\ \A i \in ModuleIds : modules_[i] \in ModuleRecs
  BY DEF Typed, ModuleIds
<1>2. \A i \in ModuleIds : i \in FileModules <=> modules_[i].filename \in Files
  BY <1>1, ImportConstants DEF ModuleRecs, FileModules
<1>3. \A i \in FileModules : modules_[i].filename \in Known
  BY <1>2 DEF FileModules, Known, ByFilename
<1>4. \A f \in Known : \E i \in FileModules : modules_[i].filename = f
  BY <1>2 DEF Known, ByFilename
<1>5. \A f \in Files : module_ptr[f] \in Seq(Files)
  BY DEF Typed
<1> QED BY <1>1, <1>2, <1>3, <1>4, <1>5

(* When every file is done, the program has been loaded. *)
LEMMA AllLoaded ==
    ASSUME Typed, LoadedOnce, Resolved, \A f \in Known : Done(f)
    PROVE  /\ Known = Program
           /\ \A f \in Known : Range(module_ptr[f]) = DiskTargets(f)
<1>0. prog \in Programs /\ Known \subseteq Files /\ Root \in Known /\ Known \subseteq Program
  BY DEF Typed, LoadedOnce, Known
<1>1. ASSUME NEW f \in Known
      PROVE  Range(module_ptr[f]) = DiskTargets(f) /\ DiskTargets(f) \subseteq Known
  <2>0. f \in Files
    BY <1>0
  <2>1. /\ DOMAIN module_ptr[f] = 1..Len(ImportNodes(f))
        /\ \A j \in 1..Len(ImportNodes(f)) :
               /\ On(ImportNodes(f)[j]) # {}
               /\ module_ptr[f][j] = DiskTarget(ImportNodes(f)[j])
               /\ module_ptr[f][j] \in Known
    <3>1. ResolvedIn(f) /\ Done(f)
      BY <1>0 DEF Resolved
    <3> QED BY <2>0, <3>1, ModuleTypes DEF ResolvedIn, Done
  <2>2. Range(module_ptr[f]) = {module_ptr[f][j] : j \in 1..Len(ImportNodes(f))}
    BY <2>1 DEF Range
  <2>3. ASSUME NEW g \in Range(module_ptr[f]) PROVE g \in DiskTargets(f)
    <3>1. PICK j \in 1..Len(ImportNodes(f)) : g = module_ptr[f][j]
      BY <2>2
    <3>2. On(ImportNodes(f)[j]) # {} /\ g = DiskTarget(ImportNodes(f)[j])
      BY <2>1, <3>1
    <3> QED BY <1>0, <2>0, <3>2, TargetsAre
  <2>4. ASSUME NEW g \in DiskTargets(f) PROVE g \in Range(module_ptr[f]) /\ g \in Known
    <3>1. PICK j \in 1..Len(ImportNodes(f)) : g = DiskTarget(ImportNodes(f)[j])
      BY <1>0, <2>0, TargetsAre
    <3>2. g = module_ptr[f][j] /\ g \in Known
      BY <2>1, <3>1
    <3> QED BY <2>2, <3>2
  <2> QED BY <2>3, <2>4
<1>2. Closed(Known)
  BY <1>1 DEF Closed
<1>3. Program \subseteq Known
  BY <1>0, <1>2, ProgramLeast
<1> QED BY <1>0, <1>1, <1>3

(* IInv holds when the root file has been parsed. *)
LEMMA Initially == Init => IInv
<1> SUFFICES ASSUME Init PROVE IInv
  OBVIOUS
<1>1. /\ prog \in Programs /\ Len(modules_) = 2 /\ ModuleIds = {1, 2}
      /\ modules_[1] = [name |-> Builtin, filename |-> BuiltinFile, ast |-> FALSE, imports |-> <<>>]
      /\ modules_[2] = [name |-> NameOf[Root], filename |-> Root, ast |-> TRUE, imports |-> <<>>]
      /\ modules_ \in Seq({modules_[1], modules_[2]})
  BY DEF Init, NewModule, ModuleIds
<1>2. Root \in Files /\ NameOf[Root] \in Names /\ Root # BuiltinFile /\ prog.disk[Root] = "ok"
  BY <1>1, ImportConstants
<1>3. FileModules = {2} /\ Known = {Root}
  BY <1>1, <1>2, ImportConstants DEF FileModules, Known, ByFilename
<1>4. /\ Len(frames) = 1 /\ frames[1] = [file |-> Root, next |-> 1, saved |-> NameOf[Root]]
      /\ frames \in Seq({frames[1]}) /\ frames # <<>>
  BY DEF Init
<1>5. \A f \in Files : module_ptr[f] = <<>>
  BY DEF Init
<1>6. Typed
  <2>1. modules_[1] \in ModuleRecs /\ modules_[2] \in ModuleRecs
    BY <1>1, <1>2 DEF ModuleRecs
  <2>2. modules_ \in Seq(ModuleRecs)
    BY <1>1, <2>1, SeqMonotonic
  <2>3. frames \in Seq(FrameRecs)
    <3>1. frames[1] \in FrameRecs
      BY <1>2, <1>4 DEF FrameRecs
    <3> QED BY <1>4, <3>1, SeqMonotonic
  <2>4. Named(current_module_) # {}
    <3>1. 2 \in ModuleIds /\ modules_[2].name = NameOf[Root] /\ current_module_ = NameOf[Root]
      <4>1. 2 \in ModuleIds /\ modules_[2].name = NameOf[Root]
        BY <1>1
      <4> QED BY <4>1 DEF Init
    <3> QED BY <3>1 DEF Named
  <2>5. module_ptr \in [Files -> Seq(Files)]
    BY DEF Init
  <2>6. aliases \subseteq Names \X Names /\ phase = "import" /\ current_module_ \in Names
    BY <1>2 DEF Init
  <2> QED BY <1>1, <2>2, <2>3, <2>4, <2>5, <2>6 DEF Typed
<1>7. LoadedOnce
  BY <1>1, <1>2, <1>3, ProgramClosed DEF LoadedOnce
<1>8. Resolved /\ Dependencies
  <2>1. \A f \in Files : ResolvedIn(f)
    BY <1>1, <1>5, ProgramTypes DEF ResolvedIn
  <2>2. \A i \in ModuleIds : Imports(i) = <<>> /\ Range(Imports(i)) = {}
    BY <1>1 DEF Imports, Range
  <2>3. Range(module_ptr[Root]) = {}
    BY <1>2, <1>5 DEF Range
  <2>4. Dependencies
    BY <1>1, <1>3, <2>2, <2>3 DEF Dependencies
  <2> QED BY <1>5, <2>1, <2>4 DEF Resolved
<1>9. Walking
  BY <1>2, <1>3, <1>4, <1>5 DEF Init, Walking, OnStack
<1>10. Settled /\ Sorting /\ FailsOnlyWhenBroken /\ AcyclicOrder
  BY DEF Init, Settled, Sorting, FailsOnlyWhenBroken, AcyclicOrder
<1> QED BY <1>6, <1>7, <1>8, <1>9, <1>10 DEF IInv
-----------------------------------------------------------------------------
(* Loading.  A step changes neither the program nor what is computed from  *)
(* it alone.                                                               *)
LEMMA ProgFixed ==
    ASSUME prog' = prog
    PROVE  /\ Program' = Program /\ Cyclic' = Cyclic /\ NamesDistinct' = NamesDistinct
           /\ \A f : /\ ImportNodes(f)' = ImportNodes(f)
                     /\ DiskTargets(f)' = DiskTargets(f)
           /\ \A c : /\ On(c)' = On(c)
                     /\ DiskTarget(c)' = DiskTarget(c)
<1>1. /\ \A f : ImportNodes(f)' = ImportNodes(f)
      /\ \A c : On(c)' = On(c)
  BY DEF ImportNodes, On
<1>2. \A c : DiskTarget(c)' = DiskTarget(c)
  BY <1>1 DEF DiskTarget, First
<1>3. \A f : DiskTargets(f)' = DiskTargets(f)
  BY DEF DiskTargets, On, DiskTarget, ImportNodes, First
<1>4. \A f : Reaches(f)' = Reaches(f)
  BY <1>3 DEF Reaches, Closed
<1>5. Program' = Program
  BY <1>4 DEF Program
<1>6. Cyclic' = Cyclic /\ NamesDistinct' = NamesDistinct
  BY <1>4, <1>5 DEF Cyclic, NamesDistinct
<1> QED BY <1>1, <1>2, <1>3, <1>5, <1>6

(* While nothing has failed, a path found is a path on disk. *)
LEMMA FoundIsOn ==
    ASSUME Typed, LoadedOnce, phase # "failed", NEW cands \in Seq(Files)
    PROVE  FoundAt(cands) = On(cands) /\ Target(cands) = DiskTarget(cands)
<1>1. \A f \in Files : Found(f) <=> prog.disk[f] # "absent"
  BY DEF Found, Known, LoadedOnce
<1>2. FoundAt(cands) = On(cands)
  BY <1>1 DEF FoundAt, On
<1> QED BY <1>2 DEF Target, DiskTarget

(* The frame resolveImports is working on. *)
LEMMA AtTop ==
    ASSUME IInv, phase = "import"
    PROVE  /\ Len(frames) \in Nat /\ Len(frames) >= 1 /\ Len(frames) \in DOMAIN frames
           /\ Top \in FrameRecs /\ Top.file \in Known /\ Top.file \in Files /\ Top.file \in Program
           /\ Top.next \in Nat /\ Len(module_ptr[Top.file]) = Top.next - 1
           /\ Top.saved = NameOf[Top.file]
           /\ AtImport => Top.next \in 1..Len(ImportNodes(Top.file)) /\ Cands \in Seq(Files)
<1>0. Typed /\ LoadedOnce /\ Walking
  BY DEF IInv
<1>1. frames \in Seq(FrameRecs) /\ frames # <<>>
  BY <1>0 DEF Typed, Walking
<1>2. Len(frames) \in Nat /\ Len(frames) >= 1 /\ Len(frames) \in DOMAIN frames
  BY <1>1
<1>3. Top \in FrameRecs
  BY <1>1, <1>2 DEF Top
<1>4. Top.file \in Files /\ Top.next \in Nat /\ Top.next >= 1
  BY <1>3 DEF FrameRecs
<1>5. /\ Top.file \in Known /\ Top.saved = NameOf[Top.file]
      /\ Len(module_ptr[Top.file]) = Top.next - 1
  BY <1>0, <1>2 DEF Walking, Top
<1>6. ASSUME AtImport
      PROVE  Top.next \in 1..Len(ImportNodes(Top.file)) /\ Cands \in Seq(Files)
  <2>1. ImportNodes(Top.file) \in Seq(Seq(Files))
    BY <1>0, <1>4, ProgramTypes DEF Typed
  <2>2. Top.next \in 1..Len(ImportNodes(Top.file))
    BY <1>4, <1>6, <2>1 DEF AtImport
  <2> QED BY <2>1, <2>2 DEF Cands
<1> QED BY <1>0, <1>2, <1>3, <1>4, <1>5, <1>6 DEF LoadedOnce

(* What resolveImports finds is what the disk holds. *)
LEMMA ImportTarget ==
    ASSUME IInv, phase = "import", AtImport
    PROVE  /\ FoundAt(Cands) = On(Cands)
           /\ On(Cands) # {} =>
                /\ Target(Cands) = DiskTarget(Cands) /\ Target(Cands) \in Files
                /\ Target(Cands) \in Program /\ prog.disk[Target(Cands)] # "absent"
                /\ NeedsNoLoad(Target(Cands)) <=> Target(Cands) \in Known
<1>0. Typed /\ LoadedOnce /\ Walking
  BY DEF IInv
<1>1. /\ Cands \in Seq(Files) /\ Top.file \in Program /\ Top.file \in Files
      /\ Top.next \in 1..Len(ImportNodes(Top.file))
  BY AtTop
<1>2. FoundAt(Cands) = On(Cands) /\ Target(Cands) = DiskTarget(Cands)
  BY <1>0, <1>1, FoundIsOn
<1>3. ASSUME On(Cands) # {}
      PROVE  /\ Target(Cands) \in Files /\ Target(Cands) \in Program
             /\ prog.disk[Target(Cands)] # "absent"
  <2>0. prog \in Programs
    BY <1>0 DEF Typed
  <2>1. Target(Cands) \in DiskTargets(Top.file)
    BY <1>1, <1>2, <1>3, <2>0, TargetsAre DEF Cands
  <2> QED BY <1>1, <1>2, <1>3, <2>0, <2>1, TargetOnDisk, ProgramClosed
<1>4. ASSUME NEW f \in Files
      PROVE  NeedsNoLoad(f) <=> f \in Known
  <2>1. OnStack(f) => f \in Known
    <3>1. \A k \in DOMAIN frames : frames[k].file \in Known
      BY <1>0 DEF Typed, Walking
    <3> QED BY <3>1 DEF OnStack
  <2>2. Loaded(f) => f \in Known
    BY DEF Loaded, Known
  <2>3. ASSUME f \in Known PROVE Loaded(f)
    <3>1. PICK i \in FileModules : modules_[i].filename = f
      BY <1>0, <2>3, ModuleTypes
    <3> QED BY <1>0, <3>1 DEF Loaded, LoadedOnce, ByFilename, FileModules
  <2> QED BY <2>1, <2>2, <2>3 DEF NeedsNoLoad
<1> QED BY <1>2, <1>3, <1>4
(* addSource appends a module for a file that has none. *)
LEMMA Added ==
    ASSUME Typed, LoadedOnce, Resolved, Dependencies,
           NEW f \in Program, f \notin Known, NEW ast \in BOOLEAN,
           modules_' = Append(modules_, NewModule(f, ast)),
           UNCHANGED <<prog, module_ptr>>,
           \/ phase' = "failed"
           \/ phase # "failed" /\ ast /\ prog.disk[f] = "ok"
    PROVE  /\ modules_' \in Seq(ModuleRecs) /\ Known' = Known \cup {f}
           /\ LoadedOnce' /\ Resolved' /\ Dependencies'
           /\ Named(NameOf[f])' # {}
<1>n. PICK n \in Nat : n = Len(modules_) + 1
  BY DEF Typed
<1>0. /\ prog \in Programs /\ f \in Files /\ NameOf[f] \in Names /\ f # BuiltinFile
      /\ module_ptr \in [Files -> Seq(Files)]
  BY ProgramClosed, ImportConstants DEF Typed
<1>1. NewModule(f, ast) \in ModuleRecs
  BY <1>0 DEF NewModule, ModuleRecs
<1>2. modules_ \in Seq(ModuleRecs)
  BY DEF Typed
<1>3. /\ modules_' \in Seq(ModuleRecs) /\ Len(modules_') = n /\ n \in Nat
      /\ ModuleIds' = ModuleIds \cup {n} /\ n \notin ModuleIds
      /\ modules_'[n] = NewModule(f, ast)
      /\ \A i \in ModuleIds : modules_'[i] = modules_[i]
  BY <1>1, <1>2, <1>n DEF ModuleIds
<1>4. /\ modules_'[n].filename = f /\ modules_'[n].name = NameOf[f]
      /\ modules_'[n].ast = ast /\ modules_'[n].imports = <<>>
  BY <1>3 DEF NewModule
<1>5. FileModules' = FileModules \cup {n}
  BY <1>0, <1>3, <1>4 DEF FileModules
<1>6. Known' = Known \cup {f}
  <2>1. ByFilename(f)' # {}
    BY <1>3, <1>4 DEF ByFilename
  <2>2. ASSUME NEW g \in Files, g # f
        PROVE  ByFilename(g)' = ByFilename(g)
    <3>1. ASSUME NEW i
          PROVE  i \in ModuleIds' /\ modules_'[i].filename = g
                   <=> i \in ModuleIds /\ modules_[i].filename = g
      <4>1. CASE i = n
        BY <1>3, <1>4, <2>2, <4>1
      <4>2. CASE i # n
        BY <1>3, <4>2
      <4> QED BY <4>1, <4>2
    <3> QED BY <3>1 DEF ByFilename
  <2> QED BY <1>0, <2>1, <2>2 DEF Known
<1>7. \A i \in ModuleIds : modules_[i].filename # f
  BY <1>0 DEF Known, ByFilename
<1>8. LoadedOnce'
  <2>1. \A i, j \in ModuleIds' : modules_'[i].filename = modules_'[j].filename => i = j
    <3> SUFFICES ASSUME NEW i \in ModuleIds', NEW j \in ModuleIds',
                        modules_'[i].filename = modules_'[j].filename
                 PROVE  i = j
      OBVIOUS
    <3>1. CASE i = n /\ j \in ModuleIds
      BY <1>3, <1>4, <1>7, <3>1
    <3>2. CASE j = n /\ i \in ModuleIds
      BY <1>3, <1>4, <1>7, <3>2
    <3>3. CASE i \in ModuleIds /\ j \in ModuleIds
      <4>1. modules_'[i] = modules_[i] /\ modules_'[j] = modules_[j]
        BY <1>3, <3>3
      <4>2. modules_[i].filename = modules_[j].filename
        BY <4>1
      <4> QED BY <3>3, <4>2 DEF LoadedOnce
    <3> QED BY <1>3, <3>1, <3>2, <3>3
  <2>2. \A i \in ModuleIds' : modules_'[i].name = IF i \in FileModules'
                                   THEN NameOf[modules_'[i].filename] ELSE Builtin
    <3>1. ASSUME NEW i \in ModuleIds
          PROVE  modules_'[i].name = IF i \in FileModules'
                                     THEN NameOf[modules_'[i].filename] ELSE Builtin
      <4>1. modules_'[i] = modules_[i] /\ (i \in FileModules' <=> i \in FileModules)
        BY <1>3, <1>5
      <4> QED BY <4>1 DEF LoadedOnce
    <3> QED BY <1>3, <1>4, <1>5, <3>1
  <2>3. Root \in Known' /\ Known' \subseteq Program'
    BY <1>6, ProgFixed DEF LoadedOnce
  <2>4. phase' # "failed" => /\ \A i \in FileModules' : modules_'[i].ast
                             /\ \A g \in Known' : prog'.disk[g] = "ok"
    BY <1>3, <1>4, <1>5, <1>6 DEF LoadedOnce, FileModules
  <2> QED BY <2>1, <2>2, <2>3, <2>4 DEF LoadedOnce
<1>9. module_ptr[f] = <<>>
  BY <1>0 DEF Resolved
<1>10. Resolved'
  <2>1. \A g \in Known : ResolvedIn(g)'
    <3>1. \A g \in Known : ResolvedIn(g)
      BY DEF Known, Resolved
    <3> QED BY <1>6, <3>1, ProgFixed DEF ResolvedIn
  <2>2. ResolvedIn(f)'
    <3>1. Len(ImportNodes(f)) \in Nat
      BY <1>0, ProgramTypes
    <3> QED BY <1>9, <3>1, ProgFixed DEF ResolvedIn
  <2>3. \A g \in Files : g \notin Known => module_ptr[g] = <<>>
    BY DEF Resolved
  <2> QED BY <1>6, <2>1, <2>2, <2>3 DEF Resolved
<1>11. Dependencies'
  <2>1. \A i \in ModuleIds : Imports(i)' = Imports(i) /\ (i \in FileModules' <=> i \in FileModules)
    BY <1>3, <1>5 DEF Imports
  <2>2. Imports(n)' = <<>> /\ Range(Imports(n)') = {} /\ Range(module_ptr[f]) = {}
    BY <1>4, <1>9 DEF Imports, Range
  <2>3. ASSUME NEW i \in ModuleIds
        PROVE  /\ \A j, k \in DOMAIN Imports(i)' : Imports(i)'[j] = Imports(i)'[k] => j = k
               /\ IF i \in FileModules'
                  THEN Range(Imports(i)') = {NameOf[g] : g \in Range(module_ptr'[modules_'[i].filename])}
                  ELSE Imports(i)' = <<>>
    <3>1. Imports(i)' = Imports(i) /\ (i \in FileModules' <=> i \in FileModules)
      BY <2>1
    <3>2. modules_'[i].filename = modules_[i].filename /\ module_ptr' = module_ptr
      BY <1>3
    <3>3. /\ \A j, k \in DOMAIN Imports(i) : Imports(i)[j] = Imports(i)[k] => j = k
          /\ IF i \in FileModules
             THEN Range(Imports(i)) = {NameOf[g] : g \in Range(module_ptr[modules_[i].filename])}
             ELSE Imports(i) = <<>>
      BY DEF Dependencies
    <3> QED BY <3>1, <3>2, <3>3
  <2>4. /\ \A j, k \in DOMAIN Imports(n)' : Imports(n)'[j] = Imports(n)'[k] => j = k
        /\ n \in FileModules'
        /\ Range(Imports(n)') = {NameOf[g] : g \in Range(module_ptr'[modules_'[n].filename])}
    BY <1>4, <1>5, <2>2
  <2> SUFFICES ASSUME NEW i \in ModuleIds'
               PROVE  /\ \A j, k \in DOMAIN Imports(i)' : Imports(i)'[j] = Imports(i)'[k] => j = k
                      /\ IF i \in FileModules'
                         THEN Range(Imports(i)') = {NameOf[g] : g \in Range(module_ptr'[modules_'[i].filename])}
                         ELSE Imports(i)' = <<>>
    BY DEF Dependencies
  <2>5. i \in ModuleIds \/ i = n
    BY <1>3
  <2>6. CASE i \in ModuleIds
    BY <2>3, <2>6
  <2>7. CASE i = n
    BY <2>4, <2>7
  <2> QED BY <2>5, <2>6, <2>7
<1>12. n \in Named(NameOf[f])'
  BY <1>3, <1>4 DEF Named
<1> QED BY <1>3, <1>6, <1>8, <1>10, <1>11, <1>12

(* An import that cannot be loaded. *)
LEMMA FailingSteps ==
    ASSUME IInv, ImportNotFound \/ ImportUnreadable \/ ImportParseFails
    PROVE  IInv'
<1>0. /\ Typed /\ LoadedOnce /\ Resolved /\ Dependencies
      /\ phase = "import" /\ AtImport /\ phase' = "failed"
      /\ UNCHANGED <<prog, frames, module_ptr, aliases>>
  BY DEF IInv, ImportNotFound, ImportUnreadable, ImportParseFails
<1>1. (Walking /\ Settled /\ Sorting /\ AcyclicOrder)'
  BY <1>0 DEF Walking, Settled, Sorting, AcyclicOrder
<1>2. /\ FoundAt(Cands) = On(Cands) /\ Cands \in Seq(Files)
      /\ Top.file \in Program /\ Top.next \in DOMAIN ImportNodes(Top.file)
      /\ On(Cands) # {} =>
           /\ Target(Cands) \in Program /\ Target(Cands) \in Files
           /\ NeedsNoLoad(Target(Cands)) <=> Target(Cands) \in Known
  <2>1. Top.file \in Files /\ prog \in Programs
    BY <1>0, AtTop DEF Typed
  <2> QED BY <1>0, <2>1, AtTop, ImportTarget, ProgramTypes
<1>3. FailsOnlyWhenBroken'
  <2>1. CASE ImportNotFound
    <3>1. On(Cands) = {}
      BY <1>2, <2>1 DEF ImportNotFound
    <3>2. \A c \in DOMAIN ImportNodes(Top.file)[Top.next] :
              prog.disk[ImportNodes(Top.file)[Top.next][c]] = "absent"
      BY <3>1 DEF On, Cands
    <3> QED BY <1>0, <1>2, <3>2, ProgFixed DEF FailsOnlyWhenBroken
  <2>2. CASE ImportUnreadable \/ ImportParseFails
    <3>1. Target(Cands) \in Program /\ prog.disk[Target(Cands)] # "ok"
      BY <1>2, <2>2 DEF ImportUnreadable, ImportParseFails
    <3> QED BY <1>0, <3>1, ProgFixed DEF FailsOnlyWhenBroken
  <2> QED BY <2>1, <2>2
<1>4. (Typed /\ LoadedOnce /\ Resolved /\ Dependencies)'
  <2>1. CASE modules_' = modules_ /\ current_module_' = current_module_
    <3>1. /\ Known' = Known /\ ModuleIds' = ModuleIds /\ FileModules' = FileModules
          /\ \A i : Imports(i)' = Imports(i)
          /\ Named(current_module_)' = Named(current_module_)
      BY <2>1 DEF Known, ByFilename, ModuleIds, FileModules, Imports, Named
    <3>2. Typed'
      BY <1>0, <2>1, <3>1 DEF Typed
    <3>3. LoadedOnce'
      BY <1>0, <2>1, <3>1, ProgFixed DEF LoadedOnce
    <3>4. Resolved'
      BY <1>0, <3>1, ProgFixed DEF Resolved, ResolvedIn
    <3>5. Dependencies'
      BY <1>0, <2>1, <3>1 DEF Dependencies
    <3> QED BY <3>2, <3>3, <3>4, <3>5
  <2>2. CASE ImportParseFails
    <3>1. PICK f \in Program : /\ f \notin Known /\ f \in Files
                               /\ modules_' = Append(modules_, NewModule(f, FALSE))
                               /\ current_module_' = NameOf[f]
      BY <1>2, <2>2 DEF ImportParseFails
    <3>2. /\ modules_' \in Seq(ModuleRecs) /\ LoadedOnce' /\ Resolved' /\ Dependencies'
          /\ Named(NameOf[f])' # {}
      BY <1>0, <3>1, Added
    <3>3. Named(current_module_)' # {} /\ current_module_' \in Names
      BY <3>1, <3>2, ImportConstants DEF Named, ModuleIds
    <3>4. Typed'
      BY <1>0, <3>2, <3>3 DEF Typed
    <3> QED BY <3>2, <3>4
  <2> QED BY <2>1, <2>2 DEF ImportNotFound, ImportUnreadable
<1> QED BY <1>1, <1>3, <1>4 DEF IInv

(* A file is loaded and the recursive call starts on it. *)
LEMMA LoadingStep ==
    ASSUME IInv, ImportLoads
    PROVE  IInv'
<1>0. /\ Typed /\ LoadedOnce /\ Resolved /\ Dependencies /\ Walking
      /\ phase = "import" /\ AtImport /\ phase' = "import"
      /\ UNCHANGED <<prog, module_ptr, aliases, indeg, queue, sorted>>
  BY DEF IInv, ImportLoads, sortVars
<1>1. PICK f \in Program :
        /\ f \notin Known /\ f \in Files /\ prog.disk[f] = "ok"
        /\ modules_' = Append(modules_, NewModule(f, TRUE))
        /\ current_module_' = NameOf[f]
        /\ frames' = Append(frames, [file |-> f, next |-> 1, saved |-> NameOf[f]])
  BY <1>0, ImportTarget DEF ImportLoads
<1>2. /\ modules_' \in Seq(ModuleRecs) /\ LoadedOnce' /\ Resolved' /\ Dependencies'
      /\ Named(NameOf[f])' # {} /\ Known' = Known \cup {f}
  BY <1>0, <1>1, Added
<1> DEFINE fr == [file |-> f, next |-> 1, saved |-> NameOf[f]]
           n  == Len(frames) + 1
<1>3. fr \in FrameRecs /\ fr.file = f /\ fr.next = 1 /\ fr.saved = NameOf[f]
  BY <1>1, ImportConstants DEF FrameRecs
<1> HIDE DEF fr
<1>4. /\ frames' \in Seq(FrameRecs) /\ Len(frames') = n /\ frames'[n] = fr /\ n \in Nat /\ n > 1
      /\ frames' # <<>> /\ frames'[1] = frames[1]
      /\ \A k \in 1..Len(frames') : k = n \/ k \in 1..Len(frames)
      /\ \A k \in 1..Len(frames) : frames'[k] = frames[k] /\ k \in 1..Len(frames') /\ k # n
      /\ DOMAIN frames = 1..Len(frames) /\ DOMAIN frames' = 1..Len(frames')
      /\ n \in 1..Len(frames')
  <2>1. frames \in Seq(FrameRecs) /\ Len(frames) \in Nat /\ Len(frames) >= 1
    BY <1>0, AtTop DEF Typed
  <2>2. frames' = Append(frames, fr)
    BY <1>1 DEF fr
  <2> QED BY <1>3, <2>1, <2>2
<1> HIDE DEF n
<1>5. Typed'
  <2>1. Named(current_module_)' # {} /\ current_module_' \in Names
    BY <1>1, <1>2, ImportConstants DEF Named, ModuleIds
  <2> QED BY <1>0, <1>2, <1>4, <2>1 DEF Typed
<1>6. Walking'
  <2>1. module_ptr[f] = <<>>
    BY <1>0, <1>1 DEF Resolved
  <2>2. \A k \in 1..Len(frames) : frames[k].file \in Known
    BY <1>0 DEF Walking
  <2>3. \A j, k \in 1..Len(frames') : frames'[j].file = frames'[k].file => j = k
    <3>1. \A j, k \in 1..Len(frames) : frames[j].file = frames[k].file => j = k
      BY <1>0 DEF Walking
    <3> QED BY <1>1, <1>3, <1>4, <2>2, <3>1
  <2>4. \A k \in 1..Len(frames') :
            /\ frames'[k].file \in Known'
            /\ frames'[k].saved = NameOf[frames'[k].file]
            /\ Len(module_ptr'[frames'[k].file]) = frames'[k].next - 1
    <3>1. \A k \in 1..Len(frames) :
            /\ frames[k].file \in Known
            /\ frames[k].saved = NameOf[frames[k].file]
            /\ Len(module_ptr[frames[k].file]) = frames[k].next - 1
      BY <1>0 DEF Walking
    <3> QED BY <1>0, <1>2, <1>3, <1>4, <2>1, <3>1
  <2>5. \A g \in Known' : OnStack(g)' \/ Done(g)'
    <3>1. \A g \in Known : OnStack(g) \/ Done(g)
      BY <1>0 DEF Walking
    <3>2. \A g : OnStack(g) => OnStack(g)'
      BY <1>4 DEF OnStack
    <3>3. \A g : Done(g) => Done(g)'
      BY <1>0, ProgFixed DEF Done
    <3>4. OnStack(f)'
      BY <1>3, <1>4 DEF OnStack
    <3> QED BY <1>2, <3>1, <3>2, <3>3, <3>4
  <2> QED BY <1>0, <1>4, <2>3, <2>4, <2>5 DEF Walking
<1>7. (Settled /\ Sorting /\ FailsOnlyWhenBroken /\ AcyclicOrder)'
  BY <1>0 DEF Settled, Sorting, FailsOnlyWhenBroken, AcyclicOrder
<1> QED BY <1>2, <1>5, <1>6, <1>7 DEF IInv
(* The range of a sequence grows by what is appended. *)
LEMMA AppendRange ==
    ASSUME NEW S, NEW s \in Seq(S), NEW x \in S
    PROVE  /\ Range(Append(s, x)) = Range(s) \cup {x}
           /\ (\A j, k \in DOMAIN s : s[j] = s[k] => j = k) /\ x \notin Range(s) =>
                 \A j, k \in DOMAIN Append(s, x) : Append(s, x)[j] = Append(s, x)[k] => j = k
<1>n. PICK n \in Nat : n = Len(s) + 1
  OBVIOUS
<1>t. PICK t : t = Append(s, x)
  OBVIOUS
<1>1. /\ DOMAIN t = DOMAIN s \cup {n} /\ n \notin DOMAIN s
      /\ t[n] = x /\ \A k \in DOMAIN s : t[k] = s[k]
  BY <1>n, <1>t
<1>2. Range(t) = Range(s) \cup {x}
  BY <1>1 DEF Range
<1>3. ASSUME \A j, k \in DOMAIN s : s[j] = s[k] => j = k, x \notin Range(s)
      PROVE  \A j, k \in DOMAIN t : t[j] = t[k] => j = k
  <2>1. \A k \in DOMAIN s : s[k] # x
    BY <1>3 DEF Range
  <2> QED BY <1>1, <1>3, <2>1
<1> QED BY <1>2, <1>3, <1>t

(* Recording a dependency leaves the modules and their names alone. *)
LEMMA SameModules ==
    ASSUME Len(modules_') = Len(modules_),
           \A i \in ModuleIds : modules_'[i].filename = modules_[i].filename,
           \A i \in ModuleIds : modules_'[i].name = modules_[i].name
    PROVE  /\ ModuleIds' = ModuleIds /\ FileModules' = FileModules /\ Known' = Known
           /\ \A n : Named(n)' = Named(n)
           /\ \A f : ByFilename(f)' = ByFilename(f)
<1>1. ModuleIds' = ModuleIds
  BY DEF ModuleIds
<1>2. FileModules' = FileModules
  BY <1>1 DEF FileModules
<1>3. \A f : ByFilename(f)' = ByFilename(f)
  BY <1>1 DEF ByFilename
<1>4. \A n : Named(n)' = Named(n)
  BY <1>1 DEF Named
<1> QED BY <1>1, <1>2, <1>3, <1>4 DEF Known

(* getModule finds a module of the name it is given. *)
LEMMA NamedTypes ==
    ASSUME Typed, NEW n, Named(n) # {}
    PROVE  getModule(n) \in ModuleIds /\ modules_[getModule(n)].name = n
<1>1. Named(n) \in SUBSET Nat
  BY DEF Named, ModuleIds
<1>2. getModule(n) \in Named(n)
  BY <1>1, FirstExists DEF getModule
<1> QED BY <1>2 DEF Named

(* A known file has a module, the one with its filename. *)
LEMMA ByFilenameTypes ==
    ASSUME NEW f \in Known
    PROVE  IdOf(f) \in ModuleIds /\ modules_[IdOf(f)].filename = f
BY DEF Known, IdOf, ByFilename

(* An import whose module is there is recorded. *)
LEMMA RecordingStep ==
    ASSUME IInv, ImportReady
    PROVE  IInv'
<1>0. /\ Typed /\ LoadedOnce /\ Resolved /\ Dependencies /\ Walking
      /\ phase = "import" /\ AtImport /\ phase' = "import"
      /\ UNCHANGED <<prog, current_module_, indeg, queue, sorted>>
  BY DEF IInv, ImportReady, RecordImport, sortVars
<1>own. PICK own : own = IdOf(Top.file)
  OBVIOUS
<1>f. PICK f : f = Target(Cands)
  OBVIOUS
<1>g. PICK g : g = Top.file
  OBVIOUS
<1>1. /\ modules_' = IF \E k \in DOMAIN modules_[own].imports : modules_[own].imports[k] = NameOf[f]
                     THEN modules_
                     ELSE [modules_ EXCEPT ![own].imports = Append(@, NameOf[f])]
      /\ module_ptr' = [module_ptr EXCEPT ![g] = Append(@, f)]
      /\ aliases' = aliases \cup {<<current_module_, NameOf[f]>>}
      /\ frames' = [frames EXCEPT ![Len(frames)].next = @ + 1]
      /\ FoundAt(Cands) # {} /\ NeedsNoLoad(f)
  BY <1>own, <1>f, <1>g DEF ImportReady, RecordImport
<1>2. /\ On(Cands) # {} /\ f = DiskTarget(Cands) /\ f \in Files /\ f \in Known
      /\ NameOf[f] \in Names
  BY <1>0, <1>1, <1>f, ImportTarget, ImportConstants
<1>3. /\ g \in Known /\ g \in Files /\ Top.next \in Nat /\ Len(module_ptr[g]) = Top.next - 1
      /\ Top.next \in 1..Len(ImportNodes(g)) /\ Cands = ImportNodes(g)[Top.next]
  BY <1>0, <1>g, AtTop DEF Cands
<1>4. /\ own \in ModuleIds /\ modules_[own].filename = g /\ modules_[own] \in ModuleRecs
      /\ own \in FileModules
      /\ modules_[own].imports \in Seq(Names)
  <2>1. own \in ModuleIds /\ modules_[own].filename = g
    BY <1>3, <1>own, <1>g, ByFilenameTypes
  <2>2. modules_[own] \in ModuleRecs /\ own \in FileModules
    BY <1>0, <1>3, <2>1, ModuleTypes
  <2> QED BY <2>1, <2>2 DEF ModuleRecs
<1>5. /\ modules_' \in Seq(ModuleRecs) /\ Len(modules_') = Len(modules_)
      /\ \A i \in ModuleIds : /\ modules_'[i].filename = modules_[i].filename
                              /\ modules_'[i].name = modules_[i].name
                              /\ modules_'[i].ast = modules_[i].ast
                              /\ i # own => modules_'[i].imports = modules_[i].imports
      /\ Range(modules_'[own].imports) = Range(modules_[own].imports) \cup {NameOf[f]}
      /\ \A j, k \in DOMAIN modules_'[own].imports :
             modules_'[own].imports[j] = modules_'[own].imports[k] => j = k
  <2>0. /\ modules_ \in Seq(ModuleRecs) /\ DOMAIN modules_ = ModuleIds
        /\ \A j, k \in DOMAIN modules_[own].imports :
             modules_[own].imports[j] = modules_[own].imports[k] => j = k
    BY <1>0, <1>4 DEF Typed, ModuleIds, Dependencies, Imports
  <2>1. CASE NameOf[f] \in Range(modules_[own].imports)
    <3>1. modules_' = modules_
      BY <1>1, <2>1 DEF Range
    <3> QED BY <2>0, <2>1, <3>1
  <2>2. CASE NameOf[f] \notin Range(modules_[own].imports)
    <3>a. PICK im : im = Append(modules_[own].imports, NameOf[f])
      OBVIOUS
    <3>m. PICK m : m = [modules_[own] EXCEPT !.imports = im]
      OBVIOUS
    <3>1. modules_' = [modules_ EXCEPT ![own] = m]
      BY <1>1, <2>2, <3>a, <3>m DEF Range
    <3>2. /\ m \in ModuleRecs
          /\ m.filename = modules_[own].filename /\ m.name = modules_[own].name
          /\ m.ast = modules_[own].ast
          /\ m.imports = im
      <4>1. im \in Seq(Names)
        BY <1>2, <1>4, <3>a
      <4>2. \A r \in ModuleRecs :
               LET q == [r EXCEPT !.imports = im]
               IN  /\ q \in ModuleRecs /\ q.filename = r.filename /\ q.name = r.name
                   /\ q.ast = r.ast /\ q.imports = im
        BY <4>1 DEF ModuleRecs
      <4> QED BY <1>4, <3>m, <4>2
    <3>3. /\ modules_' \in Seq(ModuleRecs) /\ Len(modules_') = Len(modules_)
          /\ modules_'[own] = m /\ \A i \in ModuleIds : i # own => modules_'[i] = modules_[i]
      BY <1>4, <2>0, <3>1, <3>2, ExceptSeq
    <3>4. /\ Range(m.imports) = Range(modules_[own].imports) \cup {NameOf[f]}
          /\ \A j, k \in DOMAIN m.imports : m.imports[j] = m.imports[k] => j = k
      <4>1. /\ Range(im) = Range(modules_[own].imports) \cup {NameOf[f]}
            /\ \A j, k \in DOMAIN im : im[j] = im[k] => j = k
        <5>1. PICK old \in Seq(Names) : old = modules_[own].imports
          BY <1>4
        <5>2. /\ \A j, k \in DOMAIN old : old[j] = old[k] => j = k
              /\ NameOf[f] \notin Range(old) /\ im = Append(old, NameOf[f])
          BY <2>0, <2>2, <3>a, <5>1
        <5>3. /\ Range(im) = Range(old) \cup {NameOf[f]}
              /\ \A j, k \in DOMAIN im : im[j] = im[k] => j = k
          BY <1>2, <5>2, AppendRange
        <5> QED BY <5>1, <5>3
      <4> QED BY <3>2, <4>1
    <3>5. \A i \in ModuleIds : /\ modules_'[i].filename = modules_[i].filename
                               /\ modules_'[i].name = modules_[i].name
                               /\ modules_'[i].ast = modules_[i].ast
                               /\ i # own => modules_'[i].imports = modules_[i].imports
      <4> TAKE i \in ModuleIds
      <4>1. CASE i = own
        BY <3>2, <3>3, <4>1
      <4>2. CASE i # own
        BY <3>3, <4>2
      <4> QED BY <4>1, <4>2
    <3>6. /\ Range(modules_'[own].imports) = Range(modules_[own].imports) \cup {NameOf[f]}
          /\ \A j, k \in DOMAIN modules_'[own].imports :
                 modules_'[own].imports[j] = modules_'[own].imports[k] => j = k
      BY <3>3, <3>4
    <3> QED BY <3>3, <3>5, <3>6
  <2> QED BY <2>1, <2>2
<1>6. /\ ModuleIds' = ModuleIds /\ FileModules' = FileModules /\ Known' = Known
      /\ \A n : Named(n)' = Named(n)
  BY <1>5, SameModules
<1>7. /\ module_ptr' \in [Files -> Seq(Files)]
      /\ module_ptr'[g] = Append(module_ptr[g], f)
      /\ \A h \in Files : h # g => module_ptr'[h] = module_ptr[h]
  BY <1>0, <1>1, <1>2, <1>3 DEF Typed
<1>8. /\ frames' \in Seq(FrameRecs) /\ Len(frames') = Len(frames)
      /\ DOMAIN frames' = DOMAIN frames /\ DOMAIN frames = 1..Len(frames)
      /\ \A k \in 1..Len(frames) :
             /\ frames'[k].file = frames[k].file /\ frames'[k].saved = frames[k].saved
             /\ frames'[k].next = IF k = Len(frames) THEN Top.next + 1 ELSE frames[k].next
  <2>t. PICK t : t = [Top EXCEPT !.next = @ + 1]
    OBVIOUS
  <2>0. /\ frames \in Seq(FrameRecs) /\ Len(frames) \in DOMAIN frames /\ Top \in FrameRecs
        /\ Len(frames) \in Nat
    BY <1>0, AtTop DEF Typed
  <2>1. /\ t \in FrameRecs /\ t.file = Top.file /\ t.saved = Top.saved /\ t.next = Top.next + 1
    <3>1. \A r \in FrameRecs :
             LET q == [r EXCEPT !.next = @ + 1]
             IN  /\ q \in FrameRecs /\ q.file = r.file /\ q.saved = r.saved
                 /\ q.next = r.next + 1
      BY DEF FrameRecs
    <3> QED BY <2>0, <2>t, <3>1
  <2>2. frames' = [frames EXCEPT ![Len(frames)] = t]
    BY <1>1, <2>t DEF Top
  <2>3. /\ frames' \in Seq(FrameRecs) /\ Len(frames') = Len(frames)
        /\ frames'[Len(frames)] = t
        /\ \A k \in 1..Len(frames) : k # Len(frames) => frames'[k] = frames[k]
    BY <2>0, <2>1, <2>2, ExceptSeq
  <2>4. ASSUME NEW k \in 1..Len(frames)
        PROVE  /\ frames'[k].file = frames[k].file /\ frames'[k].saved = frames[k].saved
               /\ frames'[k].next = IF k = Len(frames) THEN Top.next + 1 ELSE frames[k].next
    <3>1. CASE k = Len(frames)
      BY <2>1, <2>3, <3>1 DEF Top
    <3>2. CASE k # Len(frames)
      BY <2>3, <3>2
    <3> QED BY <3>1, <3>2
  <2> QED BY <2>0, <2>3, <2>4
<1>9. Typed'
  <2>2. aliases' \subseteq Names \X Names
    BY <1>0, <1>1, <1>2 DEF Typed
  <2>3. Named(current_module_)' # {}
    <3>1. Named(current_module_)' = Named(current_module_)
      BY <1>0, <1>6 DEF Named
    <3> QED BY <1>0, <3>1 DEF Typed
  <2> QED BY <1>0, <1>5, <1>7, <1>8, <2>2, <2>3 DEF Typed
<1>10. LoadedOnce'
  <2>1. \A i \in FileModules : i \in ModuleIds
    BY DEF FileModules
  <2>2. \A i, j \in ModuleIds : modules_'[i].filename = modules_'[j].filename => i = j
    BY <1>0, <1>5 DEF LoadedOnce
  <2>3. /\ \A i \in FileModules : modules_'[i].ast
        /\ \A i \in ModuleIds : modules_'[i].name = IF i \in FileModules
                                   THEN NameOf[modules_'[i].filename] ELSE Builtin
    BY <1>0, <1>5, <2>1 DEF LoadedOnce
  <2>4. Root \in Known /\ Known \subseteq Program /\ \A h \in Known : prog.disk[h] = "ok"
    BY <1>0 DEF LoadedOnce
  <2> QED BY <1>0, <1>6, <2>2, <2>3, <2>4, ProgFixed DEF LoadedOnce
<1>11. Resolved'
  <2>1. ASSUME NEW h \in Files, h # g
        PROVE  IF h \in Known' THEN ResolvedIn(h)' ELSE module_ptr'[h] = <<>>
    <3>1. IF h \in Known THEN ResolvedIn(h) ELSE module_ptr[h] = <<>>
      BY <1>0 DEF Resolved
    <3>2. module_ptr'[h] = module_ptr[h]
      BY <1>7, <2>1
    <3>3. ResolvedIn(h) => ResolvedIn(h)'
      BY <1>0, <1>6, <3>2, ProgFixed DEF ResolvedIn
    <3> QED BY <1>6, <3>1, <3>2, <3>3
  <2>2. ResolvedIn(g)'
    <3>1. /\ module_ptr[g] \in Seq(Files) /\ ResolvedIn(g) /\ Len(ImportNodes(g)) \in Nat
      BY <1>0, <1>3, ProgramTypes DEF Typed, Resolved
    <3>2. /\ Len(module_ptr'[g]) = Top.next /\ module_ptr'[g][Top.next] = f
          /\ \A j \in 1..Top.next : j # Top.next => j \in 1..Len(module_ptr[g])
          /\ \A j \in 1..Len(module_ptr[g]) : module_ptr'[g][j] = module_ptr[g][j]
      <4>o. PICK old \in Seq(Files) : old = module_ptr[g]
        BY <3>1
      <4>1. module_ptr'[g] = Append(old, f) /\ Len(old) = Top.next - 1 /\ Top.next \in Nat
        BY <1>3, <1>7, <4>o
      <4>2. /\ Len(Append(old, f)) = Len(old) + 1 /\ Append(old, f)[Len(old) + 1] = f
            /\ \A j \in 1..Len(old) : Append(old, f)[j] = old[j]
        BY <1>2, AppendProperties
      <4>3. Len(old) + 1 = Top.next /\ \A j \in 1..Top.next : j # Top.next => j \in 1..Len(old)
        BY <4>1
      <4> QED BY <4>o, <4>1, <4>2, <4>3
    <3>3. \A j \in 1..Top.next :
             /\ On(ImportNodes(g)[j]) # {}
             /\ module_ptr'[g][j] = DiskTarget(ImportNodes(g)[j])
             /\ module_ptr'[g][j] \in Known
      BY <1>2, <1>3, <3>1, <3>2 DEF ResolvedIn
    <3>4. Top.next <= Len(ImportNodes(g))
      BY <1>3, <3>1
    <3> QED BY <1>0, <1>6, <3>2, <3>3, <3>4, ProgFixed DEF ResolvedIn
  <2> QED BY <1>3, <1>6, <2>1, <2>2 DEF Resolved
<1>12. Dependencies'
  <2>1. ASSUME NEW i \in ModuleIds, i # own
        PROVE  /\ \A j, k \in DOMAIN modules_'[i].imports :
                      modules_'[i].imports[j] = modules_'[i].imports[k] => j = k
               /\ IF i \in FileModules
                  THEN Range(modules_'[i].imports)
                         = {NameOf[h] : h \in Range(module_ptr'[modules_'[i].filename])}
                  ELSE modules_'[i].imports = <<>>
    <3>1. modules_'[i].imports = modules_[i].imports /\ modules_'[i].filename = modules_[i].filename
      BY <1>5, <2>1
    <3>2. modules_[i].filename # g
      BY <1>0, <1>4, <2>1 DEF LoadedOnce
    <3>3. i \in FileModules => module_ptr'[modules_[i].filename] = module_ptr[modules_[i].filename]
      BY <1>0, <1>7, <3>2, ModuleTypes
    <3>4. /\ \A j, k \in DOMAIN modules_[i].imports :
                 modules_[i].imports[j] = modules_[i].imports[k] => j = k
          /\ IF i \in FileModules
             THEN Range(modules_[i].imports) = {NameOf[h] : h \in Range(module_ptr[modules_[i].filename])}
             ELSE modules_[i].imports = <<>>
      BY <1>0 DEF Dependencies, Imports
    <3> QED BY <3>1, <3>3, <3>4
  <2>2. Range(modules_'[own].imports) = {NameOf[h] : h \in Range(module_ptr'[modules_'[own].filename])}
    <3>1. Range(modules_[own].imports) = {NameOf[h] : h \in Range(module_ptr[g])}
      BY <1>0, <1>4 DEF Dependencies, Imports
    <3>2. Range(module_ptr'[g]) = Range(module_ptr[g]) \cup {f}
      <4>1. module_ptr[g] \in Seq(Files)
        BY <1>0, <1>3 DEF Typed
      <4> QED BY <1>2, <1>7, <4>1, AppendRange
    <3>3. modules_'[own].filename = g
      BY <1>4, <1>5
    <3> QED BY <1>5, <3>1, <3>2, <3>3
  <2>3. ASSUME NEW i \in ModuleIds'
        PROVE  /\ \A j, k \in DOMAIN Imports(i)' : Imports(i)'[j] = Imports(i)'[k] => j = k
               /\ IF i \in FileModules'
                  THEN Range(Imports(i)') = {NameOf[h] : h \in Range(module_ptr'[modules_'[i].filename])}
                  ELSE Imports(i)' = <<>>
    <3>0. i \in ModuleIds /\ FileModules' = FileModules /\ Imports(i)' = modules_'[i].imports
      BY <1>6 DEF Imports
    <3>1. CASE i = own
      BY <1>4, <1>5, <2>2, <3>0, <3>1
    <3>2. CASE i # own
      BY <2>1, <3>0, <3>2
    <3> QED BY <3>1, <3>2
  <2> QED BY <2>3 DEF Dependencies
<1>13. Walking'
  <2>1. \A j, k \in 1..Len(frames') : frames'[j].file = frames'[k].file => j = k
    BY <1>0, <1>8 DEF Walking
  <2>2. ASSUME NEW k \in 1..Len(frames)
        PROVE  /\ frames'[k].file \in Known
               /\ frames'[k].saved = NameOf[frames'[k].file]
               /\ Len(module_ptr'[frames'[k].file]) = frames'[k].next - 1
    <3>0. /\ frames[k].file \in Known /\ frames[k].file \in Files
          /\ frames[k].saved = NameOf[frames[k].file]
          /\ Len(module_ptr[frames[k].file]) = frames[k].next - 1
      BY <1>0 DEF Walking, Known
    <3>1. CASE k = Len(frames)
      <4>1. frames[k].file = g /\ frames'[k].next = Top.next + 1
        BY <1>8, <1>g, <3>1 DEF Top
      <4>2. Len(module_ptr'[g]) = Top.next
        <5>1. module_ptr[g] \in Seq(Files)
          BY <1>0, <1>3 DEF Typed
        <5> QED BY <1>2, <1>3, <1>7, <5>1
      <4>3. frames'[k].file = g /\ frames'[k].saved = frames[k].saved
        BY <1>8, <4>1
      <4> QED BY <1>3, <3>0, <4>1, <4>2, <4>3
    <3>2. CASE k # Len(frames)
      <4>1. frames[k].file # g
        BY <1>0, <1>g, <3>2, AtTop DEF Walking, Top
      <4> QED BY <1>7, <1>8, <3>0, <3>2, <4>1
    <3> QED BY <3>1, <3>2
  <2>3. \A h \in Known : OnStack(h)' \/ Done(h)'
    <3>1. \A h : OnStack(h) => OnStack(h)'
      BY <1>8 DEF OnStack
    <3>2. OnStack(g)
      BY <1>0, <1>g, AtTop DEF OnStack, Top
    <3>3. \A h \in Files : h # g /\ Done(h) => Done(h)'
      BY <1>0, <1>7, ProgFixed DEF Done
    <3> QED BY <1>0, <3>1, <3>2, <3>3 DEF Walking, Known
  <2>4. frames' # <<>> /\ frames'[1].file = Root
    <3>1. Len(frames) >= 1 /\ Len(frames) \in Nat /\ frames[1].file = Root
      BY <1>0, AtTop DEF Walking
    <3>2. 1 \in 1..Len(frames)
      BY <3>1
    <3>3. frames'[1].file = Root
      BY <1>8, <3>1, <3>2
    <3>4. Len(frames') >= 1 /\ frames' \in Seq(FrameRecs)
      BY <1>8, <3>1
    <3> QED BY <3>3, <3>4
  <2> QED BY <1>0, <1>6, <1>8, <2>1, <2>2, <2>3, <2>4 DEF Walking
<1>14. (Settled /\ Sorting /\ FailsOnlyWhenBroken /\ AcyclicOrder)'
  BY <1>0 DEF Settled, Sorting, FailsOnlyWhenBroken, AcyclicOrder
<1> QED BY <1>9, <1>10, <1>11, <1>12, <1>13, <1>14 DEF IInv
(* A known file has a module of its name. *)
LEMMA NameKnown ==
    ASSUME Typed, LoadedOnce, NEW f \in Known
    PROVE  Named(NameOf[f]) # {}
<1>1. PICK i \in FileModules : modules_[i].filename = f
  BY ModuleTypes
<1>2. i \in ModuleIds /\ modules_[i].name = NameOf[f]
  BY <1>1 DEF LoadedOnce, FileModules
<1> QED BY <1>2 DEF Named

(* Nothing but the phase, the stack and the sort's own variables changes. *)
LEMMA KeptModules ==
    ASSUME Typed, LoadedOnce, Resolved, Dependencies, phase # "failed",
           UNCHANGED <<prog, modules_, module_ptr, aliases>>,
           phase' \in {"import", "sort"}, frames' \in Seq(FrameRecs),
           current_module_' \in Names, Named(current_module_') # {}
    PROVE  /\ Typed' /\ LoadedOnce' /\ Resolved' /\ Dependencies'
           /\ ModuleIds' = ModuleIds /\ Known' = Known
           /\ \A f : Done(f)' = Done(f)
           /\ \A i : Imports(i)' = Imports(i)
           /\ \A i, d : DependsOn(i, d)' = DependsOn(i, d)
<1>1. /\ Known' = Known /\ ModuleIds' = ModuleIds /\ FileModules' = FileModules
      /\ \A i : Imports(i)' = Imports(i)
      /\ Named(current_module_)' # {}
  BY DEF Known, ByFilename, ModuleIds, FileModules, Imports, Named
<1>2. Typed'
  BY <1>1 DEF Typed
<1>3. LoadedOnce'
  BY <1>1, ProgFixed DEF LoadedOnce
<1>4. Resolved'
  BY <1>1, ProgFixed DEF Resolved, ResolvedIn
<1>5. Dependencies'
  BY <1>1 DEF Dependencies
<1>6. \A f : Done(f)' = Done(f)
  BY ProgFixed DEF Done
<1>7. \A i, d : DependsOn(i, d)' = DependsOn(i, d)
  BY <1>1 DEF DependsOn, getModule, Named, First
<1> QED BY <1>1, <1>2, <1>3, <1>4, <1>5, <1>6, <1>7

(* A call returns: its module is done. *)
LEMMA ReturningStep ==
    ASSUME IInv, ReturnFromModule
    PROVE  IInv'
<1>0. /\ Typed /\ LoadedOnce /\ Resolved /\ Dependencies /\ Walking
      /\ phase = "import" /\ ~AtImport
      /\ phase' = (IF Len(frames) = 1 THEN "sort" ELSE "import")
      /\ current_module_' = Top.saved
      /\ frames' = SubSeq(frames, 1, Len(frames) - 1)
      /\ UNCHANGED <<prog, modules_, module_ptr, aliases, indeg, queue, sorted>>
  BY DEF IInv, ReturnFromModule, sortVars
<1>1. /\ Len(frames) \in Nat /\ Len(frames) >= 1 /\ Top.file \in Known /\ Top.file \in Files
      /\ Top.next \in Nat /\ Len(module_ptr[Top.file]) = Top.next - 1
      /\ Top.saved = NameOf[Top.file] /\ Top \in FrameRecs
  BY <1>0, AtTop
<1>2. Done(Top.file)
  <2>1. /\ Len(ImportNodes(Top.file)) \in Nat /\ Len(module_ptr[Top.file]) \in Nat
        /\ Len(module_ptr[Top.file]) <= Len(ImportNodes(Top.file))
    BY <1>0, <1>1, ProgramTypes, ModuleTypes DEF Typed, Resolved, ResolvedIn
  <2> QED BY <1>0, <1>1, <2>1 DEF AtImport, Done
<1>3. /\ frames' \in Seq(FrameRecs) /\ Len(frames') = Len(frames) - 1
      /\ DOMAIN frames = 1..Len(frames) /\ DOMAIN frames' = 1..Len(frames')
      /\ \A k \in 1..Len(frames) - 1 : frames'[k] = frames[k]
  <2>1. frames \in Seq(FrameRecs)
    BY <1>0 DEF Typed
  <2>n. PICK n \in Nat : n = Len(frames) /\ n >= 1
    BY <1>1
  <2>2. /\ \A k \in 1..n - 1 : frames[k] \in FrameRecs
        /\ 1 \in Int /\ n - 1 \in Int
    BY <2>1, <2>n
  <2>s. PICK s : s = SubSeq(frames, 1, n - 1)
    OBVIOUS
  <2>3. /\ s \in Seq(FrameRecs)
        /\ Len(s) = IF 1 <= n - 1 THEN n - 1 - 1 + 1 ELSE 0
        /\ \A k \in 1..n - 1 - 1 + 1 : s[k] = frames[1 + k - 1]
    BY <2>2, <2>s, SubSeqProperties
  <2>4. Len(s) = n - 1 /\ DOMAIN s = 1..Len(s)
    BY <2>n, <2>3
  <2>5. \A k \in 1..n - 1 : s[k] = frames[k]
    BY <2>n, <2>3
  <2>6. frames' = s
    BY <1>0, <2>n, <2>s
  <2> QED BY <2>1, <2>3, <2>4, <2>5, <2>6, <2>n
<1>4. /\ Typed' /\ LoadedOnce' /\ Resolved' /\ Dependencies'
      /\ Known' = Known /\ \A f : Done(f)' = Done(f)
  <2>1. current_module_' \in Names /\ Named(current_module_') # {}
    BY <1>0, <1>1, NameKnown, ImportConstants
  <2> QED BY <1>0, <1>3, <2>1, KeptModules
<1>5. \A f \in Known : OnStack(f) => OnStack(f)' \/ f = Top.file
  <2> SUFFICES ASSUME NEW f \in Known, NEW k \in 1..Len(frames), frames[k].file = f
               PROVE  OnStack(f)' \/ f = Top.file
    BY <1>3 DEF OnStack
  <2>1. CASE k = Len(frames)
    BY <2>1 DEF Top
  <2>2. CASE k # Len(frames)
    <3>1. k \in 1..Len(frames) - 1 /\ k \in DOMAIN frames'
      BY <1>1, <1>3, <2>2
    <3> QED BY <1>3, <3>1 DEF OnStack
  <2> QED BY <2>1, <2>2
<1>6. Walking'
  <2> SUFFICES ASSUME phase' = "import" PROVE Walking'
    BY DEF Walking
  <2>n. PICK n \in Nat : n = Len(frames) /\ n >= 1
    BY <1>1
  <2>0. n # 1
    BY <1>0, <2>n
  <2>1. 1 \in 1..n - 1 /\ n - 1 # 0
    BY <2>0, <2>n
  <2>2. frames' # <<>> /\ frames'[1].file = Root
    <3>1. frames'[1] = frames[1] /\ Len(frames') # 0
      BY <1>3, <2>1, <2>n
    <3> QED BY <1>0, <1>3, <3>1 DEF Walking
  <2>3. \A k \in 1..Len(frames') : k \in 1..Len(frames) /\ frames'[k] = frames[k]
    BY <1>1, <1>3
  <2>4. \A f \in Known : OnStack(f)' \/ Done(f)'
    BY <1>0, <1>2, <1>4, <1>5 DEF Walking
  <2>5. \A j, k \in 1..Len(frames') : frames'[j].file = frames'[k].file => j = k
    BY <1>0, <2>3 DEF Walking
  <2>6. \A k \in 1..Len(frames') :
            /\ frames'[k].file \in Known
            /\ frames'[k].saved = NameOf[frames'[k].file]
            /\ Len(module_ptr[frames'[k].file]) = frames'[k].next - 1
    BY <1>0, <2>3 DEF Walking
  <2> QED BY <1>0, <1>4, <2>2, <2>4, <2>5, <2>6 DEF Walking
<1>7. Settled' /\ Sorting'
  <2>1. CASE Len(frames) = 1
    <3>1. Top.file = Root
      BY <1>0, <2>1 DEF Walking, Top
    <3>2. \A f \in Known : ~OnStack(f)'
      BY <1>3, <2>1 DEF OnStack
    <3>3. \A f \in Known : Done(f)'
      BY <1>0, <1>2, <1>4, <1>5, <3>2 DEF Walking
    <3>4. Settled'
      BY <1>0, <1>1, <1>4, <3>1, <3>3 DEF Settled
    <3>5. indeg' = <<>> /\ queue' = <<>> /\ sorted' = <<>>
      BY <1>0 DEF Walking
    <3>6. Sorting'
      BY <3>5 DEF Sorting, Range
    <3> QED BY <3>4, <3>6
  <2>2. CASE Len(frames) # 1
    BY <1>0, <2>2 DEF Settled, Sorting
  <2> QED BY <2>1, <2>2
<1>8. (FailsOnlyWhenBroken /\ AcyclicOrder)'
  BY <1>0 DEF FailsOnlyWhenBroken, AcyclicOrder
<1> QED BY <1>4, <1>6, <1>7, <1>8 DEF IInv
-----------------------------------------------------------------------------
(* Sorting.  Ascending lists a finite set of numbers, each member once: a  *)
(* member's rank is an injection of the set into 0..Cardinality(S)-1.      *)
Rank(S, i) == Cardinality({j \in S : j < i})

(* Ascending lists a set once each. *)
LEMMA AscendingLists ==
    ASSUME NEW S \in SUBSET Nat, IsFiniteSet(S)
    PROVE  /\ Ascending(S) \in Seq(S) /\ Len(Ascending(S)) = Cardinality(S)
           /\ IsInjective(Ascending(S)) /\ Range(Ascending(S)) = S
<1>c. PICK c \in Nat : c = Cardinality(S)
  BY FS_CardinalityType
<1>1. \A i : IsFiniteSet({j \in S : j < i}) /\ Rank(S, i) \in Nat
  <2> TAKE i
  <2>1. {j \in S : j < i} \in SUBSET S
    OBVIOUS
  <2> QED BY <2>1, FS_Subset, FS_CardinalityType DEF Rank
<1>2. ASSUME NEW i \in S, NEW h \in S, i < h
      PROVE  Rank(S, i) < Rank(S, h)
  <2> DEFINE A == {j \in S : j < i}
             B == {j \in S : j < h}
  <2>1. A \in SUBSET B /\ i \in B /\ i \notin A
    <3>1. \A j \in S : j < i => j < h
      <4>1. \A j \in S : j \in Nat
        OBVIOUS
      <4> QED BY <1>2, <4>1
    <3>2. i \in Nat
      OBVIOUS
    <3>3. A \in SUBSET B
      BY <3>1
    <3>4. i \notin A
      BY <3>2
    <3> QED BY <1>2, <3>3, <3>4
  <2>2. IsFiniteSet(B) /\ Cardinality(A) = Rank(S, i) /\ Cardinality(B) = Rank(S, h)
    BY <1>1 DEF Rank
  <2> HIDE DEF A, B
  <2>3. Cardinality(A) <= Cardinality(B) /\ (Cardinality(B) = Cardinality(A) => B = A)
    BY <2>1, <2>2, FS_Subset
  <2>4. \A x, y \in Nat : x <= y /\ x # y => x < y
    OBVIOUS
  <2>5. Rank(S, i) <= Rank(S, h) /\ Rank(S, i) # Rank(S, h)
    BY <2>1, <2>2, <2>3
  <2> QED BY <1>1, <2>4, <2>5
<1>3. ASSUME NEW i \in S
      PROVE  Rank(S, i) \in 0..c - 1
  <2> DEFINE A == {j \in S : j < i}
  <2>1. A \in SUBSET S /\ i \notin A
    OBVIOUS
  <2>2. Cardinality(A) = Rank(S, i)
    BY DEF Rank
  <2> HIDE DEF A
  <2>3. Cardinality(A) <= Cardinality(S) /\ (Cardinality(S) = Cardinality(A) => S = A)
    BY <2>1, FS_Subset
  <2>4. \A x \in Nat : x <= c /\ x # c => x \in 0..c - 1
    OBVIOUS
  <2>5. Rank(S, i) <= c /\ Rank(S, i) # c
    BY <1>c, <2>1, <2>2, <2>3
  <2> QED BY <1>1, <2>4, <2>5
<1>4. \A i, h \in S : Rank(S, i) = Rank(S, h) => i = h
  <2> TAKE i, h \in S
  <2>1. i \in Nat /\ h \in Nat
    OBVIOUS
  <2>2. i < h \/ h < i \/ i = h
    BY <2>1
  <2>3. i < h => Rank(S, i) < Rank(S, h)
    BY <1>2
  <2>4. h < i => Rank(S, h) < Rank(S, i)
    BY <1>2
  <2>5. \A x, y \in Nat : x < y => x # y
    OBVIOUS
  <2> QED BY <1>1, <2>2, <2>3, <2>4, <2>5
<1>5. \A r \in 0..c - 1 : \E i \in S : Rank(S, i) = r
  <2> DEFINE R == [i \in S |-> Rank(S, i)]
             T == 0..c - 1
  <2>1. R \in Injection(S, T)
    BY <1>3, <1>4 DEF Injection, IsInjective
  <2>2. IsFiniteSet(T) /\ Cardinality(T) = c
    <3>1. 0 \in Int /\ c - 1 \in Int
      OBVIOUS
    <3>2. IsFiniteSet(T) /\ Cardinality(T) = IF 0 > c - 1 THEN 0 ELSE c - 1 - 0 + 1
      BY <3>1, FS_Interval
    <3> QED BY <3>2
  <2>3. \A i \in S : R[i] = Rank(S, i)
    OBVIOUS
  <2> HIDE DEF R, T
  <2>4. R \in Surjection(S, T)
    BY <2>1, <2>2, <1>c, FS_Injection
  <2>5. \A r \in T : \E i \in S : R[i] = r
    BY <2>4 DEF Surjection
  <2> QED BY <2>3, <2>5 DEF T
<1> DEFINE asc == Ascending(S)
<1>6. /\ DOMAIN asc = 1..c
      /\ \A k \in 1..c : asc[k] = CHOOSE i \in S : Rank(S, i) = k - 1
  BY <1>c DEF Ascending, Rank
<1> HIDE DEF asc
<1>7. \A k \in 1..c : asc[k] \in S /\ Rank(S, asc[k]) = k - 1
  <2> TAKE k \in 1..c
  <2>1. k - 1 \in 0..c - 1
    OBVIOUS
  <2>2. \E i \in S : Rank(S, i) = k - 1
    BY <1>5, <2>1
  <2> QED BY <1>6, <2>2
<1>8. asc \in [1..c -> S]
  <2> DEFINE E(k) == CHOOSE i \in S : Cardinality({j \in S : j < i}) = k - 1
  <2>1. asc = [k \in 1..c |-> E(k)]
    BY <1>c DEF asc, Ascending
  <2>2. \A k \in 1..c : E(k) \in S
    BY <1>6, <1>7 DEF Rank
  <2> HIDE DEF E
  <2> QED BY <2>1, <2>2
<1>9. asc \in Seq(S) /\ Len(asc) = c
  BY <1>8
<1>10. IsInjective(asc)
  <2>1. \A j, k \in 1..c : asc[j] = asc[k] => j = k
    <3> TAKE j, k \in 1..c
    <3>1. asc[j] = asc[k] => j - 1 = k - 1
      BY <1>7
    <3> QED BY <3>1
  <2> QED BY <1>6, <2>1 DEF IsInjective
<1>11. Range(asc) = S
  <2>1. \A k \in 1..c : asc[k] \in S
    BY <1>7
  <2>2. ASSUME NEW i \in S PROVE \E k \in 1..c : asc[k] = i
    <3>1. Rank(S, i) + 1 \in 1..c /\ (Rank(S, i) + 1) - 1 = Rank(S, i)
      BY <1>1, <1>3
    <3>2. asc[Rank(S, i) + 1] \in S /\ Rank(S, asc[Rank(S, i) + 1]) = Rank(S, i)
      BY <1>7, <3>1
    <3>3. asc[Rank(S, i) + 1] = i
      BY <1>4, <3>2
    <3> QED BY <3>1, <3>3
  <2> QED BY <1>6, <2>1, <2>2 DEF Range
<1> QED BY <1>9, <1>10, <1>11, <1>c DEF asc

(* Descending lists a set once each. *)
LEMMA DescendingLists ==
    ASSUME NEW S \in SUBSET Nat, IsFiniteSet(S)
    PROVE  /\ Descending(S) \in Seq(S)
           /\ IsInjective(Descending(S)) /\ Range(Descending(S)) = S
<1>c. PICK c \in Nat : c = Cardinality(S)
  BY FS_CardinalityType
<1>a. PICK a : a = Ascending(S)
  OBVIOUS
<1>1. /\ a \in Seq(S) /\ Len(a) = c /\ DOMAIN a = 1..c
      /\ IsInjective(a) /\ Range(a) = S
  BY <1>a, <1>c, AscendingLists
<1>d. PICK d : d = [k \in 1..c |-> a[c + 1 - k]]
  OBVIOUS
<1>2. \A k \in 1..c : c + 1 - k \in 1..c /\ c + 1 - (c + 1 - k) = k
  OBVIOUS
<1>3. DOMAIN d = 1..c /\ \A k \in 1..c : d[k] = a[c + 1 - k] /\ d[k] \in S
  BY <1>1, <1>2, <1>d
<1>4. d \in Seq(S)
  <2>1. d \in [1..c -> S]
    BY <1>3, <1>d
  <2> QED BY <2>1
<1>5. IsInjective(d)
  <2>1. ASSUME NEW j \in 1..c, NEW k \in 1..c, d[j] = d[k] PROVE j = k
    <3>1. c + 1 - j = c + 1 - k
      BY <1>1, <1>2, <1>3, <2>1 DEF IsInjective
    <3> QED BY <3>1
  <2> QED BY <1>3, <2>1 DEF IsInjective
<1>6. ASSUME NEW i \in S PROVE i \in Range(d)
  <2>1. PICK k \in 1..c : a[k] = i
    BY <1>1 DEF Range
  <2>2. d[c + 1 - k] = i /\ c + 1 - k \in 1..c
    BY <1>2, <1>3, <2>1
  <2> QED BY <1>3, <2>2 DEF Range
<1>7. Range(d) = S
  BY <1>3, <1>6 DEF Range
<1>8. d = Descending(S)
  BY <1>a, <1>c, <1>d DEF Descending
<1> QED BY <1>4, <1>5, <1>7, <1>8
(* A module's dependencies are as many as the names it imports: different  *)
(* names are different modules.                                            *)
LEMMA DepsCounted ==
    ASSUME Typed, Dependencies, NEW v \in ModuleIds,
           \A k \in DOMAIN Imports(v) : Named(Imports(v)[k]) # {}
    PROVE  IsFiniteSet(Deps(v)) /\ Cardinality(Deps(v)) = Len(Imports(v))
<1>im. PICK im \in Seq(Names) : im = Imports(v)
  <2>1. modules_[v] \in ModuleRecs
    BY ModuleTypes
  <2> QED BY <2>1 DEF ModuleRecs, Imports
<1>n. PICK n \in Nat : n = Len(im)
  OBVIOUS
<1>1. \A k \in 1..n : getModule(im[k]) \in ModuleIds /\ modules_[getModule(im[k])].name = im[k]
  BY <1>im, <1>n, NamedTypes
<1>2. \A j, k \in 1..n : im[j] = im[k] => j = k
  BY <1>im, <1>n DEF Dependencies
<1> DEFINE M == [k \in 1..n |-> getModule(im[k])]
           D == Deps(v)
<1>3. D = {d \in ModuleIds : \E k \in 1..n : getModule(im[k]) = d}
  BY <1>im, <1>n DEF Deps, DependsOn
<1>4. \A k \in 1..n : M[k] = getModule(im[k]) /\ M[k] \in D
  BY <1>1, <1>3
<1>5. M \in [1..n -> D]
  BY <1>1, <1>3
<1>6. \A d \in D : \E k \in 1..n : M[k] = d
  BY <1>3
<1>7. ASSUME NEW j \in 1..n, NEW k \in 1..n, M[j] = M[k] PROVE j = k
  <2>1. im[j] = im[k]
    BY <1>1, <1>7
  <2> QED BY <1>2, <2>1
<1> HIDE DEF M, D
<1>8. M \in Bijection(1..n, D)
  BY <1>5, <1>6, <1>7 DEF Bijection, Injection, Surjection, IsInjective
<1>9. IsFiniteSet(1..n) /\ Cardinality(1..n) = n
  <2>1. IsFiniteSet(1..n) /\ Cardinality(1..n) = IF 1 > n THEN 0 ELSE n - 1 + 1
    BY FS_Interval
  <2> QED BY <2>1
<1>10. IsFiniteSet(D) /\ Cardinality(D) = n
  BY <1>8, <1>9, FS_Bijection DEF ExistsBijection
<1> QED BY <1>10, <1>im, <1>n DEF D

(* Only finitely many modules depend on one. *)
LEMMA DepsFinite ==
    ASSUME Typed, NEW v
    PROVE  IsFiniteSet(Deps(v)) /\ IsFiniteSet(ModuleIds) /\ Deps(v) \subseteq ModuleIds
<1>1. IsFiniteSet(ModuleIds)
  BY ModuleTypes, FS_Interval DEF ModuleIds
<1>2. Deps(v) \in SUBSET ModuleIds
  BY DEF Deps
<1> QED BY <1>1, <1>2, FS_Subset

(* The steps of the sort but its last leave the modules as they are. *)
LEMMA SortKeeps ==
    ASSUME IInv, phase = "sort",
           UNCHANGED <<prog, modules_, frames, current_module_, module_ptr, aliases, phase>>,
           Sorting'
    PROVE  IInv'
<1>0. Typed /\ LoadedOnce /\ Resolved /\ Dependencies /\ Settled
  BY DEF IInv
<1>1. /\ Typed' /\ LoadedOnce' /\ Resolved' /\ Dependencies' /\ Known' = Known
      /\ \A f : Done(f)' = Done(f)
  <2>1. frames' \in Seq(FrameRecs) /\ current_module_' \in Names /\ Named(current_module_') # {}
    BY <1>0 DEF Typed
  <2> QED BY <1>0, <2>1, KeptModules
<1>2. Settled'
  BY <1>0, <1>1 DEF Settled
<1>3. (Walking /\ FailsOnlyWhenBroken /\ AcyclicOrder)'
  BY DEF Walking, FailsOnlyWhenBroken, AcyclicOrder
<1> QED BY <1>1, <1>2, <1>3 DEF IInv

(* The sort reads modules and dependencies that stay put. *)
LEMMA SortFixed ==
    ASSUME modules_' = modules_
    PROVE  ModuleIds' = ModuleIds /\ \A v : Deps(v)' = Deps(v)
<1>1. ModuleIds' = ModuleIds /\ \A v : Imports(v)' = Imports(v)
  BY DEF ModuleIds, Imports
<1>2. \A v, d : DependsOn(v, d)' = DependsOn(v, d)
  BY <1>1 DEF DependsOn, getModule, Named, First
<1> QED BY <1>1, <1>2 DEF Deps

(* The in-degrees and the first queue of the sort. *)
LEMMA StartingStep ==
    ASSUME IInv, SortStart
    PROVE  IInv'
<1>0. /\ Typed /\ LoadedOnce /\ Dependencies /\ Sorting /\ phase = "sort" /\ indeg = <<>>
      /\ \A i \in ModuleIds : \A k \in DOMAIN Imports(i) : Named(Imports(i)[k]) # {}
      /\ indeg' = [i \in ModuleIds |-> Len(Imports(i))]
      /\ queue' = Ascending({i \in ModuleIds : Imports(i) = <<>>})
      /\ UNCHANGED <<prog, modules_, frames, current_module_, module_ptr, aliases, phase, sorted>>
  BY DEF IInv, SortStart
<1>1. sorted' = <<>>
  BY <1>0 DEF Sorting
<1>2. /\ ModuleIds' = ModuleIds /\ \A v : Deps(v)' = Deps(v)
  BY <1>0, SortFixed
<1>3. ModuleIds \in SUBSET Nat /\ IsFiniteSet(ModuleIds) /\ ModuleIds # {}
  <2>1. Root \in Known
    BY <1>0 DEF LoadedOnce
  <2>2. ModuleIds # {}
    BY <2>1, ByFilenameTypes
  <2> QED BY <1>0, <2>2, DepsFinite DEF ModuleIds
<1> DEFINE S == {i \in ModuleIds : Imports(i) = <<>>}
<1>4. /\ queue' \in Seq(S) /\ IsInjective(queue') /\ Range(queue') = S
  <2>1. S \in SUBSET Nat /\ IsFiniteSet(S) /\ queue' = Ascending(S)
    BY <1>0, <1>3, FS_Subset
  <2> HIDE DEF S
  <2> QED BY <2>1, AscendingLists
<1>5. queue' \in Seq(ModuleIds)
  BY <1>4, SeqMonotonic
<1>6. \A j, k \in 1..Len(queue') : queue'[j] = queue'[k] => j = k
  BY <1>4, <1>5 DEF IsInjective
<1>7. \A v \in ModuleIds : Len(Imports(v)) \in Nat /\ (Len(Imports(v)) = 0 <=> Imports(v) = <<>>)
  <2> TAKE v \in ModuleIds
  <2>1. Imports(v) \in Seq(Names)
    BY <1>0, ModuleTypes DEF ModuleRecs, Imports
  <2> QED BY <2>1
<1>8. /\ indeg' \in [ModuleIds -> Nat] /\ indeg' # <<>>
      /\ \A v \in ModuleIds : indeg'[v] = Len(Imports(v))
  <2>1. indeg' \in [ModuleIds -> Nat] /\ \A v \in ModuleIds : indeg'[v] = Len(Imports(v))
    BY <1>0, <1>7
  <2>2. DOMAIN indeg' = ModuleIds /\ DOMAIN <<>> = {}
    BY <2>1
  <2> QED BY <1>3, <2>1, <2>2
<1>9. Range(sorted') = {} /\ Len(sorted') = 0 /\ sorted' \in Seq(ModuleIds)
  BY <1>1 DEF Range
<1>10. ASSUME NEW v \in ModuleIds
       PROVE  /\ indeg'[v] = Cardinality(Deps(v) \ Range(sorted'))
              /\ indeg'[v] = 0 <=> v \in Range(sorted') \cup Range(queue')
  <2>1. Cardinality(Deps(v)) = Len(Imports(v))
    BY <1>0, DepsCounted
  <2>2. Deps(v) \ Range(sorted') = Deps(v)
    BY <1>9
  <2>3. v \in Range(sorted') \cup Range(queue') <=> Imports(v) = <<>>
    BY <1>4, <1>9
  <2> QED BY <1>7, <1>8, <2>1, <2>2, <2>3
<1>11. Sorting'
  BY <1>2, <1>5, <1>6, <1>8, <1>9, <1>10 DEF Sorting
<1> QED BY <1>0, <1>11, SortKeeps

(* Joining sequences without repetition that share nothing. *)
LEMMA ConcatInjective ==
    ASSUME NEW S, NEW s \in Seq(S), NEW t \in Seq(S), IsInjective(s), IsInjective(t),
           Range(s) \cap Range(t) = {}
    PROVE  IsInjective(s \o t)
<1>m. PICK m \in Nat, n \in Nat : m = Len(s) /\ n = Len(t)
  OBVIOUS
<1>q. PICK q : q = s \o t
  OBVIOUS
<1>1. /\ q \in Seq(S) /\ Len(q) = m + n /\ DOMAIN q = 1..m + n
      /\ \A i \in 1..m + n : q[i] = IF i <= m THEN s[i] ELSE t[i - m]
  <2>1. /\ q \in Seq(S) /\ Len(q) = m + n
        /\ \A i \in 1..m + n : q[i] = IF i <= m THEN s[i] ELSE t[i - m]
    BY <1>m, <1>q, ConcatProperties
  <2> QED BY <2>1
<1>2. DOMAIN s = 1..m /\ DOMAIN t = 1..n
  BY <1>m
<1>3. \A i \in 1..m + n : i <= m => i \in 1..m /\ q[i] = s[i] /\ q[i] \in Range(s)
  <2>1. \A i \in 1..m + n : i <= m => i \in 1..m
    OBVIOUS
  <2> QED BY <1>1, <1>2, <2>1 DEF Range
<1>4. \A i \in 1..m + n : ~(i <= m) => i - m \in 1..n /\ q[i] = t[i - m] /\ q[i] \in Range(t)
  <2>1. \A i \in 1..m + n : ~(i <= m) => i - m \in 1..n
    OBVIOUS
  <2> QED BY <1>1, <1>2, <2>1 DEF Range
<1>5. ASSUME NEW j \in 1..m + n, NEW k \in 1..m + n, q[j] = q[k] PROVE j = k
  <2>1. CASE j <= m /\ k <= m
    BY <1>2, <1>3, <1>5, <2>1 DEF IsInjective
  <2>2. CASE ~(j <= m) /\ ~(k <= m)
    <3>1. t[j - m] = t[k - m] /\ j - m \in 1..n /\ k - m \in 1..n
      BY <1>4, <1>5, <2>2
    <3>2. j - m = k - m
      BY <1>2, <3>1 DEF IsInjective
    <3> QED BY <3>2
  <2>3. CASE (j <= m) # (k <= m)
    BY <1>3, <1>4, <1>5, <2>3
  <2> QED BY <2>1, <2>2, <2>3
<1> QED BY <1>1, <1>5, <1>q DEF IsInjective

(* The sort takes a module from the queue and frees others. *)
LEMMA TakingStep ==
    ASSUME IInv, SortTake
    PROVE  IInv'
<1>u. PICK u : u = Head(queue)
  OBVIOUS
<1> DEFINE deps  == {v \in ModuleIds : DependsOn(v, u)}
           freed == {v \in deps : indeg[v] = 1}
<1>0. /\ Typed /\ Sorting /\ phase = "sort" /\ queue # <<>>
      /\ sorted' = Append(sorted, u)
      /\ indeg' = [v \in ModuleIds |-> IF v \in deps THEN indeg[v] - 1 ELSE indeg[v]]
      /\ queue' = Tail(queue) \o Descending(freed)
      /\ UNCHANGED <<prog, modules_, frames, current_module_, module_ptr, aliases, phase>>
  BY <1>u DEF IInv, SortTake
<1>1. /\ ModuleIds' = ModuleIds /\ \A v : Deps(v)' = Deps(v)
  BY <1>0, SortFixed
<1>2. /\ sorted \in Seq(ModuleIds) /\ queue \in Seq(ModuleIds)
      /\ \A j, k \in 1..Len(sorted) : sorted[j] = sorted[k] => j = k
      /\ \A j, k \in 1..Len(queue) : queue[j] = queue[k] => j = k
      /\ Range(sorted) \cap Range(queue) = {}
      /\ indeg \in [ModuleIds -> Nat]
      /\ \A v \in ModuleIds : /\ indeg[v] = Cardinality(Deps(v) \ Range(sorted))
                              /\ indeg[v] = 0 <=> v \in Range(sorted) \cup Range(queue)
      /\ \A k \in 1..Len(sorted) : \A d \in Deps(sorted[k]) : \E j \in 1..k - 1 : sorted[j] = d
  BY <1>0 DEF Sorting
<1>3. ModuleIds \in SUBSET Nat /\ IsFiniteSet(ModuleIds) /\ \A v : IsFiniteSet(Deps(v))
  BY <1>0, DepsFinite DEF ModuleIds
<1>4. \A v \in ModuleIds : v \in deps <=> u \in Deps(v)
  <2>1. u \in ModuleIds
    BY <1>0, <1>2, <1>u, HeadTailProperties
  <2> QED BY <2>1 DEF Deps
<1>t. PICK t : t = Tail(queue)
  OBVIOUS
<1>5. /\ u \in ModuleIds /\ t \in Seq(ModuleIds)
      /\ Range(queue) = {u} \cup Range(t) /\ u \notin Range(t)
      /\ \A j, k \in 1..Len(t) : t[j] = t[k] => j = k
  <2>n. PICK n \in Nat : n = Len(t)
    <3>1. Tail(queue) \in Seq(ModuleIds)
      BY <1>0, <1>2, HeadTailProperties
    <3> QED BY <1>t, <3>1
  <2>1. /\ u \in ModuleIds /\ t \in Seq(ModuleIds) /\ Len(queue) = n + 1 /\ DOMAIN t = 1..n
        /\ \A k \in 1..n : t[k] = queue[k + 1]
        /\ queue[1] = u /\ DOMAIN queue = 1..n + 1
    <3>1. /\ Head(queue) \in ModuleIds
          /\ Tail(queue) \in Seq(ModuleIds)
          /\ Len(Tail(queue)) = Len(queue) - 1
          /\ \A i \in 1 .. Len(Tail(queue)) : Tail(queue)[i] = queue[i+1]
      BY <1>0, <1>2, HeadTailProperties
    <3>2. Len(queue) \in Nat /\ DOMAIN queue = 1..Len(queue) /\ Head(queue) = queue[1]
      BY <1>2
    <3>3. \A l \in Nat : n = l - 1 => l = n + 1
      OBVIOUS
    <3>4. Len(queue) = n + 1
      BY <3>1, <3>2, <3>3, <1>t, <2>n
    <3> QED BY <3>1, <3>2, <3>4, <1>t, <1>u, <2>n
  <2>2. \A k \in 1..n : k + 1 \in 1..n + 1 /\ k + 1 # 1
    OBVIOUS
  <2>3. \A k \in 1..n + 1 : k # 1 => k - 1 \in 1..n /\ (k - 1) + 1 = k
    OBVIOUS
  <2>4. 1 \in 1..n + 1
    OBVIOUS
  <2>5. Range(t) = {t[k] : k \in 1..n} /\ Range(queue) = {queue[k] : k \in 1..n + 1}
    BY <2>1 DEF Range
  <2>6. \A x \in Range(t) : x \in Range(queue) /\ x # u
    BY <1>2, <2>1, <2>2, <2>4, <2>5
  <2>7. \A x \in Range(queue) : x = u \/ x \in Range(t)
    <3>1. ASSUME NEW k \in 1..n + 1, k # 1 PROVE queue[k] \in Range(t)
      <4>1. k - 1 \in 1..n /\ (k - 1) + 1 = k
        BY <2>3, <3>1
      <4>2. t[k - 1] = queue[k]
        BY <2>1, <4>1
      <4> QED BY <2>5, <4>1, <4>2
    <3> QED BY <2>1, <2>5, <3>1
  <2>8. u \in Range(queue)
    BY <2>1, <2>4, <2>5
  <2>9. ASSUME NEW j \in 1..n, NEW k \in 1..n, t[j] = t[k] PROVE j = k
    <3>1. /\ queue[j + 1] = queue[k + 1]
          /\ j + 1 \in 1..Len(queue) /\ k + 1 \in 1..Len(queue)
      BY <2>1, <2>2, <2>9
    <3>2. j + 1 = k + 1
      BY <1>2, <3>1
    <3> QED BY <3>2
  <2> QED BY <2>1, <2>6, <2>7, <2>8, <2>9, <2>n
<1>6. u \notin Range(sorted) /\ indeg[u] = 0
  BY <1>2, <1>5
<1>7. /\ sorted' \in Seq(ModuleIds) /\ Range(sorted') = Range(sorted) \cup {u}
      /\ \A j, k \in 1..Len(sorted') : sorted'[j] = sorted'[k] => j = k
  <2>1. \A j, k \in DOMAIN sorted : sorted[j] = sorted[k] => j = k
    BY <1>2
  <2>2. /\ Range(sorted') = Range(sorted) \cup {u}
        /\ \A j, k \in DOMAIN sorted' : sorted'[j] = sorted'[k] => j = k
    <3> HIDE DEF deps, freed
    <3>1. sorted \in Seq(ModuleIds) /\ u \in ModuleIds /\ u \notin Range(sorted)
      BY <1>2, <1>5, <1>6
    <3>2. PICK s : s = Append(sorted, u)
      OBVIOUS
    <3>3. /\ Range(s) = Range(sorted) \cup {u}
          /\ \A j, k \in DOMAIN s : s[j] = s[k] => j = k
      BY <2>1, <3>1, <3>2, AppendRange
    <3>4. sorted' = s
      BY <1>0, <3>2
    <3> QED BY <3>3, <3>4
  <2>3. sorted' \in Seq(ModuleIds)
    BY <1>0, <1>2, <1>5
  <2> QED BY <2>2, <2>3
<1>d. PICK ds : ds = Descending(freed)
  OBVIOUS
<1>8. ds \in Seq(ModuleIds) /\ ds \in Seq(freed) /\ IsInjective(ds) /\ Range(ds) = freed
  <2>1. freed \in SUBSET ModuleIds
    OBVIOUS
  <2> HIDE DEF freed
  <2>2. freed \in SUBSET Nat /\ IsFiniteSet(freed)
    BY <1>3, <2>1, FS_Subset
  <2>3. ds \in Seq(freed) /\ IsInjective(ds) /\ Range(ds) = freed
    BY <1>d, <2>2, DescendingLists
  <2> QED BY <2>1, <2>3, SeqMonotonic
<1>9. \A v \in freed : v \in ModuleIds /\ indeg[v] = 1 /\ v # u /\ v \notin Range(sorted) \cup Range(queue)
  <2>1. \A v \in freed : v \in ModuleIds /\ indeg[v] = 1
    OBVIOUS
  <2> HIDE DEF freed
  <2>2. \A v \in ModuleIds : indeg[v] = 1 => v \notin Range(sorted) \cup Range(queue)
    <3>1. \A x : x = 1 => ~(x = 0)
      OBVIOUS
    <3> QED BY <1>2, <3>1
  <2>3. indeg[u] # 1
    BY <1>6
  <2> QED BY <2>1, <2>2, <2>3
<1> HIDE DEF freed
<1>10. /\ queue' \in Seq(ModuleIds) /\ Range(queue') = Range(t) \cup freed
       /\ \A j, k \in 1..Len(queue') : queue'[j] = queue'[k] => j = k
  <2>1. queue' = t \o ds
    BY <1>0, <1>t, <1>d
  <2>2. queue' \in Seq(ModuleIds) /\ Range(queue') = Range(t) \cup freed
    BY <1>5, <1>8, <2>1, ConcatProperties, RangeConcatenation
  <2>3. IsInjective(t)
    BY <1>5 DEF IsInjective
  <2>4. Range(t) \cap Range(ds) = {}
    BY <1>5, <1>8, <1>9
  <2>5. IsInjective(queue')
    BY <1>5, <1>8, <2>1, <2>3, <2>4, ConcatInjective
  <2> QED BY <2>2, <2>5 DEF IsInjective
<1>11. Range(sorted') \cap Range(queue') = {}
  BY <1>2, <1>5, <1>7, <1>9, <1>10
<1>12. ASSUME NEW v \in ModuleIds
       PROVE  /\ indeg'[v] \in Nat
              /\ indeg'[v] = Cardinality(Deps(v) \ Range(sorted'))
              /\ indeg'[v] = 0 <=> indeg[v] = 0 \/ v \in freed
  <2>r. PICK r : r = Deps(v) \ Range(sorted)
    OBVIOUS
  <2>1. IsFiniteSet(r) /\ Cardinality(r) = indeg[v] /\ indeg[v] \in Nat
    BY <1>2, <1>3, <2>r, FS_Difference
  <2>2. Deps(v) \ Range(sorted') = r \ {u}
    BY <1>7, <2>r
  <2>3. Cardinality(r \ {u}) = IF u \in r THEN Cardinality(r) - 1 ELSE Cardinality(r)
    BY <2>1, FS_RemoveElement
  <2>4. v \in deps <=> u \in r
    BY <1>4, <1>6, <2>r
  <2>5. indeg'[v] = IF u \in r THEN indeg[v] - 1 ELSE indeg[v]
    BY <1>0, <2>4
  <2>6. u \in r => indeg[v] # 0
    BY <2>1, FS_EmptySet
  <2>7. v \in freed <=> u \in r /\ indeg[v] = 1
    BY <2>4 DEF freed
  <2>8. indeg'[v] = Cardinality(Deps(v) \ Range(sorted'))
    BY <2>1, <2>2, <2>3, <2>5
  <2>9. indeg'[v] \in Nat /\ (indeg'[v] = 0 <=> indeg[v] = 0 \/ v \in freed)
    <3>1. CASE u \in r
      BY <2>1, <2>5, <2>6, <2>7, <3>1
    <3>2. CASE u \notin r
      BY <2>1, <2>5, <2>7, <3>2
    <3> QED BY <3>1, <3>2
  <2> QED BY <2>8, <2>9
<1>13. \A v \in ModuleIds : indeg'[v] = 0 <=> v \in Range(sorted') \cup Range(queue')
  <2>1. Range(sorted') \cup Range(queue') = (Range(sorted) \cup Range(queue)) \cup freed
    BY <1>5, <1>7, <1>10
  <2> QED BY <1>2, <1>12, <2>1
<1>14. indeg' \in [ModuleIds -> Nat] /\ indeg' # <<>>
  <2> HIDE DEF deps
  <2>1. DOMAIN indeg' = ModuleIds /\ indeg' = [v \in ModuleIds |-> indeg'[v]]
    BY <1>0
  <2>2. indeg' \in [ModuleIds -> Nat]
    BY <1>12, <2>1
  <2>3. DOMAIN <<>> = {}
    OBVIOUS
  <2> QED BY <1>5, <2>1, <2>2, <2>3
<1>15. \A k \in 1..Len(sorted') : \A d \in Deps(sorted'[k]) : \E j \in 1..k - 1 : sorted'[j] = d
  <2>n. PICK n \in Nat : n = Len(sorted)
    BY <1>2
  <2>1. /\ Len(sorted') = n + 1 /\ sorted'[n + 1] = u /\ \A k \in 1..n : sorted'[k] = sorted[k]
        /\ DOMAIN sorted = 1..n
    BY <1>0, <1>2, <1>5, <2>n
  <2>2. ASSUME NEW k \in 1..n, NEW d \in Deps(sorted'[k])
        PROVE  \E j \in 1..k - 1 : sorted'[j] = d
    <3>1. PICK j \in 1..k - 1 : sorted[j] = d
      BY <1>2, <2>1, <2>2, <2>n
    <3>2. j \in 1..n
      BY <3>1
    <3> QED BY <2>1, <3>1, <3>2
  <2>3. ASSUME NEW d \in Deps(u) PROVE \E j \in 1..n : sorted'[j] = d
    <3>1. IsFiniteSet(Deps(u) \ Range(sorted)) /\ Cardinality(Deps(u) \ Range(sorted)) = 0
      BY <1>2, <1>3, <1>5, <1>6, FS_Difference
    <3>2. d \in Range(sorted)
      BY <3>1, FS_EmptySet
    <3>3. PICK j \in 1..n : sorted[j] = d
      BY <2>1, <3>2 DEF Range
    <3> QED BY <2>1, <3>3
  <2>4. ASSUME NEW k \in 1..n + 1, NEW d \in Deps(sorted'[k])
        PROVE  \E j \in 1..k - 1 : sorted'[j] = d
    <3>1. CASE k = n + 1
      <4>1. d \in Deps(u) /\ k - 1 = n
        BY <2>1, <2>4, <3>1
      <4> QED BY <2>3, <4>1
    <3>2. CASE k # n + 1
      <4>1. k \in 1..n
        BY <3>2
      <4> QED BY <2>2, <2>4, <4>1
    <3> QED BY <3>1, <3>2
  <2> QED BY <2>1, <2>4
<1>16. Sorting'
  BY <1>1, <1>7, <1>10, <1>11, <1>12, <1>13, <1>14, <1>15 DEF Sorting
<1> QED BY <1>0, <1>16, SortKeeps
(* With distinct names a module depends on the files it imports. *)
LEMMA DepsAre ==
    ASSUME Typed, LoadedOnce, Resolved, Dependencies, \A f \in Known : Done(f),
           NamesDistinct, NEW f \in Program
    PROVE  Deps(IdOf(f)) = {IdOf(g) : g \in DiskTargets(f)} /\ IdOf(f) \in ModuleIds
<1>1. /\ Known = Program /\ Range(module_ptr[f]) = DiskTargets(f)
      /\ prog \in Programs /\ Known \subseteq Files
  BY AllLoaded DEF Typed, Known
<1>2. DiskTargets(f) \subseteq Program
  BY <1>1, ProgramClosed
<1>3. ASSUME NEW g \in Program
      PROVE  /\ Named(NameOf[g]) # {} /\ getModule(NameOf[g]) = IdOf(g)
             /\ IdOf(g) \in ModuleIds /\ modules_[IdOf(g)].filename = g
  <2>1. Named(NameOf[g]) # {}
    BY <1>1, NameKnown
  <2>m. PICK m : m = getModule(NameOf[g])
    OBVIOUS
  <2>2. m \in ModuleIds /\ modules_[m].name = NameOf[g]
    BY <2>1, <2>m, NamedTypes
  <2>3. m \in FileModules
    BY <2>2 DEF LoadedOnce, NamesDistinct
  <2>4. modules_[m].filename \in Program /\ NameOf[modules_[m].filename] = NameOf[g]
    BY <1>1, <2>2, <2>3, ModuleTypes DEF LoadedOnce
  <2>5. modules_[m].filename = g
    BY <2>4 DEF NamesDistinct
  <2>6. IdOf(g) \in ModuleIds /\ modules_[IdOf(g)].filename = g
    BY <1>1, ByFilenameTypes
  <2>7. m = IdOf(g)
    BY <2>2, <2>5, <2>6 DEF LoadedOnce
  <2> QED BY <2>1, <2>6, <2>7, <2>m
<1>i. PICK i \in ModuleIds : i = IdOf(f) /\ modules_[i].filename = f
  BY <1>3
<1>4. i \in FileModules
  BY <1>1, <1>i, ModuleTypes
<1>5. Range(Imports(i)) = {NameOf[g] : g \in DiskTargets(f)}
  BY <1>1, <1>4, <1>i DEF Dependencies
<1>6. Deps(i) = {d \in ModuleIds : \E n \in Range(Imports(i)) : getModule(n) = d}
  BY DEF Deps, DependsOn, Range
<1>7. \A d : d \in Deps(i) <=> \E g \in DiskTargets(f) : d = IdOf(g)
  BY <1>2, <1>3, <1>5, <1>6
<1> QED BY <1>7, <1>i

(* What a file reaches, its imports reach no more. *)
LEMMA ReachesShrinks ==
    ASSUME NEW f \in Files, NEW g \in DiskTargets(f), g \in Files
    PROVE  g \in Reaches(f) /\ Reaches(g) \subseteq Reaches(f)
<1>1. g \in Reaches(f)
  BY DEF Reaches
<1>2. ASSUME NEW h \in Reaches(g)
      PROVE  h \in Reaches(f)
  <2>1. h \in Files /\ \A S \in SUBSET Files : DiskTargets(g) \subseteq S /\ Closed(S) => h \in S
    BY DEF Reaches
  <2>2. ASSUME NEW S \in SUBSET Files, DiskTargets(f) \subseteq S, Closed(S)
        PROVE  h \in S
    <3>1. DiskTargets(g) \subseteq S
      BY <2>2 DEF Closed
    <3> QED BY <2>1, <2>2, <3>1
  <2> QED BY <2>1, <2>2 DEF Reaches
<1> QED BY <1>1, <1>2

(* Only finitely many files are known. *)
LEMMA KnownFinite ==
    ASSUME Typed
    PROVE  IsFiniteSet(Known)
<1> DEFINE file == [i \in FileModules |-> modules_[i].filename]
<1>1. file \in [FileModules -> Known] /\ \A f \in Known : \E i \in FileModules : file[i] = f
  BY ModuleTypes
<1>2. IsFiniteSet(FileModules)
  <2>1. IsFiniteSet(ModuleIds) /\ FileModules \in SUBSET ModuleIds
    BY DepsFinite DEF FileModules
  <2> QED BY <2>1, FS_Subset
<1> HIDE DEF file
<1>3. file \in Surjection(FileModules, Known)
  BY <1>1 DEF Surjection
<1> QED BY <1>2, <1>3, FS_Surjection

(* Without cycles the sort takes every file: of those not taken, one that  *)
(* reaches least would still import another.                               *)
LEMMA AllTaken ==
    ASSUME IInv, phase = "sort", indeg # <<>>, queue = <<>>, ~Cyclic, NamesDistinct
    PROVE  \A f \in Program : IdOf(f) \in Range(sorted)
<1>0. /\ Typed /\ LoadedOnce /\ Resolved /\ Dependencies /\ \A f \in Known : Done(f)
      /\ prog \in Programs
  BY DEF IInv, Settled, Typed
<1>1. Program = Known /\ IsFiniteSet(Program) /\ Program \subseteq Files
  BY <1>0, AllLoaded, KnownFinite, ProgramClosed
<1> DEFINE Left == {f \in Program : IdOf(f) \notin Range(sorted)}
           Height(f) == Cardinality(Reaches(f) \cap Program)
           Heights == {Height(f) : f \in Left}
<1>2. \A f : IsFiniteSet(Reaches(f) \cap Program) /\ Height(f) \in Nat
  <2> TAKE f
  <2>1. Reaches(f) \cap Program \in SUBSET Program
    OBVIOUS
  <2>2. IsFiniteSet(Reaches(f) \cap Program)
    BY <1>1, <2>1, FS_Subset
  <2> QED BY <2>2, FS_CardinalityType
<1>3. ASSUME NEW f \in Left
      PROVE  \E g \in Left : Height(g) < Height(f)
  <2>1. f \in Program /\ IdOf(f) \notin Range(sorted) /\ IdOf(f) \in ModuleIds
        /\ Deps(IdOf(f)) = {IdOf(g) : g \in DiskTargets(f)}
    BY <1>0, DepsAre
  <2>2. Deps(IdOf(f)) \ Range(sorted) # {}
    <3>1. Range(queue) = {}
      BY DEF Range
    <3>2. /\ indeg[IdOf(f)] = Cardinality(Deps(IdOf(f)) \ Range(sorted))
          /\ indeg[IdOf(f)] # 0
      BY <2>1, <3>1 DEF IInv, Sorting
    <3> QED BY <3>2, FS_EmptySet
  <2>3. PICK g \in DiskTargets(f) : IdOf(g) \notin Range(sorted)
    BY <2>1, <2>2
  <2>4. g \in Program /\ g \in Files /\ f \in Files
    BY <1>0, <1>1, <2>1, ProgramClosed
  <2>5. g \in Reaches(f) /\ Reaches(g) \subseteq Reaches(f) /\ g \notin Reaches(g)
    BY <2>4, ReachesShrinks DEF Cyclic
  <2> DEFINE A == Reaches(g) \cap Program
             B == Reaches(f) \cap Program
  <2>6. A \in SUBSET B /\ g \in B /\ g \notin A /\ IsFiniteSet(B)
    BY <1>2, <2>4, <2>5
  <2>7. Cardinality(A) = Height(g) /\ Cardinality(B) = Height(f)
    OBVIOUS
  <2>8. Height(g) \in Nat /\ Height(f) \in Nat
    BY <1>2
  <2> HIDE DEF A, B, Height
  <2>9. Cardinality(A) <= Cardinality(B) /\ Cardinality(A) # Cardinality(B)
    BY <2>6, FS_Subset
  <2>10. \A x, y \in Nat : x <= y /\ x # y => x < y
    OBVIOUS
  <2>11. Height(g) < Height(f)
    BY <2>7, <2>8, <2>9, <2>10
  <2> QED BY <2>3, <2>4, <2>11
<1>4. Left = {}
  <2> SUFFICES ASSUME Left # {} PROVE FALSE
    OBVIOUS
  <2>1. Heights \in SUBSET Nat /\ Heights # {}
    BY <1>2
  <2> HIDE DEF Height, Left
  <2>2. PICK f \in Left : Height(f) = First(Heights)
    <3>1. First(Heights) \in Heights
      <4> HIDE DEF Heights
      <4> QED BY <2>1, FirstExists
    <3> QED BY <3>1
  <2>3. \A h \in Heights : First(Heights) <= h
    <3> HIDE DEF Heights
    <3> QED BY <2>1, FirstExists
  <2>4. PICK g \in Left : Height(g) < Height(f)
    BY <1>3
  <2>5. Height(f) <= Height(g) /\ Height(f) \in Nat /\ Height(g) \in Nat
    BY <1>2, <2>2, <2>3
  <2> QED BY <2>4, <2>5
<1> QED BY <1>4

(* The sorted list holds the modules there were, each once. *)
LEMMA OrderLists ==
    ASSUME Typed, NEW s \in Seq(ModuleIds), IsInjective(s),
           NEW order, order = s \o Ascending(ModuleIds \ Range(s))
    PROVE  /\ order \in Seq(ModuleIds) /\ IsInjective(order) /\ Range(order) = ModuleIds
           /\ Len(s) <= Len(order) /\ \A k \in 1..Len(s) : order[k] = s[k]
<1> DEFINE R == ModuleIds \ Range(s)
<1>1. R \in SUBSET Nat /\ IsFiniteSet(R) /\ R \subseteq ModuleIds
  BY DepsFinite, FS_Subset DEF ModuleIds
<1>2. Range(s) \cap R = {} /\ Range(s) \cup R = ModuleIds
  BY DEF Range
<1> HIDE DEF R
<1>a. PICK a : a = Ascending(R)
  OBVIOUS
<1>3. a \in Seq(ModuleIds) /\ IsInjective(a) /\ Range(a) = R
  <2>1. a \in Seq(R) /\ IsInjective(a) /\ Range(a) = R
    BY <1>1, <1>a, AscendingLists
  <2> QED BY <1>1, <2>1, SeqMonotonic
<1>4. order = s \o a
  BY <1>a DEF R
<1>5. IsInjective(order) /\ Range(order) = ModuleIds
  <2>1. Range(s) \cap Range(a) = {}
    BY <1>2, <1>3
  <2>2. IsInjective(s \o a)
    BY <1>3, <2>1, ConcatInjective
  <2>3. Range(s \o a) = Range(s) \cup Range(a)
    BY <1>3, RangeConcatenation
  <2> QED BY <1>2, <1>3, <1>4, <2>2, <2>3
<1>m. PICK m \in Nat, n \in Nat : m = Len(s) /\ n = Len(a)
  BY <1>3
<1>6. /\ order \in Seq(ModuleIds) /\ Len(order) = m + n
      /\ \A k \in 1..m + n : order[k] = IF k <= m THEN s[k] ELSE a[k - m]
  <2>1. /\ s \o a \in Seq(ModuleIds) /\ Len(s \o a) = Len(s) + Len(a)
        /\ \A k \in 1..Len(s) + Len(a) : (s \o a)[k] = IF k <= Len(s) THEN s[k] ELSE a[k - Len(s)]
    BY <1>3, ConcatProperties
  <2> QED BY <1>4, <1>m, <2>1
<1>7. m <= m + n /\ \A k \in 1..m : k \in 1..m + n /\ k <= m
  OBVIOUS
<1>8. \A k \in 1..m : order[k] = s[k]
  BY <1>6, <1>7
<1> QED BY <1>5, <1>6, <1>7, <1>8, <1>m
(* The queue is empty: the sort is over. *)
LEMMA FinishingStep ==
    ASSUME IInv, SortFinish
    PROVE  IInv'
<1>0. /\ Typed /\ LoadedOnce /\ Resolved /\ Dependencies /\ Settled /\ Sorting
      /\ phase = "sort" /\ indeg # <<>> /\ queue = <<>> /\ phase' = "sorted"
      /\ UNCHANGED <<prog, frames, current_module_, module_ptr, aliases>>
  BY DEF IInv, SortFinish
<1>o. PICK order : order = sorted \o Ascending(ModuleIds \ Range(sorted))
  OBVIOUS
<1>1. modules_' = [k \in 1..Len(order) |-> modules_[order[k]]]
  BY <1>o DEF SortFinish, Range
<1>2. /\ order \in Seq(ModuleIds) /\ IsInjective(order) /\ Range(order) = ModuleIds
      /\ Len(sorted) <= Len(order) /\ \A k \in 1..Len(sorted) : order[k] = sorted[k]
  <2>1. sorted \in Seq(ModuleIds) /\ IsInjective(sorted)
    BY <1>0 DEF Sorting, IsInjective
  <2> QED BY <1>0, <1>o, <2>1, OrderLists
<1>3. /\ modules_' \in Seq(ModuleRecs) /\ Len(modules_') = Len(order)
      /\ ModuleIds' = 1..Len(order) /\ DOMAIN order = ModuleIds'
      /\ \A k \in ModuleIds' : modules_'[k] = modules_[order[k]] /\ order[k] \in ModuleIds
      /\ \A i \in ModuleIds : \E k \in ModuleIds' : order[k] = i
  <2>n. PICK n \in Nat : n = Len(order)
    BY <1>2
  <2>1. \A k \in 1..n : order[k] \in ModuleIds /\ modules_[order[k]] \in ModuleRecs
    BY <1>0, <1>2, <2>n, ModuleTypes
  <2>2. modules_' \in [1..n -> ModuleRecs] /\ \A k \in 1..n : modules_'[k] = modules_[order[k]]
    BY <1>1, <2>n, <2>1
  <2>3. modules_' \in Seq(ModuleRecs) /\ Len(modules_') = n
    BY <2>2
  <2>4. ModuleIds' = 1..n /\ DOMAIN order = 1..n
    BY <1>2, <2>3, <2>n DEF ModuleIds
  <2>5. \A i \in ModuleIds : \E k \in 1..n : order[k] = i
    BY <1>2, <2>4 DEF Range
  <2> QED BY <2>1, <2>2, <2>3, <2>4, <2>5, <2>n
<1>4. /\ \A k \in ModuleIds' : k \in FileModules' <=> order[k] \in FileModules
      /\ \A k \in ModuleIds' : Imports(k)' = Imports(order[k])
  BY <1>3 DEF FileModules, Imports
<1>5. Known' = Known
  <2>1. ASSUME NEW f PROVE ByFilename(f)' # {} <=> ByFilename(f) # {}
    <3>1. ASSUME NEW k \in ByFilename(f)' PROVE order[k] \in ByFilename(f)
      BY <1>3 DEF ByFilename
    <3>2. ASSUME NEW i \in ByFilename(f) PROVE \E k : k \in ByFilename(f)'
      BY <1>3 DEF ByFilename
    <3> QED BY <3>1, <3>2
  <2> QED BY <2>1 DEF Known
<1>6. Typed'
  <2>1. Named(current_module_)' # {}
    <3>1. PICK i \in ModuleIds : modules_[i].name = current_module_
      BY <1>0 DEF Typed, Named
    <3>2. PICK k \in ModuleIds' : modules_'[k] = modules_[i]
      BY <1>3
    <3> QED BY <1>0, <3>1, <3>2 DEF Named
  <2> QED BY <1>0, <1>3, <2>1 DEF Typed
<1>7. LoadedOnce'
  <2>1. ASSUME NEW i \in ModuleIds', NEW j \in ModuleIds',
               modules_'[i].filename = modules_'[j].filename
        PROVE  i = j
    <3>1. order[i] = order[j]
      BY <1>0, <1>3, <2>1 DEF LoadedOnce
    <3> QED BY <1>2, <1>3, <3>1 DEF IsInjective
  <2>2. ASSUME NEW i \in ModuleIds'
        PROVE  modules_'[i].name = IF i \in FileModules'
                                   THEN NameOf[modules_'[i].filename] ELSE Builtin
    <3>1. modules_[order[i]].name = IF order[i] \in FileModules
                                    THEN NameOf[modules_[order[i]].filename] ELSE Builtin
      BY <1>0, <1>3 DEF LoadedOnce
    <3> QED BY <1>3, <1>4, <3>1
  <2>3. \A i \in FileModules' : modules_'[i].ast
    <3>1. \A i \in FileModules' : i \in ModuleIds' /\ order[i] \in FileModules
      BY <1>4 DEF FileModules
    <3>2. \A i \in FileModules : modules_[i].ast
      BY <1>0 DEF LoadedOnce
    <3> QED BY <1>3, <3>1, <3>2
  <2>4. Root \in Known' /\ Known' \subseteq Program' /\ \A f \in Known' : prog'.disk[f] = "ok"
    BY <1>0, <1>5, ProgFixed DEF LoadedOnce
  <2> QED BY <2>1, <2>2, <2>3, <2>4 DEF LoadedOnce
<1>8. Resolved'
  BY <1>0, <1>5, ProgFixed DEF Resolved, ResolvedIn
<1>9. Dependencies'
  <2>1. ASSUME NEW k \in ModuleIds'
        PROVE  /\ \A i, j \in DOMAIN Imports(k)' : Imports(k)'[i] = Imports(k)'[j] => i = j
               /\ IF k \in FileModules'
                  THEN Range(Imports(k)') = {NameOf[g] : g \in Range(module_ptr'[modules_'[k].filename])}
                  ELSE Imports(k)' = <<>>
    <3>1. PICK o \in ModuleIds : o = order[k]
      BY <1>3
    <3>2. /\ Imports(k)' = Imports(o) /\ modules_'[k].filename = modules_[o].filename
          /\ module_ptr' = module_ptr /\ (k \in FileModules' <=> o \in FileModules)
      BY <1>0, <1>3, <1>4, <3>1
    <3>3. /\ \A i, j \in DOMAIN Imports(o) : Imports(o)[i] = Imports(o)[j] => i = j
          /\ IF o \in FileModules
             THEN Range(Imports(o)) = {NameOf[g] : g \in Range(module_ptr[modules_[o].filename])}
             ELSE Imports(o) = <<>>
      BY <1>0 DEF Dependencies
    <3> QED BY <3>2, <3>3
  <2> QED BY <2>1 DEF Dependencies
<1>10. (Walking /\ Settled /\ Sorting)'
  <2>1. \A f \in Known : Done(f)'
    BY <1>0, ProgFixed DEF Settled, Done
  <2> QED BY <1>0, <1>5, <2>1 DEF Walking, Settled, Sorting
<1>11. Known = Program /\ \A f \in Known : Done(f)
  BY <1>0, AllLoaded DEF Settled
<1>12. FailsOnlyWhenBroken'
  BY <1>0, <1>11, ProgFixed DEF FailsOnlyWhenBroken, LoadedOnce
<1>13. AcyclicOrder'
  <2> SUFFICES ASSUME ~Cyclic, NamesDistinct, NEW f \in Program, NEW g \in DiskTargets(f)
               PROVE  IdOf(g)' < IdOf(f)'
    BY <1>0, ProgFixed DEF AcyclicOrder
  <2>1. g \in Program
    BY <1>0, ProgramClosed DEF Typed
  <2>2. ASSUME NEW h \in Program, NEW k \in ModuleIds', order[k] = IdOf(h)
        PROVE  IdOf(h)' = k
    <3>1. modules_[IdOf(h)].filename = h
      BY <1>11, ByFilenameTypes
    <3>2. modules_'[k].filename = h
      BY <1>3, <2>2, <3>1
    <3>3. ByFilename(h)' # {}
      BY <3>2 DEF ByFilename
    <3>4. IdOf(h)' \in ModuleIds' /\ modules_'[IdOf(h)'].filename = h
      BY <3>3 DEF IdOf, ByFilename
    <3> QED BY <1>7, <3>2, <3>4 DEF LoadedOnce
  <2>n. PICK n \in Nat : n = Len(sorted) /\ DOMAIN sorted = 1..n /\ 1..n \subseteq ModuleIds'
    <3>1. Len(sorted) \in Nat /\ DOMAIN sorted = 1..Len(sorted) /\ Len(order) \in Nat
      BY <1>0, <1>2 DEF Sorting
    <3> QED BY <1>2, <1>3, <3>1
  <2>3. PICK k \in 1..n : sorted[k] = IdOf(f)
    <3>1. IdOf(f) \in Range(sorted)
      BY <1>0, AllTaken
    <3> QED BY <2>n, <3>1 DEF Range
  <2>4. IdOf(g) \in Deps(IdOf(f))
    BY <1>0, <1>11, DepsAre
  <2>5. PICK j \in 1..k - 1 : sorted[j] = IdOf(g)
    <3>1. \A i \in 1..n : \A d \in Deps(sorted[i]) : \E j \in 1..i - 1 : sorted[j] = d
      BY <1>0, <2>n DEF Sorting
    <3>2. IdOf(g) \in Deps(sorted[k])
      BY <2>3, <2>4
    <3> QED BY <3>1, <3>2
  <2>6. j \in 1..n /\ j < k
    BY <2>5
  <2>7. IdOf(f)' = k /\ IdOf(g)' = j
    BY <1>2, <2>1, <2>2, <2>3, <2>5, <2>6, <2>n
  <2> QED BY <2>6, <2>7
<1> QED BY <1>6, <1>7, <1>8, <1>9, <1>10, <1>12, <1>13 DEF IInv

(* A stuttering step keeps IInv. *)
LEMMA StutteringStep ==
    ASSUME IInv, UNCHANGED vars
    PROVE  IInv'
<1>0. /\ Typed /\ LoadedOnce /\ Resolved /\ Dependencies /\ Walking /\ Settled
      /\ Sorting /\ FailsOnlyWhenBroken /\ AcyclicOrder
      /\ UNCHANGED <<prog, modules_, frames, current_module_, module_ptr, aliases, phase,
                     indeg, queue, sorted>>
  BY DEF IInv, vars
<1>1. /\ ModuleIds' = ModuleIds /\ FileModules' = FileModules /\ Known' = Known
      /\ \A n : Named(n)' = Named(n)
      /\ \A f : ByFilename(f)' = ByFilename(f)
      /\ \A i : Imports(i)' = Imports(i)
  BY <1>0, SameModules DEF Imports
<1>2. Typed'
  BY <1>0, <1>1 DEF Typed
<1>3. LoadedOnce'
  BY <1>0, <1>1, ProgFixed DEF LoadedOnce
<1>4. Resolved'
  BY <1>0, <1>1, ProgFixed DEF Resolved, ResolvedIn
<1>5. Dependencies'
  BY <1>0, <1>1 DEF Dependencies
<1>6. Walking' /\ Settled'
  BY <1>0, <1>1, ProgFixed DEF Walking, Settled, OnStack, Done
<1>7. Sorting'
  <2> SUFFICES ASSUME phase = "sort" PROVE Sorting'
    BY <1>0 DEF Sorting
  <2>0. ModuleIds' = ModuleIds /\ \A v : Deps(v)' = Deps(v)
    BY <1>0, SortFixed
  <2>1. /\ sorted' \in Seq(ModuleIds) /\ queue' \in Seq(ModuleIds)
        /\ \A j, k \in 1..Len(sorted') : sorted'[j] = sorted'[k] => j = k
        /\ \A j, k \in 1..Len(queue') : queue'[j] = queue'[k] => j = k
        /\ Range(sorted') \cap Range(queue') = {}
    BY <1>0, <1>1 DEF Sorting
  <2>2. \A k \in 1..Len(sorted') : \A d \in Deps(sorted'[k]) : \E j \in 1..k - 1 : sorted'[j] = d
    <3>1. \A k \in 1..Len(sorted) : \A d \in Deps(sorted[k]) : \E j \in 1..k - 1 : sorted[j] = d
      BY <1>0 DEF Sorting
    <3>2. sorted' = sorted
      BY <1>0
    <3> QED BY <3>1, <3>2
  <2>3. CASE indeg' = <<>>
    <3>1. sorted' = <<>> /\ queue' = <<>>
      BY <1>0, <2>3 DEF Sorting
    <3> QED BY <2>0, <2>1, <2>2, <2>3, <3>1 DEF Sorting
  <2>4. CASE indeg' # <<>>
    <3>1. /\ indeg' \in [ModuleIds -> Nat]
          /\ \A v \in ModuleIds : /\ indeg'[v] = Cardinality(Deps(v) \ Range(sorted'))
                                  /\ indeg'[v] = 0 <=> v \in Range(sorted') \cup Range(queue')
      BY <1>0, <1>1, <2>4 DEF Sorting
    <3> QED BY <2>0, <2>1, <2>2, <2>4, <3>1 DEF Sorting
  <2> QED BY <2>3, <2>4
<1>8. FailsOnlyWhenBroken'
  BY <1>0, ProgFixed DEF FailsOnlyWhenBroken, ImportNodes
<1>9. AcyclicOrder'
  <2>1. \A f : IdOf(f)' = IdOf(f)
    BY <1>1 DEF IdOf
  <2> QED BY <1>0, <2>1, ProgFixed DEF AcyclicOrder
<1> QED BY <1>2, <1>3, <1>4, <1>5, <1>6, <1>7, <1>8, <1>9 DEF IInv

-----------------------------------------------------------------------------
(* Every step keeps IInv. *)
LEMMA Inductive == IInv /\ [Next]_vars => IInv'
<1> SUFFICES ASSUME IInv, [Next]_vars PROVE IInv'
  OBVIOUS
<1>1. CASE ImportNotFound \/ ImportUnreadable \/ ImportParseFails
  BY <1>1, FailingSteps
<1>2. CASE ImportLoads
  BY <1>2, LoadingStep
<1>3. CASE ImportReady
  BY <1>3, RecordingStep
<1>4. CASE ReturnFromModule
  BY <1>4, ReturningStep
<1>5. CASE SortStart
  BY <1>5, StartingStep
<1>6. CASE SortTake
  BY <1>6, TakingStep
<1>7. CASE SortFinish
  BY <1>7, FinishingStep
<1>8. CASE Terminated \/ UNCHANGED vars
  BY <1>8, StutteringStep DEF Terminated
<1> QED BY <1>1, <1>2, <1>3, <1>4, <1>5, <1>6, <1>7, <1>8 DEF Next, Resolve, Sort

(* IInv is an invariant of the loader. *)
LEMMA Always == Spec => []IInv
BY Initially, Inductive, PTL DEF Spec

-----------------------------------------------------------------------------
(* Where the module symbols are.  Every import resolved so far has its     *)
(* symbol near the importer, and no symbol is there for another reason;    *)
(* each active call was made for the import its caller is at; and the      *)
(* current module is near the innermost call's file, or the module the     *)
(* call just finished has loaded for the import it is at.                  *)
Aliased ==
    /\ \A f \in Known : \A k \in 1..Len(module_ptr[f]) :
           \E alias \in aliases : Registers(f, k, alias)
    /\ \A alias \in aliases : \E f \in Known :
           \E k \in 1..Len(module_ptr[f]) : Registers(f, k, alias)
CalledFor(k) ==
    /\ frames[k].next \in 1..Len(ImportNodes(frames[k].file))
    /\ On(ImportNodes(frames[k].file)[frames[k].next]) # {}
    /\ frames[k + 1].file = DiskTarget(ImportNodes(frames[k].file)[frames[k].next])
Called == phase = "import" => \A k \in 1..Len(frames) - 1 : CalledFor(k)
CurrentNear ==
    phase = "import" =>
        \/ \E t \in Near(Top.file, Len(module_ptr[Top.file])) : current_module_ = NameOf[t]
        \/ AtImport /\ On(Cands) # {} /\ current_module_ = NameOf[DiskTarget(Cands)]
AInv == Aliased /\ Called /\ CurrentNear

(* An import stays where it is registered while its file's resolved        *)
(* imports stay.                                                           *)
LEMMA RegistersKept ==
    ASSUME NEW f, NEW k \in Nat,
           \A j \in 1..k : module_ptr'[f][j] = module_ptr[f][j], k >= 1
    PROVE  \A alias : Registers(f, k, alias)' <=> Registers(f, k, alias)
<1>1. Near(f, k)' = Near(f, k)
  BY DEF Near
<1>2. k \in 1..k
  OBVIOUS
<1> QED BY <1>1, <1>2 DEF Registers

(* Aliased depends on nothing but what has been resolved. *)
LEMMA AliasedKept ==
    ASSUME Typed, Resolved, Aliased, UNCHANGED <<module_ptr, aliases>>, Known \subseteq Known',
           \A f \in Known' : f \notin Known => module_ptr[f] = <<>>
    PROVE  Aliased'
<1>0. \A f, k, alias : Registers(f, k, alias)' <=> Registers(f, k, alias)
  BY DEF Registers, Near
<1>1. \A f \in Known' : \A k \in 1..Len(module_ptr'[f]) :
          \E alias \in aliases' : Registers(f, k, alias)'
  <2> TAKE f \in Known'
  <2>1. CASE f \in Known
    BY <1>0, <2>1 DEF Aliased
  <2>2. CASE f \notin Known
    <3>1. module_ptr'[f] = <<>> /\ 1..Len(module_ptr'[f]) = {}
      BY <2>2
    <3> QED BY <3>1
  <2> QED BY <2>1, <2>2
<1>2. \A alias \in aliases' : \E f \in Known' :
          \E k \in 1..Len(module_ptr'[f]) : Registers(f, k, alias)'
  BY <1>0 DEF Aliased
<1> QED BY <1>1, <1>2 DEF Aliased

(* Loading: the new module is the current one and the innermost call's. *)
LEMMA AliasesLoading ==
    ASSUME IInv, IInv', AInv, ImportLoads
    PROVE  AInv'
<1>0. /\ Typed /\ Resolved /\ Aliased /\ Called /\ Walking /\ phase = "import" /\ AtImport
      /\ UNCHANGED <<prog, module_ptr, aliases, phase>>
      /\ Resolved' /\ Walking' /\ Typed'
  BY DEF IInv, AInv, ImportLoads, sortVars
<1>f. PICK f : f = Target(Cands)
  OBVIOUS
<1>1. /\ f \in Files /\ f = DiskTarget(Cands) /\ On(Cands) # {} /\ f \notin Known
  BY <1>0, <1>f, ImportTarget DEF ImportLoads
<1>2. /\ modules_' = Append(modules_, NewModule(f, TRUE))
      /\ current_module_' = NameOf[f]
      /\ frames' = Append(frames, [file |-> f, next |-> 1, saved |-> NameOf[f]])
  BY <1>f DEF ImportLoads
<1>n. PICK n \in Nat : n = Len(frames) /\ n >= 1
  BY <1>0, AtTop
<1>3. /\ frames \in Seq(FrameRecs) /\ Len(frames') = n + 1 /\ frames'[n + 1].file = f
      /\ \A k \in 1..n : frames'[k] = frames[k]
  BY <1>0, <1>2, <1>n DEF Typed
<1>4. Known \subseteq Known' /\ \A h \in Known' : h \notin Known => module_ptr[h] = <<>>
  <2>1. \A i \in ModuleIds : i \in ModuleIds' /\ modules_'[i] = modules_[i]
    <3>1. modules_ \in Seq(ModuleRecs) /\ NewModule(f, TRUE) = NewModule(f, TRUE)
      BY <1>0 DEF Typed
    <3> QED BY <1>2, <3>1 DEF ModuleIds
  <2>2. Known \subseteq Known'
    BY <2>1 DEF Known, ByFilename
  <2> QED BY <1>0, <2>2 DEF Resolved, Known
<1>5. Aliased'
  BY <1>0, <1>4, AliasedKept
<1>6. Called'
  <2> SUFFICES ASSUME NEW k \in 1..n PROVE CalledFor(k)'
    BY <1>3, <1>n DEF Called
  <2>1. CASE k = n
    <3>1. /\ frames[n].file = Top.file /\ frames[n].next = Top.next
          /\ Top.next \in 1..Len(ImportNodes(Top.file)) /\ Cands = ImportNodes(Top.file)[Top.next]
      BY <1>0, <1>n, AtTop DEF Top, Cands
    <3>2. frames'[n] = frames[n] /\ frames'[n + 1].file = f
      BY <1>3, <1>n
    <3> QED BY <1>0, <1>1, <2>1, <3>1, <3>2, ProgFixed DEF CalledFor
  <2>2. CASE k # n
    <3>1. k \in 1..Len(frames) - 1 /\ k \in 1..n /\ k + 1 \in 1..n
      BY <1>n, <2>2
    <3>2. CalledFor(k) /\ frames'[k] = frames[k] /\ frames'[k + 1] = frames[k + 1]
      BY <1>0, <1>3, <3>1 DEF Called
    <3> QED BY <1>0, <3>2, ProgFixed DEF CalledFor
  <2> QED BY <2>1, <2>2
<1>7. CurrentNear'
  <2>1. Top'.file = f
    BY <1>3 DEF Top
  <2>2. f \in Near(Top.file, Len(module_ptr[Top.file]))'
    BY <2>1 DEF Near
  <2> QED BY <1>2, <2>2 DEF CurrentNear
<1> QED BY <1>5, <1>6, <1>7 DEF AInv

(* Recording: the symbol goes into the current module's table, which is    *)
(* near the import recorded.                                               *)
LEMMA AliasesRecording ==
    ASSUME IInv, IInv', AInv, ImportReady
    PROVE  AInv'
<1>0. /\ Typed /\ Resolved /\ Aliased /\ Called /\ CurrentNear /\ Walking
      /\ phase = "import" /\ phase' = "import" /\ AtImport /\ Typed' /\ Walking'
      /\ UNCHANGED <<prog, current_module_>>
  BY DEF IInv, AInv, ImportReady, RecordImport, sortVars
<1>f. PICK f : f = Target(Cands)
  OBVIOUS
<1>g. PICK g : g = Top.file
  OBVIOUS
<1>a. PICK a : a = <<current_module_, NameOf[f]>>
  OBVIOUS
<1>1. /\ module_ptr' = [module_ptr EXCEPT ![g] = Append(@, f)]
      /\ aliases' = aliases \cup {a}
      /\ frames' = [frames EXCEPT ![Len(frames)].next = @ + 1]
      /\ modules_' = IF \E k \in DOMAIN modules_[IdOf(g)].imports :
                            modules_[IdOf(g)].imports[k] = NameOf[f]
                       THEN modules_
                       ELSE [modules_ EXCEPT ![IdOf(g)].imports = Append(@, NameOf[f])]
  BY <1>f, <1>g, <1>a DEF ImportReady, RecordImport
<1>2. f \in Files /\ f = DiskTarget(Cands)
  BY <1>0, <1>f, ImportTarget DEF ImportReady, RecordImport
<1>3. g \in Known /\ g \in Files
  BY <1>0, <1>g, AtTop
<1>m. PICK m \in Nat : m = Len(module_ptr[g])
  BY <1>0, <1>3, ModuleTypes
<1>4. /\ Len(module_ptr'[g]) = m + 1 /\ module_ptr'[g][m + 1] = f
      /\ \A j \in 1..m : module_ptr'[g][j] = module_ptr[g][j]
      /\ \A h \in Files : h # g => module_ptr'[h] = module_ptr[h]
  <2>1. module_ptr \in [Files -> Seq(Files)] /\ module_ptr[g] \in Seq(Files)
    BY <1>0, <1>3 DEF Typed
  <2> QED BY <1>1, <1>2, <1>3, <1>m, <2>1
<1>5. Known' = Known
  <2>1. /\ Len(modules_') = Len(modules_)
        /\ \A i \in ModuleIds : modules_'[i].filename = modules_[i].filename
        /\ \A i \in ModuleIds : modules_'[i].name = modules_[i].name
    <3>1. modules_ \in Seq(ModuleRecs) /\ \A i \in ModuleIds : modules_[i] \in ModuleRecs
      BY <1>0, ModuleTypes DEF Typed
    <3>2. CASE modules_' = modules_
      BY <3>2
    <3>3. CASE modules_' = [modules_ EXCEPT ![IdOf(g)].imports = Append(@, NameOf[f])]
      <4>1. IdOf(g) \in ModuleIds
        BY <1>3, ByFilenameTypes
      <4>2. Len(modules_') = Len(modules_)
        BY <3>1, <3>3
      <4>3. \A i \in ModuleIds : i # IdOf(g) => modules_'[i] = modules_[i]
        BY <3>1, <3>3 DEF ModuleIds
      <4>4. PICK im : modules_'[IdOf(g)] = [modules_[IdOf(g)] EXCEPT !.imports = im]
        <5>i. PICK i \in ModuleIds : i = IdOf(g)
          BY <4>1
        <5>m. PICK mod : mod = [modules_[i] EXCEPT !.imports = Append(modules_[i].imports, NameOf[f])]
          OBVIOUS
        <5>1. modules_' = [modules_ EXCEPT ![i] = mod]
          BY <3>3, <5>i, <5>m
        <5>2. DOMAIN modules_ = ModuleIds
          BY <3>1 DEF ModuleIds
        <5>3. modules_'[i] = mod
          BY <5>1, <5>2
        <5> QED BY <5>3, <5>i, <5>m
      <4>5. /\ modules_'[IdOf(g)].filename = modules_[IdOf(g)].filename
            /\ modules_'[IdOf(g)].name = modules_[IdOf(g)].name
        BY <3>1, <4>1, <4>4 DEF ModuleRecs
      <4> QED BY <4>2, <4>3, <4>5
    <3> QED BY <1>1, <3>2, <3>3
  <2> QED BY <2>1, SameModules
<1>6. \E t \in Near(g, m + 1)' : current_module_ = NameOf[t]
  <2>1. f \in Near(g, m + 1)'
    BY <1>4 DEF Near
  <2>2. Near(g, m) \subseteq Near(g, m + 1)'
    <3>1. \A j \in 1..m : j \in 1..m + 1
      OBVIOUS
    <3> QED BY <1>4, <3>1 DEF Near
  <2>3. \/ \E t \in Near(g, m) : current_module_ = NameOf[t]
        \/ current_module_ = NameOf[f]
    BY <1>0, <1>2, <1>g, <1>m DEF CurrentNear
  <2> QED BY <2>1, <2>2, <2>3
<1>7. Registers(g, m + 1, a)'
  BY <1>0, <1>4, <1>6, <1>a DEF Registers
<1>8. \A h \in Known : \A k \in 1..Len(module_ptr[h]) :
          /\ k \in 1..Len(module_ptr'[h])
          /\ \A alias : Registers(h, k, alias)' <=> Registers(h, k, alias)
  <2> TAKE h \in Known
  <2>0. h \in Files /\ Len(module_ptr[h]) \in Nat
    BY <1>0, ModuleTypes DEF Known
  <2> TAKE k \in 1..Len(module_ptr[h])
  <2>1. k \in 1..Len(module_ptr'[h]) /\ \A j \in 1..k : module_ptr'[h][j] = module_ptr[h][j]
    <3>1. CASE h = g
      BY <1>4, <1>m, <3>1
    <3>2. CASE h # g
      BY <1>4, <2>0, <3>2
    <3> QED BY <3>1, <3>2
  <2>2. k \in Nat /\ k >= 1
    BY <2>0
  <2> QED BY <2>1, <2>2, RegistersKept
<1>9. Aliased'
  <2>1. ASSUME NEW h \in Known, NEW k \in 1..Len(module_ptr'[h])
        PROVE  \E alias \in aliases' : Registers(h, k, alias)'
    <3>0. h \in Files
      BY DEF Known
    <3>1. CASE k \in 1..Len(module_ptr[h])
      BY <1>1, <1>8, <3>1, <1>0 DEF Aliased
    <3>2. CASE k \notin 1..Len(module_ptr[h])
      <4>1. h = g /\ k = m + 1
        BY <1>4, <1>m, <3>0, <3>2
      <4> QED BY <1>1, <1>7, <4>1
    <3> QED BY <3>1, <3>2
  <2>2. ASSUME NEW alias \in aliases'
        PROVE  \E h \in Known : \E k \in 1..Len(module_ptr'[h]) : Registers(h, k, alias)'
    <3>1. CASE alias \in aliases
      <4>1. PICK h \in Known : \E k \in 1..Len(module_ptr[h]) : Registers(h, k, alias)
        BY <1>0, <3>1 DEF Aliased
      <4>2. PICK k \in 1..Len(module_ptr[h]) : Registers(h, k, alias)
        BY <4>1
      <4>3. k \in 1..Len(module_ptr'[h]) /\ Registers(h, k, alias)'
        BY <1>8, <4>2
      <4> QED BY <4>3
    <3>2. CASE alias = a
      <4>1. m + 1 \in 1..Len(module_ptr'[g])
        BY <1>4
      <4> QED BY <1>3, <1>7, <3>2, <4>1
    <3> QED BY <1>1, <3>1, <3>2
  <2> QED BY <1>5, <2>1, <2>2 DEF Aliased
<1>n. PICK n \in Nat : n = Len(frames) /\ n >= 1
  BY <1>0, AtTop
<1>10. /\ Len(frames') = n
       /\ \A k \in 1..n : frames'[k].file = frames[k].file
       /\ \A k \in 1..n : k # n => frames'[k] = frames[k]
  <2>1. frames \in Seq(FrameRecs) /\ n \in 1..n /\ frames[n] \in FrameRecs
    BY <1>0, <1>n DEF Typed
  <2>2. PICK t : t = [frames[n] EXCEPT !.next = @ + 1]
    OBVIOUS
  <2>3. t.file = frames[n].file
    BY <2>1, <2>2 DEF FrameRecs
  <2>4. frames' = [frames EXCEPT ![n] = t]
    BY <1>1, <1>n, <2>2
  <2>5. Len(frames') = n /\ frames'[n] = t /\ \A k \in 1..n : k # n => frames'[k] = frames[k]
    BY <1>n, <2>1, <2>4
  <2>6. \A k \in 1..n : frames'[k].file = frames[k].file
    <3> TAKE k \in 1..n
    <3>1. CASE k = n
      BY <2>3, <2>5, <3>1
    <3>2. CASE k # n
      BY <2>5, <3>2
    <3> QED BY <3>1, <3>2
  <2> QED BY <2>5, <2>6
<1>11. Called'
  <2> SUFFICES ASSUME NEW k \in 1..n - 1 PROVE CalledFor(k)'
    BY <1>10 DEF Called
  <2>1. k \in 1..n /\ k + 1 \in 1..n /\ k # n
    BY <1>n
  <2>2. CalledFor(k) /\ frames'[k] = frames[k] /\ frames'[k + 1].file = frames[k + 1].file
    BY <1>0, <1>n, <1>10, <2>1 DEF Called
  <2> QED BY <1>0, <2>2, ProgFixed DEF CalledFor
<1>12. CurrentNear'
  <2>1. Top'.file = g
    <3>1. n \in 1..n
      BY <1>n
    <3> QED BY <1>n, <1>g, <1>10, <3>1 DEF Top
  <2> QED BY <1>0, <1>4, <1>6, <2>1 DEF CurrentNear
<1> QED BY <1>9, <1>11, <1>12 DEF AInv

(* Returning: the current module is the one the call was made for. *)
LEMMA AliasesReturning ==
    ASSUME IInv, IInv', AInv, ReturnFromModule
    PROVE  AInv'
<1>0. /\ Typed /\ Resolved /\ Aliased /\ Called /\ Walking /\ phase = "import"
      /\ phase' = (IF Len(frames) = 1 THEN "sort" ELSE "import")
      /\ current_module_' = Top.saved
      /\ frames' = SubSeq(frames, 1, Len(frames) - 1)
      /\ UNCHANGED <<prog, modules_, module_ptr, aliases>>
  BY DEF IInv, AInv, ReturnFromModule, sortVars
<1>1. Known' = Known
  BY <1>0 DEF Known, ByFilename, ModuleIds
<1>2. Aliased'
  BY <1>0, <1>1, AliasedKept
<1>n. PICK n \in Nat : n = Len(frames) - 1 /\ Len(frames) = n + 1
  BY <1>0, AtTop
<1>3. Len(frames') = n /\ \A k \in 1..n : frames'[k] = frames[k]
  <2>1. frames \in Seq(FrameRecs) /\ \A k \in 1..n : k \in 1..Len(frames)
    BY <1>0, <1>n DEF Typed
  <2> QED BY <1>0, <1>n, <2>1
<1>4. CASE n = 0
  <2>1. phase' = "sort"
    BY <1>0, <1>n, <1>4
  <2> QED BY <1>2, <2>1 DEF AInv, Called, CurrentNear
<1>5. CASE n # 0
  <2>1. Called'
    <3> SUFFICES ASSUME NEW k \in 1..n - 1 PROVE CalledFor(k)'
      BY <1>3 DEF Called
    <3>1. k \in 1..n /\ k + 1 \in 1..n /\ k \in 1..Len(frames) - 1
      BY <1>n
    <3>2. CalledFor(k) /\ frames'[k] = frames[k] /\ frames'[k + 1] = frames[k + 1]
      BY <1>0, <1>3, <3>1 DEF Called
    <3> QED BY <1>0, <3>2, ProgFixed DEF CalledFor
  <2>2. CalledFor(n)
    <3>1. n \in 1..Len(frames) - 1
      BY <1>n, <1>5
    <3> QED BY <1>0, <3>1 DEF Called
  <2>3. Top' = frames[n] /\ Top = frames[n + 1] /\ Top.saved = NameOf[Top.file]
    <3>1. n \in 1..n
      BY <1>5
    <3> QED BY <1>0, <1>3, <1>n, <3>1, AtTop DEF Top
  <2>4. AtImport' /\ (On(Cands) # {})' /\ DiskTarget(Cands)' = frames[n + 1].file
    <3>1. frames[n].next <= Len(ImportNodes(frames[n].file))
      <4>1. frames[n].next \in 1..Len(ImportNodes(frames[n].file))
        BY <2>2 DEF CalledFor
      <4>2. Len(ImportNodes(frames[n].file)) \in Nat
        <5>1. n \in 1..Len(frames)
          BY <1>n, <1>5
        <5>2. frames[n].file \in Files
          BY <1>0, <5>1 DEF Walking, Known
        <5> QED BY <1>0, <5>2, ProgramTypes DEF Typed
      <4> QED BY <4>1, <4>2
    <3>2. Cands' = ImportNodes(frames[n].file)[frames[n].next]
      BY <1>0, <2>3, ProgFixed DEF Cands
    <3>3. AtImport'
      BY <1>0, <2>3, <3>1, ProgFixed DEF AtImport
    <3>4. /\ On(Cands)' = On(ImportNodes(frames[n].file)[frames[n].next])
          /\ DiskTarget(Cands)' = DiskTarget(ImportNodes(frames[n].file)[frames[n].next])
      BY <1>0, <3>2 DEF On, DiskTarget, First
    <3> QED BY <2>2, <3>3, <3>4 DEF CalledFor
  <2>5. CurrentNear'
    BY <1>0, <2>3, <2>4 DEF CurrentNear
  <2> QED BY <1>2, <2>1, <2>5 DEF AInv
<1> QED BY <1>4, <1>5

(* A step that ends the imports, or comes after them, records nothing. *)
LEMMA AliasesAfter ==
    ASSUME IInv, IInv', AInv, phase' # "import", UNCHANGED <<module_ptr, aliases>>,
           Known \subseteq Known'
    PROVE  AInv'
<1>1. Aliased'
  <2>1. \A f \in Known' : f \notin Known => module_ptr[f] = <<>>
    BY DEF IInv, Resolved, Known
  <2> QED BY <2>1, AliasedKept DEF IInv, AInv
<1> QED BY <1>1 DEF AInv, Called, CurrentNear

(* A stuttering step keeps AInv. *)
LEMMA AliasesStuttering ==
    ASSUME AInv, UNCHANGED vars
    PROVE  AInv'
<1>1. UNCHANGED <<prog, modules_, frames, current_module_, module_ptr, aliases, phase>>
  BY DEF vars
<1>2. Known' = Known /\ (\A f, k, alias : Registers(f, k, alias)' <=> Registers(f, k, alias))
  BY <1>1 DEF Known, ByFilename, ModuleIds, Registers, Near
<1>3. Aliased'
  BY <1>1, <1>2 DEF AInv, Aliased
<1>4. Called'
  BY <1>1, ProgFixed DEF AInv, Called, CalledFor
<1>5. CurrentNear'
  <2>1. Top' = Top /\ Cands' = Cands /\ AtImport' = AtImport
    BY <1>1 DEF Top, Cands, AtImport, ImportNodes
  <2>2. On(Cands)' = On(Cands) /\ DiskTarget(Cands)' = DiskTarget(Cands)
    BY <1>1, <2>1 DEF On, DiskTarget, First
  <2>3. Near(Top.file, Len(module_ptr[Top.file]))' = Near(Top.file, Len(module_ptr[Top.file]))
    BY <1>1, <2>1 DEF Near
  <2> QED BY <1>1, <2>1, <2>2, <2>3 DEF AInv, CurrentNear
<1> QED BY <1>3, <1>4, <1>5 DEF AInv

(* A failing step forgets no module. *)
LEMMA FailingKnown ==
    ASSUME IInv, ImportNotFound \/ ImportUnreadable \/ ImportParseFails
    PROVE  Known \subseteq Known'
<1>1. \A i \in ModuleIds : i \in ModuleIds' /\ modules_'[i] = modules_[i]
  <2>1. CASE ImportParseFails
    <3>1. modules_ \in Seq(ModuleRecs) /\ \E m : modules_' = Append(modules_, m)
      BY <2>1 DEF IInv, Typed, ImportParseFails
    <3> QED BY <3>1 DEF ModuleIds
  <2>2. CASE ImportNotFound \/ ImportUnreadable
    BY <2>2 DEF ImportNotFound, ImportUnreadable, ModuleIds
  <2> QED BY <2>1, <2>2
<1> QED BY <1>1 DEF Known, ByFilename

(* Sorting keeps the modules that were found: a file not known before would *)
(* be one of the program, and all of that is known when the sort begins.    *)
LEMMA SortingKnown ==
    ASSUME IInv, IInv', Sort
    PROVE  Known \subseteq Known' /\ Known' \subseteq Known
<1>1. CASE SortStart \/ SortTake
  BY <1>1 DEF SortStart, SortTake, Known, ByFilename, ModuleIds
<1>2. CASE SortFinish
  <2>1. phase = "sort" /\ prog' = prog
    BY <1>2 DEF SortFinish
  <2>2. Known = Program
    BY <2>1, AllLoaded DEF IInv, Settled
  <2>3. Known' \subseteq Program
    BY <2>1, ProgFixed DEF IInv, LoadedOnce
  <2>4. \A f \in Known : ByFilename(f)' # {}
    <3> TAKE f \in Known
    <3>o. PICK order : order = sorted \o Ascending(ModuleIds \ Range(sorted))
      OBVIOUS
    <3>1. order \in Seq(ModuleIds) /\ Range(order) = ModuleIds
      <4>1. sorted \in Seq(ModuleIds) /\ IsInjective(sorted)
        <5>1. Sorting
          BY DEF IInv
        <5> QED BY <2>1, <5>1 DEF Sorting, IsInjective
      <4> QED BY <3>o, <4>1, OrderLists DEF IInv
    <3>2. modules_' = [k \in 1..Len(order) |-> modules_[order[k]]]
      BY <1>2, <3>o DEF SortFinish, Range
    <3>3. PICK k \in 1..Len(order) : order[k] = IdOf(f)
      <4>1. IdOf(f) \in Range(order) /\ DOMAIN order = 1..Len(order)
        BY <3>1, ByFilenameTypes
      <4> QED BY <4>1 DEF Range
    <3>4. k \in ModuleIds' /\ modules_'[k].filename = f
      <4>1. modules_'[k] = modules_[IdOf(f)]
        BY <3>2, <3>3
      <4>2. ModuleIds' = 1..Len(order)
        <5>1. Len(order) \in Nat
          BY <3>1
        <5> QED BY <3>2, <5>1 DEF ModuleIds
      <4> QED BY <3>3, <4>1, <4>2, ByFilenameTypes
    <3> QED BY <3>4 DEF ByFilename
  <2> QED BY <2>2, <2>3, <2>4 DEF Known
<1> QED BY <1>1, <1>2 DEF Sort

(* Every step keeps AInv. *)
LEMMA AliasesInductive == IInv /\ IInv' /\ AInv /\ [Next]_vars => AInv'
<1> SUFFICES ASSUME IInv, IInv', AInv, [Next]_vars PROVE AInv'
  OBVIOUS
<1>1. CASE ImportNotFound \/ ImportUnreadable \/ ImportParseFails
  <2>1. phase' # "import" /\ UNCHANGED <<module_ptr, aliases>>
    BY <1>1 DEF ImportNotFound, ImportUnreadable, ImportParseFails
  <2> QED BY <1>1, <2>1, FailingKnown, AliasesAfter
<1>2. CASE ImportLoads
  BY <1>2, AliasesLoading
<1>3. CASE ImportReady
  BY <1>3, AliasesRecording
<1>4. CASE ReturnFromModule
  BY <1>4, AliasesReturning
<1>5. CASE Sort
  <2>1. phase' # "import" /\ UNCHANGED <<module_ptr, aliases>>
    BY <1>5 DEF Sort, SortStart, SortTake, SortFinish
  <2> QED BY <1>5, <2>1, SortingKnown, AliasesAfter
<1>6. CASE Terminated \/ UNCHANGED vars
  BY <1>6, AliasesStuttering DEF Terminated
<1> QED BY <1>1, <1>2, <1>3, <1>4, <1>5, <1>6 DEF Next, Resolve

(* AInv holds before the first import, and then always. *)
LEMMA AliasesAlways == Spec => [](IInv /\ AInv)
<1>1. Init => AInv
  <2> SUFFICES ASSUME Init PROVE AInv
    OBVIOUS
  <2>1. /\ frames = << [file |-> Root, next |-> 1, saved |-> NameOf[Root]] >>
        /\ current_module_ = NameOf[Root] /\ aliases = {}
        /\ \A f \in Known : module_ptr[f] = <<>>
    BY DEF Init, Known
  <2>2. Aliased
    <3>1. \A f \in Known : 1..Len(module_ptr[f]) = {}
      BY <2>1
    <3> QED BY <2>1, <3>1 DEF Aliased
  <2>3. Called
    BY <2>1 DEF Called
  <2>4. CurrentNear
    <3>1. Top.file = Root
      BY <2>1 DEF Top
    <3>2. Root \in Near(Top.file, Len(module_ptr[Top.file]))
      BY <3>1 DEF Near
    <3> QED BY <2>1, <3>2 DEF CurrentNear
  <2> QED BY <2>2, <2>3, <2>4 DEF AInv
<1> QED BY <1>1, Initially, Inductive, AliasesInductive, PTL DEF Spec

(* The two invariants imply what a run checks. *)
LEMMA Implied == IInv /\ AInv => LoaderInv
<1> SUFFICES ASSUME IInv, AInv PROVE LoaderInv
  OBVIOUS
<1>0. Typed /\ LoadedOnce /\ Resolved /\ Dependencies /\ Settled
  BY DEF IInv
<1>1. TypeOK
  <2>1. \A i \in ModuleIds : modules_[i] \in ModuleRecs
    BY <1>0, ModuleTypes
  <2>2. \A k \in DOMAIN frames : frames[k] \in FrameRecs
    BY <1>0 DEF Typed
  <2> QED BY <1>0, <2>1, <2>2 DEF Typed, TypeOK, ModuleRecs, FrameRecs
<1>2. LoadsProgramOnce
  <2> SUFFICES ASSUME phase = "sorted"
               PROVE  /\ {modules_[i].filename : i \in FileModules} = Program
                      /\ \A i, j \in ModuleIds :
                             modules_[i].filename = modules_[j].filename => i = j
                      /\ \A i \in FileModules : modules_[i].ast
    BY DEF LoadsProgramOnce
  <2>1. Known = Program
    BY <1>0, AllLoaded DEF Settled
  <2>2. {modules_[i].filename : i \in FileModules} = Known
    BY <1>0, ModuleTypes
  <2> QED BY <1>0, <2>1, <2>2 DEF LoadedOnce
<1>3. ASSUME phase = "sorted", NEW f \in Known
      PROVE  /\ DOMAIN ImportNodes(f) = 1..Len(module_ptr[f])
             /\ DOMAIN module_ptr[f] = 1..Len(module_ptr[f])
             /\ \A k \in DOMAIN ImportNodes(f) : module_ptr[f][k] = DiskTarget(ImportNodes(f)[k])
             /\ Range(module_ptr[f]) = DiskTargets(f)
             /\ Known = Program
  <2>1. f \in Files /\ Done(f) /\ ResolvedIn(f)
    BY <1>0, <1>3 DEF Known, Settled, Resolved
  <2>2. /\ DOMAIN ImportNodes(f) = 1..Len(ImportNodes(f))
        /\ DOMAIN module_ptr[f] = 1..Len(module_ptr[f])
    BY <1>0, <2>1, ProgramTypes, ModuleTypes DEF Typed
  <2>3. Range(module_ptr[f]) = DiskTargets(f) /\ Known = Program
    BY <1>0, <1>3, AllLoaded DEF Settled
  <2> QED BY <2>1, <2>2, <2>3 DEF Done, ResolvedIn
<1>4. ImportsRecorded
  <2> SUFFICES ASSUME phase = "sorted", NEW i \in FileModules, NEW f, f = modules_[i].filename
               PROVE  /\ DOMAIN module_ptr[f] = DOMAIN ImportNodes(f)
                      /\ \A k \in DOMAIN ImportNodes(f) :
                             module_ptr[f][k] = DiskTarget(ImportNodes(f)[k])
                      /\ {Imports(i)[k] : k \in DOMAIN Imports(i)}
                           = {NameOf[g] : g \in DiskTargets(f)}
                      /\ \A j, k \in DOMAIN Imports(i) : Imports(i)[j] = Imports(i)[k] => j = k
    BY DEF ImportsRecorded
  <2>1. f \in Known /\ i \in ModuleIds
    BY <1>0, ModuleTypes DEF FileModules
  <2>2. /\ Range(Imports(i)) = {NameOf[g] : g \in Range(module_ptr[f])}
        /\ \A j, k \in DOMAIN Imports(i) : Imports(i)[j] = Imports(i)[k] => j = k
    BY <1>0, <2>1 DEF Dependencies
  <2> QED BY <1>3, <2>1, <2>2 DEF Range
<1>5. AliasesNear
  <2> SUFFICES ASSUME phase = "sorted"
               PROVE  /\ \A f \in Program : \A k \in DOMAIN ImportNodes(f) :
                             \E alias \in aliases : Registers(f, k, alias)
                      /\ \A alias \in aliases : \E f \in Program :
                             \E k \in DOMAIN ImportNodes(f) : Registers(f, k, alias)
    BY DEF AliasesNear
  <2>1. Root \in Known
    BY <1>0 DEF LoadedOnce
  <2>2. Known = Program /\ \A f \in Known : DOMAIN ImportNodes(f) = 1..Len(module_ptr[f])
    BY <1>3, <2>1
  <2> QED BY <2>2 DEF AInv, Aliased
<1>6. ContextRestored
  BY <1>0 DEF Settled, ContextRestored
<1> QED BY <1>1, <1>2, <1>4, <1>5, <1>6 DEF LoaderInv

(* Whatever the program on disk, when resolveImports and the sort succeed  *)
(* they leave every reachable file loaded and parsed exactly once, every   *)
(* import node with the module its own path resolves to, every module with *)
(* the dependencies it imports, each once, every module symbol in the      *)
(* table of the importer or of a module the importer imports up to there   *)
(* (the code does not put current_module_ back after a nested load), and   *)
(* the root as the current module.                                         *)
THEOREM LoaderSound == Spec => []LoaderInv
BY AliasesAlways, Implied, PTL

(* resolveImports returns false only for a program with a broken import,   *)
(* and never true for one with an unreadable or unparsable file.           *)
THEOREM FailureSound == Spec => []FailsOnlyWhenBroken
<1>1. IInv => FailsOnlyWhenBroken
  BY DEF IInv
<1> QED BY <1>1, Always, PTL

(* Kahn's algorithm in performFullPipeline: without circular imports (and  *)
(* with distinct base names) every module comes after all it imports.      *)
THEOREM OrderSound == Spec => []AcyclicOrder
<1>1. IInv => AcyclicOrder
  BY DEF IInv
<1> QED BY <1>1, Always, PTL
=============================================================================
