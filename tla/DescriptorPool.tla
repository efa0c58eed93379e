--------------------------- MODULE DescriptorPool ---------------------------
(* A DescriptorPool over a fallback database, as protoc and the generated    *)
(* pool have one: lookups build the files they need, with all these import,  *)
(* under a checkpoint of the tables each, and roll back what has errors.     *)
(* Names are resolved through scopes, and a name that no import declares is  *)
(* sought in the database as well, which builds files while another one is   *)
(* half built.  The pool's mutex is held all through a lookup.               *)
EXTENDS Integers, Sequences, FiniteSets

CONSTANTS
    Files, NoFile,
    Symbols, NoSymbol,  \* full names, of packages too
    ParentOf,           \* the name without its last component, or NoSymbol
    Databases,          \* databases to try: see Proto, [proto, symbol, extension]
    MaxLookups, MaxDepth  \* bounds: lookups by users of the pool, builders at once

Number == 1..2   \* bound: extension numbers

\* Of a FileDescriptorProto: its imports, which of them are public, its
\* package, what it declares, and the names it uses, in the order they are
\* linked.  Scopes are the names to try: in all but the last, of a name of
\* several components, the first is sought first.  number: of an extension,
\* or 0.  (All of it but the labels, options and values of fields.)
Scope == [first : Symbols, full : Symbols]
Use == [scopes : Seq(Scope) \ {<<>>}, types_only : BOOLEAN, number : Number \cup {0}]
Declaration == [name : Symbols, type : {"message", "field"}]
Proto == [dependency : Seq(Files), public : SUBSET Nat, package : Symbols \cup {NoSymbol},
          declares : SUBSET Declaration, uses : Seq(Use)]
NoProto == [dependency |-> <<>>, public |-> {}, package |-> NoSymbol, declares |-> {},
            uses |-> <<>>, missing |-> TRUE]

\* A name without its last component is shorter: from every set of names one
\* that is in it is left at last.
ASSUME PoolAssumption ==
    /\ NoFile \notin Files /\ NoSymbol \notin Symbols
    /\ ParentOf \in [Symbols -> Symbols \cup {NoSymbol}]
    /\ \A S \in SUBSET Symbols : S # {} => \E s \in S : ParentOf[s] \notin S
    /\ Databases \subseteq [proto : [Files -> Proto \cup {NoProto}],
                            symbol : [Symbols -> Files \cup {NoFile}],
                            extension : [Symbols -> Files \cup {NoFile}]]

VARIABLES
    database,            \* fallback_database_
    descriptors,         \* history: FileDescriptors ever allocated; 0 is NULL
    allocations_,        \* those that are not freed
    files_by_name_, symbols_by_name_, extensions_,
    after_checkpoint_,   \* files_, symbols_ and extensions_after_checkpoint_ in one
    checkpoints_, pending_files_, known_bad_files_,
    builders,            \* the DescriptorBuilders at work, the innermost last
    fallback,            \* what the last look into the database came to
    request,             \* the lookup under way
    lookups, handed, refused, strayed  \* history, see Ask, Answer, SeekSymbol
tables == <<descriptors, allocations_, files_by_name_, symbols_by_name_, extensions_,
            after_checkpoint_, checkpoints_>>
history == <<lookups, handed, refused, strayed>>
poolVars == <<database, tables, pending_files_, known_bad_files_, builders, fallback, request, history>>

NullSymbol == [file |-> 0, type |-> "null"]
NoRequest == [kind |-> "none"]
Message(s) == symbols_by_name_[s].type = "message"

PoolInit ==
    /\ database \in Databases
    /\ descriptors = <<>> /\ allocations_ = <<>>
    /\ files_by_name_ = [f \in Files |-> 0]
    /\ symbols_by_name_ = [s \in Symbols |-> NullSymbol]
    /\ extensions_ = [s \in Symbols |-> [n \in Number |-> 0]]
    /\ after_checkpoint_ = <<>> /\ checkpoints_ = <<>>
    /\ pending_files_ = <<>> /\ known_bad_files_ = {}
    /\ builders = <<>> /\ fallback = "unasked" /\ request = NoRequest
    /\ lookups = 0 /\ handed = {} /\ refused = {} /\ strayed = FALSE

-----------------------------------------------------------------------------
(* Into the database.                                                        *)

NewBuilder(f, by) ==
    [filename_ |-> f, by |-> by, stage |-> "begin", next |-> 1, scope |-> 1, rest |-> FALSE,
     file_ |-> 0, dependencies_ |-> {}, had_errors_ |-> FALSE, numbers |-> {}]

\* The stack of builders is bs by now.
BuildFrom(bs, f, by) ==
    builders' = Append(bs, NewBuilder(f, by)) /\ fallback' = "unasked"
NothingThere(bs) == builders' = bs /\ fallback' = "failed"

TryFindFile(bs, f) ==
    IF f \in known_bad_files_ THEN NothingThere(bs) /\ UNCHANGED known_bad_files_
    ELSE IF database.proto[f] = NoProto
         THEN NothingThere(bs) /\ known_bad_files_' = known_bad_files_ \cup {f}
         ELSE BuildFrom(bs, f, "file") /\ UNCHANGED known_bad_files_

Ancestors[s \in Symbols] ==
    IF ParentOf[s] = NoSymbol THEN {} ELSE {ParentOf[s]} \cup Ancestors[ParentOf[s]]

IsSubSymbolOfBuiltType(s) ==
    \E a \in Ancestors[s] : symbols_by_name_[a].type \notin {"null", "package"}

\* The database names f as the file that has the symbol, or the extension.
TryIndexed(bs, f) ==
    /\ IF f = NoFile \/ (f # NoFile /\ files_by_name_[f] # 0) THEN NothingThere(bs)
       ELSE BuildFrom(bs, f, "index")
    /\ UNCHANGED known_bad_files_

TryFindSymbol(bs, s) ==
    TryIndexed(bs, IF IsSubSymbolOfBuiltType(s) THEN NoFile ELSE database.symbol[s])

-----------------------------------------------------------------------------
(* Lookups: FindFileByName, Find...ByName, FindExtensionByNumber.            *)

Ask ==
    /\ builders = <<>> /\ request = NoRequest /\ lookups < MaxLookups
    /\ \/ \E f \in Files : request' = [kind |-> "file", name |-> f]
       \/ \E s \in Symbols : request' = [kind |-> "symbol", name |-> s]
       \/ \E s \in Symbols : Message(s) /\ request' = [kind |-> "extension", name |-> s]
    /\ fallback' = "unasked" /\ lookups' = lookups + 1
    /\ UNCHANGED <<database, tables, pending_files_, known_bad_files_, builders, handed, refused, strayed>>

InTables ==
    CASE request.kind = "file" -> files_by_name_[request.name]
      [] request.kind = "symbol" -> symbols_by_name_[request.name].file
      [] request.kind = "extension" -> extensions_[request.name][1]

AskDatabase ==
    /\ builders = <<>> /\ request # NoRequest
    /\ InTables = 0 /\ fallback = "unasked"
    /\ CASE request.kind = "file" -> TryFindFile(builders, request.name)
         [] request.kind = "symbol" -> TryFindSymbol(builders, request.name)
         [] request.kind = "extension" -> TryIndexed(builders, database.extension[request.name])
    /\ UNCHANGED <<database, tables, pending_files_, request, history>>

Answer ==
    /\ builders = <<>> /\ request # NoRequest
    /\ InTables # 0 \/ fallback # "unasked"
    /\ IF fallback # "failed" /\ InTables # 0
       THEN handed' = handed \cup {InTables} /\ UNCHANGED refused
       ELSE refused' = refused \cup {request} /\ UNCHANGED handed
    /\ request' = NoRequest
    /\ UNCHANGED <<database, tables, pending_files_, known_bad_files_, builders, fallback, lookups, strayed>>

-----------------------------------------------------------------------------
(* BuildFile.                                                                *)

Top == builders[Len(builders)]
ProtoOf(b) == database.proto[b.filename_]
At(stage) == builders # <<>> /\ Top.stage = stage
WithTop(b) == [builders EXCEPT ![Len(builders)] = b]

\* BuildFile is through: whoever asked the database for the file goes on.
Return(ok) ==
    /\ builders' = SubSeq(builders, 1, Len(builders) - 1)
    /\ fallback' = IF ok THEN "built" ELSE "failed"
    /\ known_bad_files_' = known_bad_files_ \cup
                             (IF ~ok /\ Top.by = "file" THEN {Top.filename_} ELSE {})

\* Mutant: recursion is not noticed.
RecursiveNever(f) == FALSE

\* "File recursively imports itself".
Recursive(f) == \E i \in DOMAIN pending_files_ : pending_files_[i] = f

Begin ==
    /\ At("begin") /\ Len(builders) <= MaxDepth
    /\ IF Recursive(Top.filename_) THEN Return(FALSE) /\ UNCHANGED pending_files_
       ELSE /\ pending_files_' = Append(pending_files_, Top.filename_)
            /\ builders' = WithTop([Top EXCEPT !.stage = "import"])
            /\ UNCHANGED <<fallback, known_bad_files_>>
    /\ UNCHANGED <<database, tables, request, history>>

ImportNext ==
    /\ At("import") /\ Top.next <= Len(ProtoOf(Top).dependency)
    /\ LET f == ProtoOf(Top).dependency[Top.next]
           bs == WithTop([Top EXCEPT !.next = @ + 1])
       IN IF files_by_name_[f] = 0 THEN TryFindFile(bs, f)
          ELSE builders' = bs /\ UNCHANGED <<fallback, known_bad_files_>>
    /\ UNCHANGED <<database, tables, pending_files_, request, history>>

\* AddPackage: the package and those around it, up to one that is there.
PackagesAdded(p) ==
    {q \in {p} \cup Ancestors[p] :
       \A r \in {p} \cup Ancestors[p] : (r = q \/ q \in Ancestors[r]) => symbols_by_name_[r] = NullSymbol}

Twice(s) == \E i, j \in DOMAIN s : i # j /\ s[i] = s[j]

\* Mutant: what an import imports publicly is not followed.
RecordDependencies(ids) == ids \ {0}

\* The files that an import of ids gives access to, and so on through public
\* imports.
RecordPublicDependencies(ids) == UNION {descriptors[d].exports : d \in ids \ {0}}

\* A checkpoint, then the file, its package, its imports and its declarations
\* are put into the tables; linking starts.
Enter ==
    /\ At("import") /\ Top.next > Len(ProtoOf(Top).dependency)
    /\ LET p == ProtoOf(Top)
           id == Len(descriptors) + 1
           packages == IF p.package = NoSymbol THEN {} ELSE PackagesAdded(p.package)
           added == {d \in p.declares : symbols_by_name_[d.name] = NullSymbol /\ d.name \notin packages}
           imports == [i \in DOMAIN p.dependency |-> files_by_name_[p.dependency[i]]]
           errors == \/ added # p.declares \/ \E d, e \in p.declares : d # e /\ d.name = e.name
                     \/ 0 \in {imports[i] : i \in DOMAIN imports} \/ Twice(p.dependency)
                     \/ \E q \in Symbols : /\ q = p.package \/ (p.package # NoSymbol /\ q \in Ancestors[p.package])
                                           /\ symbols_by_name_[q].type \notin {"null", "package"}
       IN /\ checkpoints_' = Append(checkpoints_, [pending |-> Len(after_checkpoint_),
                                                   allocations |-> Len(allocations_)])
          /\ descriptors' = Append(descriptors,
               [name |-> Top.filename_, dependencies |-> imports, links |-> <<>>,
                exports |-> {id} \cup RecordPublicDependencies(
                                         {imports[i] : i \in p.public \cap DOMAIN imports})])
          /\ allocations_' = Append(allocations_, id)
          /\ files_by_name_' = [files_by_name_ EXCEPT ![Top.filename_] = id]
          /\ symbols_by_name_' = [s \in Symbols |->
               IF s \in packages THEN [file |-> id, type |-> "package"]
               ELSE IF \E d \in added : d.name = s
                    THEN [file |-> id, type |-> (CHOOSE d \in added : d.name = s).type]
                    ELSE symbols_by_name_[s]]
          /\ after_checkpoint_' = Append(after_checkpoint_,
               [files |-> {Top.filename_}, symbols |-> packages \cup {d.name : d \in added},
                extensions |-> {}])
          /\ builders' = WithTop([Top EXCEPT !.stage = "link", !.next = 1, !.file_ = id,
                                             !.had_errors_ = errors,
                                             !.dependencies_ = RecordPublicDependencies(
                                               {imports[i] : i \in DOMAIN imports})])
    /\ pending_files_' = SubSeq(pending_files_, 1, Len(pending_files_) - 1)
    /\ fallback' = "unasked"
    /\ UNCHANGED <<database, extensions_, known_bad_files_, request, history>>

-----------------------------------------------------------------------------
(* Cross-linking: LookupSymbolNoPlaceholder, one FindSymbol at a time.       *)

Linking == At("link") /\ Top.next <= Len(ProtoOf(Top).uses)
UseNow == ProtoOf(Top).uses[Top.next]
LastScope == Top.scope = Len(UseNow.scopes)
Sought ==
    LET s == UseNow.scopes[Top.scope] IN IF Top.rest \/ LastScope THEN s.full ELSE s.first

InPackage(id, s) ==
    LET p == database.proto[descriptors[id].name].package
    IN p = s \/ (p # NoSymbol /\ s \in Ancestors[p])

\* Mutant: found is found.
FindSymbolAnywhere == IF fallback = "failed" THEN NullSymbol ELSE symbols_by_name_[Sought]

\* FindSymbol: only what this file or an import of it has declared, or has in
\* its package.
FindSymbol ==
    LET r == IF fallback = "failed" THEN NullSymbol ELSE symbols_by_name_[Sought]
        near == Top.dependencies_ \cup {Top.file_}
    IN IF r.file \in near \/ (r.type = "package" /\ \E id \in near : InPackage(id, Sought))
       THEN r ELSE NullSymbol

SeekSymbol ==
    /\ Linking /\ symbols_by_name_[Sought] = NullSymbol /\ fallback = "unasked"
    /\ TryFindSymbol(builders, Sought)
    /\ strayed' = (strayed \/ (pending_files_ # <<>> /\ builders' # builders))
    /\ UNCHANGED <<database, tables, pending_files_, request, lookups, handed, refused>>

NextUse(b) == [b EXCEPT !.next = @ + 1, !.scope = 1, !.rest = FALSE]

\* The use is linked to r.  The number of an extension is taken in this file,
\* and in the pool.
LinkTo(r) ==
    IF r.type # "message"
    THEN /\ builders' = WithTop(NextUse([Top EXCEPT !.had_errors_ = TRUE]))
         /\ UNCHANGED <<descriptors, extensions_, after_checkpoint_>>
    ELSE LET key == <<Sought, UseNow.number>>
             extends == UseNow.number # 0
             free == extends /\ extensions_[Sought][UseNow.number] = 0
         IN /\ descriptors' = [descriptors EXCEPT ![Top.file_].links = Append(@, r.file)]
            /\ builders' = WithTop(NextUse(
                 [Top EXCEPT !.had_errors_ = @ \/ (extends /\ key \in Top.numbers),
                             !.numbers = IF extends THEN @ \cup {key} ELSE @]))
            /\ IF free
               THEN /\ extensions_' = [extensions_ EXCEPT ![Sought][UseNow.number] = Top.file_]
                    /\ after_checkpoint_' = Append(after_checkpoint_,
                         [files |-> {}, symbols |-> {}, extensions |-> {key}])
               ELSE UNCHANGED <<extensions_, after_checkpoint_>>

\* What to do with what FindSymbol has found in this scope.
Resolve ==
    /\ Linking /\ (symbols_by_name_[Sought] # NullSymbol \/ fallback # "unasked")
    /\ LET r == FindSymbol
           s == UseNow.scopes[Top.scope]
           last == LastScope \/ Top.rest
           further == IF last THEN FALSE
                      ELSE IF r = NullSymbol THEN TRUE
                      ELSE IF s.first # s.full THEN r.type = "field"
                      ELSE UseNow.types_only /\ r.type # "message"
           into == ~last /\ ~further /\ s.first # s.full
       IN IF further \/ into
          THEN /\ builders' = WithTop(IF into THEN [Top EXCEPT !.rest = TRUE]
                                      ELSE [Top EXCEPT !.scope = @ + 1])
               /\ UNCHANGED <<descriptors, extensions_, after_checkpoint_>>
          ELSE LinkTo(r)
    /\ fallback' = "unasked"
    /\ UNCHANGED <<database, allocations_, files_by_name_, symbols_by_name_, checkpoints_,
                   pending_files_, known_bad_files_, request, history>>

-----------------------------------------------------------------------------

\* Mutant: what was done since an outer checkpoint is committed as well.
ClearAllCheckpoints ==
    /\ checkpoints_' = SubSeq(checkpoints_, 1, Len(checkpoints_) - 1)
    /\ after_checkpoint_' = <<>>
    /\ UNCHANGED <<descriptors, allocations_, files_by_name_, symbols_by_name_, extensions_>>

ClearLastCheckpoint ==
    /\ checkpoints_' = SubSeq(checkpoints_, 1, Len(checkpoints_) - 1)
    /\ after_checkpoint_' = IF checkpoints_' = <<>> THEN <<>> ELSE after_checkpoint_
    /\ UNCHANGED <<descriptors, allocations_, files_by_name_, symbols_by_name_, extensions_>>

RollbackToLastCheckpoint ==
    LET c == checkpoints_[Len(checkpoints_)]
        undone == {after_checkpoint_[i] : i \in (c.pending + 1)..Len(after_checkpoint_)}
    IN /\ files_by_name_' = [f \in Files |->
            IF \E u \in undone : f \in u.files THEN 0 ELSE files_by_name_[f]]
       /\ symbols_by_name_' = [s \in Symbols |->
            IF \E u \in undone : s \in u.symbols THEN NullSymbol ELSE symbols_by_name_[s]]
       /\ extensions_' = [s \in Symbols |-> [n \in DOMAIN extensions_[s] |->
            IF \E u \in undone : <<s, n>> \in u.extensions THEN 0 ELSE extensions_[s][n]]]
       /\ after_checkpoint_' = SubSeq(after_checkpoint_, 1, c.pending)
       /\ allocations_' = SubSeq(allocations_, 1, c.allocations)
       /\ checkpoints_' = SubSeq(checkpoints_, 1, Len(checkpoints_) - 1)
       /\ UNCHANGED descriptors

Finish ==
    /\ At("link") /\ Top.next > Len(ProtoOf(Top).uses)
    /\ IF Top.had_errors_ THEN RollbackToLastCheckpoint ELSE ClearLastCheckpoint
    /\ Return(~Top.had_errors_)
    /\ UNCHANGED <<database, pending_files_, request, history>>

Build == Begin \/ ImportNext \/ Enter \/ SeekSymbol \/ Resolve \/ Finish
PoolStep == AskDatabase \/ Answer \/ Build
PoolNext == Ask \/ PoolStep
PoolSpec == PoolInit /\ [][PoolNext]_poolVars /\ WF_poolVars(PoolStep)

-----------------------------------------------------------------------------
(* What users of the pool rely on.                                           *)

Built(f) == files_by_name_[f] # 0
Live == {allocations_[i] : i \in DOMAIN allocations_}
InPool == {files_by_name_[f] : f \in Files} \ {0}

\* Between lookups the pool holds whole files only: none whose building failed
\* has left anything, what is in the tables is not freed, and imports and links
\* lead to files of the pool, whatever was rolled back below or above them.
NothingDangles ==
    builders = <<>> =>
      /\ Live = InPool /\ checkpoints_ = <<>> /\ after_checkpoint_ = <<>> /\ pending_files_ = <<>>
      /\ \A id \in InPool :
           /\ \A i \in DOMAIN descriptors[id].dependencies : descriptors[id].dependencies[i] \in InPool
           /\ \A i \in DOMAIN descriptors[id].links : descriptors[id].links[i] \in InPool
           /\ \A d \in database.proto[descriptors[id].name].declares :
                symbols_by_name_[d.name] = [file |-> id, type |-> d.type]
      /\ \A s \in Symbols : /\ symbols_by_name_[s].file \in InPool \cup {0}
                             /\ \A n \in DOMAIN extensions_[s] : extensions_[s][n] \in InPool \cup {0}
      /\ handed \subseteq InPool

Imports(f) == {database.proto[f].dependency[i] : i \in DOMAIN database.proto[f].dependency}
PublicImports(f) ==
    {database.proto[f].dependency[i] :
       i \in database.proto[f].public \cap DOMAIN database.proto[f].dependency}

\* The files reached from F over edges: what is in every set closed under them.
Reached(F, edge) ==
    {g \in Files : \A S \in SUBSET Files : F \subseteq S /\ (\A f \in S : edge[f] \subseteq S) => g \in S}
ImportOf == [f \in Files |-> Imports(f)]
PublicOf == [f \in Files |-> PublicImports(f)]
Within(f) == {f} \cup Reached(Imports(f), PublicOf)
Closure(f) == Reached({f}, ImportOf)

\* What the name s means in file f, by the text of the files alone.
Declared(f, s) ==
    {d.type : d \in {e \in UNION {database.proto[g].declares : g \in Within(f)} : e.name = s}}
    \cup (IF \E g \in Within(f) : LET p == database.proto[g].package
                                  IN p = s \/ (p # NoSymbol /\ s \in Ancestors[p])
         THEN {"package"} ELSE {})
Decides(f, u, i) ==
    LET s == u.scopes[i]
    IN \/ i = Len(u.scopes)
       \/ s.first # s.full /\ Declared(f, s.first) \cap {"message", "package"} # {}
       \/ s.first = s.full /\ (IF u.types_only THEN "message" \in Declared(f, s.first)
                               ELSE Declared(f, s.first) # {})
Meaning(f, u) ==
    u.scopes[CHOOSE i \in DOMAIN u.scopes : Decides(f, u, i) /\ \A j \in 1..(i - 1) : ~Decides(f, u, j)].full
Declarer(f, s) == {g \in Within(f) : \E d \in database.proto[g].declares : d.name = s /\ d.type = "message"}

\* Every name a file uses is linked to what it means in the text of the file
\* and its imports, whatever else was in the pool or was drawn in from the
\* database while it was sought.
LinksAsWritten ==
    builders = <<>> =>
      \A f \in Files : Built(f) =>
        \A i \in DOMAIN database.proto[f].uses :
          LET s == Meaning(f, database.proto[f].uses[i])
          IN /\ symbols_by_name_[s].type = "message"
             /\ descriptors[files_by_name_[f]].links[i] = symbols_by_name_[s].file
             /\ Declarer(f, s) # {}

\* Nothing is wrong with f or what it imports: all is there, nothing imports
\* itself, nothing is declared that another file declares, every name used
\* means a message.
Faultless(f) ==
    \A g \in Closure(f) :
      LET p == database.proto[g]
      IN /\ p # NoProto /\ ~Twice(p.dependency)
         /\ \A h \in Imports(g) : g \notin Closure(h)
         /\ \A d \in p.declares, h \in Files :
              /\ \A e \in database.proto[h].declares : h # g \/ e # d => e.name # d.name
              /\ LET q == database.proto[h].package
                 IN q # d.name /\ (q # NoSymbol => d.name \notin Ancestors[q])
         /\ \A q \in {p.package} \cup (IF p.package = NoSymbol THEN {} ELSE Ancestors[p.package]) :
              \A h \in Files : \A e \in database.proto[h].declares : e.name # q
         /\ \A i \in DOMAIN p.uses : Declarer(g, Meaning(g, p.uses[i])) # {}
         /\ \A i, j \in DOMAIN p.uses :
              i # j /\ p.uses[i].number # 0 /\ p.uses[i].number = p.uses[j].number
              => Meaning(g, p.uses[i]) # Meaning(g, p.uses[j])

\* A file is refused for a fault of its own or of its imports, never for what
\* was looked up before: known_bad_files_ holds no file that would be built.
\* Unless a search for a symbol drew in a file while imports were pending.
RefusedForAFault ==
    \A r \in refused : r.kind = "file" => strayed \/ ~Faultless(r.name)

\* A comment of CrossLinkField: "No need for error checking: if the extension
\* number collided, we've already been informed of it".
ExtensionsKnown ==
    builders = <<>> =>
      \A f \in Files : Built(f) =>
        \A i \in DOMAIN database.proto[f].uses :
          LET u == database.proto[f].uses[i]
          IN u.number # 0 => extensions_[Meaning(f, u)][u.number] = files_by_name_[f]

\* Whatever imports and names lead to what, a lookup comes to an end.
LookupsEnd == request # NoRequest ~> request = NoRequest
=============================================================================
