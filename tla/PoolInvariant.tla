---------------------------- MODULE PoolInvariant ----------------------------
(* The inductive invariants of DescriptorPool: DInv, of the tables and what  *)
(* a rollback takes from them; MInv, of what names are linked to; FInv, of   *)
(* what is refused.                                                          *)
EXTENDS DescriptorPool

-----------------------------------------------------------------------------
(* The tables.                                                               *)

Builder == [filename_ : Files, by : {"file", "index"}, stage : {"begin", "import", "link"},
            next : Nat \ {0}, scope : Nat \ {0}, rest : BOOLEAN, file_ : Nat,
            dependencies_ : SUBSET Nat, had_errors_ : BOOLEAN, numbers : SUBSET (Symbols \X Number)]
Descriptor == [name : Files, dependencies : Seq(Nat), links : Seq(Nat), exports : SUBSET Nat]
SymbolEntry == [file : Nat, type : {"null", "package", "message", "field"}]
Reach == Symbols \cup UNION {Ancestors[s] : s \in Symbols}
LogEntry == [files : SUBSET Files, symbols : SUBSET Reach, extensions : SUBSET (Symbols \X Number)]
Checkpoint == [pending : Nat, allocations : Nat]
Request == [kind : {"file"}, name : Files] \cup [kind : {"symbol", "extension"}, name : Symbols]

Types ==
    /\ database \in Databases
    /\ descriptors \in Seq(Descriptor) /\ allocations_ \in Seq(Nat)
    /\ files_by_name_ \in [Files -> Nat]
    /\ symbols_by_name_ \in [Symbols -> SymbolEntry]
    /\ extensions_ \in [Symbols -> [Number -> Nat]]
    /\ after_checkpoint_ \in Seq(LogEntry)
    /\ checkpoints_ \in Seq(Checkpoint)
    /\ pending_files_ \in Seq(Files)
    /\ builders \in Seq(Builder)
    /\ request \in Request \cup {NoRequest}

\* The file whose building the kth checkpoint precedes.
Start(k) == allocations_[checkpoints_[k].allocations + 1]

\* Files are allocated in the order of their numbers.
Ascending ==
    /\ \A i \in 1..Len(allocations_) : allocations_[i] \in 1..Len(descriptors)
    /\ \A i, j \in 1..Len(allocations_) : i < j => allocations_[i] < allocations_[j]

Nested ==
    /\ checkpoints_ = <<>> => after_checkpoint_ = <<>>
    /\ checkpoints_ # <<>> => checkpoints_[1].pending = 0
    /\ \A k \in 1..Len(checkpoints_) :
         /\ checkpoints_[k].pending <= Len(after_checkpoint_)
         /\ checkpoints_[k].allocations < Len(allocations_)
    /\ \A j, k \in 1..Len(checkpoints_) : j < k =>
         /\ checkpoints_[j].pending <= checkpoints_[k].pending
         /\ checkpoints_[j].allocations < checkpoints_[k].allocations

\* A builder that links has a checkpoint, and each checkpoint its builder, in
\* the same order.
Stacked ==
    LET Links(i) == builders[i].stage = "link"
    IN /\ \A i \in 1..Len(builders) : Links(i) =>
            \E k \in 1..Len(checkpoints_) : builders[i].file_ = Start(k)
       /\ \A k \in 1..Len(checkpoints_) :
            \E i \in 1..Len(builders) : Links(i) /\ builders[i].file_ = Start(k)
       /\ \A i, j \in 1..Len(builders) :
            i < j /\ Links(i) /\ Links(j) => builders[i].file_ < builders[j].file_

PendingInTurn(bs, files) ==
    \A h, i \in 1..Len(bs) : h < i /\ bs[h].stage = "import" /\ bs[i].stage = "import" =>
      \A j, k \in 1..Len(files) : bs[h].filename_ = files[j] /\ bs[i].filename_ = files[k] => j < k

\* The files pending are those of the builders that import, in their order,
\* each once.
Imported ==
    LET Imports_(i) == builders[i].stage = "import"
    IN /\ \A j \in 1..Len(pending_files_) :
            \E i \in 1..Len(builders) : Imports_(i) /\ builders[i].filename_ = pending_files_[j]
       /\ \A i \in 1..Len(builders) : Imports_(i) =>
            \E j \in 1..Len(pending_files_) : builders[i].filename_ = pending_files_[j]
       /\ PendingInTurn(builders, pending_files_)
       /\ \A j, k \in 1..Len(pending_files_) : pending_files_[j] = pending_files_[k] => j = k

ScopeFits(b) ==
    /\ b.stage # "link" => b.scope = 1 /\ ~b.rest /\ b.numbers = {}
    /\ b.stage = "link" /\ b.next <= Len(ProtoOf(b).uses) => b.scope <= Len(ProtoOf(b).uses[b.next].scopes)

\* A builder's file is not in the tables before it is entered; a name's scope
\* is one of its scopes.
Working ==
    \A i \in 1..Len(builders) :
      LET b == builders[i]
      IN /\ b.stage = "begin" => i = Len(builders)
         /\ b.stage # "link" => files_by_name_[b.filename_] = 0
         /\ ScopeFits(b)

\* What is in the tables is not freed, and what is not freed is in the tables.
Held ==
    /\ \A f \in Files : files_by_name_[f] \in Live \cup {0}
    /\ \A s \in Symbols :
         /\ symbols_by_name_[s].file \in Live \cup {0}
         /\ symbols_by_name_[s].file = 0 => symbols_by_name_[s] = NullSymbol
         /\ \A n \in Number : extensions_[s][n] \in Live \cup {0}
    /\ \A id \in Live : files_by_name_[descriptors[id].name] = id

\* The log of a table: what is logged since a checkpoint is what is of the file
\* it precedes or of a later one; nothing is logged twice.
Tracks(tab, log, n, mark, start, K) ==
    /\ \A k \in 1..K, x \in DOMAIN tab :
         (\E i \in (mark[k] + 1)..n : x \in log[i]) <=> tab[x] >= start[k]
    /\ \A i, j \in 1..n, x \in DOMAIN tab : x \in log[i] /\ x \in log[j] => i = j

Marks == [k \in 1..Len(checkpoints_) |-> checkpoints_[k].pending]
Starts == [k \in 1..Len(checkpoints_) |-> Start(k)]
SymbolFiles == [s \in Symbols |-> symbols_by_name_[s].file]
ExtensionFiles == [x \in Symbols \X Number |-> extensions_[x[1]][x[2]]]
FileLog == [i \in 1..Len(after_checkpoint_) |-> after_checkpoint_[i].files]
SymbolLog == [i \in 1..Len(after_checkpoint_) |-> after_checkpoint_[i].symbols]
ExtensionLog == [i \in 1..Len(after_checkpoint_) |-> after_checkpoint_[i].extensions]

LogOf(tab, log) == Tracks(tab, log, Len(after_checkpoint_), Marks, Starts, Len(checkpoints_))
Logged ==
    /\ LogOf(files_by_name_, FileLog)
    /\ LogOf(SymbolFiles, SymbolLog)
    /\ LogOf(ExtensionFiles, ExtensionLog)

\* A file refers to files that are not rolled back before it is.
Refers(id, ref) == ref \in Live /\ \A k \in 1..Len(checkpoints_) : ref >= Start(k) => id >= Start(k)
References ==
    \A id \in Live :
      /\ \A i \in 1..Len(descriptors[id].dependencies) :
           descriptors[id].dependencies[i] # 0 => Refers(id, descriptors[id].dependencies[i])
      /\ \A i \in 1..Len(descriptors[id].links) : Refers(id, descriptors[id].links[i])

\* What a file imports and declares is there, or its builder knows of an error.
Whole(id) ==
    /\ \A i \in 1..Len(descriptors[id].dependencies) : descriptors[id].dependencies[i] # 0
    /\ \A d \in database.proto[descriptors[id].name].declares :
         symbols_by_name_[d.name] = [file |-> id, type |-> d.type]
Wholes ==
    \A id \in Live :
      \/ Whole(id)
      \/ \E i \in 1..Len(builders) :
           builders[i].stage = "link" /\ builders[i].file_ = id /\ builders[i].had_errors_

\* What was handed out is under no checkpoint.
HandedOut == \A id \in handed : id \in Live /\ \A k \in 1..Len(checkpoints_) : id < Start(k)

DInv == /\ Types /\ Ascending /\ Nested /\ Stacked /\ Imported /\ Working /\ Held /\ Logged
        /\ References /\ Wholes /\ HandedOut

-----------------------------------------------------------------------------
(* What names are linked to.                                                 *)

LinkBuilder(i) == builders[i].stage = "link"

\* No builder has noticed an error in the file or in one it imports, so far.
\* (Files with a greater number are not rolled back together with less.)
Clean(id) ==
    \A i \in 1..Len(builders) :
      /\ LinkBuilder(i) /\ builders[i].had_errors_
      /\ builders[i].filename_ \in Closure(descriptors[id].name)
      => builders[i].file_ > id

\* A package and those around it.
Chain(p) == IF p = NoSymbol THEN {} ELSE {p} \cup Ancestors[p]
Package(f) == Chain(database.proto[f].package)

\* There when id is rolled back, if they were before.
FileBy(id, f) == files_by_name_[f] # 0 /\ files_by_name_[f] <= id
EntryBy(id, s, types) == symbols_by_name_[s].type \in types /\ symbols_by_name_[s].file <= id

Named ==
    /\ \A f \in Files : files_by_name_[f] # 0 => descriptors[files_by_name_[f]].name = f
    /\ \A i \in 1..Len(builders) : LinkBuilder(i) => descriptors[builders[i].file_].name = builders[i].filename_

\* What is in the table of symbols is in a file.
Provenance ==
    \A s \in Symbols :
      LET e == symbols_by_name_[s]  f == descriptors[e.file].name
      IN e.file # 0 => /\ e.type # "null"
                       /\ e.type = "package" => s \in Package(f)
                       /\ e.type # "package" => [name |-> s, type |-> e.type] \in database.proto[f].declares

\* Around a package there are packages, or it was an error to enter it.
Around ==
    \A s \in Symbols :
      LET e == symbols_by_name_[s]
      IN e.type = "package" => \/ \A a \in Ancestors[s] : EntryBy(e.file, a, {"package"})
                               \/ \E a \in Ancestors[s] : EntryBy(e.file, a, {"message", "field"})

\* What a file imports, gives access to and is in.
Entered(id) ==
    LET f == descriptors[id].name  p == database.proto[f]  d == descriptors[id].dependencies
    IN /\ Len(d) = Len(p.dependency)
       /\ \A i \in 1..Len(d) : d[i] = files_by_name_[p.dependency[i]] /\ d[i] # 0 /\ d[i] < id
       /\ \A g \in Reached({f}, PublicOf) : FileBy(id, g)
       /\ descriptors[id].exports = {files_by_name_[g] : g \in Reached({f}, PublicOf)}
       /\ \A q \in Package(f) : EntryBy(id, q, {"package"})

\* Of a use that was linked.
Right(id, j) ==
    LET f == descriptors[id].name  s == Meaning(f, database.proto[f].uses[j])
    IN /\ s \in Symbols /\ EntryBy(id, s, {"message"}) /\ descriptors[id].links[j] = symbols_by_name_[s].file
       /\ Declarer(f, s) # {}
Linked(id) ==
    LET links == descriptors[id].links  uses == database.proto[descriptors[id].name].uses
    IN /\ Len(links) <= Len(uses)
       /\ \A j \in 1..Len(links) : Right(id, j)
       /\ \/ Len(links) = Len(uses)
          \/ \E i \in 1..Len(builders) : LinkBuilder(i) /\ builders[i].file_ = id

\* How far the linking of a file is: the scopes before this one do not decide,
\* and if its first component was found, it does.
ScopesTried(b) ==
    LET f == b.filename_  uses == database.proto[f].uses  u == uses[b.next]
    IN b.next <= Len(uses) =>
         /\ \A j \in 1..(b.scope - 1) : ~Decides(f, u, j)
         /\ b.rest => /\ b.scope < Len(u.scopes) /\ Decides(f, u, b.scope)
                      /\ u.scopes[b.scope].first # u.scopes[b.scope].full
NumbersTaken(b) ==
    LET f == b.filename_  uses == database.proto[f].uses
    IN \A key \in b.numbers : \E k \in 1..(b.next - 1) :
         uses[k].number # 0 /\ key = <<Meaning(f, uses[k]), uses[k].number>>

\* What a builder waits for is sought in the database because its file, with
\* what that imports, says nothing of it.
SoughtBy(b) ==
    LET u == database.proto[b.filename_].uses[b.next]  s == u.scopes[b.scope]
    IN IF b.rest \/ b.scope = Len(u.scopes) THEN s.full ELSE s.first
Waits(b) ==
    b.next <= Len(database.proto[b.filename_].uses) /\ Declared(b.filename_, SoughtBy(b)) = {}

Underway(b, linked, waiting) ==
    /\ \A g \in Within(b.filename_) : FileBy(b.file_, g)
    /\ b.dependencies_ \cup {b.file_} = {files_by_name_[g] : g \in Within(b.filename_)}
    /\ linked = b.next - 1
    /\ ScopesTried(b) /\ NumbersTaken(b)
    /\ waiting => Waits(b)

MInv ==
    /\ Named /\ Provenance /\ Around
    /\ \A id \in Live : Clean(id) => Entered(id) /\ Linked(id)
    /\ \A i \in 1..Len(builders) :
         LET b == builders[i]
         IN LinkBuilder(i) /\ Clean(b.file_) =>
              Underway(b, Len(descriptors[b.file_].links), i < Len(builders) \/ fallback # "unasked")

-----------------------------------------------------------------------------
(* What is refused.                                                          *)

ImportBuilder(i) == builders[i].stage = "import"

\* What is built above a file that imports is an import, or one's import.
Descending ==
    \A h, i \in 1..Len(builders) : h < i /\ ImportBuilder(h) =>
      \E g \in Imports(builders[h].filename_) : builders[i].filename_ \in Closure(g)

\* What a file without a fault imports is there, but for what is being built.
ImportThere(i, j, f) ==
    /\ f \in Imports(builders[i].filename_)
    /\ \/ files_by_name_[f] # 0
       \/ i < Len(builders) /\ j = builders[i].next - 1 /\ builders[i + 1].filename_ = f
Importing ==
    \A i \in 1..Len(builders) : builders[i].stage # "link" /\ Faultless(builders[i].filename_) =>
      \A j \in 1..(builders[i].next - 1) : ImportThere(i, j, ProtoOf(builders[i]).dependency[j])

\* The file that was asked for is the one that is built for it.
Requested ==
    request # NoRequest /\ request.kind = "file" =>
      /\ builders # <<>> => builders[1].filename_ = request.name
      /\ builders = <<>> /\ Faultless(request.name) =>
           \/ fallback = "unasked"
           \/ fallback = "built" /\ Built(request.name)

\* What has failed, is known to fail or was refused has a fault.
Judged ==
    /\ \A i \in 1..Len(builders) : Faultless(builders[i].filename_) => ~builders[i].had_errors_
    /\ \A f \in known_bad_files_ : ~Faultless(f)
    /\ \A r \in refused : r.kind = "file" => ~Faultless(r.name)

Explained == Descending /\ Importing /\ Requested /\ Judged
FInv == strayed \/ Explained
=============================================================================
