------------------------------- MODULE Protoc -------------------------------
(* CommandLineInterface::Run with --*_out directives: generators, built in   *)
(* or plugins, write to files in memory and insert into the files of others; *)
(* then all is put on the disk.  A file is a sequence of lines, a line its   *)
(* indentation and the insertion point it bears; it is identified by the     *)
(* stream it was written to and its place there.  Texts end with a newline.  *)
EXTENDS Integers, Sequences, FiniteSets

CONSTANTS
    Directives,   \* the --*_out in order: [location, plugin]
    FileNames,    \* the names of files, in the order of map<string, string*>
    Texts,        \* what generators write: sequences of [indent, point]
    Points, NoPoint, NoName,
    Manifest,     \* the name META-INF/MANIFEST.MF
    Archives, Jars, \* locations that end in .jar or .zip, those in .jar; others are directories
    MaxStreams, MaxText  \* bounds: streams opened, lines in one

Locations == {Directives[i].location : i \in DOMAIN Directives}
Names == {FileNames[i] : i \in DOMAIN FileNames}
Text == Seq([indent : Nat, point : Points \cup {NoPoint}])

ASSUME ProtocAssumption ==
    /\ NoName \notin Names /\ Manifest \in Names /\ Jars \subseteq Archives /\ Archives \subseteq Locations
    /\ NoPoint \notin Points /\ Texts \subseteq Text \ {<<>>}
    /\ Directives \in Seq([location : Locations, plugin : BOOLEAN]) /\ FileNames \in Seq(Names)

VARIABLES
    phase,      \* what Run is at
    directive,  \* the output directive whose generator runs
    streams,    \* the MemoryOutputStreams made so far
    closed,     \* history: those destroyed, in that order
    current_output, \* of GeneratePluginOutput; 0 is NULL
    files_, had_error_, \* of the GeneratorContextImpl of each location
    pending,    \* locations that are still to be written
    disk,       \* per location and name: what the run made of the file
    descriptor_set, \* the same for --descriptor_set_out
    status,     \* what Run returns; -1 while it runs
    failed,     \* history: a generator has reported an error
    zipBroke    \* history: an archive could not be written
generating == <<directive, streams, closed, current_output, files_, had_error_, failed>>
writing == <<pending, disk, descriptor_set, zipBroke>>
vars == <<phase, generating, writing, status>>

Absent == [slot |-> "absent", lines |-> <<>>]
Null == [slot |-> "null", lines |-> <<>>]
File(lines) == [slot |-> "file", lines |-> lines]

Init ==
    /\ phase = "import" /\ directive = 1
    /\ streams = <<>> /\ closed = <<>> /\ current_output = 0
    /\ files_ = [l \in Locations |-> [n \in Names \cup {NoName} |-> Absent]]
    /\ had_error_ = [l \in Locations |-> FALSE]
    /\ pending = Locations
    /\ disk = [l \in Locations |-> [n \in Names |-> "old"]]
    /\ descriptor_set = "old" /\ status = -1
    /\ failed = FALSE /\ zipBroke = FALSE

Exit(code) == phase' = "exit" /\ status' = code

\* Every input is parsed before anything is generated.
Import ==
    /\ phase = "import"
    /\ \/ phase' = "generate" /\ UNCHANGED status
       \/ Exit(1)
    /\ UNCHANGED <<generating, writing>>

-----------------------------------------------------------------------------
(* MemoryOutputStream.                                                       *)

Lines(k, text, indent) ==
    [i \in DOMAIN text |-> [of |-> k, at |-> i, indent |-> indent + text[i].indent,
                            point |-> text[i].point]]

FirstAt(lines, p) ==
    CHOOSE i \in DOMAIN lines : lines[i].point = p /\ \A j \in 1..(i - 1) : lines[j].point # p

\* Mutant: below the line that bears the point.
PlaceBelow(lines, p) == FirstAt(lines, p) + 1

\* Where to insert: at the beginning of the line that bears the point.
Place(lines, p) == FirstAt(lines, p)

Inserted(lines, k, s) ==
    LET at == Place(lines, s.point)
    IN SubSeq(lines, 1, at - 1) \o Lines(k, s.text, lines[FirstAt(lines, s.point)].indent)
       \o SubSeq(lines, at, Len(lines))

\* The file exists already, or the file or point to insert at does not.
Spoilt(slot, s) ==
    IF s.point = NoPoint THEN slot.slot = "file"
    ELSE slot.slot # "file" \/ \A i \in DOMAIN slot.lines : slot.lines[i].point # s.point

\* ~MemoryOutputStream of stream k, which is s; looking the file up in files_
\* makes a slot for it.
Destroy(k, s) ==
    LET slot == files_[s.dir][s.name]
    IN /\ had_error_' = [had_error_ EXCEPT ![s.dir] = @ \/ Spoilt(slot, s)]
       /\ files_' = [files_ EXCEPT ![s.dir][s.name] =
                       IF Spoilt(slot, s) THEN IF slot.slot = "file" THEN slot ELSE Null
                       ELSE File(IF s.point = NoPoint THEN Lines(k, s.text, 0)
                                 ELSE Inserted(slot.lines, k, s))]
       /\ closed' = Append(closed, k)

Now == Directives[directive]
Running(plugin) == phase = "generate" /\ directive <= Len(Directives) /\ Now.plugin = plugin

NewStream(name, point, text) ==
    [dir |-> Now.location, name |-> name, point |-> point, text |-> text, open |-> TRUE]

\* Mutant: an error is noted, and the next generator has its turn.
ReturnsAnyway(ok) ==
    directive' = directive + 1 /\ failed' = (failed \/ ~ok) /\ UNCHANGED <<phase, status>>

\* Generate() returned; the first error ends the run.
Returns(ok) ==
    IF ok THEN directive' = directive + 1 /\ UNCHANGED <<phase, status, failed>>
    ELSE failed' = TRUE /\ Exit(1) /\ UNCHANGED directive

-----------------------------------------------------------------------------
(* A generator that is built in has as many streams open as it likes, and    *)
(* destroys them in any order before it returns.                             *)

Open ==
    /\ Running(FALSE) /\ Len(streams) < MaxStreams
    /\ \E n \in Names, p \in Points \cup {NoPoint}, t \in Texts :
         streams' = Append(streams, NewStream(n, p, t))
    /\ UNCHANGED <<phase, directive, closed, current_output, files_, had_error_, failed, writing, status>>

CloseStream ==
    /\ Running(FALSE)
    /\ \E k \in DOMAIN streams :
         /\ streams[k].open
         /\ streams' = [streams EXCEPT ![k].open = FALSE]
         /\ Destroy(k, streams[k])
    /\ UNCHANGED <<phase, directive, current_output, failed, writing, status>>

GeneratorReturns ==
    /\ Running(FALSE)
    /\ \A k \in DOMAIN streams : ~streams[k].open
    /\ \E ok \in BOOLEAN : Returns(ok)
    /\ UNCHANGED <<streams, closed, current_output, files_, had_error_, writing>>

-----------------------------------------------------------------------------
(* A plugin's response is worked through chunk by chunk.                     *)

\* current_output.reset(), leaving the other streams to be as in ss.
ResetCurrent(ss) ==
    IF current_output = 0
    THEN streams' = ss /\ UNCHANGED <<closed, files_, had_error_>>
    ELSE /\ streams' = [ss EXCEPT ![current_output].open = FALSE]
         /\ Destroy(current_output, streams[current_output])

\* The chunk names a file, or a point to insert at, even one without a name.
ChunkOpens ==
    /\ Running(TRUE) /\ Len(streams) < MaxStreams
    /\ \E n \in Names \cup {NoName}, p \in Points \cup {NoPoint}, t \in Texts :
         /\ n # NoName \/ p # NoPoint
         /\ ResetCurrent(Append(streams, NewStream(n, p, t)))
    /\ current_output' = Len(streams) + 1
    /\ UNCHANGED <<phase, directive, failed, writing, status>>

\* A chunk without a name goes on with the file of the one before it.
ChunkGoesOn ==
    /\ Running(TRUE) /\ current_output # 0
    /\ Len(streams[current_output].text) < MaxText
    /\ \E t \in Texts : streams' = [streams EXCEPT ![current_output].text = @ \o t]
    /\ UNCHANGED <<phase, directive, closed, current_output, files_, had_error_, failed, writing, status>>

\* Out of chunks, with or without an error in the response; or Communicate
\* failed, or the first chunk has no name.  scoped_ptr destroys the last stream.
PluginReturns ==
    /\ Running(TRUE)
    /\ ResetCurrent(streams) /\ current_output' = 0
    /\ \E ok \in BOOLEAN : Returns(ok)
    /\ UNCHANGED writing

-----------------------------------------------------------------------------
(* Output, location by location in the order of a hash_map.                  *)

StartWriting ==
    /\ phase = "generate" /\ directive > Len(Directives)
    /\ phase' = "write"
    /\ UNCHANGED <<generating, writing, status>>

\* The file called n of l is among files_ of l.
Present(l, n) == files_[l][n].slot # "absent"

\* The files of l before the k-th name are written, and the k-th is as said.
Written(l, k, what) ==
    [n \in Names |->
       IF ~Present(l, n) THEN disk[l][n]
       ELSE IF \E i \in 1..(k - 1) : FileNames[i] = n THEN "whole"
       ELSE IF FileNames[k] = n THEN what ELSE disk[l][n]]

\* WriteAllToDisk: a mkdir, open, write or close that fails ends the run, and
\* so does a location that is not there, before its first file.
WriteAllToDisk(l) ==
    /\ phase = "write" /\ l \in pending \ Archives
    /\ \/ Exit(1) /\ UNCHANGED <<pending, disk>>
       \/ /\ ~had_error_[l]
          /\ disk' = [disk EXCEPT ![l] = [n \in Names |-> IF Present(l, n) THEN "whole" ELSE @[n]]]
          /\ pending' = pending \ {l}
          /\ UNCHANGED <<phase, status>>
       \/ /\ ~had_error_[l]
          /\ \E k \in DOMAIN FileNames, what \in {"old", "partial"} :
               /\ Present(l, FileNames[k])
               /\ disk' = [disk EXCEPT ![l] = Written(l, k, what)]
          /\ Exit(1) /\ UNCHANGED pending
    /\ UNCHANGED <<generating, descriptor_set, zipBroke>>

\* Mutant: a manifest that a generator has written is replaced.
WithManifestAlways(files) == [files EXCEPT ![Manifest] = File(<<>>)]

\* AddJarManifest, unless there is one.
WithManifest(files) ==
    IF files[Manifest].slot = "file" THEN files ELSE [files EXCEPT ![Manifest] = File(<<>>)]

\* WriteAllToZip: writes that fail are reported on stderr only.
WriteAllToZip(l) ==
    /\ phase = "write" /\ l \in pending \cap Archives
    /\ files_' = IF l \in Jars THEN [files_ EXCEPT ![l] = WithManifest(@)] ELSE files_
    /\ \/ Exit(1) /\ UNCHANGED <<pending, disk, zipBroke>>   \* had_error_, or open() failed
       \/ /\ ~had_error_[l]
          /\ \E whole \in BOOLEAN :
               /\ disk' = [disk EXCEPT ![l] =
                             [n \in Names |-> IF files_'[l][n].slot = "absent" THEN @[n]
                                              ELSE IF whole THEN "whole" ELSE "partial"]]
               /\ zipBroke' = (zipBroke \/ ~whole)
          /\ pending' = pending \ {l}
          /\ UNCHANGED <<phase, status>>
    /\ UNCHANGED <<directive, streams, closed, current_output, had_error_, failed, descriptor_set>>

\* --descriptor_set_out, if it was given.
WriteDescriptorSet ==
    /\ phase = "write" /\ pending = {}
    /\ \/ Exit(0) /\ descriptor_set' \in {"old", "whole"}
       \/ Exit(1) /\ descriptor_set' \in {"old", "partial"}
    /\ UNCHANGED <<generating, pending, disk, zipBroke>>

Next ==
    \/ Import
    \/ Open \/ CloseStream \/ GeneratorReturns
    \/ ChunkOpens \/ ChunkGoesOn \/ PluginReturns
    \/ StartWriting
    \/ \E l \in Locations : WriteAllToDisk(l) \/ WriteAllToZip(l)
    \/ WriteDescriptorSet

Spec == Init /\ [][Next]_vars

-----------------------------------------------------------------------------

\* A run one of whose generators failed leaves the disk as it was, whatever the
\* others had generated; a location into which something could not be written
\* or inserted is left alone; no name without contents is written, such as a failed
\* insertion leaves in files_; the descriptor set is written when all else is.
FailureTouchesNothing ==
    /\ failed => disk = [l \in Locations |-> [n \in Names |-> "old"]] /\ descriptor_set = "old"
    /\ \A l \in Locations :
         had_error_[l] => status # 0 /\ \A n \in Names : disk[l][n] = "old"
    /\ \A l \in Locations, n \in Names : disk[l][n] # "old" => files_[l][n].slot = "file"
    /\ descriptor_set # "old" => pending = {}

\* Run returns 0 only if every line of every stream of every generator is in
\* its file, once, and that file is written, unless an archive broke.
SuccessIsWritten ==
    status = 0 =>
      \A k \in DOMAIN streams :
        LET s == streams[k]
            lines == files_[s.dir][s.name].lines
        IN /\ \A i \in DOMAIN s.text :
                Cardinality({j \in DOMAIN lines : lines[j].of = k /\ lines[j].at = i}) = 1
           /\ disk[s.dir][s.name] = "whole" \/ zipBroke

\* plugin.proto: what is inserted is placed "immediately above the line
\* containing the insertion point (thus multiple insertions to the same point
\* will come out in the order they were added)", indented like that line; what
\* was there stays in its order.  (A point on more than one line is not told.)
InsertedInPlace ==
    \A l \in Locations, n \in Names :
      LET lines == files_[l][n].lines
          PointOf(i) == streams[lines[i].of].point
          Once(p) == Cardinality({i \in DOMAIN lines : lines[i].point = p}) = 1
          Before(k, m) == \E i, j \in DOMAIN closed : i < j /\ closed[i] = k /\ closed[j] = m
      IN /\ \A i, j \in DOMAIN lines : i < j =>
              /\ lines[i].of = lines[j].of => lines[i].at < lines[j].at
              /\ (/\ lines[i].of # lines[j].of
                  /\ PointOf(i) = PointOf(j) /\ PointOf(i) # NoPoint /\ Once(PointOf(i)))
                 => Before(lines[i].of, lines[j].of)
         /\ \A i \in DOMAIN lines : PointOf(i) # NoPoint /\ Once(PointOf(i)) =>
              \E j \in (i + 1)..Len(lines) :
                /\ lines[j].point = PointOf(i)
                /\ lines[i].indent =
                     lines[j].indent + streams[lines[i].of].text[lines[i].at].indent
=============================================================================
